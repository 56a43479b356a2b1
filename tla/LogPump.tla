--------------------------------- MODULE LogPump ---------------------------------
(***************************************************************************)
(* The other half of the handler's select loop (main.c): what tincd writes *)
(* to its standard error is copied to the log, line by line.               *)
(*                                                                         *)
(* A character passes through three buffers: the pipe of daemon_start, the *)
(* buffer of the stdio stream di_stderr, and stderr_buffer, which collects *)
(* a line.  select() sees only the first of them.  The call                *)
(* fcntl(fd, O_NONBLOCK) of daemon_start lacks its command, so the pipe    *)
(* stays blocking and fgets() waits for the end of a line.  sigchild may   *)
(* interrupt the loop anywhere and replaces pipe and stream by new ones.   *)
(* The new pipe gets the lowest free descriptor, which is the one just     *)
(* closed: an fgets() that was interrupted goes on reading from the new    *)
(* pipe, into the buffer of the old stream.                                *)
(***************************************************************************)
EXTENDS Integers, Sequences, SequencesExt

CONSTANTS
    BufSize,      \* sizeof(stderr_buffer)
    StdioSize,    \* size of the buffer of di_stderr
    PipeSize,     \* capacity of the pipe
    MaxLine,      \* longest line tincd writes, without its newline
    MaxLines,     \* bound: lines one tincd begins
    MaxCrashes,   \* bound: times tincd terminates of its own accord
    MaxRestarts   \* bound: RESTART commands

ASSUME LogPumpAssumption ==
    /\ BufSize \in Nat /\ BufSize >= 3
    /\ StdioSize \in Nat \ {0} /\ PipeSize \in Nat \ {0} /\ MaxLine \in Nat \ {0}
    /\ MaxLines \in Nat /\ MaxCrashes \in Nat /\ MaxRestarts \in Nat

MaxTincds == 1 + MaxCrashes + MaxRestarts
Line      == BufSize - 2      \* fgets leaves room for two NULs: len <= size - 2

\* What tincd number `by` writes: its n-th character, newline or not.
Chars == [by : 1..MaxTincds, n : Nat, nl : BOOLEAN]

VARIABLES
    \* --- tincd
    tincd,     \* "running", or "dead" with its SIGCHLD not yet delivered
    gen,       \* how many tincd were started
    said,      \* what the current one has written
    crashes,
    \* --- the ways of its output
    pipe,      \* in the pipe; its write end is open while tincd runs
    stdio,     \* in the buffer of di_stderr
    orphan,    \* in the buffer of a stream that sigchild replaced during fgets
    buf,       \* stderr_buffer
    log,       \* what was logged, with the newlines that end the lines
    \* --- the select loop
    pc,        \* "select", "command", "stopping", "stderr", "fgets"
    fdset,     \* what select() reported: subset of {"command", "stderr"}
    stale,     \* does fgets work on a replaced stream?
    victim,    \* number of the tincd that daemon_stop works on
    sent, done \* RESTART commands written to and read from the command pipe

tincdVars == <<tincd, gen, said, crashes>>
loopVars  == <<fdset, victim, sent, done>>
vars == <<tincd, gen, said, crashes, pipe, stdio, orphan, buf, log, pc, fdset, stale,
          victim, sent, done>>

TypeOK ==
    /\ tincd \in {"running", "dead"} /\ gen \in 1..MaxTincds
    /\ crashes \in 0..MaxCrashes
    /\ {said, log} \subseteq Seq(Chars)
    /\ pipe \in Seq(Chars) /\ Len(pipe) <= PipeSize
    /\ {stdio, orphan} \subseteq Seq(Chars) /\ Len(stdio) <= StdioSize
    /\ buf \in Seq(Chars) /\ Len(buf) <= Line
    /\ pc \in {"select", "command", "stopping", "stderr", "fgets"}
    /\ fdset \subseteq {"command", "stderr"} /\ stale \in BOOLEAN
    /\ victim \in 0..MaxTincds
    /\ sent \in 0..MaxRestarts /\ done \in 0..sent

\* The state after the first START.
Init ==
    /\ tincd = "running" /\ gen = 1 /\ said = <<>> /\ crashes = 0
    /\ pipe = <<>> /\ stdio = <<>> /\ orphan = <<>> /\ buf = <<>> /\ log = <<>>
    /\ pc = "select" /\ fdset = {} /\ stale = FALSE /\ victim = 0
    /\ sent = 0 /\ done = 0

-----------------------------------------------------------------------------
(* tincd, an external program: a message and its newline are two writes,     *)
(* each of them whole.  A full pipe makes it wait.                           *)

Unfinished == said # <<>> /\ ~Last(said).nl
Begun      == Cardinality({i \in DOMAIN said : said[i].nl}) + (IF Unfinished THEN 1 ELSE 0)

Write(text) ==
    /\ tincd = "running" /\ Len(pipe) + Len(text) <= PipeSize
    /\ pipe' = pipe \o text /\ said' = said \o text
    /\ UNCHANGED <<tincd, gen, crashes, stdio, orphan, buf, log, pc, stale, loopVars>>

Numbered(k, nl) == [i \in 1..k |-> [by |-> gen, n |-> Len(said) + i, nl |-> nl]]

TincdWrites ==
    /\ ~Unfinished /\ Begun < MaxLines
    /\ \E k \in 1..MaxLine : Write(Numbered(k, FALSE))

TincdEndsLine == Unfinished /\ Write(Numbered(1, TRUE))

\* It crashes, or obeys the SIGTERM of daemon_stop.
TincdDies ==
    /\ tincd = "running" /\ tincd' = "dead"
    /\ \/ pc = "stopping" /\ victim = gen /\ UNCHANGED crashes
       \/ crashes < MaxCrashes /\ crashes' = crashes + 1
    /\ UNCHANGED <<gen, said, pipe, stdio, orphan, buf, log, pc, stale, loopVars>>

-----------------------------------------------------------------------------
(* sigchild, wherever the loop stands: daemon_start closes the read end and  *)
(* opens a new pipe and a new stream; the old stream is not closed.          *)

sigchild ==
    /\ tincd = "dead"
    /\ tincd' = "running" /\ gen' = gen + 1 /\ said' = <<>>
    /\ pipe' = <<>> /\ stdio' = <<>>
    /\ stale' = (stale \/ pc = "fgets")
    /\ orphan' = IF pc = "fgets" /\ ~stale THEN stdio ELSE orphan
    /\ UNCHANGED <<crashes, buf, log, pc, loopVars>>

-----------------------------------------------------------------------------
(* The select loop.                                                          *)

SendRestart ==
    /\ sent < MaxRestarts /\ sent' = sent + 1
    /\ UNCHANGED <<tincdVars, pipe, stdio, orphan, buf, log, pc, stale, fdset, victim, done>>

\* A pipe without a writer is readable: read() would return 0.
Readable ==
    (IF done < sent THEN {"command"} ELSE {})
    \cup (IF pipe # <<>> \/ tincd = "dead" THEN {"stderr"} ELSE {})

\* Interrupted by sigchild, select() fails and is called again.
Select ==
    /\ pc = "select" /\ Readable # {}
    /\ fdset' = Readable /\ pc' = "command"
    /\ UNCHANGED <<tincdVars, pipe, stdio, orphan, buf, log, stale, victim, sent, done>>

\* A RESTART is read and daemon_stop sends SIGTERM, or there is no command.
Command ==
    /\ pc = "command"
    /\ IF "command" \in fdset THEN pc' = "stopping" /\ done' = done + 1 /\ victim' = gen
                              ELSE pc' = "stderr" /\ UNCHANGED <<done, victim>>
    /\ UNCHANGED <<tincdVars, pipe, stdio, orphan, buf, log, stale, fdset, sent>>

\* After its sleep daemon_stop kills the tincd it had sent SIGTERM to.
StopKill ==
    /\ pc = "stopping" /\ pc' = "stderr"
    /\ tincd' = IF victim = gen THEN "dead" ELSE tincd
    /\ UNCHANGED <<gen, said, crashes, pipe, stdio, orphan, buf, log, stale, loopVars>>

\* What select() said of the descriptor may be about a pipe that is gone.
CheckStderr ==
    /\ pc = "stderr"
    /\ pc' = IF "stderr" \in fdset THEN "fgets" ELSE "select"
    /\ stale' = FALSE
    /\ UNCHANGED <<tincdVars, pipe, stdio, orphan, buf, log, loopVars>>

-----------------------------------------------------------------------------
(* fgets(stderr_buffer + len, sizeof(stderr_buffer) - len - 1, di_stderr)    *)
(* and what follows it.                                                      *)

Stream == IF stale THEN orphan ELSE stdio

SetStream(s) ==
    IF stale THEN orphan' = s /\ UNCHANGED stdio ELSE stdio' = s /\ UNCHANGED orphan

\* Back to select() with nothing logged: no room, or the end of the file, where
\* what was read so far stays in stderr_buffer.
NoLine ==
    /\ pc = "fgets" /\ pc' = "select"
    /\ Len(buf) >= Line \/ (Stream = <<>> /\ pipe = <<>> /\ tincd = "dead")
    /\ UNCHANGED <<tincdVars, pipe, stdio, orphan, buf, log, stale, loopVars>>

\* read() into the empty buffer of the stream; blocks while the pipe is empty.
Refill ==
    /\ pc = "fgets" /\ Len(buf) < Line /\ Stream = <<>> /\ pipe # <<>>
    /\ LET k == Min({Len(pipe), StdioSize})
       IN  SetStream(SubSeq(pipe, 1, k)) /\ pipe' = SubSeq(pipe, k + 1, Len(pipe))
    /\ UNCHANGED <<tincdVars, buf, log, pc, stale, loopVars>>

\* How many characters are copied: up to a newline, as far as there is room.
Taken ==
    LET ends == {i \in DOMAIN Stream : Stream[i].nl}
    IN  Min({Len(Stream), Line - Len(buf)} \cup ends)

\* Characters move to stderr_buffer; a whole line is logged and removed from it.
Take(line, rest) ==
    /\ pc = "fgets" /\ Len(buf) < Line /\ Stream # <<>>
    /\ SetStream(SubSeq(Stream, Taken + 1, Len(Stream)))
    /\ IF Last(line).nl
         THEN log' = log \o line /\ buf' = rest /\ pc' = "select"
         ELSE buf' = line /\ UNCHANGED <<log, pc>>
    /\ UNCHANGED <<tincdVars, pipe, stale, loopVars>>

\* Mutants: the leftovers are overwritten; the line is not removed; fgets is
\* called until there is nothing to read.
Copy_NoOffset == Take(SubSeq(Stream, 1, Taken), <<>>)
Copy_Keeps == LET line == buf \o SubSeq(Stream, 1, Taken) IN Take(line, Front(line))
Copy_Loop ==
    /\ pc = "fgets" /\ Len(buf) < Line /\ Stream # <<>>
    /\ SetStream(SubSeq(Stream, Taken + 1, Len(Stream)))
    /\ LET line == buf \o SubSeq(Stream, 1, Taken)
       IN  IF Last(line).nl THEN log' = log \o line /\ buf' = <<>> ELSE buf' = line /\ log' = log
    /\ UNCHANGED <<tincdVars, pipe, pc, stale, loopVars>>

Copy == Take(buf \o SubSeq(Stream, 1, Taken), <<>>)

-----------------------------------------------------------------------------
Loop == Select \/ Command \/ StopKill \/ CheckStderr \/ NoLine \/ Refill \/ Copy

Next == TincdWrites \/ TincdEndsLine \/ TincdDies \/ sigchild \/ SendRestart \/ Loop

Spec == Init /\ [][Next]_vars

\* The handler is scheduled and signals are delivered; tincd ends the lines it
\* begins and writes something when it starts.
Fairness ==
    /\ WF_vars(Loop) /\ WF_vars(sigchild)
    /\ WF_vars(TincdEndsLine) /\ WF_vars(said = <<>> /\ TincdWrites)

FairSpec == Spec /\ Fairness

-----------------------------------------------------------------------------
(* Properties.                                                               *)

\* Until the first tincd is replaced, every character it wrote is logged or on
\* its way, once and in order, and the log consists of its lines.
NothingLost == gen = 1 => log \o buf \o stdio \o pipe = said

\* Whatever is lost when tincd is replaced, nothing is logged twice, and nothing
\* after something that was written later.
LogInOrder ==
    \A i, j \in DOMAIN log : i < j =>
        \/ log[i].by < log[j].by
        \/ log[i].by = log[j].by /\ log[i].n < log[j].n

\* As long as the unfinished lines of all tincd that died fit into stderr_buffer
\* together with one more line, tincd does not wait for ever to write.
PipeDrains == (Len(pipe) + MaxLine > PipeSize) ~> (Len(pipe) + MaxLine <= PipeSize)

\* A command is read although the loop may be waiting for the end of a line, as
\* long as tincd ends its lines.
CommandsAreRead == \A k \in 1..MaxRestarts : (sent >= k) ~> (done >= k)

=============================================================================
