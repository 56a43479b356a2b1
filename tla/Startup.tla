--------------------------------- MODULE Startup ---------------------------------
(***************************************************************************)
(* The start of chaosvpn, of several at the same time: daemonize, the      *)
(* pidfile with its lock file (pidfile.c), and the fork of the tincd       *)
(* handler with the handshake over a pipe (fire_up_tincd_handler) up to    *)
(* the point where the parent takes up its work and the handler waits for  *)
(* commands.                                                               *)
(*                                                                         *)
(* All are started with the same option -p.  A process may be killed at    *)
(* any time, and every system call that the code checks may fail.          *)
(***************************************************************************)
EXTENDS Integers

CONSTANTS
    Starter,      \* starts of chaosvpn
    MaxKills,     \* bound: processes that are killed
    MaxFails      \* bound: system calls that fail

None  == "none"     \* no such file
Left  == "left"     \* a lock file whose creator is gone, or could not remove it
Empty == "empty"    \* a pidfile without a pid

ASSUME StartupAssumption ==
    /\ Starter \cap {None, Left, Empty} = {}
    /\ MaxKills \in Nat /\ MaxFails \in Nat

VARIABLES
    lock,      \* the .lck file: None, the starter that has created it, or Left
    pidfile,   \* None, Empty, or the starter whose pid it holds
    pc,        \* of the parent
    hpc,       \* of the handler
    ready,     \* holders of the write end of pipefds, over which the handler reports
    command,   \* holders of the write end of pipe2fds, which takes the commands
    byte,      \* is the byte of the handshake in pipefds?
    chld,      \* is a SIGCHLD pending for the parent?
    kills, fails

fileVars == <<lock, pidfile>>
pipeVars == <<ready, command, byte>>
vars == <<lock, pidfile, pc, hpc, ready, command, byte, chld, kills, fails>>

Locking == {"locked", "opened", "written", "failing"}
Firing  == {"fire", "forked", "closed", "waiting", "ready", "fetched", "serving"}
Ends    == {"parent", "handler"}

TypeOK ==
    /\ lock \in Starter \cup {None, Left} /\ pidfile \in Starter \cup {None, Empty}
    /\ pc \in [Starter -> {"launched", "pidfile", "gone"} \cup Locking \cup Firing]
    /\ hpc \in [Starter -> {"none", "forked", "init", "ready", "loop", "gone"}]
    /\ ready \in [Starter -> SUBSET Ends] /\ command \in [Starter -> SUBSET Ends]
    /\ byte \in [Starter -> BOOLEAN] /\ chld \in [Starter -> BOOLEAN]
    /\ kills \in 0..MaxKills /\ fails \in 0..MaxFails

\* An earlier chaosvpn may have left a pidfile, which names no starter; nobody
\* removes it.
Init ==
    /\ lock = None /\ pidfile \in {None, Empty}
    /\ pc = [s \in Starter |-> "launched"] /\ hpc = [s \in Starter |-> "none"]
    /\ ready = [s \in Starter |-> {}] /\ command = [s \in Starter |-> {}]
    /\ byte = [s \in Starter |-> FALSE] /\ chld = [s \in Starter |-> FALSE]
    /\ kills = 0 /\ fails = 0

\* The ends of pipes that a process has are closed when it ends.
HandlerEnds(s) ==
    /\ hpc' = [hpc EXCEPT ![s] = "gone"]
    /\ ready' = [ready EXCEPT ![s] = @ \ {"handler"}]
    /\ command' = [command EXCEPT ![s] = @ \ {"handler"}]
    /\ chld' = [chld EXCEPT ![s] = pc[s] \in {"waiting", "ready", "fetched", "serving"}]

ParentEnds(s) ==
    /\ pc' = [pc EXCEPT ![s] = "gone"]
    /\ ready' = [ready EXCEPT ![s] = @ \ {"parent"}]
    /\ command' = [command EXCEPT ![s] = @ \ {"parent"}]
    /\ chld' = [chld EXCEPT ![s] = FALSE]

Goto(s, label) ==
    /\ pc' = [pc EXCEPT ![s] = label]
    /\ UNCHANGED <<ready, command, chld>>

MayFail == fails < MaxFails /\ fails' = fails + 1

-----------------------------------------------------------------------------
(* main, until the handler is fired up.                                      *)

\* In the background after two forks, or at once in the foreground.  The launcher
\* has reported success before anything else happens.
daemonize(s) ==
    /\ pc[s] = "launched"
    /\ \/ Goto(s, "pidfile") /\ UNCHANGED fails
       \/ MayFail /\ ParentEnds(s)
    /\ UNCHANGED <<fileVars, hpc, byte, kills>>

\* Mutant: the lock file is opened without O_EXCL.
LockPidfile_Shared(s) ==
    /\ pc[s] = "pidfile"
    /\ lock' = s /\ Goto(s, "locked")
    /\ UNCHANGED <<pidfile, hpc, byte, kills, fails>>

\* open(lockfile, O_CREAT | O_EXCL): who finds the file gives up.
LockPidfile(s) ==
    /\ pc[s] = "pidfile"
    /\ \/ lock = None /\ lock' = s /\ Goto(s, "locked") /\ UNCHANGED fails
       \/ lock # None /\ ParentEnds(s) /\ UNCHANGED <<lock, fails>>
       \/ MayFail /\ ParentEnds(s) /\ UNCHANGED lock
    /\ UNCHANGED <<pidfile, hpc, byte, kills>>

\* fopen(filename, "w") truncates.
OpenPidfile(s) ==
    /\ pc[s] = "locked"
    /\ \/ pidfile' = Empty /\ Goto(s, "opened") /\ UNCHANGED fails
       \/ MayFail /\ Goto(s, "failing") /\ UNCHANGED pidfile
    /\ UNCHANGED <<lock, hpc, byte, kills>>

\* Mutant: a failed write returns at once.
WritePidfile_Returns(s) ==
    /\ pc[s] = "opened"
    /\ \/ pidfile' = s /\ Goto(s, "written") /\ UNCHANGED fails
       \/ MayFail /\ ParentEnds(s) /\ UNCHANGED pidfile
    /\ UNCHANGED <<lock, hpc, byte, kills>>

\* fprintf, and fclose, which writes what fprintf has buffered.
WritePidfile(s) ==
    /\ pc[s] = "opened"
    /\ \/ pidfile' = s /\ Goto(s, "written") /\ UNCHANGED fails
       \/ MayFail /\ Goto(s, "failing") /\ UNCHANGED pidfile
    /\ UNCHANGED <<lock, hpc, byte, kills>>

\* out_unlock; without a pidfile main exits.  If unlink fails, it says so only.
UnlockPidfile(s) ==
    /\ pc[s] \in {"written", "failing"}
    /\ IF pc[s] = "written" THEN Goto(s, "fire") ELSE ParentEnds(s)
    /\ \/ lock' = None /\ UNCHANGED fails
       \/ MayFail /\ lock' = Left
    /\ UNCHANGED <<pidfile, hpc, byte, kills>>

-----------------------------------------------------------------------------
(* fire_up_tincd_handler in the parent, and the rest of the start.           *)

Fork(s) ==
    /\ pc[s] = "fire"
    /\ \/ /\ pc' = [pc EXCEPT ![s] = "forked"] /\ hpc' = [hpc EXCEPT ![s] = "forked"]
          /\ ready' = [ready EXCEPT ![s] = Ends] /\ command' = [command EXCEPT ![s] = Ends]
          /\ UNCHANGED <<chld, fails>>
       \/ MayFail /\ ParentEnds(s) /\ UNCHANGED hpc
    /\ UNCHANGED <<fileVars, byte, kills>>

\* Mutant: the parent keeps its write end of pipefds.
CloseEnds_Keeps(s) ==
    /\ pc[s] = "forked" /\ Goto(s, "closed")
    /\ UNCHANGED <<fileVars, hpc, byte, kills, fails>>

CloseEnds(s) ==
    /\ pc[s] = "forked" /\ pc' = [pc EXCEPT ![s] = "closed"]
    /\ ready' = [ready EXCEPT ![s] = @ \ {"parent"}]
    /\ UNCHANGED <<fileVars, hpc, command, byte, chld, kills, fails>>

\* signal(SIGCHLD, p_sigchild): a SIGCHLD from before is lost.
Watch(s) ==
    /\ pc[s] = "closed" /\ Goto(s, "waiting")
    /\ UNCHANGED <<fileVars, hpc, byte, kills, fails>>

\* read(pipefds[0]): the byte, or the end of the file.
ReadReady(s) ==
    /\ pc[s] = "waiting"
    /\ \/ byte[s] /\ Goto(s, "ready")
       \/ ~byte[s] /\ ready[s] = {} /\ ParentEnds(s)
    /\ UNCHANGED <<fileVars, hpc, byte, kills, fails>>

\* setgid and setuid, the handlers of signals, and the first fetch.
DropRoot(s) ==
    /\ pc[s] = "ready"
    /\ \/ Goto(s, "fetched") /\ UNCHANGED fails
       \/ MayFail /\ ParentEnds(s)
    /\ UNCHANGED <<fileVars, hpc, byte, kills>>

\* handler_signal_old_tincd: without a reader of the pipe, SIGPIPE ends the parent.
FirstCommand(s) ==
    /\ pc[s] = "fetched"
    /\ IF hpc[s] = "gone" THEN ParentEnds(s) ELSE Goto(s, "serving")
    /\ UNCHANGED <<fileVars, hpc, byte, kills, fails>>

p_sigchild(s) ==
    /\ chld[s] /\ ParentEnds(s)
    /\ UNCHANGED <<fileVars, hpc, byte, kills, fails>>

-----------------------------------------------------------------------------
(* fire_up_tincd_handler in the child.                                       *)

HandlerCloses(s) ==
    /\ hpc[s] = "forked" /\ hpc' = [hpc EXCEPT ![s] = "init"]
    /\ command' = [command EXCEPT ![s] = @ \ {"handler"}]
    /\ UNCHANGED <<fileVars, pc, ready, byte, chld, kills, fails>>

\* Mutant: the parent is told before the handlers of signals are installed.
HandlerSignals_Early(s) ==
    /\ hpc[s] = "init" /\ hpc' = [hpc EXCEPT ![s] = "ready"]
    /\ byte' = [byte EXCEPT ![s] = TRUE]
    /\ UNCHANGED <<fileVars, pc, ready, command, chld, kills, fails>>

\* daemon_init, daemon_addparam, and the handlers of signals.
HandlerSignals(s) ==
    /\ hpc[s] = "init" /\ hpc' = [hpc EXCEPT ![s] = "ready"]
    /\ UNCHANGED <<fileVars, pc, pipeVars, chld, kills, fails>>

\* write(pipefds[1]), with SIGPIPE ignored: it fails if nobody can read.
HandlerReports(s) ==
    /\ hpc[s] = "ready"
    /\ IF pc[s] = "gone"
         THEN HandlerEnds(s) /\ UNCHANGED byte
         ELSE /\ hpc' = [hpc EXCEPT ![s] = "loop"] /\ byte' = [byte EXCEPT ![s] = TRUE]
              /\ UNCHANGED <<ready, command, chld>>
    /\ UNCHANGED <<fileVars, pc, kills, fails>>

\* The select loop, at the end of the file of the command pipe: sigterm.
HandlerLoop(s) ==
    /\ hpc[s] = "loop" /\ command[s] = {} /\ HandlerEnds(s)
    /\ UNCHANGED <<fileVars, pc, byte, kills, fails>>

-----------------------------------------------------------------------------
(* SIGKILL, or a signal that the process does not handle yet.                *)

ParentKilled(s) ==
    /\ pc[s] # "gone" /\ kills < MaxKills /\ kills' = kills + 1
    /\ ParentEnds(s)
    /\ lock' = IF pc[s] \in Locking THEN Left ELSE lock
    /\ UNCHANGED <<pidfile, hpc, byte, fails>>

HandlerKilled(s) ==
    /\ hpc[s] \notin {"none", "gone"} /\ kills < MaxKills /\ kills' = kills + 1
    /\ HandlerEnds(s)
    /\ UNCHANGED <<fileVars, pc, byte, fails>>

-----------------------------------------------------------------------------
ParentStep(s) ==
    \/ daemonize(s) \/ LockPidfile(s) \/ OpenPidfile(s) \/ WritePidfile(s)
    \/ UnlockPidfile(s) \/ Fork(s) \/ CloseEnds(s) \/ Watch(s) \/ ReadReady(s)
    \/ DropRoot(s) \/ FirstCommand(s) \/ p_sigchild(s)

HandlerStep(s) ==
    HandlerCloses(s) \/ HandlerSignals(s) \/ HandlerReports(s) \/ HandlerLoop(s)

Next ==
    \E s \in Starter :
        ParentStep(s) \/ HandlerStep(s) \/ ParentKilled(s) \/ HandlerKilled(s)

Spec == Init /\ [][Next]_vars

\* Both processes are scheduled; a pending signal is delivered.
Fairness == \A s \in Starter : WF_vars(ParentStep(s)) /\ WF_vars(HandlerStep(s))

FairSpec == Spec /\ Fairness

-----------------------------------------------------------------------------
(* Properties.                                                               *)

\* Whoever leaves pidfile_create_pidfile with success has its own pid in the
\* file, however many are started at once and whichever of them fails.
PidfileIsOwn == \A s \in Starter : pc[s] = "written" => pidfile = s

\* The lock file is there only while its creator is at work on the pidfile: every
\* way out removes it.  A creator that is killed leaves it for ever.
LockIsHeld == \A s \in Starter : lock = s => pc[s] \in Locking

\* When the parent goes on and sends commands, its handler can catch the death of
\* tincd and a SIGTERM, and does not die of SIGPIPE.
ReadyIsTrue ==
    \A s \in Starter : pc[s] \in {"ready", "fetched", "serving"} => hpc[s] \in {"loop", "gone"}

\* Wherever one of the two processes ends during the start, the other one does too.
NoHalfStart ==
    \A s \in Starter :
        /\ (pc[s] = "gone") ~> (hpc[s] \in {"none", "gone"})
        /\ (hpc[s] = "gone") ~> (pc[s] = "gone")

=============================================================================
