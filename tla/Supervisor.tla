------------------------------- MODULE Supervisor -------------------------------
(***************************************************************************)
(* The tincd handler of chaosvpn: the child process that                   *)
(* fire_up_tincd_handler (main.c) forks to start, restart and stop tincd   *)
(* as root while the unprivileged parent fetches configurations.           *)
(*                                                                         *)
(* The handler is one process with three nested execution contexts: its    *)
(* select loop ("main"), the SIGCHLD handler ("sigchild") that may         *)
(* interrupt the loop, and the SIGTERM/SIGINT handler ("sigterm") that may *)
(* interrupt both and always ends in exit.  Only the innermost context     *)
(* runs; the others are frozen where they were interrupted.  A step of the *)
(* model is the code between two points at which a signal can change what  *)
(* happens: fork, the assignment of di_pid, kill, sleep, waitpid, system.  *)
(***************************************************************************)
EXTENDS Integers, Sequences

CONSTANTS
    MaxPid,              \* bound: tincd processes the handler can fork
    MaxCrashes,          \* bound: times tincd terminates of its own accord
    MaxRestarts,         \* bound: RESTART commands the parent sends
    Oneshot,             \* config->oneshot, option -o
    RunIfdown,           \* config->run_ifdown
    SystemLeavesSigchld, \* does system() leave its child's SIGCHLD pending?
                         \* TRUE on Linux, FALSE on FreeBSD
    OldPid               \* pid of a tincd left behind by an earlier run, as its
                         \* pidfile or tincctl tells it; 0 when there is none.
                         \* Pid 1 is init

ASSUME BoundsAssumption ==
    /\ MaxPid \in Nat /\ MaxCrashes \in Nat /\ MaxRestarts \in Nat
    /\ MaxPid >= 1 + MaxCrashes + MaxRestarts

ASSUME ConfigAssumption ==
    /\ Oneshot \in BOOLEAN /\ RunIfdown \in BOOLEAN
    /\ SystemLeavesSigchld \in BOOLEAN /\ OldPid \in Nat \ {1}

Pids     == 1..MaxPid
NoPid    == -1                       \* di_pid before the first daemon_start
Contexts == {"main", "sigchild", "sigterm"}
Commands == {"SIGNAL_OLD", "START", "RESTART", "STOP"}
NoCmd    == "none"
Running  == -1                       \* hexit while the handler has not exited

\* Where a context stands.  "off": the signal handler is not active.
Locations ==
    { "off",       \* not active
      "select",    \* in select() on the command pipe
      "old",       \* about to call main_terminate_old_tincd
      "oldsleep",  \* in its sleep(2)
      "start",     \* about to call daemon_start
      "forked",    \* in daemon_start, after fork(), before di->di_pid = pid
      "started",   \* daemon_start returned; about to exit(0) in oneshot mode
      "stop",      \* about to call daemon_stop
      "stopping",  \* in the sleep of daemon_stop, between SIGTERM and SIGKILL
      "ifdown",    \* about to call tinc_invoke_ifdown
      "system",    \* in system(), with SIGCHLD blocked
      "wait",      \* in the waitpid of sigchild
      "check" }    \* after it, about to look at the exit status

VARIABLES
    \* --- the parent and the pipe to the handler
    parent,    \* what the parent does next: "old", "start", "loop", "exited"
    restarts,  \* RESTART commands sent so far
    pipe,      \* commands written and not yet read
    \* --- the handler process
    pc,        \* location of each context
    local,     \* each context's local pid: fork()'s result, or pgid of daemon_stop
    cmd,       \* command the select loop works on
    di_pid,    \* di_tincd.di_pid
    pending,   \* signals generated and not yet delivered
    chldact,   \* what SIGCHLD does: "sigchild" or "SIG_IGN"
    hexit,     \* exit code of the handler; Running while it lives
    \* --- what the handler controls
    tincd,     \* state of every tincd process
    status,    \* exit status of the terminated ones
    lastpid,   \* pid of the newest tincd, 0 when there is none
    crashes,   \* terminations of tincd of its own accord so far
    iface,     \* tincd whose tinc-up configured the interface, 0 when it is down
    \* --- a tincd left behind by an earlier chaosvpn
    signalled, \* pid main_terminate_old_tincd works on; NoPid before it ran
    oldtincd,  \* state of the process whose pid is OldPid
    pidfile    \* its pidfile: "present" or "absent"

parentVars  == <<parent, restarts>>
signalVars  == <<pending, chldact>>
oldVars     == <<signalled, oldtincd, pidfile>>
processVars == <<tincd, status, lastpid, crashes>>
vars == <<parent, restarts, pipe, pc, local, cmd, di_pid, pending, chldact,
          hexit, tincd, status, lastpid, crashes, iface, signalled,
          oldtincd, pidfile>>

TincdStates == {"none", "starting", "running", "terming", "zombie", "gone"}
\* Exit statuses the handler tells apart: 1 is tincd's fatal error (and a failed
\* exec), 9 stands for a death by SIGKILL, 0 for everything else.
Statuses == {0, 1, 9}
Fatal    == 1

TypeOK ==
    /\ parent \in {"old", "start", "loop", "exited"}
    /\ restarts \in 0..MaxRestarts
    /\ pipe \in Seq(Commands)
    /\ pc \in [Contexts -> Locations]
    /\ local \in [Contexts -> Pids \cup {NoPid}]
    /\ cmd \in Commands \cup {NoCmd}
    /\ di_pid \in Pids \cup {NoPid}
    /\ pending \subseteq {"SIGCHLD", "SIGTERM"}
    /\ chldact \in {"sigchild", "SIG_IGN"}
    /\ hexit \in {Running, 0, 1}
    /\ tincd \in [Pids -> TincdStates]
    /\ status \in [Pids -> Statuses]
    /\ lastpid \in 0..MaxPid
    /\ crashes \in 0..MaxCrashes
    /\ iface \in 0..MaxPid
    /\ signalled \in {NoPid, 0, 1}
    /\ oldtincd \in {"running", "dead"}
    /\ pidfile \in {"present", "absent"}

Live(p) == tincd[p] \in {"starting", "running", "terming"}

-----------------------------------------------------------------------------
(* The parent, as far as the handler sees it: it asks for the old tincd to  *)
(* be killed, then for a new one, and from then on for restarts until it    *)
(* stops everything or dies.                                                *)

Init ==
    /\ parent = "old" /\ restarts = 0 /\ pipe = <<>>
    /\ pc = [c \in Contexts |-> IF c = "main" THEN "select" ELSE "off"]
    /\ local = [c \in Contexts |-> NoPid]
    /\ cmd = NoCmd /\ di_pid = NoPid
    /\ pending = {} /\ chldact = "sigchild"
    /\ hexit = Running
    /\ tincd = [p \in Pids |-> "none"] /\ status = [p \in Pids |-> 0]
    /\ lastpid = 0 /\ crashes = 0 /\ iface = 0
    /\ signalled = NoPid /\ pidfile = IF OldPid = 0 THEN "absent" ELSE "present"
    /\ oldtincd \in IF OldPid = 0 THEN {"dead"} ELSE {"running", "dead"}

handlerVars == <<pc, local, cmd, di_pid, hexit>>

\* write(fd_tincd_handler): a write to a dead handler ends the parent.
Send(command, next) ==
    /\ hexit = Running
    /\ pipe' = Append(pipe, command)
    /\ parent' = next
    /\ UNCHANGED <<handlerVars, signalVars, processVars, iface, oldVars>>

handler_signal_old_tincd ==
    parent = "old" /\ Send("SIGNAL_OLD", "start") /\ UNCHANGED restarts

\* Mutant: START does not wait for the old tincd's turn.
handler_start_tincd_Early ==
    /\ parent \in {"old", "start"}
    /\ Send("START", IF Oneshot THEN "exited" ELSE "loop")
    /\ UNCHANGED restarts

handler_start_tincd ==
    /\ parent = "start"
    /\ Send("START", IF Oneshot THEN "exited" ELSE "loop")
    /\ UNCHANGED restarts

handler_restart_tincd ==
    /\ parent = "loop" /\ restarts < MaxRestarts
    /\ Send("RESTART", "loop")
    /\ restarts' = restarts + 1

handler_stop ==
    parent = "loop" /\ Send("STOP", "exited") /\ UNCHANGED restarts

\* The handler is gone: the parent reaps it and exits with its exit code.
p_sigchild ==
    /\ hexit # Running /\ parent # "exited" /\ parent' = "exited"
    /\ UNCHANGED <<restarts, pipe, handlerVars, signalVars, processVars, iface, oldVars>>

\* The parent dies without a word: exit(1) on an invalid URL, or a kill -9.
ParentDies ==
    /\ hexit = Running /\ parent # "exited" /\ parent' = "exited"
    /\ UNCHANGED <<restarts, pipe, handlerVars, signalVars, processVars, iface, oldVars>>

-----------------------------------------------------------------------------
(* Contexts and signals.                                                     *)

Innermost ==
    IF pc["sigterm"] # "off" THEN "sigterm"
    ELSE IF pc["sigchild"] # "off" THEN "sigchild" ELSE "main"

At(c, location) == hexit = Running /\ c = Innermost /\ pc[c] = location

Goto(c, location) == pc' = [pc EXCEPT ![c] = location]

Exit(code) == hexit' = code /\ UNCHANGED pc

\* The context c goes on at `location`, or the process exits.
Continue(c, location) ==
    \/ location = "exit0" /\ Exit(0)
    \/ location = "exit1" /\ Exit(1)
    \/ location \notin {"exit0", "exit1"} /\ Goto(c, location) /\ UNCHANGED hexit

\* Entry of sigterm(): signal(SIGCHLD, SIG_IGN) discards a pending SIGCHLD.
EnterSigterm ==
    /\ Goto("sigterm", "stop")
    /\ chldact' = "SIG_IGN"

\* A SIGTERM or SIGINT for the handler from outside.
SigtermSent ==
    /\ hexit = Running /\ "SIGTERM" \notin pending /\ pc["sigterm"] = "off"
    /\ pending' = pending \cup {"SIGTERM"}
    /\ UNCHANGED <<parentVars, pipe, handlerVars, chldact, processVars, iface, oldVars>>

SigtermDelivered ==
    /\ hexit = Running /\ "SIGTERM" \in pending /\ pc["sigterm"] = "off"
    /\ pending' = {}
    /\ EnterSigterm
    /\ UNCHANGED <<parentVars, pipe, local, cmd, di_pid, hexit, processVars,
                   iface, oldVars>>

\* SIGCHLD is blocked while its own handler runs and while the loop is in system().
SigchldDelivered ==
    /\ hexit = Running /\ "SIGCHLD" \in pending /\ chldact = "sigchild"
    /\ pc["sigchild"] = "off" /\ pc["sigterm"] = "off" /\ pc["main"] # "system"
    /\ pending' = pending \ {"SIGCHLD"}
    /\ Goto("sigchild", "wait")
    /\ UNCHANGED <<parentVars, pipe, local, cmd, di_pid, hexit, chldact,
                   processVars, iface, oldVars>>

-----------------------------------------------------------------------------
(* The select loop.                                                          *)

\* Mutant: a RESTART that starts without stopping.
EntryOf_NoStop(command) ==
    CASE command \in {"START", "RESTART"} -> "start"
      [] command = "STOP"                 -> "ifdown"
      [] command = "SIGNAL_OLD"           -> "old"

EntryOf(command) ==
    CASE command = "START"      -> "start"
      [] command = "RESTART"    -> "stop"
      [] command = "STOP"       -> "ifdown"
      [] command = "SIGNAL_OLD" -> "old"

\* One byte is read from the pipe; STOP ignores SIGCHLD before anything else.
ReadCommand ==
    /\ At("main", "select") /\ pipe # <<>>
    /\ cmd' = Head(pipe) /\ pipe' = Tail(pipe)
    /\ Goto("main", EntryOf(Head(pipe)))
    /\ IF Head(pipe) = "STOP"
         THEN chldact' = "SIG_IGN" /\ pending' = pending \ {"SIGCHLD"}
         ELSE UNCHANGED signalVars
    /\ UNCHANGED <<parentVars, local, di_pid, hexit, processVars, iface, oldVars>>

\* End of file, the parent is gone: sigterm(SIGTERM) is called like a function.
ReadEOF ==
    /\ At("main", "select") /\ pipe = <<>> /\ parent = "exited"
    /\ EnterSigterm /\ pending' = pending \ {"SIGCHLD"}
    /\ UNCHANGED <<parentVars, pipe, local, cmd, di_pid, hexit,
                   processVars, iface, oldVars>>

-----------------------------------------------------------------------------
(* main_terminate_old_tincd and tinc_get_pid.                                *)

\* `bool res; res = strtol(...); pid = (pid_t) res`: any pid but 0 becomes 1.  tinc
\* 1.1 is asked with "tinc pid" where older ones have the pidfile; that command ends,
\* and its SIGCHLD is handled, while there is no tincd.
tinc_get_pid == IF OldPid = 0 THEN 0 ELSE 1

\* Is there a process with that pid for kill() to find?  init, pid 1, always runs.
Exists(pid) == pid = 1 \/ (pid = OldPid /\ oldtincd # "dead")

\* SIGTERM to that pid; a pid of 0 means there is nothing to do.
TerminateOld ==
    /\ At("main", "old")
    /\ signalled' = tinc_get_pid
    /\ Goto("main", IF tinc_get_pid = 0 THEN "select" ELSE "oldsleep")
    /\ oldtincd' \in IF tinc_get_pid = OldPid THEN {oldtincd, "dead"} ELSE {oldtincd}
    /\ UNCHANGED <<parentVars, pipe, local, cmd, di_pid, hexit, signalVars,
                   processVars, iface, pidfile>>

\* SIGKILL after two seconds; the pidfile is unlinked when kill() succeeds.
KillOld ==
    /\ At("main", "oldsleep")
    /\ oldtincd' = IF signalled = OldPid THEN "dead" ELSE oldtincd
    /\ pidfile' = IF Exists(signalled) THEN "absent" ELSE pidfile
    /\ Goto("main", "select")
    /\ UNCHANGED <<parentVars, pipe, local, cmd, di_pid, hexit, signalVars,
                   processVars, iface, signalled>>

-----------------------------------------------------------------------------
(* daemon_start.                                                             *)

\* Mutant: sigchild loops over waitpid until there is no child left.
AfterStart_WaitLoop(c) ==
    IF c = "sigchild" THEN "wait" ELSE IF Oneshot THEN "started" ELSE "select"

AfterStart(c) ==
    IF c = "sigchild" THEN "off" ELSE IF Oneshot THEN "started" ELSE "select"

Fork(c) ==
    /\ At(c, "start") /\ lastpid < MaxPid
    /\ lastpid' = lastpid + 1
    /\ tincd' = [tincd EXCEPT ![lastpid + 1] = "starting"]
    /\ local' = [local EXCEPT ![c] = lastpid + 1]
    /\ Goto(c, "forked")
    /\ UNCHANGED <<parentVars, pipe, cmd, di_pid, hexit, signalVars, status,
                   crashes, iface, oldVars>>

\* pipe() or fork() fails: both callers exit(1).
StartFails(c) ==
    /\ At(c, "start") /\ Exit(1)
    /\ UNCHANGED <<parentVars, pipe, local, cmd, di_pid, signalVars, processVars,
                   iface, oldVars>>

RecordPid(c) ==
    /\ At(c, "forked")
    /\ di_pid' = local[c]
    /\ Goto(c, AfterStart(c))
    /\ UNCHANGED <<parentVars, pipe, local, cmd, hexit, signalVars, processVars, iface, oldVars>>

OneshotExit ==
    /\ At("main", "started") /\ Exit(0)
    /\ UNCHANGED <<parentVars, pipe, local, cmd, di_pid, signalVars, processVars,
                   iface, oldVars>>

-----------------------------------------------------------------------------
(* daemon_stop: SIGTERM, a sleep of 5 seconds, SIGKILL to the same pid.      *)

AfterStop(c) ==
    IF c = "sigterm" THEN "exit1" ELSE IF cmd = "STOP" THEN "exit0" ELSE "ifdown"

\* Process p ends with status st: a zombie and a SIGCHLD for a handler that
\* waits for its children, reaped by the kernel otherwise.
Terminates(p, st) ==
    /\ status' = [status EXCEPT ![p] = st]
    /\ IF hexit = Running /\ chldact = "sigchild"
         THEN /\ tincd' = [tincd EXCEPT ![p] = "zombie"]
              /\ pending' = pending \cup {"SIGCHLD"}
         ELSE /\ tincd' = [tincd EXCEPT ![p] = "gone"]
              /\ UNCHANGED pending

StopTerm(c) ==
    /\ At(c, "stop")
    /\ local' = [local EXCEPT ![c] = di_pid]
    /\ IF di_pid = NoPid
         THEN Continue(c, AfterStop(c)) /\ UNCHANGED tincd
         ELSE /\ Goto(c, "stopping") /\ UNCHANGED hexit
              /\ tincd' = IF Live(di_pid) THEN [tincd EXCEPT ![di_pid] = "terming"]
                                          ELSE tincd
    /\ UNCHANGED <<parentVars, pipe, cmd, di_pid, signalVars, status, lastpid,
                   crashes, iface, oldVars>>

Sigkill(c, pid) ==
    /\ At(c, "stopping")
    /\ IF Live(pid) THEN Terminates(pid, 9)
                    ELSE UNCHANGED <<tincd, status, pending>>
    /\ Continue(c, AfterStop(c))
    /\ UNCHANGED <<parentVars, pipe, local, cmd, di_pid, chldact, lastpid,
                   crashes, iface, oldVars>>

\* Mutants: the pid is read again after the sleep; the SIGKILL is missing.
StopKill_Reread(c) == Sigkill(c, di_pid)

StopKill_Missing(c) ==
    /\ At(c, "stopping") /\ Continue(c, AfterStop(c))
    /\ UNCHANGED <<parentVars, pipe, local, cmd, di_pid, signalVars, processVars,
                   iface, oldVars>>

StopKill(c) == Sigkill(c, local[c])

-----------------------------------------------------------------------------
(* tinc_invoke_ifdown.                                                       *)

AfterIfdown(c) ==
    IF c = "sigchild" THEN "check" ELSE IF cmd = "STOP" THEN "stop" ELSE "select"

IfdownBegin(c) ==
    /\ At(c, "ifdown")
    /\ Goto(c, IF RunIfdown THEN "system" ELSE AfterIfdown(c))
    /\ UNCHANGED <<parentVars, pipe, local, cmd, di_pid, hexit, signalVars,
                   processVars, iface, oldVars>>

\* tinc-down took the interface down; system() has waited for its own child.
IfdownEnd(c) ==
    /\ At(c, "system")
    /\ Goto(c, AfterIfdown(c))
    /\ iface' = 0
    /\ pending' = IF SystemLeavesSigchld /\ chldact = "sigchild"
                     THEN pending \cup {"SIGCHLD"} ELSE pending
    /\ UNCHANGED <<parentVars, pipe, local, cmd, di_pid, hexit, chldact,
                   processVars, oldVars>>

-----------------------------------------------------------------------------
(* sigchild.                                                                 *)

ReapTo(p, location) ==
    /\ At("sigchild", "wait") /\ tincd[p] = "zombie"
    /\ tincd' = [tincd EXCEPT ![p] = "gone"]
    /\ Goto("sigchild", location)
    /\ UNCHANGED <<parentVars, pipe, local, cmd, di_pid, hexit, signalVars, status,
                   lastpid, crashes, iface, oldVars>>

\* Mutants: every child is only reaped; tinc-down is not run.
Reap_Only(p) == ReapTo(p, "off")
Reap_NoIfdown(p) == ReapTo(p, IF p = di_pid THEN "check" ELSE "off")

\* waitpid(-1) returns a terminated child: di_pid's, or "some child".
Reap(p) == ReapTo(p, IF p = di_pid THEN "ifdown" ELSE "off")

\* waitpid(-1) fails with ECHILD.  While a child lives and none has terminated,
\* neither action is enabled: waitpid blocks.
ReapNothing ==
    /\ At("sigchild", "wait")
    /\ \A p \in Pids : ~Live(p) /\ tincd[p] # "zombie"
    /\ Goto("sigchild", "off")
    /\ UNCHANGED <<parentVars, pipe, local, cmd, di_pid, hexit, signalVars,
                   processVars, iface, oldVars>>

\* Mutant: tincd is restarted whatever its exit status.
CheckStatus_Ignored ==
    /\ At("sigchild", "check")
    /\ Continue("sigchild", "start")
    /\ UNCHANGED <<parentVars, pipe, local, cmd, di_pid, signalVars, processVars,
                   iface, oldVars>>

\* Exit status 1 ends the handler; otherwise tincd_restart_delay, then a new tincd.
CheckStatus ==
    /\ At("sigchild", "check")
    /\ Continue("sigchild", IF status[di_pid] = Fatal THEN "exit1" ELSE "start")
    /\ UNCHANGED <<parentVars, pipe, local, cmd, di_pid, signalVars, processVars,
                   iface, oldVars>>

-----------------------------------------------------------------------------
(* tincd itself, an external program.                                        *)

\* tincd is up and has run its tinc-up script.
TincdReady(p) ==
    /\ tincd[p] = "starting"
    /\ tincd' = [tincd EXCEPT ![p] = "running"] /\ iface' = p
    /\ UNCHANGED <<parentVars, pipe, handlerVars, signalVars, status, lastpid,
                   crashes, oldVars>>

\* A crash (status 0) or a fatal error (status 1) of its own accord.
TincdCrashes(p, st) ==
    /\ tincd[p] \in {"starting", "running"} /\ crashes < MaxCrashes
    /\ Terminates(p, st)
    /\ crashes' = crashes + 1
    /\ UNCHANGED <<parentVars, pipe, handlerVars, chldact, lastpid, iface, oldVars>>

\* tincd obeys SIGTERM.
TincdObeys(p, st) ==
    /\ tincd[p] = "terming"
    /\ Terminates(p, st)
    /\ UNCHANGED <<parentVars, pipe, handlerVars, chldact, lastpid,
                   crashes, iface, oldVars>>

-----------------------------------------------------------------------------
HandlerStep ==
    \/ ReadCommand \/ ReadEOF \/ TerminateOld \/ KillOld \/ OneshotExit
    \/ \E c \in Contexts :
          \/ Fork(c) \/ StartFails(c) \/ RecordPid(c)
          \/ StopTerm(c) \/ StopKill(c) \/ IfdownBegin(c) \/ IfdownEnd(c)
    \/ \E p \in Pids : Reap(p)
    \/ ReapNothing \/ CheckStatus

ParentStep ==
    \/ handler_signal_old_tincd \/ handler_start_tincd
    \/ handler_restart_tincd \/ handler_stop
    \/ p_sigchild \/ ParentDies

TincdStep ==
    \E p \in Pids :
       \/ TincdReady(p)
       \/ \E st \in {0, Fatal} : TincdCrashes(p, st) \/ TincdObeys(p, st)

Next ==
    \/ ParentStep \/ HandlerStep \/ TincdStep
    \/ SigtermSent \/ SigtermDelivered \/ SigchldDelivered

Spec == Init /\ [][Next]_vars

\* The handler is scheduled, pending unblocked signals are delivered, sleeps and
\* the tinc-down script end.  Nothing is assumed of the parent or of tincd.
Fairness ==
    WF_vars(HandlerStep) /\ WF_vars(SigtermDelivered) /\ WF_vars(SigchldDelivered)

FairSpec == Spec /\ Fairness

-----------------------------------------------------------------------------
(* Properties.                                                               *)

LivePids  == {p \in Pids : Live(p)}
FatalSeen == \E p \in Pids : tincd[p] \in {"zombie", "gone"} /\ status[p] = Fatal

Service == INSTANCE TincdService WITH
    live <- LivePids, born <- lastpid, fatal <- FatalSeen, shut <- hexit # Running

\* Every behaviour of the handler is one of the abstract service: tincd
\* processes one at a time, none after a fatal error or the handler's exit.
ServiceSpec == Service!Spec

\* However deaths, restarts and signals interleave, there are never two tincd
\* processes at a time: sigchild forks only after it has reaped the one it knew.
AtMostOneTincd == \A p, q \in Pids : Live(p) /\ Live(q) => p = q

\* A tincd that ended with status 1 is the last one ever started (sigchild,
\* debian/changelog 2.18: no automatic restart after a fatal error).
NoTincdAfterFatal ==
    \A p \in Pids : tincd[p] \in {"zombie", "gone"} /\ status[p] = Fatal => p = lastpid

\* When a controlling handler has exited, a tincd still runs only if sigterm
\* interrupted the daemon_start that forked it before di_pid was assigned.
OrphanOnlyFromForkWindow ==
    hexit # Running /\ ~Oneshot =>
        \A p \in Pids : Live(p) =>
            p # di_pid /\ \E c \in Contexts : pc[c] = "forked" /\ local[c] = p

\* The SIGKILL of daemon_stop hits only a process that got its SIGTERM before: a
\* tincd that sigchild started during the sleep is spared.
KillOnlyAfterTerm ==
    [][\A p \in Pids : Live(p) /\ ~Live(p)' /\ status'[p] = 9 => tincd[p] = "terming"]_vars

\* With $run_ifdown, a successor is started only on an interface that tinc-down
\* has taken down after its predecessor died.
RestartOnCleanInterface ==
    [][\A p \in Pids : RunIfdown /\ p > 1 /\ tincd[p] = "none" /\ tincd'[p] = "starting"
           => iface = 0]_vars

\* main_terminate_old_tincd is through before the first tincd is forked.
OldHandledBeforeStart ==
    lastpid > 0 => signalled # NoPid /\ pc["main"] \notin {"old", "oldsleep"}

\* sigchild blocks in waitpid while tincd runs, and keeps the select loop from
\* reading its commands, only for the SIGCHLD that system() left pending, once each:
\* without $run_ifdown, or where system() discards it, never; and the tincd it waits
\* for is the recorded one, so that its death is answered.
SigchildBlocksOnlyForSystem ==
    hexit = Running /\ pc["sigchild"] = "wait" /\ pc["sigterm"] = "off" =>
        \A p \in Pids : Live(p) =>
            /\ RunIfdown /\ SystemLeavesSigchld
            /\ p = di_pid /\ "SIGCHLD" \notin pending

\* The death of the recorded tincd is answered: with a successor, or with the
\* exit of the handler.
DeathIsAnswered ==
    (hexit = Running /\ \E p \in Pids : p = di_pid /\ tincd[p] = "zombie")
        ~> (hexit # Running \/ \E p \in Pids : Live(p))

\* An already running tincd is killed before the new one is launched
\* (man/chaosvpn.1, option -o).
OldTincdStopped == lastpid > 0 => oldtincd = "dead"

=============================================================================
