-------------------------------- MODULE ChaosVPN --------------------------------
(***************************************************************************)
(* The two processes of chaosvpn together.  The parent writes the files    *)
(* and sends the commands; the handler executes them, and restarts tincd   *)
(* on its own account at any time; tincd reads whatever is on the disk     *)
(* when it starts.                                                         *)
(*                                                                         *)
(* The handler is Supervisor.  The parent is ConfigService, which Updater  *)
(* implements.  Supervisor describes its parent by the commands it may     *)
(* send; that ConfigService's parent sends no others is checked            *)
(* (HandlerSpec), so that what is proved about Supervisor holds here.      *)
(***************************************************************************)
EXTENDS Integers, Sequences

CONSTANTS
    MaxWrites,       \* bound: attempts to write the files
    MaxPid, MaxCrashes, MaxRestarts,                   \* as in Supervisor
    Oneshot, RunIfdown, SystemLeavesSigchld, OldPid

\* The parent stays (no -o), and the handler's bound leaves room for all its RESTARTs.
ASSUME CompositionAssumption ==
    /\ MaxWrites \in Nat /\ MaxRestarts \in Nat /\ MaxWrites <= MaxRestarts
    /\ Oneshot = FALSE

VARIABLES
    \* --- the parent, as in ConfigService
    state, work, installed, overlooked, fresh, term, last,
    writes,    \* attempts so far; the configuration of the n-th is n
    asked,     \* has SIGNAL_OLD been sent?
    \* --- tincd
    loaded,    \* configuration that the newest tincd has read; None: a mixture
    \* --- the handler, as in Supervisor, where hpc is called pc
    restarts, pipe, hpc, local, cmd, di_pid, pending, chldact, hexit,
    tincd, status, lastpid, crashes, iface, signalled, oldtincd, pidfile

Configs == 1..MaxWrites

parentVars  == <<state, work, installed, overlooked, fresh, term, last, writes, asked>>
handlerVars == <<hpc, local, cmd, di_pid, pending, chldact, hexit, tincd, status,
                 lastpid, crashes, iface, signalled, oldtincd, pidfile>>
vars == <<parentVars, loaded, restarts, pipe, handlerVars>>

P == INSTANCE ConfigService

\* The parent as the handler sees it.
Parent ==
    IF ~P!Alive THEN "exited"
    ELSE IF state = "running" THEN "loop" ELSE IF asked THEN "start" ELSE "old"

H == INSTANCE Supervisor WITH pc <- hpc, parent <- Parent

\* A parent that has written or removed its stored copy whenever it tried.
Init == P!Init /\ fresh = TRUE /\ writes = 0 /\ asked = FALSE /\ loaded = P!None /\ H!Init

-----------------------------------------------------------------------------
(* The parent.                                                               *)

\* write(fd_tincd_handler, ...) to a living handler.
Deliver(command) ==
    /\ hexit = H!Running
    /\ pipe' = Append(pipe, command)
    /\ restarts' = IF command = "RESTART" THEN restarts + 1 ELSE restarts
    /\ UNCHANGED <<loaded, handlerVars>>

Quiet == UNCHANGED <<loaded, restarts, pipe, handlerVars>>

\* main_fetch_and_apply_config: before SIGNAL_OLD is sent, and in the loop.
MayFetch == state = "unstarted" => ~asked

BeginWrite ==
    /\ P!BeginWrite /\ writes < MaxWrites /\ MayFetch
    /\ writes' = writes + 1 /\ overlooked' = FALSE
    /\ Quiet /\ UNCHANGED asked

Damage ==
    /\ P!Damage /\ writes < MaxWrites /\ MayFetch
    /\ writes' = writes + 1
    /\ Quiet /\ UNCHANGED asked

\* Whether a failure is overlooked matters, and is decided, at the end.  A run that
\* left every file as it was is none here.
FinishWrite ==
    /\ P!EndWrite \/ P!GiveUp
    /\ installed' \in {writes, P!None}
    /\ overlooked' = (work' = "owed" /\ installed' = P!None)
    /\ Quiet /\ UNCHANGED <<writes, asked>>

SignalOld ==
    /\ state = "unstarted" /\ work # "writing" /\ ~asked /\ asked' = TRUE
    /\ Deliver("SIGNAL_OLD")
    /\ UNCHANGED <<state, work, installed, overlooked, fresh, term, last, writes>>

\* Mutant: tincd is started without waiting for SIGNAL_OLD.
Start_Unasked == P!SendStart /\ Deliver(last') /\ UNCHANGED <<writes, asked>>

Start == asked /\ P!SendStart /\ Deliver(last') /\ UNCHANGED <<writes, asked>>

\* Mutant: a RESTART that cannot be written is forgotten.
Update_Lost == P!SendRestart /\ Quiet /\ UNCHANGED <<writes, asked>>

Update == P!SendRestart /\ Deliver(last') /\ UNCHANGED <<writes, asked>>

Stop == P!SendStop /\ Deliver(last') /\ UNCHANGED <<writes, asked>>

\* SIGTERM for the parent alone, or the SIGINT of a terminal for both processes.
Sigterm == ~term /\ P!Sigterm /\ Quiet /\ UNCHANGED <<writes, asked>>

Interrupt ==
    /\ ~term /\ P!Sigterm
    /\ UNCHANGED <<writes, asked, loaded>>
    /\ H!SigtermSent

ParentDies == P!Crash /\ hexit = H!Running /\ Quiet /\ UNCHANGED <<writes, asked>>

\* Mutant: the parent ignores the death of the handler.
p_sigchild_Ignored == hexit # H!Running /\ P!Alive /\ UNCHANGED vars

\* The handler is dead: the parent exits, wherever it is.
p_sigchild == P!Crash /\ hexit # H!Running /\ Quiet /\ UNCHANGED <<writes, asked>>

-----------------------------------------------------------------------------
(* The handler and tincd.                                                    *)

Handler == UNCHANGED <<parentVars, loaded>> /\ H!HandlerStep

Delivery == UNCHANGED <<parentVars, loaded>> /\ (H!SigtermDelivered \/ H!SigchldDelivered)

TincdLoads ==
    /\ UNCHANGED parentVars
    /\ \E p \in H!Pids : H!TincdReady(p)
    /\ loaded' = installed

TincdEnds ==
    /\ UNCHANGED <<parentVars, loaded>>
    /\ \E p \in H!Pids, st \in {0, H!Fatal} : H!TincdCrashes(p, st) \/ H!TincdObeys(p, st)

-----------------------------------------------------------------------------
Send == SignalOld \/ Start \/ Update \/ Stop

Next ==
    \/ BeginWrite \/ Damage \/ FinishWrite \/ Send
    \/ Sigterm \/ Interrupt \/ ParentDies \/ p_sigchild
    \/ Handler \/ Delivery \/ TincdLoads \/ TincdEnds

Spec == Init /\ [][Next]_vars

\* That of ConfigService for the parent, that of Supervisor for the handler, and
\* the delivery of the parent's SIGCHLD.
Fairness ==
    /\ WF_vars(FinishWrite \/ Send \/ p_sigchild)
    /\ WF_vars(Handler)
    /\ WF_vars(UNCHANGED <<parentVars, loaded>> /\ H!SigtermDelivered)
    /\ WF_vars(UNCHANGED <<parentVars, loaded>> /\ H!SigchldDelivered)

FairSpec == Spec /\ Fairness

-----------------------------------------------------------------------------
(* Properties.                                                               *)

\* Seen from the handler the parent is the one that Supervisor assumes.
HandlerSpec == H!Spec

\* The files hold configuration v, and a controlled tincd runs on others: it has
\* read them before, or while they were being written.
RunsOutdated(v) ==
    /\ installed = v /\ loaded # v /\ \E p \in H!Pids : tincd[p] = "running"
    /\ hexit = H!Running

\* The handler is blocked in the waitpid of sigchild for a tincd that runs.  With
\* $run_ifdown on Linux the SIGCHLD of system() leads to this; it ends with tincd.
Blocked ==
    /\ hexit = H!Running /\ hpc["sigchild"] = "wait" /\ hpc["sigterm"] = "off"
    /\ \E p \in H!Pids : H!Live(p)

\* No tincd stays on an old configuration or a mixture of two once a new one is
\* installed, even if sigchild started it in the middle of the writing, unless the
\* handler is blocked and does not read the RESTART.
TincdFollowsConfig == \A v \in Configs : RunsOutdated(v) ~> (~RunsOutdated(v) \/ Blocked)

\* Everything has ended, except a tincd that sigterm met between fork and record.
AllEnded ==
    /\ ~P!Alive /\ hexit # H!Running
    /\ (\E p \in H!Pids : H!Live(p)) => \E c \in H!Contexts : hpc[c] = "forked"

\* A SIGTERM to the parent, or the end of either process, ends both and tincd, unless
\* the handler is blocked and reads neither STOP nor the end of file.
EndTogether == (term \/ ~P!Alive \/ hexit # H!Running) ~> (AllEnded \/ Blocked)

=============================================================================
