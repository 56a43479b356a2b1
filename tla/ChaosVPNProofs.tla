----------------------------- MODULE ChaosVPNProofs -----------------------------
(***************************************************************************)
(* Proofs about the two processes together, for any number of writes,      *)
(* crashes and restarts: the parent of ConfigService sends the handler     *)
(* only the commands Supervisor assumes, so that what is proved about the  *)
(* handler alone holds in the composition.                                 *)
(***************************************************************************)
EXTENDS ChaosVPN, TLAPS

\* A RESTART announces a write of its own: there are never more of them, and while one
\* is under way or not yet announced, fewer.
CommandInv ==
    /\ restarts \in Nat /\ writes \in 0..MaxWrites
    /\ work \in {"idle", "writing", "owed"}
    /\ restarts <= writes /\ (work # "idle" => restarts < writes)

\* Nothing is written or sent at the start.
LEMMA InitCommand == Init => CommandInv
<1> SUFFICES ASSUME Init PROVE CommandInv
  OBVIOUS
<1>1. writes = 0 /\ work = "idle"
  BY DEF Init, P!Init
<1>2. restarts = 0
  BY DEF Init, H!Init
<1> QED
  BY <1>1, <1>2, CompositionAssumption DEF CommandInv

\* Every step of parent, handler and tincd keeps it.
LEMMA NextCommand == ASSUME CommandInv, [Next]_vars PROVE CommandInv'
<1> USE CompositionAssumption DEF CommandInv
<1>1. CASE BeginWrite
  BY <1>1 DEF BeginWrite, P!BeginWrite, Quiet
<1>2. CASE FinishWrite
  BY <1>2 DEF FinishWrite, P!EndWrite, P!GiveUp, Quiet
<1>3. CASE SignalOld
  BY <1>3 DEF SignalOld, Deliver
<1>4. CASE Start
  BY <1>4 DEF Start, P!SendStart, Deliver
<1>5. CASE Update
  BY <1>5 DEF Update, P!SendRestart, Deliver
<1>6. CASE Stop
  BY <1>6 DEF Stop, P!SendStop, Deliver
<1>7. CASE Sigterm \/ Interrupt
  BY <1>7 DEF Sigterm, Interrupt, P!Sigterm, Quiet, H!SigtermSent, H!parentVars
<1>8. CASE ParentDies \/ p_sigchild
  BY <1>8 DEF ParentDies, p_sigchild, P!Crash, Quiet
<1>9. CASE Handler
  <2>1. UNCHANGED restarts
    BY <1>9 DEF Handler, H!HandlerStep, H!ReadCommand, H!ReadEOF, H!TerminateOld, H!KillOld,
       H!OneshotExit, H!Fork, H!StartFails, H!RecordPid, H!StopTerm, H!StopKill, H!Sigkill,
       H!IfdownBegin, H!IfdownEnd, H!Reap, H!ReapTo, H!ReapNothing, H!CheckStatus, H!parentVars
  <2> QED
    BY <1>9, <2>1 DEF Handler, parentVars
<1>10. CASE Delivery
  BY <1>10 DEF Delivery, H!SigtermDelivered, H!SigchldDelivered, H!parentVars, parentVars
<1>11. CASE TincdLoads \/ TincdEnds
  BY <1>11 DEF TincdLoads, TincdEnds, H!TincdReady, H!TincdCrashes, H!TincdObeys,
     H!parentVars, parentVars
<1>12. CASE UNCHANGED vars
  BY <1>12 DEF vars, parentVars
<1>13. CASE Damage
  BY <1>13 DEF Damage, P!Damage, Quiet
<1> QED
  BY <1>1, <1>2, <1>3, <1>4, <1>5, <1>6, <1>7, <1>8, <1>9, <1>10, <1>11, <1>12, <1>13
     DEF Next, Send

\* Seen from the handler, each step of the composition is one of Supervisor.
LEMMA StepOfHandler == ASSUME CommandInv, [Next]_vars PROVE [H!Next]_(H!vars)
<1> SUFFICES H!Next \/ UNCHANGED H!vars
  OBVIOUS
<1> USE CompositionAssumption DEF H!Next, H!vars, H!ParentStep, H!handlerVars, H!signalVars,
        H!processVars, H!oldVars, handlerVars
<1>1. CASE BeginWrite
  BY <1>1 DEF BeginWrite, P!BeginWrite, Quiet, Parent, P!Alive
<1>2. CASE FinishWrite
  BY <1>2 DEF FinishWrite, P!EndWrite, P!GiveUp, Quiet, Parent, P!Alive
<1>3. CASE SignalOld
  <2>1. Parent = "old" /\ Parent' = "start" /\ H!Send("SIGNAL_OLD", "start") /\ UNCHANGED restarts
    BY <1>3 DEF SignalOld, Deliver, Parent, P!Alive, H!Send
  <2> QED
    BY <2>1 DEF H!handler_signal_old_tincd
<1>4. CASE Start
  <2>1. Parent = "start" /\ Parent' = "loop" /\ H!Send("START", "loop") /\ UNCHANGED restarts
    BY <1>4 DEF Start, P!SendStart, Deliver, Parent, P!Alive, H!Send
  <2> QED
    BY <2>1 DEF H!handler_start_tincd
<1>5. CASE Update
  <2>1. /\ Parent = "loop" /\ Parent' = "loop" /\ H!Send("RESTART", "loop")
        /\ restarts' = restarts + 1
    BY <1>5 DEF Update, P!SendRestart, Deliver, Parent, P!Alive, H!Send
  <2>2. restarts < MaxRestarts
    BY <1>5 DEF Update, P!SendRestart, CommandInv
  <2> QED
    BY <2>1, <2>2 DEF H!handler_restart_tincd
<1>6. CASE Stop
  <2>1. Parent = "loop" /\ Parent' = "exited" /\ H!Send("STOP", "exited") /\ UNCHANGED restarts
    BY <1>6 DEF Stop, P!SendStop, Deliver, Parent, P!Alive, H!Send
  <2> QED
    BY <2>1 DEF H!handler_stop
<1>7. CASE Sigterm
  BY <1>7 DEF Sigterm, P!Sigterm, Quiet, Parent, P!Alive
<1>8. CASE Interrupt
  BY <1>8 DEF Interrupt
<1>9. CASE ParentDies
  <2>1. Parent # "exited" /\ Parent' = "exited" /\ hexit = H!Running /\ Quiet
    BY <1>9 DEF ParentDies, P!Crash, Parent, P!Alive
  <2> QED
    BY <2>1 DEF Quiet, H!ParentDies
<1>10. CASE p_sigchild
  <2>1. Parent # "exited" /\ Parent' = "exited" /\ hexit # H!Running /\ Quiet
    BY <1>10 DEF p_sigchild, P!Crash, Parent, P!Alive
  <2> QED
    BY <2>1 DEF Quiet, H!p_sigchild
<1>11. CASE Handler \/ Delivery
  BY <1>11 DEF Handler, Delivery
<1>12. CASE TincdLoads \/ TincdEnds
  BY <1>12 DEF TincdLoads, TincdEnds, H!TincdStep
<1>13. CASE UNCHANGED vars
  BY <1>13 DEF vars, parentVars, Parent, P!Alive
<1>14. CASE Damage
  BY <1>14 DEF Damage, P!Damage, Quiet, Parent, P!Alive
<1> QED
  BY <1>1, <1>2, <1>3, <1>4, <1>5, <1>6, <1>7, <1>8, <1>9, <1>10, <1>11, <1>12, <1>13,
     <1>14
     DEF Next, Send

\* In the composition the parent is the one that Supervisor assumes: SIGNAL_OLD, START
\* once, RESTARTs, one STOP, and nothing to a handler that is dead.
THEOREM ParentIsAsAssumed == Spec => HandlerSpec
<1>1. Init => H!Init
  BY DEF Init
<1> QED
  BY <1>1, InitCommand, NextCommand, StepOfHandler, PTL DEF Spec, HandlerSpec, H!Spec

-----------------------------------------------------------------------------
(* What is proved about the handler alone, in the composition.               *)

HP == INSTANCE SupervisorProofs WITH pc <- hpc, parent <- Parent

\* The instances of Supervisor in ChaosVPN and in its proofs are one specification.
LEMMA SameSpec == H!Spec <=> HP!Spec
<1>1. H!Init <=> HP!Init
  BY DEF H!Init, HP!Init, H!Contexts, HP!Contexts, H!NoPid, HP!NoPid, H!NoCmd, HP!NoCmd,
     H!Running, HP!Running, H!Pids, HP!Pids
<1>2. H!vars = HP!vars
  BY DEF H!vars, HP!vars
<1>3. H!ParentStep <=> HP!ParentStep
  BY DEF H!ParentStep, HP!ParentStep, H!handler_signal_old_tincd,
     HP!handler_signal_old_tincd, H!handler_start_tincd, HP!handler_start_tincd,
     H!handler_restart_tincd, HP!handler_restart_tincd, H!handler_stop,
     HP!handler_stop, H!p_sigchild, HP!p_sigchild, H!ParentDies, HP!ParentDies,
     H!Send, HP!Send, H!parentVars, HP!parentVars, H!signalVars, HP!signalVars,
     H!processVars, HP!processVars, H!oldVars, HP!oldVars, H!handlerVars,
     HP!handlerVars, H!Running, HP!Running, H!NoPid, HP!NoPid
<1>4. H!HandlerStep <=> HP!HandlerStep
  BY DEF H!HandlerStep, HP!HandlerStep, H!ReadCommand, HP!ReadCommand, H!ReadEOF,
     HP!ReadEOF, H!TerminateOld, HP!TerminateOld, H!KillOld, HP!KillOld,
     H!OneshotExit, HP!OneshotExit, H!Fork, HP!Fork, H!StartFails, HP!StartFails,
     H!RecordPid, HP!RecordPid, H!StopTerm, HP!StopTerm, H!StopKill, HP!StopKill,
     H!Sigkill, HP!Sigkill, H!IfdownBegin, HP!IfdownBegin, H!IfdownEnd,
     HP!IfdownEnd, H!Reap, HP!Reap, H!ReapTo, HP!ReapTo, H!ReapNothing,
     HP!ReapNothing, H!CheckStatus, HP!CheckStatus, H!Contexts, HP!Contexts, H!Pids,
     HP!Pids, H!At, HP!At, H!Innermost, HP!Innermost, H!Goto, HP!Goto, H!Exit,
     HP!Exit, H!Continue, HP!Continue, H!EnterSigterm, HP!EnterSigterm, H!EntryOf,
     HP!EntryOf, H!tinc_get_pid, HP!tinc_get_pid, H!Exists, HP!Exists, H!AfterStart,
     HP!AfterStart, H!AfterStop, HP!AfterStop, H!AfterIfdown, HP!AfterIfdown,
     H!Terminates, HP!Terminates, H!Live, HP!Live, H!Fatal, HP!Fatal, H!parentVars,
     HP!parentVars, H!signalVars, HP!signalVars, H!processVars, HP!processVars,
     H!oldVars, HP!oldVars, H!handlerVars, HP!handlerVars, H!Running, HP!Running,
     H!NoPid, HP!NoPid
<1>5. H!TincdStep <=> HP!TincdStep
  BY DEF H!TincdStep, HP!TincdStep, H!TincdReady, HP!TincdReady, H!TincdCrashes,
     HP!TincdCrashes, H!TincdObeys, HP!TincdObeys, H!Pids, HP!Pids, H!Terminates,
     HP!Terminates, H!Fatal, HP!Fatal, H!parentVars, HP!parentVars, H!signalVars,
     HP!signalVars, H!processVars, HP!processVars, H!oldVars, HP!oldVars,
     H!handlerVars, HP!handlerVars, H!Running, HP!Running, H!NoPid, HP!NoPid
<1>6. (H!SigtermSent \/ H!SigtermDelivered \/ H!SigchldDelivered)
       <=> (HP!SigtermSent \/ HP!SigtermDelivered \/ HP!SigchldDelivered)
  BY DEF H!SigtermSent, HP!SigtermSent, H!SigtermDelivered, HP!SigtermDelivered,
     H!SigchldDelivered, HP!SigchldDelivered, H!EnterSigterm, HP!EnterSigterm,
     H!Goto, HP!Goto, H!parentVars, HP!parentVars, H!signalVars, HP!signalVars,
     H!processVars, HP!processVars, H!oldVars, HP!oldVars, H!handlerVars,
     HP!handlerVars, H!Running, HP!Running, H!NoPid, HP!NoPid
<1>7. [H!Next]_(H!vars) <=> [HP!Next]_(HP!vars)
  BY <1>2, <1>3, <1>4, <1>5, <1>6, Zenon DEF H!Next, HP!Next, H!vars, HP!vars
<1> QED
  BY <1>1, <1>2, <1>7, PTL DEF H!Spec, HP!Spec

\* What Supervisor assumes of its constants.
HandlerAssumptions ==
    /\ MaxPid \in Nat /\ MaxCrashes \in Nat /\ MaxRestarts \in Nat
    /\ MaxPid >= 1 + MaxCrashes + MaxRestarts
    /\ Oneshot \in BOOLEAN /\ RunIfdown \in BOOLEAN
    /\ SystemLeavesSigchld \in BOOLEAN /\ OldPid \in Nat \ {1}

\* Both processes together keep the handler's promises, whatever the parent writes, sends
\* or suffers: one tincd at a time, none after a fatal error, the old one first, and no
\* orphan but that of the window between fork() and the assignment of di_pid.
THEOREM HandlerIsSafe ==
    ASSUME HandlerAssumptions
    PROVE  Spec => [](/\ H!AtMostOneTincd /\ H!NoTincdAfterFatal
                      /\ H!OldHandledBeforeStart /\ H!OrphanOnlyFromForkWindow)
<1> USE HandlerAssumptions DEF HandlerAssumptions, HP!BoundsAssumption, HP!ConfigAssumption
<1>1. HP!Spec => []HP!AtMostOneTincd
  BY HP!OneTincd DEF HP!OneTincd
<1>2. HP!Spec => []HP!NoTincdAfterFatal
  BY HP!FatalIsFinal DEF HP!FatalIsFinal
<1>3. HP!Spec => []HP!OldHandledBeforeStart
  BY HP!OldBeforeNew DEF HP!OldBeforeNew
<1>4. HP!Spec => []HP!OrphanOnlyFromForkWindow
  BY HP!OrphansExplained DEF HP!OrphansExplained
<1>5. /\ HP!AtMostOneTincd => H!AtMostOneTincd
      /\ HP!NoTincdAfterFatal => H!NoTincdAfterFatal
      /\ HP!OldHandledBeforeStart => H!OldHandledBeforeStart
      /\ HP!OrphanOnlyFromForkWindow => H!OrphanOnlyFromForkWindow
  BY DEF HP!AtMostOneTincd, H!AtMostOneTincd, HP!NoTincdAfterFatal, H!NoTincdAfterFatal,
     HP!OldHandledBeforeStart, H!OldHandledBeforeStart, HP!OrphanOnlyFromForkWindow,
     H!OrphanOnlyFromForkWindow, HP!Pids, H!Pids, HP!Live, H!Live, HP!Fatal, H!Fatal,
     HP!NoPid, H!NoPid, HP!Running, H!Running, HP!Contexts, H!Contexts
<1> QED
  BY <1>1, <1>2, <1>3, <1>4, <1>5, SameSpec, ParentIsAsAssumed, PTL DEF HandlerSpec

=============================================================================
