---------------------------- MODULE SupervisorProofs ----------------------------
(***************************************************************************)
(* Proofs about the tincd handler, for every number of processes, crashes  *)
(* and restarts and every configuration: type correctness, an inductive    *)
(* invariant, the safety properties that follow from it, and that the      *)
(* handler implements TincdService.                                        *)
(***************************************************************************)
EXTENDS Supervisor, TLAPS

USE DEF Pids, Contexts, Commands, NoPid, NoCmd, Running, Locations, TincdStates,
        Statuses, Fatal, parentVars, signalVars, processVars, oldVars, handlerVars

\* The end of a process, for which the kernel leaves a zombie and a SIGCHLD or
\* nothing, keeps the types of the process table and of the pending signals.
LEMMA TerminatesType ==
    ASSUME TypeOK, NEW p \in Pids \cup {NoPid}, NEW st \in Statuses, Terminates(p, st)
    PROVE  /\ tincd' \in [Pids -> TincdStates]
           /\ status' \in [Pids -> Statuses]
           /\ pending' \subseteq {"SIGCHLD", "SIGTERM"}
<1>1. CASE hexit = Running /\ chldact = "sigchild"
  BY <1>1 DEF TypeOK, Terminates
<1>2. CASE ~(hexit = Running /\ chldact = "sigchild")
  BY <1>2 DEF TypeOK, Terminates
<1> QED
  BY <1>1, <1>2

\* The state in which fire_up_tincd_handler enters its loop has the right types.
LEMMA InitType == Init => TypeOK
  BY BoundsAssumption, ConfigAssumption DEF Init, TypeOK

\* Every step of parent, handler and tincd keeps the types.
LEMMA NextType == ASSUME TypeOK, [Next]_vars PROVE TypeOK'
<1> USE BoundsAssumption, ConfigAssumption DEF TypeOK
<1>1. CASE handler_signal_old_tincd
  BY <1>1 DEF handler_signal_old_tincd, Send
<1>2. CASE handler_start_tincd
  BY <1>2 DEF handler_start_tincd, Send
<1>3. CASE handler_restart_tincd
  BY <1>3 DEF handler_restart_tincd, Send
<1>4. CASE handler_stop
  BY <1>4 DEF handler_stop, Send
<1>5. CASE p_sigchild
  BY <1>5 DEF p_sigchild
<1>6. CASE ParentDies
  BY <1>6 DEF ParentDies
<1>7. CASE SigtermSent
  BY <1>7 DEF SigtermSent
<1>8. CASE SigtermDelivered
  BY <1>8 DEF SigtermDelivered, EnterSigterm, Goto
<1>9. CASE SigchldDelivered
  BY <1>9 DEF SigchldDelivered, Goto
<1>10. CASE ReadCommand
  <2>1. Head(pipe) \in Commands /\ Tail(pipe) \in Seq(Commands)
    BY <1>10 DEF ReadCommand
  <2>2. EntryOf(Head(pipe)) \in Locations
    BY <2>1 DEF EntryOf
  <2>3. pending' \subseteq {"SIGCHLD", "SIGTERM"} /\ chldact' \in {"sigchild", "SIG_IGN"}
    <3>1. CASE Head(pipe) = "STOP"
      BY <1>10, <3>1 DEF ReadCommand
    <3>2. CASE Head(pipe) # "STOP"
      BY <1>10, <3>2 DEF ReadCommand
    <3> QED
      BY <3>1, <3>2
  <2>4. pc' \in [Contexts -> Locations]
    BY <1>10, <2>2 DEF ReadCommand, Goto
  <2> QED
    BY <1>10, <2>1, <2>3, <2>4 DEF ReadCommand
<1>11. CASE ReadEOF
  BY <1>11 DEF ReadEOF, EnterSigterm, Goto
<1>12. CASE TerminateOld
  BY <1>12 DEF TerminateOld, tinc_get_pid, Goto
<1>13. CASE KillOld
  BY <1>13 DEF KillOld, Goto
<1>14. CASE OneshotExit
  BY <1>14 DEF OneshotExit, Exit
<1>15. ASSUME NEW c \in Contexts, Fork(c) PROVE TypeOK'
  BY <1>15 DEF Fork, Goto
<1>16. ASSUME NEW c \in Contexts, StartFails(c) PROVE TypeOK'
  BY <1>16 DEF StartFails, Exit
<1>17. ASSUME NEW c \in Contexts, RecordPid(c) PROVE TypeOK'
  BY <1>17 DEF RecordPid, AfterStart, Goto
<1>18. ASSUME NEW c \in Contexts, StopTerm(c) PROVE TypeOK'
  BY <1>18 DEF StopTerm, AfterStop, Continue, Goto, Exit
<1>19. ASSUME NEW c \in Contexts, StopKill(c) PROVE TypeOK'
  <2>1. /\ tincd' \in [Pids -> TincdStates]
        /\ status' \in [Pids -> Statuses]
        /\ pending' \subseteq {"SIGCHLD", "SIGTERM"}
    BY <1>19, TerminatesType DEF StopKill, Sigkill
  <2> QED
    BY <1>19, <2>1 DEF StopKill, Sigkill, AfterStop, Continue, Goto, Exit
<1>20. ASSUME NEW c \in Contexts, IfdownBegin(c) PROVE TypeOK'
  BY <1>20 DEF IfdownBegin, AfterIfdown, Goto
<1>21. ASSUME NEW c \in Contexts, IfdownEnd(c) PROVE TypeOK'
  BY <1>21 DEF IfdownEnd, AfterIfdown, Goto
<1>22. ASSUME NEW p \in Pids, Reap(p) PROVE TypeOK'
  BY <1>22 DEF Reap, ReapTo, Goto
<1>23. CASE ReapNothing
  BY <1>23 DEF ReapNothing, Goto
<1>24. CASE CheckStatus
  BY <1>24 DEF CheckStatus, Continue, Goto, Exit
<1>25. ASSUME NEW p \in Pids, TincdReady(p) PROVE TypeOK'
  BY <1>25 DEF TincdReady
<1>26. ASSUME NEW p \in Pids, NEW st \in {0, Fatal}, TincdCrashes(p, st)
      PROVE TypeOK'
  <2>1. /\ tincd' \in [Pids -> TincdStates]
        /\ status' \in [Pids -> Statuses]
        /\ pending' \subseteq {"SIGCHLD", "SIGTERM"}
    BY <1>26, TerminatesType DEF TincdCrashes
  <2> QED
    BY <1>26, <2>1 DEF TincdCrashes
<1>27. ASSUME NEW p \in Pids, NEW st \in {0, Fatal}, TincdObeys(p, st)
      PROVE TypeOK'
  <2>1. /\ tincd' \in [Pids -> TincdStates]
        /\ status' \in [Pids -> Statuses]
        /\ pending' \subseteq {"SIGCHLD", "SIGTERM"}
    BY <1>27, TerminatesType DEF TincdObeys
  <2> QED
    BY <1>27, <2>1 DEF TincdObeys
<1>28. CASE UNCHANGED vars
  BY <1>28 DEF vars
<1> HIDE DEF TypeOK
<1> QED
  BY <1>1, <1>2, <1>3, <1>4, <1>5, <1>6, <1>7, <1>8, <1>9, <1>10, <1>11, <1>12, <1>13, <1>14, <1>15, <1>16, <1>17, <1>18, <1>19, <1>20, <1>21, <1>22, <1>23, <1>24, <1>25, <1>26, <1>27, <1>28
     DEF Next, ParentStep, HandlerStep, TincdStep

\* Every variable of the handler keeps its type.
THEOREM TypeCorrect == Spec => []TypeOK
  BY InitType, NextType, PTL DEF Spec

-----------------------------------------------------------------------------
(* The inductive invariant.                                                  *)

\* The contexts stay in their own code.
PcInv ==
    /\ pc["main"] \in {"select", "old", "oldsleep", "start", "forked", "started",
                       "stop", "stopping", "ifdown", "system"}
    /\ pc["sigchild"] \in {"off", "wait", "ifdown", "system", "check", "start", "forked"}
    /\ pc["sigterm"] \in {"off", "stop", "stopping"}
    /\ pc["main"] = "started" => Oneshot
    /\ \A c \in Contexts : pc[c] = "system" => RunIfdown

\* START is sent, read and acted upon once, after SIGNAL_OLD.
PipeInv ==
    /\ parent = "old" => pipe = <<>> /\ pc["main"] = "select" /\ signalled = NoPid
    /\ \A i \in DOMAIN pipe : pipe[i] = "SIGNAL_OLD" =>
          i = 1 /\ pc["main"] = "select" /\ signalled = NoPid
    /\ \A i, j \in DOMAIN pipe : pipe[i] = "START" /\ pipe[j] = "START" => i = j
    /\ \A i \in DOMAIN pipe : pipe[i] = "START" => parent # "start"
    /\ (pc["main"] = "start" \/ lastpid > 0) =>
          /\ signalled # NoPid /\ parent \notin {"old", "start"}
          /\ \A i \in DOMAIN pipe : pipe[i] # "START"
    /\ pc["main"] \in {"start", "old", "oldsleep"} => lastpid = 0
    /\ signalled = NoPid /\ parent # "old" =>
          \/ pc["main"] = "old"
          \/ pc["main"] = "select" /\ pipe # <<>> /\ pipe[1] = "SIGNAL_OLD"
          \/ parent = "exited" /\ pipe = <<>> /\ pc["main"] = "select"

\* Every process but the newest has been reaped.
NewestInv ==
    /\ \A p \in Pids : tincd[p] = "none" <=> p > lastpid
    /\ \A p \in Pids : p < lastpid => tincd[p] = "gone" /\ status[p] # Fatal

\* di_pid is the newest process, unless a daemon_start is about to record it.
RecordInv ==
    /\ di_pid # NoPid => di_pid <= lastpid
    /\ lastpid > 0 /\ di_pid # lastpid =>
          \E c \in {"main", "sigchild"} : pc[c] = "forked" /\ local[c] = lastpid
    /\ \A c \in Contexts : pc[c] = "forked" => lastpid > 0 /\ local[c] = lastpid
    /\ pc["main"] = "forked" => di_pid = NoPid /\ pc["sigchild"] \in {"off", "wait"}

\* sigchild gets past waitpid only for the recorded tincd, which is then gone.
SigchildInv ==
    /\ pc["sigchild"] \in {"ifdown", "system", "check", "start"} =>
          di_pid = lastpid /\ lastpid > 0 /\ tincd[lastpid] = "gone"
    /\ pc["sigchild"] = "start" => status[lastpid] # Fatal
    /\ pc["sigchild"] = "forked" => di_pid # NoPid

\* daemon_stop kills only what it has terminated; STOP and sigterm work with
\* SIGCHLD ignored, so that di_pid is still the pid they read.
StopInv ==
    /\ \A c \in Contexts : pc[c] = "stopping" =>
          /\ local[c] \in Pids /\ local[c] <= lastpid
          /\ Live(local[c]) => tincd[local[c]] = "terming"
    /\ pc["main"] \in {"stop", "stopping"} => cmd \in {"RESTART", "STOP"}
    /\ pc["main"] \in {"ifdown", "system"} => cmd \in {"RESTART", "STOP"}
    /\ pc["main"] \in {"ifdown", "system", "stop", "stopping"} /\ cmd = "STOP" =>
          chldact = "SIG_IGN" /\ pc["sigchild"] = "off"
    /\ pc["main"] = "stopping" /\ cmd = "STOP" => local["main"] = di_pid
    /\ pc["sigterm"] # "off" => chldact = "SIG_IGN"
    /\ pc["sigterm"] = "stopping" => local["sigterm"] = di_pid
    /\ chldact = "SIG_IGN" => "SIGCHLD" \notin pending

\* A RESTART is sent, read and acted upon after START.
RestartInv ==
    LET Starts == lastpid > 0 \/ pc["main"] = "start"
    IN  /\ \A i \in DOMAIN pipe : pipe[i] = "RESTART" =>
              Starts \/ \E j \in DOMAIN pipe : j < i /\ pipe[j] = "START"
        /\ parent = "loop" => Starts \/ \E j \in DOMAIN pipe : pipe[j] = "START"
        /\ pc["main"] \in {"stop", "stopping", "ifdown", "system"} /\ cmd = "RESTART" =>
              lastpid > 0

\* system() may have left a SIGCHLD, of a tinc-down after the first tincd.
Stray == RunIfdown /\ SystemLeavesSigchld /\ di_pid # NoPid

\* A SIGCHLD stands for a zombie, or for the end of a tinc-down; waitpid consumes it.
ZombieInv ==
    /\ "SIGCHLD" \in pending => lastpid > 0 /\ (tincd[lastpid] = "zombie" \/ Stray)
    /\ pc["sigchild"] = "wait" =>
          /\ lastpid > 0 /\ (Live(lastpid) => "SIGCHLD" \notin pending)
          /\ (tincd[lastpid] = "zombie" /\ "SIGCHLD" \notin pending) \/ Stray

\* The inductive invariant.
IInv ==
    /\ PcInv /\ PipeInv /\ NewestInv /\ RecordInv /\ SigchildInv /\ StopInv
    /\ RestartInv /\ ZombieInv /\ OrphanOnlyFromForkWindow

\* The inductive invariant holds when the handler enters its loop.
LEMMA InitInvariant == Init => IInv
  BY BoundsAssumption, ConfigAssumption DEF Init, IInv, PcInv, PipeInv, NewestInv,
     RecordInv, SigchildInv, StopInv, RestartInv, Stray, ZombieInv, OrphanOnlyFromForkWindow, Live

\* Every step keeps RestartInv: the parent sends START before it enters its loop.
LEMMA NextRestart ==
    ASSUME TypeOK, TypeOK', PcInv, PipeInv, RestartInv, [Next]_vars PROVE RestartInv'
<1> USE BoundsAssumption, ConfigAssumption DEF TypeOK, RestartInv, PcInv
<1>1. ASSUME NEW command \in Commands, NEW next, Send(command, next),
             command = "RESTART" => parent = "loop",
             next = "loop" => parent = "loop" \/ command = "START"
      PROVE  RestartInv'
  <2>1. /\ Len(pipe) \in Nat /\ DOMAIN pipe = 1..Len(pipe) /\ DOMAIN pipe' = 1..(Len(pipe) + 1)
        /\ \A i \in 1..Len(pipe) : pipe'[i] = pipe[i]
        /\ pipe'[Len(pipe) + 1] = command
    BY <1>1 DEF Send
  <2>2. UNCHANGED <<pc, lastpid, cmd>> /\ parent' = next
    BY <1>1 DEF Send
  <2>3. ASSUME NEW i \in DOMAIN pipe', pipe'[i] = "RESTART"
        PROVE  lastpid > 0 \/ pc["main"] = "start"
                 \/ \E j \in DOMAIN pipe' : j < i /\ pipe'[j] = "START"
    <3>1. CASE i \in 1..Len(pipe)
      BY <2>1, <2>3, <3>1
    <3>2. CASE i = Len(pipe) + 1
      BY <1>1, <2>1, <2>3, <3>2
    <3> QED
      BY <2>1, <3>1, <3>2
  <2>4. next = "loop" => lastpid > 0 \/ pc["main"] = "start"
                           \/ \E j \in DOMAIN pipe' : pipe'[j] = "START"
    <3>1. CASE command = "START"
      <4>1. Len(pipe) + 1 \in DOMAIN pipe' /\ pipe'[Len(pipe) + 1] = "START"
        BY <2>1, <3>1
      <4> QED
        BY <4>1
    <3>2. CASE parent = "loop"
      BY <2>1, <3>2
    <3> QED
      BY <1>1, <3>1, <3>2
  <2> QED
    BY <2>2, <2>3, <2>4
<1>2. CASE handler_signal_old_tincd
  BY <1>1, <1>2 DEF handler_signal_old_tincd
<1>3. CASE handler_start_tincd
  BY <1>1, <1>3 DEF handler_start_tincd
<1>4. CASE handler_restart_tincd
  BY <1>1, <1>4 DEF handler_restart_tincd
<1>5. CASE handler_stop
  BY <1>1, <1>5 DEF handler_stop
<1>6. CASE p_sigchild \/ ParentDies
  BY <1>6 DEF p_sigchild, ParentDies
<1>7. CASE SigtermSent \/ SigtermDelivered \/ SigchldDelivered
  BY <1>7 DEF SigtermSent, SigtermDelivered, EnterSigterm, SigchldDelivered, Goto
<1>8. CASE ReadCommand
  <2>1. /\ Len(pipe) \in Nat \ {0} /\ DOMAIN pipe = 1..Len(pipe)
        /\ DOMAIN pipe' = 1..(Len(pipe) - 1)
        /\ \A i \in DOMAIN pipe' : pipe'[i] = pipe[i + 1]
        /\ Head(pipe) = pipe[1] /\ pipe[1] \in Commands
    BY <1>8 DEF ReadCommand
  <2>2. /\ pc["main"] = "select" /\ pc'["main"] = EntryOf(pipe[1]) /\ cmd' = pipe[1]
        /\ UNCHANGED <<lastpid, parent>>
    BY <1>8, <2>1 DEF ReadCommand, At, Goto
  <2>3. CASE pipe[1] = "START"
    <3>1. pc'["main"] = "start"
      BY <2>2, <2>3 DEF EntryOf
    <3> QED
      BY <2>2, <3>1
  <2>4. CASE pipe[1] # "START"
    <3>1. ASSUME NEW i \in DOMAIN pipe', pipe'[i] = "RESTART"
          PROVE  lastpid > 0 \/ \E j \in DOMAIN pipe' : j < i /\ pipe'[j] = "START"
      <4>1. i + 1 \in DOMAIN pipe /\ pipe[i + 1] = "RESTART"
        BY <2>1, <3>1
      <4>2. CASE lastpid > 0
        BY <4>2
      <4>3. CASE \E j \in DOMAIN pipe : j < i + 1 /\ pipe[j] = "START"
        <5>1. PICK j \in DOMAIN pipe : j < i + 1 /\ pipe[j] = "START"
          BY <4>3
        <5>2. j - 1 \in DOMAIN pipe' /\ j - 1 < i /\ pipe'[j - 1] = pipe[(j - 1) + 1]
          BY <2>1, <2>4, <5>1
        <5>3. (j - 1) + 1 = j
          BY <2>1
        <5> QED
          BY <5>1, <5>2, <5>3
      <4> QED
        BY <2>2, <4>1, <4>2, <4>3
    <3>2. parent = "loop" => lastpid > 0 \/ \E j \in DOMAIN pipe' : pipe'[j] = "START"
      <4> SUFFICES ASSUME parent = "loop", ~(lastpid > 0)
                   PROVE  \E j \in DOMAIN pipe' : pipe'[j] = "START"
        OBVIOUS
      <4>1. PICK j \in DOMAIN pipe : pipe[j] = "START"
        BY <2>2
      <4>2. j - 1 \in DOMAIN pipe' /\ pipe'[j - 1] = pipe[(j - 1) + 1]
        BY <2>1, <2>4, <4>1
      <4>3. (j - 1) + 1 = j
        BY <2>1
      <4> QED
        BY <4>1, <4>2, <4>3
    <3>3. pipe[1] = "RESTART" => lastpid > 0
      <4>1. 1 \in DOMAIN pipe /\ \A j \in DOMAIN pipe : ~(j < 1)
        BY <2>1
      <4> QED
        BY <2>2, <4>1
    <3> QED
      BY <2>1, <2>2, <3>1, <3>2, <3>3
  <2> QED
    BY <2>3, <2>4
<1>9. CASE ReadEOF
  BY <1>9 DEF ReadEOF, EnterSigterm, Goto
<1>10. CASE TerminateOld \/ KillOld
  BY <1>10 DEF TerminateOld, KillOld, At, Goto
<1>11. CASE OneshotExit
  BY <1>11 DEF OneshotExit, Exit
<1>12. ASSUME NEW c \in Contexts, Fork(c) \/ StartFails(c) \/ RecordPid(c) PROVE RestartInv'
  BY <1>12 DEF Fork, StartFails, RecordPid, AfterStart, At, Goto, Exit
<1>13. ASSUME NEW c \in Contexts, StopTerm(c) PROVE RestartInv'
  BY <1>13 DEF StopTerm, AfterStop, At, Continue, Goto, Exit
<1>14. ASSUME NEW c \in Contexts, StopKill(c) PROVE RestartInv'
  <2>1. UNCHANGED <<pipe, parent, lastpid, cmd>>
    BY <1>14 DEF StopKill, Sigkill
  <2>2. \/ pc' = pc
        \/ pc'["main"] = pc["main"]
        \/ pc["main"] = "stopping" /\ pc'["main"] = "ifdown"
    BY <1>14 DEF StopKill, Sigkill, AfterStop, At, Continue, Goto, Exit
  <2> QED
    BY <2>1, <2>2
<1>15. ASSUME NEW c \in Contexts, IfdownBegin(c) \/ IfdownEnd(c) PROVE RestartInv'
  BY <1>15 DEF IfdownBegin, IfdownEnd, AfterIfdown, At, Goto
<1>16. ASSUME NEW p \in Pids, Reap(p) PROVE RestartInv'
  BY <1>16 DEF Reap, ReapTo, Goto
<1>17. CASE ReapNothing \/ CheckStatus
  BY <1>17 DEF ReapNothing, CheckStatus, Continue, Goto, Exit
<1>18. CASE TincdStep
  BY <1>18 DEF TincdStep, TincdReady, TincdCrashes, TincdObeys
<1>19. CASE UNCHANGED vars
  BY <1>19 DEF vars
<1> HIDE DEF TypeOK, RestartInv, PcInv
<1> QED
  BY <1>2, <1>3, <1>4, <1>5, <1>6, <1>7, <1>8, <1>9, <1>10, <1>11, <1>12, <1>13, <1>14,
     <1>15, <1>16, <1>17, <1>18, <1>19 DEF Next, ParentStep, HandlerStep

\* Every step keeps the inductive invariant.  Only the steps that touch a process
\* or the pipe disturb more than the location of a context.
LEMMA NextInvariant == ASSUME TypeOK, TypeOK', IInv, [Next]_vars PROVE IInv'
<1>0. RestartInv'
  BY NextRestart DEF IInv
<1>a. pc["main"] = "system" /\ cmd = "RESTART" => lastpid > 0
  BY DEF IInv, RestartInv
<1> USE BoundsAssumption, ConfigAssumption, <1>0
<1> USE DEF TypeOK, IInv, PcInv, PipeInv, NewestInv, RecordInv, SigchildInv, StopInv,
            Stray, ZombieInv, OrphanOnlyFromForkWindow, Live, At, Innermost
<1>1. CASE handler_signal_old_tincd
  <2>1. PcInv'
    BY <1>1 DEF handler_signal_old_tincd, Send
  <2>2. PipeInv'
    <3>1. /\ pipe' = <<"SIGNAL_OLD">> /\ pc["main"] = "select" /\ signalled = NoPid
          /\ lastpid = 0 /\ parent' = "start" /\ UNCHANGED <<pc, signalled, lastpid>>
      BY <1>1 DEF handler_signal_old_tincd, Send
    <3> HIDE DEF NewestInv, RecordInv, SigchildInv, StopInv, ZombieInv,
                 OrphanOnlyFromForkWindow
    <3> QED
      BY <3>1
  <2>3. NewestInv'
    BY <1>1 DEF handler_signal_old_tincd, Send
  <2>4. RecordInv'
    BY <1>1 DEF handler_signal_old_tincd, Send
  <2>5. SigchildInv'
    BY <1>1 DEF handler_signal_old_tincd, Send
  <2>6. StopInv'
    BY <1>1 DEF handler_signal_old_tincd, Send
  <2>7. ZombieInv'
    BY <1>1 DEF handler_signal_old_tincd, Send
  <2>8. OrphanOnlyFromForkWindow'
    BY <1>1 DEF handler_signal_old_tincd, Send
  <2> QED
    BY <2>1, <2>2, <2>3, <2>4, <2>5, <2>6, <2>7, <2>8
<1>2. CASE handler_start_tincd
  BY <1>2 DEF handler_start_tincd, Send
<1>3. CASE handler_restart_tincd
  BY <1>3 DEF handler_restart_tincd, Send
<1>4. CASE handler_stop
  BY <1>4 DEF handler_stop, Send
<1>5. CASE p_sigchild
  BY <1>5 DEF p_sigchild
<1>6. CASE ParentDies
  BY <1>6 DEF ParentDies
<1>7. CASE SigtermSent
  BY <1>7 DEF SigtermSent
<1>8. CASE SigtermDelivered
  BY <1>8 DEF SigtermDelivered, EnterSigterm, Goto
<1>9. CASE SigchldDelivered
  BY <1>9 DEF SigchldDelivered, Goto
<1>10. CASE ReadCommand
  <2>1. PcInv'
    BY <1>10 DEF ReadCommand, Goto, EntryOf
  <2>2. PipeInv'
    <3>1. /\ pipe' = Tail(pipe) /\ Len(pipe') = Len(pipe) - 1
          /\ \A i \in DOMAIN pipe' : i + 1 \in DOMAIN pipe /\ pipe'[i] = pipe[i + 1]
      BY <1>10 DEF ReadCommand
    <3>2. Head(pipe) = pipe[1] /\ 1 \in DOMAIN pipe
      BY <1>10 DEF ReadCommand
    <3>3. CASE pipe[1] = "SIGNAL_OLD"
      <4>1. pc'["main"] = "old" /\ signalled = NoPid /\ lastpid = 0
        BY <1>10, <3>2, <3>3 DEF ReadCommand, Goto, EntryOf
      <4>2. \A i \in DOMAIN pipe' : pipe'[i] # "SIGNAL_OLD"
        BY <3>1
      <4>3. UNCHANGED <<parent, signalled, lastpid>> /\ parent # "old"
        BY <1>10, <3>2 DEF ReadCommand
      <4> QED
        BY <3>1, <4>1, <4>2, <4>3
    <3>4. CASE pipe[1] = "START"
      <4> HIDE DEF NewestInv, RecordInv, SigchildInv, StopInv, ZombieInv,
                   OrphanOnlyFromForkWindow
      <4>1. pc'["main"] = "start" /\ signalled # NoPid /\ lastpid = 0 /\ parent # "start"
        <5>1. pc'["main"] = "start" /\ pc["main"] = "select"
          BY <1>10, <3>2, <3>4 DEF ReadCommand, Goto, EntryOf
        <5>2. parent # "start" /\ parent # "old" /\ lastpid = 0
          BY <3>2, <3>4
        <5> QED
          BY <3>2, <3>4, <5>1, <5>2
      <4>2. \A i \in DOMAIN pipe' : pipe'[i] \notin {"SIGNAL_OLD", "START"}
        BY SMTT(60), <3>1, <3>2, <3>4
      <4>3. UNCHANGED <<parent, signalled, lastpid>> /\ parent # "old"
        BY <1>10, <3>2 DEF ReadCommand
      <4> QED
        BY <3>1, <4>1, <4>2, <4>3
    <3>5. CASE pipe[1] \in {"RESTART", "STOP"}
      BY SMTT(60), <1>10, <3>1, <3>2, <3>5 DEF ReadCommand, Goto, EntryOf
    <3> QED
      BY <3>2, <3>3, <3>4, <3>5
  <2>3. NewestInv'
    BY <1>10 DEF ReadCommand, Goto, EntryOf
  <2>4. RecordInv'
    BY SMTT(60), <1>10 DEF ReadCommand, Goto, EntryOf
  <2>5. SigchildInv'
    BY <1>10 DEF ReadCommand, Goto, EntryOf
  <2>6. StopInv'
    BY SMTT(60), <1>10 DEF ReadCommand, Goto, EntryOf
  <2>7. ZombieInv'
    BY SMTT(60), <1>10 DEF ReadCommand, Goto, EntryOf
  <2>8. OrphanOnlyFromForkWindow'
    BY <1>10 DEF ReadCommand, Goto, EntryOf
  <2> QED
    BY <2>1, <2>2, <2>3, <2>4, <2>5, <2>6, <2>7, <2>8
<1>11. CASE ReadEOF
  BY <1>11 DEF ReadEOF, EnterSigterm, Goto
<1>12. CASE TerminateOld
  BY <1>12 DEF TerminateOld, tinc_get_pid, Goto
<1>13. CASE KillOld
  BY <1>13 DEF KillOld, Goto
<1>14. CASE OneshotExit
  BY <1>14 DEF OneshotExit, Exit
<1>15. ASSUME NEW c \in Contexts, Fork(c) PROVE IInv'
  BY <1>15 DEF Fork, Goto
<1>16. ASSUME NEW c \in Contexts, StartFails(c) PROVE IInv'
  BY <1>16 DEF StartFails, Exit
<1>17. ASSUME NEW c \in Contexts, RecordPid(c) PROVE IInv'
  BY <1>17 DEF RecordPid, AfterStart, Goto
<1>18. ASSUME NEW c \in Contexts, StopTerm(c) PROVE IInv'
  BY SMTT(60), <1>18 DEF StopTerm, AfterStop, Continue, Goto, Exit
<1>19. ASSUME NEW c \in Contexts, StopKill(c) PROVE IInv'
  <2>1. PcInv'
    BY <1>19 DEF StopKill, Sigkill, Terminates, AfterStop, Continue, Goto, Exit
  <2>2. PipeInv'
    BY <1>19 DEF StopKill, Sigkill, Terminates, AfterStop, Continue, Goto, Exit
  <2>3. NewestInv'
    BY <1>19 DEF StopKill, Sigkill, Terminates, AfterStop, Continue, Goto, Exit
  <2>4. RecordInv'
    BY <1>19 DEF StopKill, Sigkill, Terminates, AfterStop, Continue, Goto, Exit
  <2>5. SigchildInv'
    BY <1>19 DEF StopKill, Sigkill, Terminates, AfterStop, Continue, Goto, Exit
  <2>6. StopInv'
    BY SMTT(60), <1>19 DEF StopKill, Sigkill, Terminates, AfterStop, Continue, Goto, Exit
  <2>7. ZombieInv'
    BY <1>19 DEF StopKill, Sigkill, Terminates, AfterStop, Continue, Goto, Exit
  <2>8. OrphanOnlyFromForkWindow'
    BY <1>19 DEF StopKill, Sigkill, Terminates, AfterStop, Continue, Goto, Exit
  <2> QED
    BY <2>1, <2>2, <2>3, <2>4, <2>5, <2>6, <2>7, <2>8
<1>20. ASSUME NEW c \in Contexts, IfdownBegin(c) PROVE IInv'
  BY <1>20 DEF IfdownBegin, AfterIfdown, Goto
<1>21. ASSUME NEW c \in Contexts, IfdownEnd(c) PROVE IInv'
  BY <1>21, <1>a DEF IfdownEnd, AfterIfdown, Goto
<1>22. ASSUME NEW p \in Pids, Reap(p) PROVE IInv'
  BY <1>22 DEF Reap, ReapTo, Goto
<1>23. CASE ReapNothing
  BY <1>23 DEF ReapNothing, Goto
<1>24. CASE CheckStatus
  BY <1>24 DEF CheckStatus, Continue, Goto, Exit
<1>25. ASSUME NEW p \in Pids, TincdReady(p) PROVE IInv'
  BY <1>25 DEF TincdReady
<1>26. ASSUME NEW p \in Pids, NEW st \in {0, Fatal}, TincdCrashes(p, st)
      PROVE IInv'
  <2>1. PcInv'
    BY <1>26 DEF TincdCrashes, Terminates
  <2>2. PipeInv'
    BY <1>26 DEF TincdCrashes, Terminates
  <2>3. NewestInv'
    BY <1>26 DEF TincdCrashes, Terminates
  <2>4. RecordInv'
    BY <1>26 DEF TincdCrashes, Terminates
  <2>5. SigchildInv'
    BY <1>26 DEF TincdCrashes, Terminates
  <2>6. StopInv'
    BY SMTT(60), <1>26 DEF TincdCrashes, Terminates
  <2>7. ZombieInv'
    <3>1. /\ p = lastpid /\ lastpid > 0 /\ ("SIGCHLD" \in pending => Stray)
          /\ (pc["sigchild"] = "wait" => Stray) /\ UNCHANGED <<pc, lastpid, di_pid>>
      BY <1>26 DEF TincdCrashes
    <3>2. CASE hexit = Running /\ chldact = "sigchild"
      BY <1>26, <3>1, <3>2 DEF TincdCrashes, Terminates
    <3>3. CASE ~(hexit = Running /\ chldact = "sigchild")
      BY <1>26, <3>1, <3>3 DEF TincdCrashes, Terminates
    <3> QED
      BY <3>2, <3>3
  <2>8. OrphanOnlyFromForkWindow'
    BY <1>26 DEF TincdCrashes, Terminates
  <2> QED
    BY <2>1, <2>2, <2>3, <2>4, <2>5, <2>6, <2>7, <2>8
<1>27. ASSUME NEW p \in Pids, NEW st \in {0, Fatal}, TincdObeys(p, st)
      PROVE IInv'
  <2>1. PcInv'
    BY <1>27 DEF TincdObeys, Terminates
  <2>2. PipeInv'
    BY <1>27 DEF TincdObeys, Terminates
  <2>3. NewestInv'
    BY SMTT(60), <1>27 DEF TincdObeys, Terminates
  <2>4. RecordInv'
    BY <1>27 DEF TincdObeys, Terminates
  <2>5. SigchildInv'
    BY <1>27 DEF TincdObeys, Terminates
  <2>6. StopInv'
    BY SMTT(60), <1>27 DEF TincdObeys, Terminates
  <2>7. ZombieInv'
    <3>1. /\ p = lastpid /\ lastpid > 0 /\ ("SIGCHLD" \in pending => Stray)
          /\ (pc["sigchild"] = "wait" => Stray) /\ UNCHANGED <<pc, lastpid, di_pid>>
      BY SMTT(60), <1>27 DEF TincdObeys
    <3>2. CASE hexit = Running /\ chldact = "sigchild"
      BY <1>27, <3>1, <3>2 DEF TincdObeys, Terminates
    <3>3. CASE ~(hexit = Running /\ chldact = "sigchild")
      BY <1>27, <3>1, <3>3 DEF TincdObeys, Terminates
    <3> QED
      BY <3>2, <3>3
  <2>8. OrphanOnlyFromForkWindow'
    BY <1>27 DEF TincdObeys, Terminates
  <2> QED
    BY <2>1, <2>2, <2>3, <2>4, <2>5, <2>6, <2>7, <2>8
<1>28. CASE UNCHANGED vars
  BY <1>28 DEF vars
<1> HIDE DEF TypeOK, IInv, PcInv, PipeInv, NewestInv, RecordInv, SigchildInv, StopInv,
             Stray, ZombieInv, OrphanOnlyFromForkWindow, Live, At, Innermost
<1> QED
  BY <1>1, <1>2, <1>3, <1>4, <1>5, <1>6, <1>7, <1>8, <1>9, <1>10, <1>11, <1>12, <1>13, <1>14, <1>15, <1>16, <1>17, <1>18, <1>19, <1>20, <1>21, <1>22, <1>23, <1>24, <1>25, <1>26, <1>27, <1>28
     DEF Next, ParentStep, HandlerStep, TincdStep

\* The inductive invariant holds in every state of the handler.
THEOREM Invariant == Spec => [](TypeOK /\ IInv)
<1>1. Init => TypeOK /\ IInv
  BY InitType, InitInvariant
<1>2. TypeOK /\ IInv /\ [Next]_vars => TypeOK' /\ IInv'
  BY NextType, NextInvariant
<1> QED
  BY <1>1, <1>2, PTL DEF Spec

\* There are never two tincd processes at a time: daemon_start is reached only by
\* START, once, and by sigchild after it has reaped the newest process.
THEOREM OneTincd == Spec => []AtMostOneTincd
<1>1. TypeOK /\ IInv => AtMostOneTincd
  BY BoundsAssumption DEF TypeOK, IInv, NewestInv, AtMostOneTincd, Live
<1> QED
  BY <1>1, Invariant, PTL

\* No tincd is started after one has ended with status 1 (sigchild).
THEOREM FatalIsFinal == Spec => []NoTincdAfterFatal
<1>1. TypeOK /\ IInv => NoTincdAfterFatal
  BY BoundsAssumption DEF TypeOK, IInv, NewestInv, NoTincdAfterFatal
<1> QED
  BY <1>1, Invariant, PTL

\* A controlling handler that exits leaves a tincd behind only when sigterm came
\* between the fork and the assignment of di_pid in daemon_start.
THEOREM OrphansExplained == Spec => []OrphanOnlyFromForkWindow
<1>1. IInv => OrphanOnlyFromForkWindow
  BY DEF IInv
<1> QED
  BY <1>1, Invariant, PTL

\* main_terminate_old_tincd is through before daemon_start forks the first tincd:
\* SIGNAL_OLD is written to the pipe before START, and both are read in order.
THEOREM OldBeforeNew == Spec => []OldHandledBeforeStart
<1>1. TypeOK /\ IInv => OldHandledBeforeStart
  BY BoundsAssumption DEF TypeOK, IInv, PipeInv, OldHandledBeforeStart
<1> QED
  BY <1>1, Invariant, PTL

\* The waitpid of sigchild finds a zombie and does not block, except on the SIGCHLD
\* of system(), one wait for each of them, for the recorded tincd: whatever RESTARTs,
\* deaths and tinc-downs interleave.
THEOREM SigchildResponsive == Spec => []SigchildBlocksOnlyForSystem
<1>1. ASSUME TypeOK, IInv, pc["sigchild"] = "wait", NEW p \in Pids, Live(p)
      PROVE  /\ RunIfdown /\ SystemLeavesSigchld
             /\ p = di_pid /\ "SIGCHLD" \notin pending
  <2>1. p = lastpid
    BY <1>1, BoundsAssumption DEF TypeOK, IInv, NewestInv, Live
  <2>2. tincd[lastpid] # "zombie"
    BY <1>1, <2>1 DEF Live
  <2>3. Stray /\ "SIGCHLD" \notin pending
    BY <1>1, <2>1, <2>2 DEF IInv, ZombieInv
  <2>4. di_pid = lastpid
    BY <1>1, <2>3, BoundsAssumption DEF TypeOK, IInv, ZombieInv, RecordInv, Stray
  <2> QED
    BY <2>1, <2>3, <2>4 DEF Stray
<1>2. TypeOK /\ IInv => SigchildBlocksOnlyForSystem
  BY <1>1 DEF SigchildBlocksOnlyForSystem
<1> QED
  BY <1>2, Invariant, PTL

\* daemon_stop never kills a process that it has not asked to terminate before.
THEOREM KillAfterTerm == Spec => KillOnlyAfterTerm
<1> DEFINE Step == \A p \in Pids :
                Live(p) /\ ~Live(p)' /\ status'[p] = 9 => tincd[p] = "terming"
<1>1. TypeOK /\ IInv /\ [Next]_vars => [Step]_vars
  <2> SUFFICES ASSUME TypeOK, IInv, Next,
                      NEW p \in Pids, Live(p), ~Live(p)', status'[p] = 9
               PROVE  tincd[p] = "terming"
    OBVIOUS
  <2>1. CASE ParentStep \/ SigtermSent \/ SigtermDelivered \/ SigchldDelivered
    BY <2>1 DEF ParentStep, handler_signal_old_tincd, handler_start_tincd, handler_stop,
       handler_restart_tincd, p_sigchild, ParentDies, Send, SigtermSent, SigtermDelivered,
       SigchldDelivered, Live
  <2>2. CASE TincdStep
    <3>1. CASE \E q \in Pids : TincdReady(q)
      BY <3>1 DEF TincdReady, TypeOK, Live
    <3>2. CASE \E q \in Pids, st \in {0, Fatal} : TincdCrashes(q, st) \/ TincdObeys(q, st)
      <4> PICK q \in Pids, st \in {0, Fatal} : Terminates(q, st)
        BY <3>2 DEF TincdCrashes, TincdObeys
      <4>1. status' = [status EXCEPT ![q] = st] /\ \A r \in Pids \ {q} : tincd'[r] = tincd[r]
        BY DEF Terminates, TypeOK
      <4> QED
        BY <4>1 DEF TypeOK, Live
    <3> QED
      BY <2>2, <3>1, <3>2 DEF TincdStep
  <2>3. CASE \E c \in Contexts : StopKill(c)
    <3> PICK c \in Contexts : StopKill(c)
      BY <2>3
    <3>1. pc[c] = "stopping" /\ local[c] \in Pids
      BY DEF StopKill, Sigkill, At, IInv, StopInv
    <3>2. CASE Live(local[c])
      <4>1. \A r \in Pids \ {local[c]} : tincd'[r] = tincd[r]
        BY <3>1, <3>2 DEF StopKill, Sigkill, Terminates, TypeOK
      <4>2. p = local[c]
        BY <4>1 DEF Live
      <4> QED
        BY <3>1, <4>2 DEF IInv, StopInv
    <3>3. CASE ~Live(local[c])
      BY <3>3 DEF StopKill, Sigkill, Live
    <3> QED
      BY <3>2, <3>3
  <2>4. CASE \E c \in Contexts : StopTerm(c) \/ Fork(c)
    BY <2>4, BoundsAssumption DEF StopTerm, Fork, TypeOK, Live
  <2>5. CASE \E q \in Pids : Reap(q)
    BY <2>5 DEF Reap, ReapTo, TypeOK, Live
  <2> QED
    BY <2>1, <2>2, <2>3, <2>4, <2>5 DEF Next, HandlerStep, ReadCommand, ReadEOF,
       TerminateOld, KillOld, OneshotExit, StartFails, RecordPid, IfdownBegin,
       IfdownEnd, ReapNothing, CheckStatus, Live
<1> QED
  BY <1>1, Invariant, PTL DEF Spec, KillOnlyAfterTerm

\* Every process but the newest is gone: waitpid has reaped it.
LEMMA OnlyNewestLives ==
    ASSUME TypeOK, IInv
    PROVE  \A p \in Pids : tincd[p] \notin {"none", "gone"} => p = lastpid
  BY BoundsAssumption DEF TypeOK, IInv, NewestInv

\* With $run_ifdown, sigchild gets past tinc_invoke_ifdown only through tinc-down, and
\* nothing sets the interface up again before it has forked the successor.
IfaceInv == RunIfdown /\ pc["sigchild"] \in {"check", "start"} => iface = 0

\* Every step keeps it; the only tincd that could run tinc-up meanwhile is gone.
LEMMA IfaceStep == ASSUME TypeOK, IInv, IfaceInv, [Next]_vars PROVE IfaceInv'
<1> USE DEF IfaceInv
<1>1. CASE ParentStep \/ SigtermSent \/ SigtermDelivered \/ SigchldDelivered
  BY <1>1 DEF ParentStep, handler_signal_old_tincd, handler_start_tincd, handler_stop,
     handler_restart_tincd, p_sigchild, ParentDies, Send, SigtermSent, SigtermDelivered,
     EnterSigterm, SigchldDelivered, Goto, TypeOK
<1>2. CASE ReadCommand \/ ReadEOF \/ TerminateOld \/ KillOld \/ OneshotExit \/ ReapNothing
  BY <1>2 DEF ReadCommand, ReadEOF, TerminateOld, KillOld, OneshotExit, ReapNothing,
     EnterSigterm, Goto, Exit, TypeOK
<1>3. CASE CheckStatus
  BY <1>3 DEF CheckStatus, At, Continue, Goto, Exit, TypeOK
<1>4. ASSUME NEW c \in Contexts, Fork(c) \/ StartFails(c) \/ RecordPid(c) PROVE IfaceInv'
  BY <1>4 DEF Fork, StartFails, RecordPid, AfterStart, Goto, Exit, TypeOK
<1>5. ASSUME NEW c \in Contexts, StopTerm(c) \/ StopKill(c) PROVE IfaceInv'
  BY <1>5 DEF StopTerm, StopKill, Sigkill, AfterStop, Continue, Goto, Exit, TypeOK
<1>6. ASSUME NEW c \in Contexts, IfdownBegin(c) PROVE IfaceInv'
  BY <1>6 DEF IfdownBegin, AfterIfdown, Goto, TypeOK
<1>7. ASSUME NEW c \in Contexts, IfdownEnd(c) PROVE IfaceInv'
  BY <1>7 DEF IfdownEnd
<1>8. ASSUME NEW p \in Pids, Reap(p) PROVE IfaceInv'
  BY <1>8 DEF Reap, ReapTo, Goto, TypeOK
<1>9. ASSUME NEW p \in Pids, TincdReady(p) PROVE IfaceInv'
  <2>1. tincd[p] = "starting" /\ p = lastpid
    BY <1>9, OnlyNewestLives DEF TincdReady
  <2>2. pc["sigchild"] \notin {"check", "start"}
    BY <2>1 DEF IInv, SigchildInv
  <2> QED
    BY <1>9, <2>2 DEF TincdReady
<1>10. ASSUME NEW p \in Pids, NEW st \in {0, Fatal}, TincdCrashes(p, st) \/ TincdObeys(p, st)
       PROVE IfaceInv'
  BY <1>10 DEF TincdCrashes, TincdObeys
<1>11. CASE UNCHANGED vars
  BY <1>11 DEF vars
<1> HIDE DEF IfaceInv
<1> QED
  BY <1>1, <1>2, <1>3, <1>4, <1>5, <1>6, <1>7, <1>8, <1>9, <1>10, <1>11
     DEF Next, HandlerStep, TincdStep

\* With $run_ifdown, sigchild starts a successor only on an interface that tinc-down has
\* taken down since the death of its predecessor, whatever RESTARTs come in between.
THEOREM SuccessorOnCleanInterface == Spec => RestartOnCleanInterface
<1> DEFINE Step == \A p \in Pids :
                RunIfdown /\ p > 1 /\ tincd[p] = "none" /\ tincd'[p] = "starting" => iface = 0
<1>1. Init => IfaceInv
  BY DEF Init, IfaceInv
<1>2. TypeOK /\ IInv /\ IfaceInv /\ [Next]_vars => [Step]_vars
  <2> SUFFICES ASSUME TypeOK, IInv, IfaceInv, Next, NEW p \in Pids,
                      RunIfdown, p > 1, tincd[p] = "none", tincd'[p] = "starting"
               PROVE  iface = 0
    OBVIOUS
  <2>1. CASE \E c \in Contexts : Fork(c)
    <3> PICK c \in Contexts : Fork(c)
      BY <2>1
    <3>1. pc[c] = "start" /\ p = lastpid + 1
      BY BoundsAssumption DEF Fork, At, TypeOK
    <3>2. c = "sigchild"
      BY <3>1, BoundsAssumption DEF TypeOK, IInv, PcInv, PipeInv
    <3> QED
      BY <3>1, <3>2 DEF IfaceInv
  <2>2. CASE ParentStep \/ SigtermSent \/ SigtermDelivered \/ SigchldDelivered
    BY <2>2 DEF ParentStep, handler_signal_old_tincd, handler_start_tincd, handler_stop,
       handler_restart_tincd, p_sigchild, ParentDies, Send, SigtermSent, SigtermDelivered,
       SigchldDelivered
  <2>3. ASSUME NEW q \in Pids, NEW st \in Statuses, Terminates(q, st) PROVE FALSE
    <3>1. tincd'[q] \in {"zombie", "gone"} /\ \A r \in Pids \ {q} : tincd'[r] = tincd[r]
      BY <2>3 DEF Terminates, TypeOK
    <3> QED
      BY <3>1
  <2>4. CASE TincdStep
    <3>1. CASE \E q \in Pids : TincdReady(q)
      BY <3>1 DEF TincdReady, TypeOK
    <3> QED
      BY <2>3, <2>4, <3>1 DEF TincdStep, TincdCrashes, TincdObeys
  <2>5. CASE \E c \in Contexts : StopKill(c)
    <3> PICK c \in Contexts : StopKill(c)
      BY <2>5
    <3>1. local[c] \in Pids
      BY DEF StopKill, Sigkill, At, IInv, StopInv
    <3> QED
      BY <2>3, <3>1 DEF StopKill, Sigkill
  <2>6. CASE \E c \in Contexts : StopTerm(c)
    BY <2>6 DEF StopTerm, TypeOK, Live
  <2>7. CASE \E q \in Pids : Reap(q)
    BY <2>7 DEF Reap, ReapTo, TypeOK
  <2> QED
    BY <2>1, <2>2, <2>4, <2>5, <2>6, <2>7 DEF Next, HandlerStep, ReadCommand, ReadEOF,
       TerminateOld, KillOld, OneshotExit, StartFails, RecordPid, IfdownBegin,
       IfdownEnd, ReapNothing, CheckStatus
<1>3. Spec => []IfaceInv
  BY <1>1, IfaceStep, Invariant, PTL DEF Spec
<1> QED
  BY <1>2, <1>3, Invariant, PTL DEF Spec, RestartOnCleanInterface

-----------------------------------------------------------------------------
(* The handler implements the abstract service.                              *)

\* The fork of daemon_start is a Start of the abstract service.
LEMMA ForkStarts ==
    ASSUME TypeOK, IInv, NEW c \in Contexts, Fork(c)
    PROVE  Service!Start
<1> USE BoundsAssumption DEF TypeOK, IInv
<1>1. \A p \in Pids : tincd[p] \in {"none", "gone"}
  BY OnlyNewestLives DEF Fork, At, PcInv, PipeInv, NewestInv, SigchildInv, RecordInv
<1>2. \A p \in Pids : tincd[p] = "gone" => status[p] # Fatal
  BY DEF Fork, At, PcInv, PipeInv, NewestInv, SigchildInv, RecordInv
<1>3. LivePids = {} /\ ~FatalSeen
  BY <1>1, <1>2 DEF LivePids, FatalSeen, Live
<1>4. LivePids' = {lastpid + 1}
  BY <1>1 DEF Fork, LivePids, Live
<1>5. FatalSeen' = FatalSeen
  BY <1>1, <1>2 DEF Fork, FatalSeen
<1> QED
  BY <1>3, <1>4, <1>5 DEF Fork, At, Service!Start

\* The end of a live process is the end of the only one the abstract service has.
LEMMA TerminationDies ==
    ASSUME TypeOK, IInv, NEW p \in Pids, NEW st \in Statuses, Live(p), Terminates(p, st),
           UNCHANGED lastpid
    PROVE  /\ LivePids = {lastpid} /\ LivePids' = {}
           /\ FatalSeen => FatalSeen'
<1>1. p = lastpid /\ \A q \in Pids : Live(q) => q = p
  BY OnlyNewestLives DEF Live
<1>2. tincd'[p] \in {"zombie", "gone"} /\ \A q \in Pids \ {p} : tincd'[q] = tincd[q]
  BY DEF Terminates, TypeOK
<1>3. \A q \in Pids \ {p} : status'[q] = status[q]
  BY DEF Terminates, TypeOK
<1> QED
  BY <1>1, <1>2, <1>3 DEF LivePids, FatalSeen, Live

\* The handler implements the abstract service, with LivePids, lastpid, FatalSeen
\* and the exit of the handler in place of its variables.
THEOREM Refinement == Spec => ServiceSpec
<1>1. Init => Service!Init
  BY BoundsAssumption DEF Init, Service!Init, LivePids, FatalSeen, Live
<1>2. TypeOK /\ TypeOK' /\ IInv /\ [Next]_vars => [Service!Next]_(Service!serviceVars)
  <2> SUFFICES ASSUME TypeOK, TypeOK', IInv, [Next]_vars
               PROVE  Service!Next \/ UNCHANGED Service!serviceVars
    OBVIOUS
  <2> USE DEF Service!Next, Service!serviceVars
  <2>1. ASSUME UNCHANGED <<tincd, status, lastpid>>, hexit = Running \/ UNCHANGED hexit
        PROVE  Service!Next \/ UNCHANGED Service!serviceVars
    BY <2>1 DEF LivePids, FatalSeen, Live, Service!Shut
  <2>2. CASE ParentStep \/ SigtermSent \/ SigtermDelivered \/ SigchldDelivered
    BY <2>1, <2>2 DEF ParentStep, handler_signal_old_tincd, handler_start_tincd,
       handler_stop, handler_restart_tincd, p_sigchild, ParentDies, Send, SigtermSent,
       SigtermDelivered, SigchldDelivered
  <2>3. CASE ReadCommand \/ ReadEOF \/ TerminateOld \/ KillOld \/ OneshotExit
             \/ ReapNothing \/ CheckStatus
    BY <2>1, <2>3 DEF ReadCommand, ReadEOF, TerminateOld, KillOld, OneshotExit,
       ReapNothing, CheckStatus, At
  <2>4. ASSUME NEW c \in Contexts,
               StartFails(c) \/ RecordPid(c) \/ IfdownBegin(c) \/ IfdownEnd(c)
        PROVE  Service!Next \/ UNCHANGED Service!serviceVars
    BY <2>1, <2>4 DEF StartFails, RecordPid, IfdownBegin, IfdownEnd, At
  <2>5. ASSUME NEW c \in Contexts, Fork(c) PROVE Service!Next
    BY <2>5, ForkStarts
  <2>6. ASSUME NEW c \in Contexts, StopTerm(c)
        PROVE  Service!Next \/ UNCHANGED Service!serviceVars
    <3>1. LivePids' = LivePids /\ FatalSeen' = FatalSeen
      BY <2>6 DEF StopTerm, LivePids, FatalSeen, Live, TypeOK
    <3> QED
      BY <2>6, <3>1 DEF StopTerm, At, Service!Shut
  <2>7. ASSUME NEW c \in Contexts, StopKill(c)
        PROVE  Service!Next \/ UNCHANGED Service!serviceVars
    <3>1. CASE local[c] \in Pids /\ Live(local[c])
      <4>1. Terminates(local[c], 9) /\ UNCHANGED lastpid /\ hexit = Running
        BY <2>7, <3>1 DEF StopKill, Sigkill, At
      <4> QED
        BY <3>1, <4>1, TerminationDies DEF Service!Die, FatalSeen
    <3>2. CASE ~(local[c] \in Pids /\ Live(local[c]))
      BY <2>1, <2>7, <3>2 DEF StopKill, Sigkill, At, IInv, StopInv
    <3> QED
      BY <3>1, <3>2
  <2>8. ASSUME NEW p \in Pids, Reap(p) \/ TincdReady(p)
        PROVE  UNCHANGED Service!serviceVars
    BY <2>8 DEF Reap, ReapTo, TincdReady, LivePids, FatalSeen, Live, TypeOK
  <2>9. ASSUME NEW p \in Pids, NEW st \in {0, Fatal},
               TincdCrashes(p, st) \/ TincdObeys(p, st)
        PROVE  Service!Next
    <3>1. Live(p) /\ Terminates(p, st) /\ UNCHANGED <<lastpid, hexit>>
      BY <2>9 DEF TincdCrashes, TincdObeys, Live
    <3> QED
      BY <3>1, TerminationDies DEF Service!Die, FatalSeen
  <2>10. CASE UNCHANGED vars
    BY <2>1, <2>10 DEF vars
  <2> QED
    BY <2>2, <2>3, <2>4, <2>5, <2>6, <2>7, <2>8, <2>9, <2>10
       DEF Next, HandlerStep, TincdStep
<1> QED
  BY <1>1, <1>2, Invariant, TypeCorrect, PTL DEF Spec, ServiceSpec, Service!Spec

=============================================================================
