------------------------------ MODULE StartupProofs ------------------------------
(***************************************************************************)
(* Proofs about Startup, for any number of starters.  That the pidfile is  *)
(* the starter's own rests on the lock file: whoever works on the pidfile  *)
(* has created the lock file that is there.  That the parent goes on only  *)
(* with a handler that is ready rests on the byte in the pipe, which only  *)
(* a handler that is ready has written.                                    *)
(***************************************************************************)
EXTENDS Startup, TLAPS

\* The lock file belongs to the one starter that works on the pidfile.
LockIsTaken == \A s \in Starter : pc[s] \in Locking => lock = s

\* p_sigchild interrupts only a parent that has installed it, so never one that
\* holds the lock.
SigchldIsLate ==
    \A s \in Starter : chld[s] => pc[s] \in {"waiting", "ready", "fetched", "serving"}

\* The byte is written by a handler whose preparations are complete.
ByteIsTrue == \A s \in Starter : byte[s] => hpc[s] \in {"loop", "gone"}

\* A parent that goes on has read the byte; one that has not forked has no handler.
ByteIsRead ==
    \A s \in Starter :
        /\ pc[s] \in {"ready", "fetched", "serving"} => byte[s]
        /\ pc[s] \in {"launched", "pidfile", "fire"} \cup Locking => hpc[s] = "none"

Inv ==
    /\ TypeOK
    /\ LockIsTaken /\ LockIsHeld /\ PidfileIsOwn /\ SigchldIsLate
    /\ ByteIsTrue /\ ByteIsRead

-----------------------------------------------------------------------------
\* The names of the files' states are no starters.
LEMMA NamesDiffer ==
    /\ \A s \in Starter : s # None /\ s # Left /\ s # Empty
    /\ None # Left /\ None # Empty
BY StartupAssumption DEF None, Left, Empty

\* A process that ends, or goes on to another label, keeps the types of the program
\* counters, the pipes and the pending signals.
LEMMA ControlType ==
    ASSUME TypeOK, NEW s \in Starter,
           \/ ParentEnds(s)
           \/ \E label \in {"pidfile"} \cup Locking \cup Firing : Goto(s, label)
           \/ HandlerEnds(s) /\ UNCHANGED pc
    PROVE  /\ pc' \in [Starter -> {"launched", "pidfile", "gone"} \cup Locking \cup Firing]
           /\ ready' \in [Starter -> SUBSET Ends] /\ command' \in [Starter -> SUBSET Ends]
           /\ chld' \in [Starter -> BOOLEAN]
<1>1. CASE ParentEnds(s)
    BY <1>1 DEF ParentEnds, TypeOK
<1>2. CASE \E label \in {"pidfile"} \cup Locking \cup Firing : Goto(s, label)
    BY <1>2 DEF Goto, TypeOK
<1>3. CASE HandlerEnds(s) /\ UNCHANGED pc
    BY <1>3 DEF HandlerEnds, TypeOK
<1> QED
    BY <1>1, <1>2, <1>3

\* Every step keeps the types.
LEMMA TypeStep == TypeOK /\ [Next]_vars => TypeOK'
<1> SUFFICES ASSUME TypeOK, [Next]_vars PROVE TypeOK'
    OBVIOUS
<1> USE StartupAssumption DEF fileVars, pipeVars
<1>1. CASE UNCHANGED vars
    BY <1>1 DEF vars, TypeOK
<1>2. ASSUME NEW s \in Starter, ParentStep(s) PROVE TypeOK'
    <2> USE ControlType DEF MayFail
    <2>1. CASE daemonize(s)
        BY <2>1 DEF daemonize, TypeOK
    <2>2. CASE LockPidfile(s)
        BY <2>2 DEF LockPidfile, TypeOK, Locking
    <2>3. CASE OpenPidfile(s)
        BY <2>3 DEF OpenPidfile, TypeOK, Locking
    <2>4. CASE WritePidfile(s)
        BY <2>4 DEF WritePidfile, TypeOK, Locking
    <2>5. CASE UnlockPidfile(s)
        BY <2>5 DEF UnlockPidfile, TypeOK, Firing
    <2>6. CASE Fork(s)
        <3>1. CASE ParentEnds(s) /\ UNCHANGED hpc
            BY <2>6, <3>1 DEF Fork, TypeOK
        <3>2. CASE ~(ParentEnds(s) /\ UNCHANGED hpc)
            BY <2>6, <3>2 DEF Fork, TypeOK, Firing
        <3> QED
            BY <3>1, <3>2
    <2>7. CASE CloseEnds(s)
        BY <2>7 DEF CloseEnds, TypeOK, Firing
    <2>8. CASE Watch(s)
        BY <2>8 DEF Watch, TypeOK, Firing
    <2>9. CASE ReadReady(s)
        BY <2>9 DEF ReadReady, TypeOK, Firing
    <2>10. CASE DropRoot(s)
        BY <2>10 DEF DropRoot, TypeOK, Firing
    <2>11. CASE FirstCommand(s)
        BY <2>11 DEF FirstCommand, TypeOK, Firing
    <2>12. CASE p_sigchild(s)
        BY <2>12 DEF p_sigchild, TypeOK
    <2> QED
        BY <1>2, <2>1, <2>2, <2>3, <2>4, <2>5, <2>6, <2>7, <2>8, <2>9, <2>10, <2>11,
           <2>12 DEF ParentStep
<1>3. ASSUME NEW s \in Starter, HandlerStep(s) PROVE TypeOK'
    <2>1. CASE HandlerCloses(s)
        BY <2>1 DEF HandlerCloses, TypeOK
    <2>2. CASE HandlerSignals(s)
        BY <2>2 DEF HandlerSignals, TypeOK
    <2>3. CASE HandlerReports(s)
        <3>1. CASE pc[s] = "gone"
            <4>1. HandlerEnds(s) /\ UNCHANGED <<pc, fileVars, byte, kills, fails>>
                BY <2>3, <3>1 DEF HandlerReports
            <4> QED
                BY <4>1, ControlType DEF TypeOK, HandlerEnds
        <3>2. CASE pc[s] # "gone"
            BY <2>3, <3>2 DEF HandlerReports, TypeOK
        <3> QED
            BY <3>1, <3>2
    <2>4. CASE HandlerLoop(s)
        BY <2>4, ControlType DEF HandlerLoop, TypeOK, HandlerEnds
    <2> QED
        BY <1>3, <2>1, <2>2, <2>3, <2>4 DEF HandlerStep
<1>4. ASSUME NEW s \in Starter, ParentKilled(s) PROVE TypeOK'
    BY <1>4, ControlType DEF ParentKilled, TypeOK
<1>5. ASSUME NEW s \in Starter, HandlerKilled(s) PROVE TypeOK'
    BY <1>5, ControlType DEF HandlerKilled, TypeOK, HandlerEnds
<1> QED
    BY <1>1, <1>2, <1>3, <1>4, <1>5 DEF Next

\* Every step keeps the lock file and the pidfile in order: two starters never
\* work on the pidfile at once.
LEMMA FileStep ==
    TypeOK /\ LockIsTaken /\ LockIsHeld /\ PidfileIsOwn /\ SigchldIsLate /\ [Next]_vars
        => (LockIsTaken /\ LockIsHeld /\ PidfileIsOwn)'
<1> SUFFICES ASSUME TypeOK, LockIsTaken, LockIsHeld, PidfileIsOwn, SigchldIsLate, [Next]_vars
             PROVE  (LockIsTaken /\ LockIsHeld /\ PidfileIsOwn)'
    OBVIOUS
<1> USE NamesDiffer DEF TypeOK, LockIsTaken, LockIsHeld, PidfileIsOwn, Locking, fileVars
<1>1. CASE UNCHANGED vars
    BY <1>1 DEF vars
<1>2. ASSUME NEW s \in Starter, ParentStep(s)
      PROVE  (LockIsTaken /\ LockIsHeld /\ PidfileIsOwn)'
    <2> USE DEF Goto, ParentEnds
    <2>1. CASE daemonize(s)      BY <2>1 DEF daemonize
    <2>2. CASE LockPidfile(s)    BY <2>2 DEF LockPidfile
    <2>3. CASE OpenPidfile(s)    BY <2>3 DEF OpenPidfile
    <2>4. CASE WritePidfile(s)   BY <2>4 DEF WritePidfile
    <2>5. CASE UnlockPidfile(s)  BY <2>5 DEF UnlockPidfile
    <2>6. CASE Fork(s)           BY <2>6 DEF Fork
    <2>7. CASE CloseEnds(s)      BY <2>7 DEF CloseEnds
    <2>8. CASE Watch(s)          BY <2>8 DEF Watch
    <2>9. CASE ReadReady(s)      BY <2>9 DEF ReadReady
    <2>10. CASE DropRoot(s)      BY <2>10 DEF DropRoot
    <2>11. CASE FirstCommand(s)  BY <2>11 DEF FirstCommand
    <2>12. CASE p_sigchild(s)
        BY <2>12 DEF p_sigchild, SigchldIsLate
    <2> QED
        BY <1>2, <2>1, <2>2, <2>3, <2>4, <2>5, <2>6, <2>7, <2>8, <2>9, <2>10, <2>11,
           <2>12 DEF ParentStep
<1>3. ASSUME NEW s \in Starter, HandlerStep(s) \/ HandlerKilled(s)
      PROVE  (LockIsTaken /\ LockIsHeld /\ PidfileIsOwn)'
    BY <1>3 DEF HandlerStep, HandlerCloses, HandlerSignals, HandlerReports, HandlerLoop,
                HandlerKilled
<1>4. ASSUME NEW s \in Starter, ParentKilled(s)
      PROVE  (LockIsTaken /\ LockIsHeld /\ PidfileIsOwn)'
    BY <1>4 DEF ParentKilled, ParentEnds
<1> QED
    BY <1>1, <1>2, <1>3, <1>4 DEF Next

\* Every step keeps SIGCHLD away from a parent without its handler.
LEMMA SigchldStep == TypeOK /\ SigchldIsLate /\ [Next]_vars => SigchldIsLate'
<1> SUFFICES ASSUME TypeOK, SigchldIsLate, [Next]_vars PROVE SigchldIsLate'
    OBVIOUS
<1> USE DEF TypeOK, SigchldIsLate, Locking, Firing, fileVars, pipeVars
<1>1. CASE UNCHANGED vars
    BY <1>1 DEF vars
<1>2. ASSUME NEW s \in Starter, ParentStep(s) PROVE SigchldIsLate'
    <2> USE DEF Goto, ParentEnds
    <2>1. CASE daemonize(s) \/ LockPidfile(s) \/ OpenPidfile(s) \/ WritePidfile(s)
        BY <2>1 DEF daemonize, LockPidfile, OpenPidfile, WritePidfile
    <2>2. CASE UnlockPidfile(s) \/ Fork(s) \/ CloseEnds(s) \/ Watch(s)
        BY <2>2 DEF UnlockPidfile, Fork, CloseEnds, Watch
    <2>3. CASE ReadReady(s) \/ DropRoot(s) \/ FirstCommand(s) \/ p_sigchild(s)
        BY <2>3 DEF ReadReady, DropRoot, FirstCommand, p_sigchild
    <2> QED
        BY <1>2, <2>1, <2>2, <2>3 DEF ParentStep
<1>3. ASSUME NEW s \in Starter, HandlerStep(s) \/ HandlerKilled(s) PROVE SigchldIsLate'
    BY <1>3 DEF HandlerStep, HandlerCloses, HandlerSignals, HandlerReports, HandlerLoop,
                HandlerKilled, HandlerEnds
<1>4. ASSUME NEW s \in Starter, ParentKilled(s) PROVE SigchldIsLate'
    BY <1>4 DEF ParentKilled, ParentEnds
<1> QED
    BY <1>1, <1>2, <1>3, <1>4 DEF Next

\* Every step keeps the byte of the handshake truthful.
LEMMA ByteStep ==
    TypeOK /\ ByteIsTrue /\ ByteIsRead /\ [Next]_vars => (ByteIsTrue /\ ByteIsRead)'
<1> SUFFICES ASSUME TypeOK, ByteIsTrue, ByteIsRead, [Next]_vars
             PROVE  (ByteIsTrue /\ ByteIsRead)'
    OBVIOUS
<1> USE DEF TypeOK, ByteIsTrue, ByteIsRead, Locking, Firing, fileVars, pipeVars
<1>1. CASE UNCHANGED vars
    BY <1>1 DEF vars
<1>2. ASSUME NEW s \in Starter, ParentStep(s) PROVE (ByteIsTrue /\ ByteIsRead)'
    <2> USE DEF Goto, ParentEnds
    <2>1. CASE daemonize(s)
        BY <2>1 DEF daemonize
    <2>2. CASE LockPidfile(s)
        BY <2>2 DEF LockPidfile
    <2>3. CASE OpenPidfile(s)
        BY <2>3 DEF OpenPidfile
    <2>4. CASE WritePidfile(s)
        BY <2>4 DEF WritePidfile
    <2>5. CASE UnlockPidfile(s)
        BY <2>5 DEF UnlockPidfile
    <2>6. CASE Fork(s)
        BY <2>6 DEF Fork
    <2>7. CASE CloseEnds(s)
        BY <2>7 DEF CloseEnds
    <2>8. CASE Watch(s)
        BY <2>8 DEF Watch
    <2>9. CASE ReadReady(s)
        BY <2>9 DEF ReadReady
    <2>10. CASE DropRoot(s)
        BY <2>10 DEF DropRoot
    <2>11. CASE FirstCommand(s)
        BY <2>11 DEF FirstCommand
    <2>12. CASE p_sigchild(s)
        BY <2>12 DEF p_sigchild
    <2> QED
        BY <1>2, <2>1, <2>2, <2>3, <2>4, <2>5, <2>6, <2>7, <2>8, <2>9, <2>10, <2>11,
           <2>12 DEF ParentStep
<1>3. ASSUME NEW s \in Starter, HandlerStep(s) PROVE (ByteIsTrue /\ ByteIsRead)'
    <2> USE DEF HandlerEnds
    <2>1. CASE HandlerCloses(s)
        BY <2>1 DEF HandlerCloses
    <2>2. CASE HandlerSignals(s)
        BY <2>2 DEF HandlerSignals
    <2>3. CASE HandlerReports(s)
        BY <2>3 DEF HandlerReports
    <2>4. CASE HandlerLoop(s)
        BY <2>4 DEF HandlerLoop
    <2> QED
        BY <1>3, <2>1, <2>2, <2>3, <2>4 DEF HandlerStep
<1>4. ASSUME NEW s \in Starter, ParentKilled(s) PROVE (ByteIsTrue /\ ByteIsRead)'
    BY <1>4 DEF ParentKilled, ParentEnds
<1>5. ASSUME NEW s \in Starter, HandlerKilled(s) PROVE (ByteIsTrue /\ ByteIsRead)'
    BY <1>5 DEF HandlerKilled, HandlerEnds
<1> QED
    BY <1>1, <1>2, <1>3, <1>4, <1>5 DEF Next

-----------------------------------------------------------------------------
\* The inductive invariant holds in every reachable state, for any number of
\* starters, kills and failing calls.
LEMMA Invariance == Spec => []Inv
<1>1. Init => Inv
    BY StartupAssumption, NamesDiffer
    DEF Init, Inv, TypeOK, LockIsTaken, LockIsHeld, PidfileIsOwn, SigchldIsLate,
        ByteIsTrue, ByteIsRead, Locking, Firing
<1>2. Inv /\ [Next]_vars => Inv'
    BY TypeStep, FileStep, SigchldStep, ByteStep DEF Inv
<1> QED
    BY <1>1, <1>2, PTL DEF Spec

\* The variables of every start have their types.
THEOREM StartupTypeCorrect == Spec => []TypeOK
<1>1. Inv => TypeOK
    BY DEF Inv
<1> QED
    BY <1>1, Invariance, PTL

\* However many are started at once, pidfile_create_pidfile succeeds only with the
\* caller's own pid in the file: open(O_EXCL) of the lock file keeps the others out.
THEOREM PidfileOwned == Spec => []PidfileIsOwn
<1>1. Inv => PidfileIsOwn
    BY DEF Inv
<1> QED
    BY <1>1, Invariance, PTL

\* Every way out of pidfile_create_pidfile unlinks the lock file: only a process
\* that is killed, or an unlink that fails, leaves one that blocks later starts.
THEOREM LockReleased == Spec => []LockIsHeld
<1>1. Inv => LockIsHeld
    BY DEF Inv
<1> QED
    BY <1>1, Invariance, PTL

\* The parent leaves fire_up_tincd_handler only when the handler has installed its
\* handlers of signals, unless the handler is dead.
THEOREM HandshakeIsTrue == Spec => []ReadyIsTrue
<1>1. Inv => ReadyIsTrue
    BY DEF Inv, ByteIsTrue, ByteIsRead, ReadyIsTrue
<1> QED
    BY <1>1, Invariance, PTL

=============================================================================
