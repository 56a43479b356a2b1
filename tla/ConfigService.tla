------------------------------ MODULE ConfigService ------------------------------
(***************************************************************************)
(* What the parent process promises the tincd handler, whatever the server *)
(* publishes and whatever fails: the files are complete except while they  *)
(* are written and after a write that failed; START comes once, after the  *)
(* first attempt; every RESTART announces a configuration that was written *)
(* since the last command, completely unless a failure was overlooked;     *)
(* SIGTERM leads to STOP, the last command of all.                         *)
(***************************************************************************)
EXTENDS Integers

CONSTANT Configs        \* configurations that can be installed

None == 0               \* the files are not those of one configuration

VARIABLES
    state,      \* "unstarted", "running", "stopped" or "crashed"
    work,       \* "idle", "writing", or "owed": written, and not yet announced
    installed,  \* configuration that the files hold
    overlooked, \* a call failed in the write at hand, and nobody noticed
    fresh,      \* nothing in the files is older than this start of chaosvpn, and no
                \* two of its configurations are alike
    term,       \* a SIGTERM has arrived
    last        \* last command sent to the handler

serviceVars == <<state, work, installed, overlooked, fresh, term, last>>

Init ==
    /\ state = "unstarted" /\ work = "idle" /\ installed = None
    /\ overlooked = FALSE /\ fresh \in BOOLEAN /\ term = FALSE /\ last = "none"

Alive == state \in {"unstarted", "running"}

BeginWrite ==
    /\ Alive /\ work = "idle"
    /\ work' = "writing" /\ installed' = None /\ overlooked' \in BOOLEAN
    /\ UNCHANGED <<state, fresh, term, last>>

\* The old files are removed, not all of them can be, and nothing is written.
Damage ==
    /\ Alive /\ work = "idle" /\ installed' = None
    /\ UNCHANGED <<state, work, overlooked, fresh, term, last>>

\* A file is not written, without notice.
Overlook ==
    /\ Alive /\ work = "writing" /\ overlooked' = TRUE
    /\ UNCHANGED <<state, work, installed, fresh, term, last>>

EndWrite ==
    /\ Alive /\ work = "writing"
    /\ work' = "owed"
    /\ overlooked' \in {overlooked, TRUE}
    /\ installed' \in Configs \cup (IF overlooked' THEN {None} ELSE {})
    /\ UNCHANGED <<state, fresh, term, last>>

\* A write fails.  The files may be complete all the same, when the rest of the
\* same configuration was there before, or nothing was written or removed at all.
GiveUp ==
    /\ Alive /\ work = "writing"
    /\ work' = "idle" /\ overlooked' = FALSE
    /\ installed' \in {None} \cup (IF fresh /\ ~overlooked THEN {} ELSE Configs)
    /\ UNCHANGED <<state, fresh, term, last>>

\* A configuration older than the accepted one may be installed again from now on.
Stale ==
    /\ Alive /\ work # "writing" /\ fresh' = FALSE
    /\ UNCHANGED <<state, work, installed, overlooked, term, last>>

\* START, whatever became of the first attempt.
SendStart ==
    /\ state = "unstarted" /\ work # "writing"
    /\ state' = "running" /\ work' = "idle" /\ last' = "START"
    /\ overlooked' = FALSE
    /\ UNCHANGED <<installed, fresh, term>>

SendRestart ==
    /\ state = "running" /\ work = "owed" /\ work' = "idle"
    /\ last' = "RESTART" /\ overlooked' = FALSE
    /\ UNCHANGED <<state, installed, fresh, term>>

SendStop ==
    /\ state = "running" /\ work = "idle" /\ term
    /\ state' = "stopped" /\ last' = "STOP"
    /\ UNCHANGED <<work, installed, overlooked, fresh, term>>

Sigterm ==
    /\ Alive /\ term' = TRUE
    /\ UNCHANGED <<state, work, installed, overlooked, fresh, last>>

\* The process dies, and may be started again.
Crash ==
    /\ Alive /\ state' = "crashed" /\ work' = "idle"
    /\ overlooked' = FALSE /\ fresh' = FALSE
    /\ installed' \in (IF work = "writing" THEN Configs \cup {None} ELSE {installed, None})
    /\ UNCHANGED <<term, last>>

Restart ==
    /\ state = "crashed" /\ state' = "unstarted" /\ term' = FALSE /\ last' = "none"
    /\ UNCHANGED <<work, installed, overlooked, fresh>>

Write == BeginWrite \/ Damage \/ Overlook \/ EndWrite \/ GiveUp
Send  == SendStart \/ SendRestart \/ SendStop
Next  == Write \/ Stale \/ Send \/ Sigterm \/ Crash \/ Restart

Spec == Init /\ [][Next]_serviceVars

\* What was begun is brought to an end.
Fairness ==
    /\ WF_serviceVars(EndWrite \/ GiveUp) /\ WF_serviceVars(SendStart)
    /\ WF_serviceVars(SendRestart) /\ WF_serviceVars(SendStop)

FairSpec == Spec /\ Fairness

=============================================================================
