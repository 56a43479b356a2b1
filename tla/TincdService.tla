------------------------------ MODULE TincdService ------------------------------
(***************************************************************************)
(* What the tincd handler promises, whatever signals and commands arrive   *)
(* in whatever order: tincd processes are born one after the other, a new  *)
(* one only when none is alive, none after a fatal error and none once the *)
(* handler has exited.                                                     *)
(***************************************************************************)
EXTENDS Naturals

VARIABLES
    live,   \* the tincd processes alive
    born,   \* how many were ever started; the newest has this number
    fatal,  \* a tincd reported a fatal error
    shut    \* the handler has exited

serviceVars == <<live, born, fatal, shut>>

Init == live = {} /\ born = 0 /\ ~fatal /\ ~shut

Start ==
    /\ live = {} /\ ~fatal /\ ~shut
    /\ born' = born + 1 /\ live' = {born + 1}
    /\ UNCHANGED <<fatal, shut>>

\* The one tincd ends, perhaps with a fatal error; its handler may exit with it.
Die ==
    /\ live = {born} /\ live' = {}
    /\ fatal' \in BOOLEAN /\ (fatal => fatal')
    /\ shut' \in BOOLEAN /\ (shut => shut')
    /\ UNCHANGED born

Shut == ~shut /\ shut' = TRUE /\ UNCHANGED <<live, born, fatal>>

Next == Start \/ Die \/ Shut

Spec == Init /\ [][Next]_serviceVars

=============================================================================
