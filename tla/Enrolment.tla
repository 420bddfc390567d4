----------------------------- MODULE Enrolment ------------------------------
(***************************************************************************)
(* What the server promises a player, whatever thread, queue, copy or      *)
(* table is involved: it signs up, it waits, and then it has a planet,     *)
(* which it keeps.                                                         *)
(***************************************************************************)
CONSTANT Player
VARIABLE status

Init == status = [p \in Player |-> "unknown"]

SignUp(p) == /\ status[p] = "unknown"
             /\ status' = [status EXCEPT ![p] = "waiting"]

\* A round serves everyone it finds waiting, and maybe players of the same moment.
Settle(S) == /\ S # {} /\ \A p \in S : status[p] = "waiting"
             /\ status' = [p \in Player |-> IF p \in S THEN "settled" ELSE status[p]]

Next == \/ \E p \in Player : SignUp(p)
        \/ \E S \in SUBSET Player : Settle(S)

Spec == /\ Init /\ [][Next]_status
        /\ \A p \in Player : WF_status(\E S \in SUBSET Player : p \in S /\ Settle(S))
=============================================================================
