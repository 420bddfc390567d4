----------------------------- MODULE MCAccounts -----------------------------
(* Small instances of Accounts. *)
EXTENDS Accounts

\* One skill, whose levels cost 1 and 2 points of experience.
Base  == [s \in Skill |-> 2]
First == [s \in Skill |-> 0]
Top   == [s \in Skill |-> 2]

\* An action constraint: only the first player fights.
OneFighter == \A p \in 2 .. players' : experience'[p] = 0
=============================================================================
