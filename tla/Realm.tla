------------------------------- MODULE Realm --------------------------------
(***************************************************************************)
(* What a round may do to who owns which planet.  Module Engine plays a    *)
(* round in one step and lets it do just this; module Galaxy computes a    *)
(* round planet by planet and fleet by fleet and is shown to do no more.   *)
(***************************************************************************)

\* Planet c, of the players `before' and `after' (`none' is no player), whose main planets
\* are `main'.  A free planet may be settled by a player who owns another, any planet but
\* its owner's main planet may be lost, and none changes hands.
MayBecome(c, before, after, main, none) ==
    \/ after[c] = before[c]
    \/ before[c] = none /\ \E d \in DOMAIN before : after[c] = before[d]
    \/ after[c] = none /\ main[before[c]] # c

RoundMayLeave(before, after, main, none) ==
    \A c \in DOMAIN before : MayBecome(c, before, after, main, none)
=============================================================================
