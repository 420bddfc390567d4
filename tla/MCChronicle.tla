---------------------------- MODULE MCChronicle -----------------------------
(* Small instances of Chronicle. *)
EXTENDS Chronicle

CONSTANTS anne, ben

\* Ben has less room for events than Anne.
Limits == (anne :> 2) @@ (ben :> 1)

\* Action constraints: only Ben writes scripts, only his fail, and he alone wins battles;
\* there is one fault, an exception or a crash.
OneAuthor ==
  /\ stopped' \cup reload' \subseteq {ben}
  /\ \A i \in DOMAIN events' : events'[i].type = "error" => events'[i].player = ben
OneWinner == \A i \in DOMAIN tempEvents' : tempEvents'[i].type = "win" => tempEvents'[i].player = ben
OneFault  == aborts' + crashes' <= 1
=============================================================================
