---------------------------- MODULE MCLateHandler ----------------------------
(***************************************************************************)
(* LateHandler for TLC: parties 1 and 3 send to whom they like, party 2    *)
(* receives in one thread and sets its handler late.  The senders start    *)
(* one after the other, with a handler of their own, and stay up.          *)
(***************************************************************************)
EXTENDS LateHandlerProofs

MCParties == {1, 2, 3}
MCCallers == <<{}, {"a"}, {}>>
MCBudget  == <<2, 0, 1>>
MCLate    == {2}

SendersOnlySend ==
  /\ \A s \in {1, 3} : owner[s] \in {"new", "starting", "up"} /\ handler[s]
  /\ owner[3] # "new" => owner[1] = "up"
=============================================================================
