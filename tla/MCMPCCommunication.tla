-------------------------- MODULE MCMPCCommunication --------------------------
(***************************************************************************)
(* MPCCommunication for TLC, two parties.  For safety, party 1 sends two   *)
(* messages, party 2 receives in two threads at once and sends one back.   *)
(* For liveness, whose check is far more expensive, party 2 has one such   *)
(* thread and sends nothing; then party 1 is sent nothing either, so that  *)
(* it does not matter whether it has a handler.                            *)
(***************************************************************************)
EXTENDS MPCCommunicationProofs

MCParties == {1, 2}

MCCallers == <<{}, {"a", "b"}>>
MCBudget  == <<2, 1>>

MCOneCaller == <<{}, {"a"}>>
MCOneWay    == <<2, 0>>

SenderHasHandler == handler[1]
=============================================================================
