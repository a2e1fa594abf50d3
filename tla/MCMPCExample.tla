----------------------------- MODULE MCMPCExample -----------------------------
(***************************************************************************)
(* MPCExample for TLC: two parties.  Budget does not bound the program.    *)
(***************************************************************************)
EXTENDS MPCExample

MCParties == {1, 2}
MCCallers == <<{"main"}, {"main"}>>
MCBudget  == <<2, 1>>
=============================================================================
