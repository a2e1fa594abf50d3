------------------------------ MODULE MCReqRep ------------------------------
(***************************************************************************)
(* Who sends to whom in the instances of ReqRep that TLC checks.           *)
(***************************************************************************)
EXTENDS ReqRepProofs

\* Party 1 sends to both others, one by one or with sendToAll; 2 and 3 send on, so
\* that there are chains and cycles of two and of three parties.
MCTargets == <<{2, 3}, {3}, {1}>>
=============================================================================
