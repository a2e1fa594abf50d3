-------------------------- MODULE MCAdditiveSharing --------------------------
(***************************************************************************)
(* AdditiveSharing for TLC: three parties and the field of five elements.  *)
(* Two draws per call of generateShares, chosen apart in both coordinates, *)
(* stand for all 25; with them each of the eleven sharings of a session    *)
(* still takes two different values independently of the others.           *)
(***************************************************************************)
EXTENDS AdditiveSharingProofs

MCLocals == {0, 2, 4}
MCCoins  == {1, 3}
MCDraws  == {<<1, 3>>, <<4, 0>>}
=============================================================================
