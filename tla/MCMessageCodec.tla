---------------------------- MODULE MCMessageCodec ----------------------------
(***************************************************************************)
(* MessageCodec for TLC: a byte has two values, so that 2^32 is 16 and     *)
(* payloads reach the lengths around which the 32-bit sums wrap.           *)
(***************************************************************************)
EXTENDS MessageCodecProofs

MCTypes     == {0, 1}
MCWords     == {6, 15}
MCLongWords == {209}
MCStrings   == {<<>>, <<0, 1, 1>>}
MCBlocks    == {<<1, 0, 1>>}
=============================================================================
