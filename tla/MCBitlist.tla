------------------------------ MODULE MCBitlist -----------------------------
(* Bitlist with bytes of 3 bits, and sequences that end before, at and     *)
(* after the boundaries of two bytes.                                      *)
EXTENDS Bitlist
=============================================================================
