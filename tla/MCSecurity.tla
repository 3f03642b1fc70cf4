----------------------------- MODULE MCSecurity -----------------------------
(***************************************************************************)
(* SecurityGuesses for TLC: seeds and keys of two bits, with the real      *)
(* exclusive or.                                                           *)
(***************************************************************************)
EXTENDS SecurityGuesses, Bitwise

MCXorU32(a, b) == a ^^ b
=============================================================================
