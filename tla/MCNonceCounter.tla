--------------------------- MODULE MCNonceCounter ---------------------------
(***************************************************************************)
(* NonceCounter for TLC.                                                   *)
(***************************************************************************)
EXTENDS NonceCounter, TLC

Symmetry == Permutations(Callers)
=============================================================================
