--------------------------- MODULE MCAtomicWrite ---------------------------
(***************************************************************************)
(* AtomicWrite for TLC: the calls and the paths are model values.          *)
(***************************************************************************)
EXTENDS AtomicWrite, TLC

\* The calls are alike, and so are the paths.
Symmetry == Permutations(Calls) \cup Permutations(Targets)
=============================================================================
