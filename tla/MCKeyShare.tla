----------------------------- MODULE MCKeyShare -----------------------------
(***************************************************************************)
(* Small curves and bytes for TLC: two-bit bytes; shares of two cipher      *)
(* blocks that have the first or the second block in common; and secrets r *)
(* and -r, whose points have the same X.                                   *)
(***************************************************************************)
EXTENDS KeyShare

MCSecp == [order |-> 13, size |-> 2]
MCBls == [order |-> 32749, size |-> 8]
MCPrv == <<5, 7>>
MCShares == <<20001, 20002>>
MCSecrets == {3, 10}

\* What NoKeystreamTwice needs; KeysBind is also a theorem of KeyShareLemmas.
ASSUME MCKeyShareAssumption == CounterFits /\ KeysBind
=============================================================================
