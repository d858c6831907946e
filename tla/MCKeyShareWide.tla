--------------------------- MODULE MCKeyShareWide ---------------------------
(***************************************************************************)
(* A byte of one bit, so that a batch of three does not fit into it, and   *)
(* recipients and shares that repeat.                                      *)
(***************************************************************************)
EXTENDS KeyShare

MCSecp == [order |-> 13, size |-> 4]
MCBls == [order |-> 61, size |-> 6]
MCPrv == <<5, 5, 7>>
MCShares == <<41, 42, 42>>

\* What HonestProves and ProofDecrypts need, evaluated; both are also theorems of
\* KeyShareLemmas.  The counter comes back in this instance.
ASSUME MCKeyShareWideAssumption == BitsAgree /\ KeysBind
=============================================================================
