---------------------------- MODULE MCDeployment ----------------------------
(***************************************************************************)
(* Two exports for TLC into one directory, where the R1CS of another batch  *)
(* size is left over; their Phase2 files differ.  One command line is       *)
(* refused.                                                                *)
(***************************************************************************)
EXTENDS Deployment, TLC

Srs == SealPhase1(InitPhase1, "test")
First == InitPhase2(1, Srs)

DefaultPaths == <<"Verifier.sol", "ProvingKey", "VerifyingKey", "R1CS">>

Published ==
  "srs_1" :> Srs @@ "Phase2_1" :> First @@
  "Phase2_2" :> ContributePhase2(First, <<"dave", 2>>) @@
  "R1CS" :> ExportCCS(2)

Seal(phase2, batch) ==
  [op |-> "seal", ins |-> <<"srs_1", phase2>>, outs |-> <<Unset, Unset, Unset, Unset>>,
   batch |-> batch, beacon |-> "test"]

Exports ==
  "seal" :> Seal("Phase2_1", 1) @@
  "reseal" :> Seal("Phase2_2", 1) @@
  "nobatch" :> Seal("Phase2_1", 0)

\* Coordinates that all differ, without commitments and with two.
MCBodies ==
  {[points |-> <<30, 29, 28, 27, 26, 25, 24, 23>>, commitments |-> cmts, pok |-> <<20, 21>>] :
     cmts \in {<<>>, <<1, 2, 3, 4>>}}
=============================================================================
