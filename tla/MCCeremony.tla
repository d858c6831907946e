----------------------------- MODULE MCCeremony -----------------------------
(***************************************************************************)
(* Ceremonies for TLC.  The command lines are those of cmd/test_mpc.sh and *)
(* of neo-x-mpc.md, with as many participants as each run needs.           *)
(***************************************************************************)
EXTENDS Ceremony, TLC

Cmd(op, ins, outs, batch, beacon) ==
  [op |-> op, ins |-> ins, outs |-> outs, batch |-> batch, beacon |-> beacon]

Init1(out) == Cmd("phase1_init", <<>>, <<out>>, 0, Unset)
Contribute1(in, out) == Cmd("phase1_contribute", <<in>>, <<out>>, 0, Unset)
Verify1(prev, cur) == Cmd("phase1_verify", <<prev, cur>>, <<>>, 0, Unset)
Seal1(in, out) == Cmd("phase1_seal", <<in>>, <<out>>, 0, "test")
Init2(srs, out, batch) == Cmd("phase2_init", <<srs>>, <<out>>, batch, Unset)
Contribute2(in, out) == Cmd("phase2_contribute", <<in>>, <<out>>, 0, Unset)
Verify2(prev, cur) == Cmd("phase2_verify", <<prev, cur>>, <<>>, 0, Unset)
Seal(srs, phase2, batch, outs) == Cmd("seal", <<srs, phase2>>, outs, batch, "test")
Artifacts == <<"sol", "pk", "vk", "ccs">>
DefaultArtifacts == <<Unset, Unset, Unset, Unset>>

\* cmd/test_mpc.sh, up to the keys of the second batch size.
Script ==
  "init1" :> Init1("Phase1_1") @@
  "contribute1" :> Contribute1("Phase1_1", "Phase1_2") @@
  "verify1" :> Verify1("Phase1_1", "Phase1_2") @@
  "seal1" :> Seal1("Phase1_2", "srs_1") @@
  "init2" :> Init2("srs_1", "Phase2_1", 2) @@
  "contribute2" :> Contribute2("Phase2_1", "Phase2_2") @@
  "verify2" :> Verify2("Phase2_1", "Phase2_2") @@
  "seal" :> Seal("srs_1", "Phase2_2", 2, Artifacts)

NothingGiven == <<>>
AllCommands == Commands

\* Two participants who contribute to the same published file, of whom the
\* ceremony takes one, and the default paths of the artifacts: with two repeated
\* commands, keys are exported again after a contribution has changed.
Chain ==
  "alice1" :> Contribute1("Phase1_1", "Phase1_2") @@
  "eve1" :> Contribute1("Phase1_1", "Phase1_3") @@
  "seal1" :> Seal1("Phase1_2", "srs_1") @@
  "init2" :> Init2("srs_1", "Phase2_1", 1) @@
  "seal" :> Seal("srs_1", "Phase2_1", 1, DefaultArtifacts)

ChainGiven == "Phase1_1" :> Contribute(InitPhase1, <<"dave", 1>>)

\* Phase 2 from a published Phase2 file on: two contributions, the verification of
\* the second, and the keys.
Phase2 ==
  "alice2" :> Contribute2("Phase2_1", "Phase2_2") @@
  "bob2" :> Contribute2("Phase2_2", "Phase2_3") @@
  "verifyBob" :> Verify2("Phase2_2", "Phase2_3") @@
  "seal" :> Seal("srs_1", "Phase2_3", 1, Artifacts)

Phase2Given ==
  LET srs == SealPhase1(InitPhase1, "test") IN
  "srs_1" :> srs @@ "Phase2_1" :> InitPhase2(1, srs)

\* Two operators create Phase2 files of two batch sizes at the same time, on the
\* path that the tool chooses when it is told none: both are Phase2_1.  A third
\* one exports the keys of an older Phase2 file, and gives that path for the contract.
Defaults ==
  "seal1" :> Seal1("Phase1_1", "srs_1") @@
  "init2A" :> Init2("srs_1", Unset, 1) @@
  "init2B" :> Init2("srs_1", Unset, 2) @@
  "seal" :> Seal("srs_1", "Phase2_0", 1, <<"Phase2_1", "pk", "vk", "ccs">>)

DefaultsGiven ==
  LET srs == SealPhase1(InitPhase1, "test") IN
  "Phase1_1" :> InitPhase1 @@ "Phase2_0" :> InitPhase2(1, srs)
=============================================================================
