-------------------------- MODULE DeploymentProofs --------------------------
(***************************************************************************)
(* Theorems about Deployment, for any nodes, any command lines and any     *)
(* paths of the artifacts.                                                 *)
(***************************************************************************)
EXTENDS Deployment, CeremonyProofs

\* Nodes and the chain do nothing to the ceremony.
LEMMA DeploymentStep == [DeploymentNext]_allVars => [Next]_vars
<1> SUFFICES ASSUME [DeploymentNext]_allVars PROVE [Next]_vars
  OBVIOUS
<1>1. CASE \E n \in Nodes : Step(n)
  BY <1>1 DEF Step, Load, Prove, Submit
<1> QED
  BY <1>1 DEF DeploymentNext, Deploy, allVars

\* The commands beside the nodes behave as those of Ceremony.
THEOREM DeploymentIsCeremony == DeploymentSpec => Spec
BY DeploymentStep, PTL DEF DeploymentSpec, DeploymentInit, Spec

\* What the ceremony's proofs say holds beside the nodes: the files of a command
\* that has succeeded belong together.
THEOREM DeployedDerives == DeploymentSpec => []Derived
BY DeploymentIsCeremony, SuccessDerives, PTL

\* The kinds of the files that a node reads.
Loads == <<"pk", "vk", "r1cs">>

\* What a node has read and proved.
NodeType(n) ==
  /\ IsSeq(loaded[n]) /\ Len(loaded[n]) <= 3
  /\ \A i \in DOMAIN loaded[n] : loaded[n][i].kind = Loads[i]
  /\ proof[n] # NoProof =>
       /\ proof[n].body \in Bodies /\ Len(loaded[n]) = 3
       /\ proof[n].keys = loaded[n][1].keys /\ Accepts(loaded[n][2].keys, proof[n])

NodeInv ==
  /\ chain.kind \in {"none", "contract"}
  /\ DOMAIN loaded = Nodes /\ DOMAIN proof = Nodes
  /\ \A n \in Nodes : NodeType(n)
  /\ accepted \subseteq Nodes /\ calm \subseteq Nodes

LEMMA NodeInit == DeploymentInit => NodeInv
BY EmptyIs DEF DeploymentInit, NodeInv, NodeType, None

\* A node that has started again from its files.
LEMMA GiveUpType ==
  ASSUME NodeInv, NEW n \in Nodes, GiveUp(n)
  PROVE  /\ DOMAIN loaded' = Nodes /\ DOMAIN proof' = Nodes
         /\ \A m \in Nodes : NodeType(m)'
BY EmptyIs DEF GiveUp, NodeInv, NodeType

\* The next file that a node reads.
LEMMA LoadNext ==
  ASSUME NodeInv, NEW n \in Nodes, NEW data,
         LET i == Len(loaded[n]) + 1 IN i <= 3 /\ data.kind = Loads[i],
         loaded' = [loaded EXCEPT ![n] = Append(@, data)], UNCHANGED proof
  PROVE  /\ NodeType(n)' /\ \A m \in Nodes \ {n} : NodeType(m)'
         /\ DOMAIN loaded'[n] = 1 .. Len(loaded[n]) + 1
         /\ \A i \in DOMAIN loaded'[n] :
              \/ i \in DOMAIN loaded[n] /\ loaded'[n][i] = loaded[n][i]
              \/ i = Len(loaded[n]) + 1 /\ loaded'[n][i] = data
<1> DEFINE k == Len(loaded[n])
<1>1. IsSeq(loaded[n]) /\ k \in Nat /\ DOMAIN loaded[n] = 1 .. k /\ NodeType(n)
  BY LenIs DEF NodeInv, NodeType
<1>2. loaded'[n] = Append(loaded[n], data) /\ \A m \in Nodes \ {n} : loaded'[m] = loaded[m]
  BY DEF NodeInv
<1>3. /\ IsSeq(loaded'[n]) /\ Len(loaded'[n]) = k + 1 /\ DOMAIN loaded'[n] = 1 .. k + 1
      /\ loaded'[n][k + 1] = data /\ \A i \in 1 .. k : loaded'[n][i] = loaded[n][i]
  BY <1>1, <1>2, AppendIs, LenIs
<1>4. \A i \in 1 .. k + 1 : i \in 1 .. k \/ i = k + 1
  BY <1>1
<1>5. k + 1 <= 3 /\ data.kind = Loads[k + 1]
  OBVIOUS
<1> HIDE DEF k
<1>6. \A i \in DOMAIN loaded'[n] : loaded'[n][i].kind = Loads[i]
  BY <1>1, <1>3, <1>4, <1>5 DEF NodeType
<1>7. proof[n] = NoProof
  <2>1. k # 3
    BY <1>1, <1>5
  <2> QED
    BY <1>1, <2>1 DEF NodeType, k
<1>8. NodeType(n)'
  BY <1>3, <1>5, <1>6, <1>7 DEF NodeType
<1>9. \A m \in Nodes \ {n} : NodeType(m)'
  BY <1>2 DEF NodeInv, NodeType
<1> QED
  BY <1>1, <1>3, <1>4, <1>8, <1>9 DEF k

LEMMA NodeStep == NodeInv /\ [DeploymentNext]_allVars => NodeInv'
<1> SUFFICES ASSUME NodeInv, [DeploymentNext]_allVars PROVE NodeInv'
  OBVIOUS
<1>0. ASSUME NEW begun \in SUBSET Nodes, Watch(begun) PROVE calm' \subseteq Nodes
  BY <1>0 DEF Watch, NodeInv
<1>1. CASE UNCHANGED nodeVars /\ calm' \subseteq Nodes
  BY <1>1 DEF nodeVars, NodeInv, NodeType
<1>2. ASSUME NEW n \in Nodes, Load(n) PROVE NodeInv'
  <2> DEFINE i == Len(loaded[n]) + 1
             data == file[Artifacts[i + 1]]
  <2>1. calm' \subseteq Nodes /\ UNCHANGED <<chain, accepted>>
    BY <1>0, <1>2 DEF Load
  <2>2. CASE GiveUp(n)
    BY <2>1, <2>2, GiveUpType DEF NodeInv
  <2>3. CASE /\ Decodes(Loads[i], data) /\ UNCHANGED proof
             /\ loaded' = [loaded EXCEPT ![n] = Append(@, data)]
    <3>1. i <= 3 /\ data.kind = Loads[i]
      BY <1>2, <2>3 DEF Load, Decodes
    <3>2. NodeType(n)' /\ \A m \in Nodes \ {n} : NodeType(m)'
      BY <2>3, <3>1, LoadNext
    <3> QED
      BY <2>1, <2>3, <3>2 DEF NodeInv
  <2> QED
    BY <1>2, <2>2, <2>3 DEF Load, Loads
<1>3. ASSUME NEW n \in Nodes, Prove(n) PROVE NodeInv'
  <2>1. calm' \subseteq Nodes /\ UNCHANGED <<chain, accepted>>
    BY <1>0, <1>3 DEF Prove
  <2>2. CASE GiveUp(n)
    BY <2>1, <2>2, GiveUpType DEF NodeInv
  <2>3. CASE ~GiveUp(n)
    <3>1. PICK body \in Bodies :
            LET pf == [keys |-> loaded[n][1].keys, body |-> body] IN
            Accepts(loaded[n][2].keys, pf) /\ proof' = [proof EXCEPT ![n] = pf]
      BY <1>3, <2>3 DEF Prove
    <3>2. UNCHANGED loaded /\ Len(loaded[n]) = 3
      BY <1>3, <2>3 DEF Prove
    <3>3. \A m \in Nodes : NodeType(m)'
      BY <3>1, <3>2 DEF NodeInv, NodeType
    <3> QED
      BY <2>1, <3>1, <3>2, <3>3 DEF NodeInv
  <2> QED
    BY <2>2, <2>3
<1>4. ASSUME NEW n \in Nodes, Submit(n) PROVE NodeInv'
  <2>1. calm' \subseteq Nodes /\ accepted' \subseteq Nodes /\ GiveUp(n) /\ UNCHANGED chain
    BY <1>0, <1>4 DEF Submit, NodeInv
  <2> QED
    BY <2>1, GiveUpType DEF NodeInv
<1>5. CASE Deploy
  <2>1. calm' \subseteq Nodes
    BY <1>0, <1>5 DEF Deploy
  <2> QED
    BY <1>5, <2>1 DEF Deploy, NodeInv, NodeType
<1>6. CASE Next /\ UNCHANGED nodeVars /\ Watch({})
  BY <1>0, <1>1, <1>6
<1>7. CASE UNCHANGED allVars
  BY <1>1, <1>7 DEF allVars, NodeInv
<1> QED
  BY <1>2, <1>3, <1>4, <1>5, <1>6, <1>7 DEF DeploymentNext, Step

\* Whatever is exported meanwhile, a node holds files of the kinds it asked for
\* and a proof only with all three of them.
THEOREM DeploymentTypeCorrect == DeploymentSpec => []DeploymentTypeOK
<1>1. NodeInv => DeploymentTypeOK
  BY DEF NodeInv, NodeType, DeploymentTypeOK, Loads
<1> QED
  BY <1>1, NodeInit, NodeStep, PTL DEF DeploymentSpec

-----------------------------------------------------------------------------
(* Nodes in a settled directory.                                           *)

\* What a node in calm has read is what is in the directory.
CalmInv ==
  calm # {} =>
    /\ Settled
    /\ \A n \in calm : \A i \in DOMAIN loaded[n] : loaded[n][i] = file[Artifacts[i + 1]]

CeremonyInv == TypeInv /\ WriteInv /\ DerivedInv

LEMMA CeremonyInvInit == Init => CeremonyInv
BY TypeInit, WriteInit, DerivedInit DEF CeremonyInv

LEMMA CeremonyInvStep == CeremonyInv /\ [Next]_vars => CeremonyInv'
BY TypeStep, WriteStep, DerivedStep DEF CeremonyInv

\* A step after which the directory is settled has changed none of the files of
\* the seal by which it is.
LEMMA SettledStays ==
  ASSUME CeremonyInv, NEW c \in Commands, [Next]_vars, SettledBy(c)'
  PROVE  \A p \in Files[c] : file'[p] = file[p]
<1>1. pc'[c] = "idle" /\ c \in ok' /\ c \notin moved'
  BY DEF SettledBy, Succeeded
<1>2. CASE Aside(c)
  BY <1>1, <1>2 DEF Aside
<1>3. CASE CreateContract(c) \/ CommitTemp(c) \/ CompleteContract(c)
  BY <1>1, <1>3 DEF CreateContract, CommitTemp, CompleteContract, OthersIn, Put,
                    CeremonyInv, TypeInv, TypeOK
<1>4. CASE \/ Start(c) \/ Read(c) \/ Compute(c) \/ OpenTemp(c) \/ Finish(c)
           \/ FailWrite(c) \/ Kill(c)
  BY <1>4 DEF Start, Read, Compute, OpenTemp, Finish, FailWrite, Kill
<1> QED
  BY <1>2, <1>3, <1>4, StepOrAside DEF Run, CeremonyInv

\* The files of a settled directory: the artifacts of one seal, good for the
\* nodes' circuit.
LEMMA SettledFiles ==
  ASSUME CeremonyInv, Settled
  PROVE  \E keys :
           /\ file[Artifacts[1]] = ExportContract(keys)
           /\ file[Artifacts[2]] = ExportProvingKey(keys)
           /\ file[Artifacts[3]] = ExportVerifyingKey(keys)
           /\ file[Artifacts[4]] = ExportCCS(Batch)
           /\ keys.batch = Batch
           /\ keys.phase2.srs = keys.srs /\ keys.phase2.batch = keys.batch
<1>1. PICK c \in Commands : SettledBy(c)
  BY DEF Settled
<1> DEFINE in == In(c)
           keys == SealKeysFromExistedMPC(Line[c].batch, in[1], Line[c].beacon, in[2])
<1>2. Derivation(c, in, Out(c)) /\ Op(c) = "seal"
  BY <1>1 DEF SettledBy, CeremonyInv, DerivedInv, Undisturbed
<1>3. DOMAIN Outs[c] = {1, 2, 3, 4}
  BY <1>2, LineIs, OutsAre
<1>4. \A i \in {1, 2, 3, 4} : file[Artifacts[i]] = Products(c, in, 0)[i]
  <2>1. \A i \in {1, 2, 3, 4} : Out(c)[i] = Products(c, in, 0)[i]
    BY <1>2, <1>3 DEF Derivation, Verifications, Contributions
  <2>2. \A i \in {1, 2, 3, 4} : Out(c)[i] = file[Artifacts[i]]
    BY <1>1, <1>3 DEF Out, SettledBy
  <2> QED
    BY <2>1, <2>2
<1>5. /\ file[Artifacts[1]] = ExportContract(keys)
      /\ file[Artifacts[2]] = ExportProvingKey(keys)
      /\ file[Artifacts[3]] = ExportVerifyingKey(keys)
      /\ file[Artifacts[4]] = ExportCCS(Line[c].batch)
  BY <1>2, <1>4 DEF Products
<1>6. 1 \in DOMAIN Ins(c) /\ 2 \in DOMAIN Ins(c)
  <2>1. Reads(c) = <<"srs", "phase2">>
    BY <1>2 DEF Reads, Handler, exportSeal
  <2> QED
    BY <2>1, LineIs
<1>7. /\ in[1] = file[Ins(c)[1]] /\ in[2] = file[Ins(c)[2]]
  BY <1>6 DEF In
<1>8. keys.batch = Batch /\ keys.phase2.srs = keys.srs /\ keys.phase2.batch = keys.batch
  BY <1>1, <1>7 DEF SettledBy, Fits, SealKeysFromExistedMPC
<1>9. Line[c].batch = Batch
  BY <1>1 DEF SettledBy, Fits
<1> QED
  BY <1>5, <1>8, <1>9

LEMMA CalmInit == DeploymentInit => CalmInv
BY DEF DeploymentInit, CalmInv

\* A node that reads the next file reads what is there.
LEMMA LoadCalm ==
  ASSUME NodeInv, NEW n \in Nodes, Load(n), NEW i \in DOMAIN loaded'[n],
         \A j \in DOMAIN loaded[n] : loaded[n][j] = file[Artifacts[j + 1]]
  PROVE  loaded'[n][i] = file'[Artifacts[i + 1]]
<1> DEFINE k == Len(loaded[n]) + 1
           data == file[Artifacts[k + 1]]
<1>1. UNCHANGED file
  BY DEF Load, vars
<1>2. CASE GiveUp(n)
  BY <1>2, EmptyIs DEF GiveUp, NodeInv
<1>3. CASE Decodes(Loads[k], data) /\ loaded' = [loaded EXCEPT ![n] = Append(@, data)]
           /\ UNCHANGED proof
  <2>1. k <= 3 /\ data.kind = Loads[k]
    BY <1>3 DEF Load, Decodes
  <2>2. \/ i \in DOMAIN loaded[n] /\ loaded'[n][i] = loaded[n][i]
        \/ i = k /\ loaded'[n][i] = data
    BY <1>3, <2>1, LoadNext
  <2> QED
    BY <1>1, <2>2
<1> QED
  BY <1>2, <1>3 DEF Load, Loads

LEMMA CalmStep ==
  CeremonyInv /\ NodeInv /\ CalmInv /\ [DeploymentNext]_allVars => CalmInv'
<1> SUFFICES ASSUME CeremonyInv, NodeInv, CalmInv, [DeploymentNext]_allVars, calm' # {}
             PROVE  /\ Settled'
                    /\ \A n \in calm' : \A i \in DOMAIN loaded'[n] :
                         loaded'[n][i] = file'[Artifacts[i + 1]]
  BY DEF CalmInv
<1>1. CASE UNCHANGED allVars
  <2>1. UNCHANGED <<calm, loaded, file, pc, ok, moved>>
    BY <1>1 DEF allVars, vars, nodeVars
  <2>2. Settled' = Settled
    BY <2>1 DEF Settled, SettledBy, Apart, Distinct, Succeeded, Fits
  <2> QED
    BY <2>1, <2>2 DEF CalmInv
<1>2. CASE DeploymentNext
  <2>1. PICK begun \in SUBSET Nodes : Watch(begun)
    BY <1>2 DEF DeploymentNext, Step, Load, Prove, Submit, Deploy
  <2>2. Settled' /\ calm' = calm \cup begun
    BY <2>1 DEF Watch
  <2>3. \A i \in 1 .. 4 : file'[Artifacts[i]] = file[Artifacts[i]]
    <3>1. PICK c \in Commands : SettledBy(c)'
      BY <2>2 DEF Settled
    <3>2. [Next]_vars
      BY DeploymentStep
    <3>3. Outs[c] = Artifacts /\ Op(c) = "seal"
      BY <3>1 DEF SettledBy
    <3>4. \A i \in 1 .. 4 : Artifacts[i] \in Files[c]
      BY <3>3, LineIs, OutsAre
    <3> QED
      BY <3>1, <3>2, <3>4, SettledStays
  <2>4. ASSUME NEW n \in Nodes, n \in calm, loaded'[n] = loaded[n] \/ loaded'[n] = <<>>,
               NEW i \in DOMAIN loaded'[n]
        PROVE  loaded'[n][i] = file'[Artifacts[i + 1]]
    <3>1. loaded'[n] = loaded[n] /\ i \in DOMAIN loaded[n]
      BY <2>4, EmptyIs
    <3>2. i + 1 \in 1 .. 4
      BY <3>1, LenIs DEF NodeInv, NodeType
    <3> QED
      BY <2>3, <2>4, <3>1, <3>2 DEF CalmInv
  <2>5. CASE UNCHANGED loaded /\ Watch({})
    BY <2>2, <2>4, <2>5 DEF Watch, NodeInv
  <2>6. ASSUME NEW n \in Nodes, Step(n)
        PROVE  \A m \in calm' : \A i \in DOMAIN loaded'[m] :
                 loaded'[m][i] = file'[Artifacts[i + 1]]
    <3>1. CASE (Prove(n) \/ Submit(n)) /\ Watch({})
      <4>1. \A m \in Nodes : loaded'[m] = loaded[m] \/ loaded'[m] = <<>>
        BY <3>1 DEF Prove, Submit, GiveUp, NodeInv
      <4>2. calm' \subseteq calm /\ calm \subseteq Nodes
        BY <3>1 DEF Watch, NodeInv
      <4> QED
        BY <2>4, <4>1, <4>2
    <3>2. CASE Load(n)
      <4>1. n \in calm' => n \in calm \/ Len(loaded[n]) = 0
        <5>1. Len(loaded[n]) \in Nat
          BY LenIs DEF NodeInv, NodeType
        <5> QED
          BY <3>2, <5>1 DEF Load, Watch
      <4>2. \A m \in calm' \ {n} : m \in calm /\ m \in Nodes /\ loaded'[m] = loaded[m]
        BY <3>2 DEF Load, Watch, GiveUp, NodeInv
      <4>3. n \in calm' =>
              \A i \in DOMAIN loaded[n] : loaded[n][i] = file[Artifacts[i + 1]]
        BY <4>1, EmptyIs, LenIs DEF CalmInv, NodeInv, NodeType
      <4>4. n \in calm' =>
              \A i \in DOMAIN loaded'[n] : loaded'[n][i] = file'[Artifacts[i + 1]]
        BY <3>2, <4>3, LoadCalm
      <4> QED
        BY <2>4, <4>2, <4>4
    <3> QED
      BY <2>6, <3>1, <3>2 DEF Step, Prove, Submit
  <2> QED
    BY <1>2, <2>2, <2>5, <2>6 DEF DeploymentNext, Deploy, nodeVars
<1> QED
  BY <1>1, <1>2

\* A settled directory has files that decode.
LEMMA SettledDecodes ==
  ASSUME CeremonyInv, Settled
  PROVE  \A i \in 1 .. 3 : file[Artifacts[i + 1]].kind = Loads[i]
<1>1. PICK keys :
        /\ file[Artifacts[2]] = ExportProvingKey(keys)
        /\ file[Artifacts[3]] = ExportVerifyingKey(keys)
        /\ file[Artifacts[4]] = ExportCCS(Batch)
  BY SettledFiles
<1>2. /\ file[Artifacts[2]].kind = "pk" /\ file[Artifacts[3]].kind = "vk"
      /\ file[Artifacts[4]].kind = "r1cs"
  BY <1>1 DEF ExportProvingKey, ExportVerifyingKey, ExportCCS
<1>3. \A i \in 1 .. 3 : i = 1 \/ i = 2 \/ i = 3
  OBVIOUS
<1> QED
  BY <1>2, <1>3 DEF Loads

\* A node that has read all three files in a settled directory holds keys of one
\* export that are good for its circuit, those of the contract.
LEMMA CalmKeys ==
  ASSUME CeremonyInv, NodeInv, CalmInv, NEW n \in calm, Len(loaded[n]) = 3
  PROVE  LET keys == loaded[n][1].keys IN
         /\ loaded[n][2].keys = keys /\ loaded[n][3].batch = Batch /\ keys.batch = Batch
         /\ file[Artifacts[1]].kind = "contract" /\ file[Artifacts[1]].keys = keys
         /\ keys.phase2.srs = keys.srs /\ keys.phase2.batch = keys.batch
<1>1. PICK keys :
        /\ file[Artifacts[1]] = ExportContract(keys)
        /\ file[Artifacts[2]] = ExportProvingKey(keys)
        /\ file[Artifacts[3]] = ExportVerifyingKey(keys)
        /\ file[Artifacts[4]] = ExportCCS(Batch)
        /\ keys.batch = Batch
        /\ keys.phase2.srs = keys.srs /\ keys.phase2.batch = keys.batch
  BY SettledFiles DEF CalmInv
<1>2. DOMAIN loaded[n] = 1 .. 3
  BY LenIs DEF NodeInv, NodeType
<1>3. /\ loaded[n][1] = file[Artifacts[2]] /\ loaded[n][2] = file[Artifacts[3]]
      /\ loaded[n][3] = file[Artifacts[4]]
  <2>1. \A i \in 1 .. 3 : loaded[n][i] = file[Artifacts[i + 1]]
    BY <1>2 DEF CalmInv
  <2>2. 1 \in 1 .. 3 /\ 2 \in 1 .. 3 /\ 3 \in 1 .. 3 /\ 1 + 1 = 2 /\ 2 + 1 = 3 /\ 3 + 1 = 4
    OBVIOUS
  <2> QED
    BY <2>1, <2>2
<1> QED
  BY <1>1, <1>3 DEF ExportContract, ExportProvingKey, ExportVerifyingKey, ExportCCS

\* The step of CalmAccepted, when the contract gets every proof as it is.
CalmStepAccepted ==
  \A n \in calm : n \in calm' =>
    /\ proof[n] = NoProof => Len(loaded'[n]) >= Len(loaded[n])
    /\ proof[n] # NoProof /\ proof'[n] = NoProof /\ chain = file[Artifacts[1]]
         => n \in accepted'

LEMMA CalmAcceptedStep ==
  ASSUME Received = Bodies, CeremonyInv, NodeInv, CalmInv, CalmInv',
         [DeploymentNext]_allVars
  PROVE  CalmStepAccepted
<1> SUFFICES ASSUME NEW n \in calm, n \in calm'
             PROVE  /\ proof[n] = NoProof => Len(loaded'[n]) >= Len(loaded[n])
                    /\ proof[n] # NoProof /\ proof'[n] = NoProof /\ chain = file[Artifacts[1]]
                         => n \in accepted'
  BY DEF CalmStepAccepted
<1>0. n \in Nodes /\ NodeType(n) /\ Len(loaded[n]) \in Nat /\ Settled
  BY LenIs DEF NodeInv, NodeType, CalmInv
<1>1. CASE loaded'[n] = loaded[n] /\ proof'[n] = proof[n]
  BY <1>0, <1>1
<1>2. CASE Load(n)
  <2> DEFINE i == Len(loaded[n]) + 1
             data == file[Artifacts[i + 1]]
  <2>1. i \in 1 .. 3
    BY <1>0, <1>2 DEF Load
  <2>2. Decodes(Loads[i], data)
    BY <1>0, <2>1, SettledDecodes DEF Decodes
  <2>3. loaded'[n] = Append(loaded[n], data) /\ UNCHANGED proof
    BY <1>0, <1>2, <2>2 DEF Load, Loads, NodeInv
  <2>4. Len(loaded'[n]) = Len(loaded[n]) + 1
    BY <1>0, <2>3, AppendIs DEF NodeType
  <2>5. proof[n] = NoProof
    <3> DEFINE k == Len(loaded[n])
    <3>0. k \in Nat /\ k + 1 \in 1 .. 3
      BY <1>0, <2>1
    <3> HIDE DEF k
    <3>1. k # 3
      BY <3>0
    <3> QED
      BY <1>0, <3>1 DEF NodeType, k
  <2> QED
    BY <1>0, <2>4, <2>5
<1>3. CASE Prove(n)
  <2>1. Len(loaded[n]) = 3 /\ proof[n] = NoProof
    BY <1>3 DEF Prove
  <2>2. /\ loaded[n][3].batch = Batch /\ loaded[n][1].keys.batch = loaded[n][3].batch
        /\ Accepts(loaded[n][2].keys, [keys |-> loaded[n][1].keys])
    BY <2>1, CalmKeys DEF Accepts
  <2>3. UNCHANGED loaded
    BY <1>3, <2>2 DEF Prove
  <2> QED
    BY <1>0, <2>1, <2>3
<1>4. CASE Submit(n)
  <2>1. proof[n] # NoProof /\ Len(loaded[n]) = 3
    BY <1>0, <1>4 DEF Submit, NodeType
  <2>2. ASSUME chain = file[Artifacts[1]]
        PROVE  n \in accepted'
    <3>1. /\ chain.kind = "contract" /\ chain.keys = loaded[n][1].keys
          /\ chain.keys = loaded[n][2].keys
      BY <2>1, <2>2, CalmKeys
    <3>2. chain # None
      BY <3>1 DEF None
    <3>3. Accepts(chain.keys, proof[n]) /\ proof[n].body \in Received
      BY <1>0, <2>1, <3>1 DEF NodeType
    <3> QED
      BY <1>4, <3>2, <3>3 DEF Submit
  <2> QED
    BY <2>1, <2>2
<1>5. CASE \E m \in Nodes \ {n} : Step(m)
  <2>1. loaded'[n] = loaded[n] /\ proof'[n] = proof[n]
    BY <1>0, <1>5 DEF Step, Load, Prove, Submit, GiveUp, NodeInv
  <2> QED
    BY <1>1, <2>1
<1>6. CASE UNCHANGED <<loaded, proof>>
  BY <1>1, <1>6
<1> QED
  BY <1>2, <1>3, <1>4, <1>5, <1>6 DEF DeploymentNext, Step, Deploy, nodeVars, allVars

-----------------------------------------------------------------------------
(* The bytes of a proof.                                                   *)

\* Some bytes of a number.
LEMMA PutIs ==
  ASSUME NEW n, NEW length \in Nat
  PROVE  IsSeq(PutBytes(n, length)) /\ Len(PutBytes(n, length)) = length
<1>1. PutBytes(n, length) = [k \in 1 .. length |-> PutBytes(n, length)[k]]
  BY DEF PutBytes
<1> QED
  BY <1>1, FunIs

\* A number that fits into so many bytes comes back from them.
LEMMA PutSet ==
  ASSUME NEW length \in Nat, NEW v \in 0 .. 2 ^ (ByteBits * length) - 1
  PROVE  SetBytes(PutBytes(v, length)) = v
<1> DEFINE bytes == PutBytes(v, length)
           base == 2 ^ ByteBits
           Value(f) == f = [k \in 0 .. length |-> IF k = 0 THEN 0 ELSE base * f[k - 1] + bytes[k]]
           value == CHOOSE f : Value(f)
           First(k) == v \div 2 ^ (ByteBits * (length - k))
<1>0. ByteBits \in Nat \ {0}
  BY ContractInputAssumption
<1>1. SetBytes(bytes) = value[length]
  <2>1. Len(bytes) = length
    BY PutIs
  <2> HIDE DEF bytes
  <2> QED
    BY <2>1 DEF SetBytes
<1>2. v \in Nat /\ base \in Nat \ {0}
  <2>1. ByteBits * length \in Nat
    BY <1>0
  <2> DEFINE p == 2 ^ (ByteBits * length)
  <2>2. p \in Nat \ {0} /\ base \in Nat \ {0}
    BY <1>0, <2>1, TwoTo
  <2> HIDE DEF p, base
  <2>3. v \in 0 .. p - 1
    BY DEF p
  <2> QED
    BY <2>2, <2>3
<1>3. First(0) = 0
  <2>1. ByteBits * length \in Nat /\ length - 0 = length
    BY <1>0
  <2> DEFINE p == 2 ^ (ByteBits * length)
  <2>2. p \in Nat \ {0} /\ v \in 0 .. p - 1
    BY <2>1, TwoTo
  <2> HIDE DEF p
  <2>3. v \div p = 0
    BY <2>2
  <2> QED
    BY <2>1, <2>3 DEF p
<1>4. ASSUME NEW k \in 1 .. length PROVE First(k) = base * First(k - 1) + bytes[k]
  <2> DEFINE p == 2 ^ (ByteBits * (length - k))
             u == v \div p
  <2>1. /\ length - k \in Nat /\ length - (k - 1) = (length - k) + 1
        /\ ByteBits * (length - k) \in Nat
        /\ ByteBits * (length - (k - 1)) = ByteBits * (length - k) + ByteBits
    <3> DEFINE l == length - k
    <3>1. l \in Nat /\ length - (k - 1) = l + 1
      OBVIOUS
    <3> HIDE DEF l
    <3>2. ByteBits * l \in Nat /\ ByteBits * (l + 1) = ByteBits * l + ByteBits
      BY <1>0, <3>1
    <3> QED
      BY <3>1, <3>2 DEF l
  <2>2. p \in Nat \ {0}
    BY <2>1, TwoTo
  <2>3. 2 ^ (ByteBits * (length - (k - 1))) = p * base
    BY <1>0, <2>1, TwoToSum
  <2>4. bytes[k] = u % base
    BY DEF PutBytes
  <2>5. First(k) = u /\ First(k - 1) = v \div (p * base)
    BY <2>3
  <2> HIDE DEF p, base, bytes
  <2>6. u \in Nat /\ u \div base = v \div (p * base)
    BY <1>2, <2>2, DivDiv
  <2> HIDE DEF u, First
  <2>7. u = base * (u \div base) + (u % base)
    BY <1>2, <2>6
  <2> QED
    BY <2>4, <2>5, <2>6, <2>7
<1> HIDE DEF First, base, bytes
<1>5. Value([k \in 0 .. length |-> First(k)])
  <2> DEFINE g == [k \in 0 .. length |-> First(k)]
  <2>1. ASSUME NEW k \in 0 .. length
        PROVE  First(k) = IF k = 0 THEN 0 ELSE base * g[k - 1] + bytes[k]
    <3>1. CASE k = 0
      BY <1>3, <3>1
    <3>2. CASE k # 0
      <4>1. k \in 1 .. length /\ k - 1 \in 0 .. length
        BY <3>2
      <4> QED
        BY <1>4, <3>2, <4>1
    <3> QED
      BY <3>1, <3>2
  <2> QED
    BY <2>1
<1>6. Value(value)
  <2> HIDE DEF Value
  <2> QED
    BY <1>5
<1> HIDE DEF value
<1>7. value[0] = 0 /\ \A k \in 1 .. length : value[k] = base * value[k - 1] + bytes[k]
  BY <1>6
<1> DEFINE S == {k \in Nat : k <= length => value[k] = First(k)}
<1>8. 0 \in S
  BY <1>3, <1>7
<1>9. ASSUME NEW k \in Nat, k \in S PROVE k + 1 \in S
  <2>1. SUFFICES ASSUME k + 1 <= length PROVE value[k + 1] = First(k + 1)
    OBVIOUS
  <2>2. k + 1 \in 1 .. length /\ (k + 1) - 1 = k /\ value[k] = First(k)
    BY <1>9, <2>1
  <2> QED
    BY <1>4, <1>7, <2>2
<1> HIDE DEF S
<1>10. length \in S
  BY <1>8, <1>9, Induction
<1>11. value[length] = First(length)
  BY <1>10 DEF S
<1>12. First(length) = v
  <2>1. length - length = 0 /\ ByteBits * 0 = 0 /\ 2 ^ 0 = 1 /\ v \div 1 = v
    BY <1>0, <1>2, TwoTo
  <2> QED
    BY <2>1 DEF First
<1> QED
  BY <1>1, <1>11, <1>12 DEF bytes

\* a has s behind its first m elements.
Behind(a, m, s) == m + Len(s) <= Len(a) /\ \A i \in 1 .. Len(s) : a[m + i] = s[i]

\* There it is cut out.
LEMMA CutIs ==
  ASSUME NEW a, IsSeq(a), NEW s, IsSeq(s), NEW m \in Nat, Behind(a, m, s),
         NEW n, n = Len(s)
  PROVE  SubSeq(a, m + 1, m + n) = s
<1> DEFINE piece == SubSeq(a, m + 1, m + n)
<1>1. n \in Nat /\ DOMAIN s = 1 .. n
  BY LenIs
<1>2. m + n <= Len(a) /\ \A i \in 1 .. n : a[m + i] = s[i]
  BY DEF Behind
<1>3. IsSeq(piece) /\ Len(piece) = n /\ \A i \in 1 .. n : piece[i] = a[m + i]
  BY <1>1, <1>2, PieceIs
<1> HIDE DEF piece
<1>4. DOMAIN piece = 1 .. n
  BY <1>3, LenIs
<1>5. piece = [i \in DOMAIN piece |-> piece[i]]
  BY <1>3 DEF IsSeq
<1>6. piece = s
  BY <1>1, <1>2, <1>3, <1>4, <1>5, SameSeq
<1> QED
  BY <1>6 DEF piece

\* Where the parts of a longer sequence are.
LEMMA JoinBehind ==
  ASSUME NEW s, IsSeq(s), NEW u, IsSeq(u)
  PROVE  /\ Behind(s \o u, Len(s), u)
         /\ \A m \in Nat : \A x : IsSeq(x) /\ Behind(s, m, x) => Behind(s \o u, m, x)
<1> DEFINE a == s \o u
<1>1. Len(s) \in Nat /\ Len(u) \in Nat
  BY LenIs
<1>2. Len(a) = Len(s) + Len(u)
  BY JoinIs
<1>3. \A i \in 1 .. Len(s) : a[i] = s[i]
  BY JoinIs
<1>4. \A i \in 1 .. Len(u) : a[Len(s) + i] = u[i]
  BY JoinIs
<1> HIDE DEF a
<1>5. Behind(a, Len(s), u)
  BY <1>1, <1>2, <1>4 DEF Behind
<1>6. ASSUME NEW m \in Nat, NEW x, IsSeq(x), Behind(s, m, x) PROVE Behind(a, m, x)
  <2> DEFINE n == Len(x)
  <2>1. n \in Nat
    BY <1>6, LenIs
  <2>2. m + n <= Len(s) /\ \A i \in 1 .. n : s[m + i] = x[i]
    BY <1>6 DEF Behind
  <2> HIDE DEF n
  <2>3. m + n <= Len(a)
    BY <1>1, <1>2, <2>1, <2>2
  <2>4. \A i \in 1 .. n : m + i \in 1 .. Len(s)
    BY <1>1, <2>1, <2>2
  <2>5. \A i \in 1 .. n : a[m + i] = x[i]
    BY <1>3, <2>2, <2>4
  <2> QED
    BY <2>3, <2>5 DEF Behind, n
<1> QED
  BY <1>5, <1>6 DEF a

\* What fits into the bytes of a coordinate.
Words == 0 .. 2 ^ (ByteBits * WordBytes) - 1

\* The bytes of some coordinates.
WordsOf(ws) == [i \in DOMAIN ws |-> PutBytes(ws[i], WordBytes)]

\* Each has its bytes.
LEMMA WordsAre ==
  ASSUME NEW ws, ws \in Seq(Words)
  PROVE  /\ Even(WordsOf(ws), WordBytes) /\ Len(WordsOf(ws)) = Len(ws)
         /\ \A i \in 1 .. Len(ws) : WordsOf(ws)[i] = PutBytes(ws[i], WordBytes)
<1> DEFINE n == Len(ws)
           s == WordsOf(ws)
<1>1. n \in Nat /\ DOMAIN ws = 1 .. n
  BY SeqIs
<1>2. s = [i \in 1 .. n |-> s[i]] /\ \A i \in 1 .. n : s[i] = PutBytes(ws[i], WordBytes)
  BY <1>1 DEF WordsOf
<1> HIDE DEF n, s
<1>3. IsSeq(s) /\ Len(s) = n
  BY <1>1, <1>2, FunIs
<1>4. \A i \in 1 .. n : IsSeq(s[i]) /\ Len(s[i]) = WordBytes
  BY <1>2, PutIs, ContractInputAssumption
<1> QED
  BY <1>2, <1>3, <1>4 DEF Even, n, s

\* In the bytes of coordinates, each is in its place.
LEMMA FlatBehind ==
  ASSUME NEW ws, ws \in Seq(Words), NEW flat, flat = FlattenSeq(WordsOf(ws))
  PROVE  /\ IsSeq(flat) /\ Len(flat) = Len(ws) * WordBytes
         /\ \A i \in 1 .. Len(ws) : Behind(flat, (i - 1) * WordBytes, PutBytes(ws[i], WordBytes))
<1> DEFINE n == Len(ws)
           w == WordBytes
<1>1. n \in Nat /\ w \in Nat \ {0}
  BY SeqIs, ContractInputAssumption
<1>2. /\ Even(WordsOf(ws), w) /\ Len(WordsOf(ws)) = n
      /\ \A i \in 1 .. n : WordsOf(ws)[i] = PutBytes(ws[i], w)
  BY WordsAre
<1>3. Laid(flat, WordsOf(ws), w)
  BY <1>1, <1>2, FlattenIs
<1>4. /\ IsSeq(flat) /\ Len(flat) = n * w
      /\ \A i \in 1 .. n : \A j \in 1 .. w : flat[Slot(w, i, j)] = PutBytes(ws[i], w)[j]
  BY <1>2, <1>3 DEF Laid
<1> HIDE DEF n, w
<1>5. ASSUME NEW i \in 1 .. n
      PROVE  Behind(flat, (i - 1) * w, PutBytes(ws[i], w))
  <2> DEFINE m == (i - 1) * w
             x == PutBytes(ws[i], w)
  <2>1. Len(x) = w
    BY <1>1, PutIs
  <2>2. m + w <= n * w
    <3>1. i * w <= n * w /\ i * w = m + w
      BY <1>1
    <3> QED
      BY <3>1
  <2>3. \A j \in 1 .. w : flat[m + j] = x[j]
    BY <1>4 DEF Slot
  <2> HIDE DEF m, x
  <2>4. Behind(flat, m, x)
    BY <1>4, <2>1, <2>2, <2>3 DEF Behind
  <2> QED
    BY <2>4 DEF m, x
<1> QED
  BY <1>4, <1>5 DEF n, w

\* What is behind what is behind.
LEMMA BehindBehind ==
  ASSUME NEW a, IsSeq(a), NEW s, IsSeq(s), NEW x, IsSeq(x), NEW m \in Nat, NEW k \in Nat,
         Behind(a, m, s), Behind(s, k, x)
  PROVE  Behind(a, m + k, x)
<1>1. Len(a) \in Nat /\ Len(s) \in Nat /\ Len(x) \in Nat
  BY LenIs
<1>2. m + Len(s) <= Len(a) /\ \A i \in 1 .. Len(s) : a[m + i] = s[i]
  BY DEF Behind
<1>3. k + Len(x) <= Len(s) /\ \A i \in 1 .. Len(x) : s[k + i] = x[i]
  BY DEF Behind
<1>4. ASSUME NEW i \in 1 .. Len(x) PROVE a[(m + k) + i] = x[i]
  <2> DEFINE j == k + i
  <2>1. j \in 1 .. Len(s) /\ m + j = (m + k) + i
    BY <1>1, <1>3
  <2>2. s[j] = x[i]
    BY <1>3
  <2> HIDE DEF j
  <2> QED
    BY <1>2, <2>1, <2>2
<1>5. (m + k) + Len(x) <= Len(a)
  BY <1>1, <1>2, <1>3
<1> QED
  BY <1>4, <1>5 DEF Behind

\* A coordinate is read where it was written.
LEMMA WordIs ==
  ASSUME NEW a, IsSeq(a), NEW m \in Nat, NEW ws, ws \in Seq(Words),
         Behind(a, m, FlattenSeq(WordsOf(ws))), NEW i \in 1 .. Len(ws),
         NEW from, from = m + (i - 1) * WordBytes
  PROVE  SetBytes(SubSeq(a, from + 1, from + WordBytes)) = ws[i]
<1> DEFINE flat == FlattenSeq(WordsOf(ws))
           w == WordBytes
           x == PutBytes(ws[i], w)
           k == (i - 1) * w
<1>1. /\ w \in Nat /\ Len(ws) \in Nat /\ ws[i] \in Words
  BY SeqIs, ContractInputAssumption
<1>2. IsSeq(flat) /\ Behind(flat, k, x)
  BY FlatBehind
<1>3. IsSeq(x) /\ Len(x) = w
  BY <1>1, PutIs
<1>4. k \in Nat /\ from = m + k
  BY <1>1
<1>5. SetBytes(x) = ws[i]
  BY <1>1, PutSet DEF Words
<1>6. Behind(a, m, flat)
  OBVIOUS
<1> HIDE DEF flat, w, x, k
<1>7. Behind(a, from, x)
  BY <1>2, <1>3, <1>4, <1>6, BehindBehind
<1>8. from \in Nat
  BY <1>4
<1>9. SubSeq(a, from + 1, from + w) = x
  BY <1>3, <1>7, <1>8, CutIs
<1> QED
  BY <1>5, <1>9 DEF w

\* The parts of a proof's bytes.
LEMMA PartsBehind ==
  ASSUME NEW body \in Bodies
  PROVE  LET a == MarshalSolidity(body)
             w == WordBytes
             n == Len(body.commitments)
         IN /\ IsSeq(a)
            /\ Behind(a, 0, FlattenSeq(WordsOf(body.points)))
            /\ Behind(a, 8 * w, PutBytes(n \div 2, 4))
            /\ Behind(a, 8 * w + 4, FlattenSeq(WordsOf(body.commitments)))
            /\ Behind(a, 8 * w + 4 + n * w, FlattenSeq(WordsOf(body.pok)))
<1> DEFINE w == WordBytes
           n == Len(body.commitments)
           p == FlattenSeq(WordsOf(body.points))
           c == PutBytes(n \div 2, 4)
           q == FlattenSeq(WordsOf(body.commitments))
           k == FlattenSeq(WordsOf(body.pok))
           pc2 == p \o c
           pcq == pc2 \o q
           a == pcq \o k
<1>1. /\ body.points \in Seq(Words) /\ Len(body.points) = 8
      /\ body.commitments \in Seq(Words) /\ body.pok \in Seq(Words)
  BY DeploymentAssumption DEF Words
<1>2. w \in Nat /\ n \in Nat
  BY <1>1, SeqIs, ContractInputAssumption
<1>3. MarshalSolidity(body) = a
  BY DEF MarshalSolidity, WordsOf
<1>4. IsSeq(p) /\ Len(p) = 8 * w
  BY <1>1, FlatBehind
<1>5. IsSeq(c) /\ Len(c) = 4
  BY PutIs
<1>6. IsSeq(q) /\ Len(q) = n * w
  BY <1>1, FlatBehind
<1>7. IsSeq(k)
  BY <1>1, FlatBehind
<1> HIDE DEF p, c, q, k
<1>8. IsSeq(pc2) /\ Len(pc2) = 8 * w + 4
  <2>1. IsSeq(pc2) /\ Len(pc2) = Len(p) + Len(c)
    BY <1>4, <1>5, JoinIs
  <2> QED
    BY <1>4, <1>5, <2>1
<1>9. Behind(p, 0, p)
  BY <1>4, LenIs DEF Behind
<1>10. Behind(pc2, 0, p)
  BY <1>4, <1>5, <1>9, JoinBehind
<1>11. Behind(pc2, 8 * w, c)
  BY <1>4, <1>5, JoinBehind
<1> HIDE DEF pc2
<1>12. IsSeq(pcq) /\ Len(pcq) = 8 * w + 4 + n * w
  <2>1. IsSeq(pcq) /\ Len(pcq) = Len(pc2) + Len(q)
    BY <1>6, <1>8, JoinIs
  <2> QED
    BY <1>6, <1>8, <2>1
<1>13. \A m \in Nat : \A x : IsSeq(x) /\ Behind(pc2, m, x) => Behind(pcq, m, x)
  BY <1>6, <1>8, JoinBehind
<1>14. Behind(pcq, 8 * w + 4, q)
  BY <1>6, <1>8, JoinBehind
<1> HIDE DEF pcq
<1>15. IsSeq(a)
  BY <1>7, <1>12, JoinIs
<1>16. \A m \in Nat : \A x : IsSeq(x) /\ Behind(pcq, m, x) => Behind(a, m, x)
  BY <1>7, <1>12, JoinBehind
<1>17. Behind(a, 8 * w + 4 + n * w, k)
  BY <1>7, <1>12, JoinBehind
<1> HIDE DEF a
<1>18. 0 \in Nat /\ 8 * w \in Nat /\ 8 * w + 4 \in Nat
  BY <1>2
<1>19. Behind(a, 0, p) /\ Behind(a, 8 * w, c) /\ Behind(a, 8 * w + 4, q)
  BY <1>4, <1>5, <1>6, <1>10, <1>11, <1>13, <1>14, <1>16, <1>18
<1> QED
  BY <1>3, <1>15, <1>17, <1>19 DEF p, c, q, k

\* The contract gets the coordinates of every proof as they are.
THEOREM InputsArrive == Received = Bodies
<1> SUFFICES ASSUME NEW body \in Bodies
             PROVE  GetContractInput(MarshalSolidity(body)) = body
  BY DEF Received
<1> DEFINE w == WordBytes
           a == MarshalSolidity(body)
           n == Len(body.commitments)
           count == n \div 2
           word(from) == SetBytes(SubSeq(a, from + 1, from + w))
           cmts == w * 8 + 4
           pok == cmts + 2 * count * w
<1>1. /\ body = [points |-> body.points, commitments |-> body.commitments, pok |-> body.pok]
      /\ body.points \in Seq(Words) /\ Len(body.points) = 8
      /\ body.commitments \in Seq(Words) /\ n % 2 = 0 /\ count < 2 ^ (ByteBits * 4)
      /\ body.pok \in Seq(Words) /\ Len(body.pok) = 2
  BY DeploymentAssumption DEF Words
<1>2. w \in Nat /\ n \in Nat /\ 2 * count = n /\ count \in Nat
  BY <1>1, SeqIs, ContractInputAssumption
<1>3. /\ IsSeq(a)
      /\ Behind(a, 0, FlattenSeq(WordsOf(body.points)))
      /\ Behind(a, 8 * w, PutBytes(count, 4))
      /\ Behind(a, 8 * w + 4, FlattenSeq(WordsOf(body.commitments)))
      /\ Behind(a, 8 * w + 4 + n * w, FlattenSeq(WordsOf(body.pok)))
  BY PartsBehind
<1> HIDE DEF a
<1>4. SetBytes(SubSeq(a, w * 8 + 1, w * 8 + 4)) = count
  <2>1. ASSUME NEW four \in Nat, count < 2 ^ (ByteBits * four), NEW m \in Nat,
               Behind(a, m, PutBytes(count, four))
        PROVE  SetBytes(SubSeq(a, m + 1, m + four)) = count
    <3> DEFINE x == PutBytes(count, four)
               bound == 2 ^ (ByteBits * four)
    <3>1. IsSeq(x) /\ Len(x) = four
      BY <2>1, PutIs
    <3>2. SetBytes(x) = count
      <4>1. ByteBits * four \in Nat
        BY <2>1, ContractInputAssumption
      <4>2. bound \in Nat
        BY <4>1, TwoTo
      <4> HIDE DEF bound, count
      <4>3. count \in 0 .. bound - 1
        BY <1>2, <2>1, <4>2 DEF bound
      <4> QED
        BY <2>1, <4>3, PutSet DEF bound
    <3>3. Behind(a, m, x)
      BY <2>1
    <3>4. IsSeq(a) /\ IsSeq(x)
      BY <1>3, <3>1
    <3>5. SubSeq(a, m + 1, m + four) = x
      <4> HIDE DEF x
      <4> QED
        BY <2>1, <3>1, <3>3, <3>4, CutIs
    <3> QED
      BY <3>2, <3>5 DEF x
  <2>2. w * 8 = 8 * w /\ 8 * w \in Nat
    BY <1>2
  <2> HIDE DEF count
  <2> QED
    BY <1>1, <1>3, <2>1, <2>2
<1>5. ASSUME NEW m \in Nat, NEW ws, ws \in Seq(Words), Behind(a, m, FlattenSeq(WordsOf(ws))),
             NEW l \in Nat, l = Len(ws)
      PROVE  [i \in 1 .. l |-> word(m + w * (i - 1))] = ws
  <2> DEFINE t == [i \in 1 .. l |-> word(m + w * (i - 1))]
  <2>1. IsSeq(ws) /\ DOMAIN ws = 1 .. l
    BY <1>5, SeqIs
  <2>2. ASSUME NEW i \in 1 .. l PROVE word(m + w * (i - 1)) = ws[i]
    <3> DEFINE from == m + w * (i - 1)
    <3>1. from = m + (i - 1) * w
      BY <1>2
    <3> HIDE DEF from
    <3> QED
      BY <1>3, <1>5, <3>1, WordIs DEF from
  <2> HIDE DEF word
  <2>3. DOMAIN t = DOMAIN ws /\ t = [i \in DOMAIN t |-> t[i]] /\ \A i \in DOMAIN ws : t[i] = ws[i]
    BY <2>1, <2>2
  <2> HIDE DEF t
  <2>4. t = ws
    BY <2>1, <2>3, SameSeq
  <2> QED
    BY <2>4 DEF t
<1>6. /\ cmts \in Nat /\ cmts = 8 * w + 4
      /\ pok \in Nat /\ pok = 8 * w + 4 + n * w
  <2> HIDE DEF count
  <2>1. 2 * count * w = n * w
    BY <1>2
  <2>2. n * w \in Nat /\ w * 8 = 8 * w /\ 8 * w \in Nat
    BY <1>2
  <2> QED
    BY <2>1, <2>2
<1>7. [i \in 1 .. 8 |-> word(w * (i - 1))] = body.points
  <2>1. ASSUME NEW m \in Nat, m = 0, NEW l \in Nat, l = 8
        PROVE  [i \in 1 .. l |-> word(w * (i - 1))] = body.points
    <3>1. /\ Behind(a, m, FlattenSeq(WordsOf(body.points))) /\ body.points \in Seq(Words)
          /\ l = Len(body.points)
      BY <1>1, <1>3, <2>1
    <3> HIDE DEF word
    <3>2. [i \in 1 .. l |-> word(m + w * (i - 1))] = body.points
      BY <1>5, <2>1, <3>1
    <3>3. \A i \in 1 .. l : m + w * (i - 1) = w * (i - 1)
      BY <1>2, <2>1
    <3> QED
      BY <3>2, <3>3
  <2> HIDE DEF word
  <2> QED
    BY <2>1
<1>8. [i \in 1 .. 2 * count |-> word(cmts + w * (i - 1))] = body.commitments
  <2> HIDE DEF word, cmts, count
  <2>1. Behind(a, cmts, FlattenSeq(WordsOf(body.commitments)))
    BY <1>3, <1>6
  <2> DEFINE l == 2 * count
  <2>2. body.commitments \in Seq(Words) /\ l \in Nat /\ l = Len(body.commitments) /\ cmts \in Nat
    BY <1>1, <1>2, <1>6
  <2> HIDE DEF l, n
  <2>3. [i \in 1 .. l |-> word(cmts + w * (i - 1))] = body.commitments
    BY <1>5, <2>1, <2>2
  <2> QED
    BY <2>3 DEF l
<1>9. [i \in 1 .. 2 |-> word(pok + w * (i - 1))] = body.pok
  <2> HIDE DEF word, pok
  <2>1. Behind(a, pok, FlattenSeq(WordsOf(body.pok)))
    BY <1>3, <1>6
  <2>2. body.pok \in Seq(Words) /\ 2 \in Nat /\ 2 = Len(body.pok) /\ pok \in Nat
    BY <1>1, <1>6
  <2> QED
    BY <1>5, <2>1, <2>2
<1>10. GetContractInput(a) =
         [points |-> [i \in 1 .. 8 |-> word(w * (i - 1))],
          commitments |-> [i \in 1 .. 2 * count |-> word(cmts + w * (i - 1))],
          pok |-> [i \in 1 .. 2 |-> word(pok + w * (i - 1))]]
  <2> HIDE DEF count
  <2> QED
    BY <1>4 DEF GetContractInput
<1>11. GetContractInput(a) = body
  <2> HIDE DEF word, cmts, pok, count, w
  <2> QED
    BY <1>1, <1>7, <1>8, <1>9, <1>10
<1> QED
  BY <1>11 DEF a

-----------------------------------------------------------------------------
(* The theorem about both.                                                 *)

\* A node that reads its files in a directory that is settled and stays so gets no
\* error from them, and the contract of that directory takes its proof, however
\* many commands run beside it and whatever was exported there before.
THEOREM CalmServed == DeploymentSpec => CalmAccepted
<1>1. CeremonyInv /\ NodeInv /\ CalmInv /\ CalmInv' /\ [DeploymentNext]_allVars
        => CalmStepAccepted
  BY CalmAcceptedStep, InputsArrive
<1>2. CeremonyInv /\ [DeploymentNext]_allVars => CeremonyInv'
  BY DeploymentStep, CeremonyInvStep
<1>3. DeploymentInit => CeremonyInv
  BY CeremonyInvInit DEF DeploymentInit
<1>4. DeploymentSpec => [][CalmStepAccepted]_allVars
  BY <1>1, <1>2, <1>3, NodeInit, NodeStep, CalmInit, CalmStep, PTL DEF DeploymentSpec
<1> QED
  BY <1>4 DEF CalmAccepted, CalmStepAccepted
=============================================================================
