----------------------------- MODULE Deployment -----------------------------
(***************************************************************************)
(* What comes after the ceremony, beside commands that are still running:  *)
(* somebody deploys the exported contract, and nodes read the proving key, *)
(* the verifying key and the R1CS one after the other (src/helper), prove  *)
(* the encryption of one key share, verify the proof themselves, and call  *)
(* the contract, all from one directory in which keys may be exported over *)
(* older ones at any time.  The order of a node's calls is that of         *)
(* src/zk_dkg_test.go; groth16 and the chain are external.                 *)
(***************************************************************************)
EXTENDS Ceremony, ContractInput

CONSTANTS
  Nodes,     \* the nodes
  Artifacts, \* the paths of the contract, the proving and verifying key, the R1CS
  Bodies     \* the coordinates that a proof may have

ASSUME DeploymentAssumption ==
  /\ \A p \in Elems(Artifacts) : p \in Paths
  /\ \A b \in Bodies :
       /\ b = [points |-> b.points, commitments |-> b.commitments, pok |-> b.pok]
       /\ \A s \in {b.points, b.commitments, b.pok} :
            s \in Seq(0 .. 2 ^ (ByteBits * WordBytes) - 1)
       /\ Len(b.points) = 8 /\ Len(b.commitments) % 2 = 0 /\ Len(b.pok) = 2
       /\ Len(b.commitments) \div 2 < 2 ^ (ByteBits * 4)  \* a uint32

\* The circuit of ProveSingleKeyShareEncryption is that of a batch of one.
Batch == 1

NoProof == [keys |-> Unset, body |-> Unset]

VARIABLES
  chain,     \* the deployed contract, or None
  loaded,    \* loaded[n]: what n has read, in order
  proof,     \* proof[n]: the proof that n is about to submit, or NoProof
  accepted,  \* the nodes whose proof the deployed contract has accepted
  calm       \* those whose first read was in a settled directory that has
             \* been settled since, see Settled

nodeVars == <<chain, loaded, proof, accepted>>
allVars == <<vars, nodeVars, calm>>

DeploymentInit ==
  /\ Init
  /\ chain = None
  /\ loaded = [n \in Nodes |-> <<>>]
  /\ proof = [n \in Nodes |-> NoProof]
  /\ accepted = {}
  /\ calm = {}

\* The inputs of a seal belong together, and its circuit is the nodes'.
Fits(c) ==
  LET srs == file[Ins(c)[1]]
      phase2 == file[Ins(c)[2]]
  IN /\ phase2.kind = "phase2" /\ phase2.srs = srs
     /\ phase2.batch = Batch /\ Line[c].batch = Batch

\* The last keys exported are by a seal that nobody has interfered with.
SettledBy(c) ==
  /\ Succeeded(c) /\ c \notin moved
  /\ Op(c) = "seal" /\ Outs[c] = Artifacts /\ Fits(c) /\ Apart(c)

Settled == \E c \in Commands : SettledBy(c)

Watch(begun) == calm' = IF Settled' THEN calm \cup begun ELSE {}

-----------------------------------------------------------------------------
(* A node                                                                  *)

\* The node starts again from its files.
GiveUp(n) ==
  /\ loaded' = [loaded EXCEPT ![n] = <<>>]
  /\ proof' = [proof EXCEPT ![n] = NoProof]

\* ReadProvingKey, ReadVerifyingKey, ReadCCS
Load(n) ==
  LET i == Len(loaded[n]) + 1
      data == file[Artifacts[i + 1]]
  IN /\ n \notin accepted /\ i <= 3
     /\ \/ /\ Decodes(<<"pk", "vk", "r1cs">>[i], data)
           /\ loaded' = [loaded EXCEPT ![n] = Append(@, data)]
           /\ UNCHANGED proof
        \/ ~Decodes(<<"pk", "vk", "r1cs">>[i], data) /\ GiveUp(n)
     /\ UNCHANGED <<vars, chain, accepted>>
     /\ Watch(IF i = 1 /\ loaded' # loaded THEN {n} ELSE {})

\* groth16: a proof of these keys is good for them alone, and only if they were
\* made for their own SRS and circuit.
Accepts(keys, pf) ==
  /\ pf.keys = keys
  /\ keys.phase2.srs = keys.srs /\ keys.phase2.batch = keys.batch

\* ProveSingleKeyShareEncryption, and the node's own groth16.Verify.  The witness
\* does not fit a circuit of another batch; a proving key that is not of the
\* loaded circuit gives an error or a worthless proof.
Prove(n) ==
  LET pk == loaded[n][1]
      vk == loaded[n][2]
      ccs == loaded[n][3]
  IN /\ Len(loaded[n]) = 3 /\ proof[n] = NoProof
     /\ \/ /\ ccs.batch = Batch /\ pk.keys.batch = ccs.batch
           /\ \E body \in Bodies :
                LET pf == [keys |-> pk.keys, body |-> body] IN
                /\ Accepts(vk.keys, pf)
                /\ proof' = [proof EXCEPT ![n] = pf]
           /\ UNCHANGED loaded
        \/ /\ \/ ccs.batch # Batch \/ pk.keys.batch # ccs.batch
              \/ ~Accepts(vk.keys, [keys |-> pk.keys])
           /\ GiveUp(n)
     /\ UNCHANGED <<vars, chain, accepted>>
     /\ Watch({})

\* The coordinates that the contract gets as they are in the proof.
Received == {body \in Bodies : GetContractInput(MarshalSolidity(body)) = body}

\* Faulty: the proof is kept for another call.
SubmitKeeping(n) ==
  /\ proof[n] # NoProof
  /\ loaded' = [loaded EXCEPT ![n] = <<>>]
  /\ UNCHANGED <<vars, chain, accepted, proof>>
  /\ Watch({})

\* The node calls the contract with GetContractInput of its proof.
Submit(n) ==
  /\ proof[n] # NoProof
  /\ accepted' =
       IF chain # None /\ Accepts(chain.keys, proof[n]) /\ proof[n].body \in Received
       THEN accepted \cup {n} ELSE accepted
  /\ GiveUp(n)
  /\ UNCHANGED <<vars, chain>>
  /\ Watch({})

-----------------------------------------------------------------------------
\* Somebody deploys the contract that is there, if it compiles; what nodes have
\* proved to an older one counts no more.
Deploy ==
  LET contract == file[Artifacts[1]] IN
  /\ contract.kind = "contract" /\ contract # chain
  /\ chain' = contract
  /\ accepted' = {}
  /\ UNCHANGED <<vars, loaded, proof>>
  /\ Watch({})

Step(n) == Load(n) \/ Prove(n) \/ Submit(n)

DeploymentNext ==
  \/ Next /\ UNCHANGED nodeVars /\ Watch({})
  \/ \E n \in Nodes : Step(n)
  \/ Deploy

DeploymentSpec == DeploymentInit /\ [][DeploymentNext]_allVars

\* A node goes on, and begins again after an error; the latest contract is
\* deployed in the end.  Nothing is assumed of the ceremony's commands.
DeploymentFairness ==
  /\ \A n \in Nodes : WF_allVars(Step(n))
  /\ WF_allVars(Deploy)

FairDeploymentSpec == DeploymentSpec /\ DeploymentFairness

-----------------------------------------------------------------------------
(* Properties.                                                             *)

\* Type invariant of the nodes and the chain.
DeploymentTypeOK ==
  /\ chain.kind \in {"none", "contract"}
  /\ \A n \in Nodes :
       /\ \A i \in DOMAIN loaded[n] : loaded[n][i].kind = <<"pk", "vk", "r1cs">>[i]
       /\ proof[n] # NoProof => proof[n].body \in Bodies /\ Len(loaded[n]) = 3
  /\ accepted \subseteq Nodes /\ calm \subseteq Nodes

\* A node that reads its files from a settled directory never gets an error from
\* them, and the contract that is in this directory takes its proof: the three
\* reads, the proof and the call are separate steps, keys may have been exported
\* over others in any way before, and the contract may have been deployed in the
\* middle of that.
CalmAccepted ==
  [][\A n \in calm : n \in calm' =>
       /\ proof[n] = NoProof => Len(loaded'[n]) >= Len(loaded[n])
       /\ proof[n] # NoProof /\ proof'[n] = NoProof /\ chain = file[Artifacts[1]]
            => n \in accepted']_allVars

\* However exports have overlapped, failed and been repeated: if one of them is
\* undisturbed in the end, the chain and every node come to use its keys.
Served == <>[]Settled => <>[](accepted = Nodes /\ chain = file[Artifacts[1]])
=============================================================================
