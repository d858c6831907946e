--------------------------- MODULE CeremonyProofs ---------------------------
(***************************************************************************)
(* Theorems about Ceremony, for any command lines over any paths, any      *)
(* files given, and any number of commands at a time, faults and repeats.  *)
(***************************************************************************)
EXTENDS Ceremony, SequenceLemmas

-----------------------------------------------------------------------------
(* Command lines and what they write.                                      *)

\* The paths of a command line.
LEMMA LineIs ==
  ASSUME NEW c \in Commands
  PROVE  /\ Op(c) \in DOMAIN Handler
         /\ DOMAIN Ins(c) = 1 .. Len(Reads(c)) /\ Len(Ins(c)) = Len(Reads(c))
         /\ DOMAIN Outs[c] = 1 .. Len(Handler[Op(c)].outs)
         /\ Len(Outs[c]) = Len(Handler[Op(c)].outs) /\ Len(Ins(c)) \in Nat
         /\ Len(Outs[c]) \in Nat
         /\ \A i \in DOMAIN Ins(c) : Ins(c)[i] \in Files[c]
         /\ \A i \in DOMAIN Outs[c] : Outs[c][i] \in Elems(Outs[c])
         /\ Elems(Outs[c]) \subseteq Files[c] /\ Files[c] \subseteq Paths
<1>1. LineType(Line[c])
  BY CeremonyAssumption
<1>2. Op(c) \in DOMAIN Handler
  BY <1>1 DEF LineType, Op
<1>3. DOMAIN Ins(c) = 1 .. Len(Reads(c)) /\ Len(Ins(c)) = Len(Reads(c)) /\ Len(Ins(c)) \in Nat
  BY <1>1, LenIs DEF LineType, Op, Ins, Reads
<1>4. /\ DOMAIN Line[c].outs = 1 .. Len(Handler[Op(c)].outs)
      /\ Len(Handler[Op(c)].outs) \in Nat
  BY <1>1, LenIs DEF LineType, Op
<1>5. /\ Outs[c] = [i \in DOMAIN Outs[c] |-> Outs[c][i]]
      /\ DOMAIN Outs[c] = 1 .. Len(Handler[Op(c)].outs)
  BY <1>4 DEF Outs
<1>6. Len(Outs[c]) = Len(Handler[Op(c)].outs)
  BY <1>4, <1>5, FunIs
<1>7. Files[c] = Elems(Ins(c)) \cup Elems(Outs[c])
  BY DEF Files
<1>8. Files[c] \subseteq Paths
  BY DEF Paths
<1> QED
  BY <1>2, <1>3, <1>4, <1>5, <1>6, <1>7, <1>8 DEF Elems

\* Everything that a command reads is of a kind with a type.
Typed(c, in) ==
  \A i \in DOMAIN Ins(c) : FileType(in[i]) /\ in[i].kind = Reads(c)[i]

\* Contribute adds one secret and leaves a file of the same type.
LEMMA ContributeIs ==
  ASSUME NEW data, FileType(data), data.kind \in {"phase1", "phase2"}, NEW secret
  PROVE  LET cur == Contribute(data, secret) IN
         /\ FileType(cur) /\ cur.kind = data.kind /\ Verify(data, cur)
         /\ cur.secrets[Len(cur.secrets)] = secret
<1> DEFINE cur == Contribute(data, secret)
<1>1. /\ {"kind", "secrets"} \subseteq DOMAIN data /\ IsSeq(data.secrets)
      /\ data.kind \in Kinds
  BY DEF FileType
<1>2. cur.kind = data.kind /\ cur.secrets = Append(data.secrets, secret)
  BY <1>1 DEF Contribute
<1>3. DOMAIN cur = DOMAIN data
  BY DEF Contribute
<1>4. /\ IsSeq(cur.secrets) /\ Len(cur.secrets) = Len(data.secrets) + 1
      /\ cur.secrets[Len(cur.secrets)] = secret
  BY <1>1, <1>2, AppendIs
<1>5. FileType(cur)
  BY <1>1, <1>2, <1>3, <1>4 DEF FileType
<1>6. Verify(data, cur)
  BY <1>2, <1>4 DEF Verify
<1> QED
  BY <1>2, <1>4, <1>5, <1>6

\* How many files the handlers write.
LEMMA OutsAre ==
  /\ \A op \in Contributions \cup {"phase1_init", "phase1_seal", "phase2_init"} :
       1 .. Len(Handler[op].outs) = {1}
  /\ 1 .. Len(Handler["seal"].outs) = {1, 2, 3, 4}
<1>1. /\ Len(initPhase1.outs) = 1 /\ Len(contributePhase1.outs) = 1
      /\ Len(sealPhase1.outs) = 1 /\ Len(initPhase2.outs) = 1
      /\ Len(contributePhase2.outs) = 1
  BY DEF initPhase1, contributePhase1, sealPhase1, initPhase2, contributePhase2
<1>2. Len(exportSeal.outs) = 4
  BY DEF exportSeal
<1>3. /\ Handler["phase1_init"] = initPhase1 /\ Handler["phase1_seal"] = sealPhase1
      /\ Handler["phase2_init"] = initPhase2 /\ Handler["seal"] = exportSeal
      /\ Handler["phase1_contribute"] = contributePhase1
      /\ Handler["phase2_contribute"] = contributePhase2
  BY DEF Handler
<1> HIDE DEF Handler
<1>4. 1 .. 1 = {1} /\ 1 .. 4 = {1, 2, 3, 4}
  OBVIOUS
<1> QED
  BY <1>1, <1>2, <1>3, <1>4 DEF Contributions

\* A command writes files of a type, and never one that is torn or missing.
LEMMA ProductsIs ==
  ASSUME NEW c \in Commands, Op(c) \notin Verifications, NEW in, Typed(c, in), NEW n
  PROVE  \A i \in DOMAIN Outs[c] :
           LET data == Products(c, in, n)[i] IN
           FileType(data) /\ data.kind \notin {"none", "torn"}
<1>1. Op(c) \in {"phase1_init", "phase1_contribute", "phase1_seal", "phase2_init",
                 "phase2_contribute", "seal"}
  BY LineIs DEF Handler, Verifications
<1>2. DOMAIN Outs[c] = 1 .. Len(Handler[Op(c)].outs) /\ DOMAIN Ins(c) = 1 .. Len(Reads(c))
  BY LineIs
<1>3. CASE Op(c) = "phase1_init"
  <2>1. DOMAIN Outs[c] = {1}
    BY <1>2, <1>3, OutsAre
  <2>2. Products(c, in, n)[1] = InitPhase1
    BY <1>3 DEF Products
  <2> QED
    BY <2>1, <2>2, EmptyIs DEF InitPhase1, FileType, Kinds
<1>4. CASE Op(c) \in Contributions
  <2>1. DOMAIN Outs[c] = {1}
    BY <1>2, <1>4, OutsAre
  <2>2. Reads(c)[1] \in {"phase1", "phase2"} /\ 1 \in DOMAIN Ins(c)
    BY <1>2, <1>4 DEF Reads, Handler, contributePhase1, contributePhase2, Contributions
  <2>3. Products(c, in, n)[1] = Contribute(in[1], <<c, n>>)
    BY <1>4 DEF Products, ContributePhase1, ContributePhase2, Contributions
  <2> QED
    BY <2>1, <2>2, <2>3, ContributeIs DEF Typed
<1>5. CASE Op(c) = "phase1_seal"
  <2>1. DOMAIN Outs[c] = {1}
    BY <1>2, <1>5, OutsAre
  <2>2. Products(c, in, n)[1].kind = "srs"
    BY <1>5 DEF Products, SealPhase1
  <2> QED
    BY <2>1, <2>2 DEF FileType, Kinds
<1>6. CASE Op(c) = "phase2_init"
  <2>1. DOMAIN Outs[c] = {1}
    BY <1>2, <1>6, OutsAre
  <2>2. Products(c, in, n)[1] = InitPhase2(Line[c].batch, in[1])
    BY <1>6 DEF Products
  <2> QED
    BY <2>1, <2>2, EmptyIs DEF InitPhase2, FileType, Kinds
<1>7. CASE Op(c) = "seal"
  <2>1. DOMAIN Outs[c] = {1, 2, 3, 4}
    BY <1>2, <1>7, OutsAre
  <2>2. LET out == Products(c, in, n) IN
        /\ out[1].kind = "contract" /\ out[2].kind = "pk"
        /\ out[3].kind = "vk" /\ out[4].kind = "r1cs"
    BY <1>7 DEF Products, ExportContract, ExportProvingKey, ExportVerifyingKey, ExportCCS
  <2> QED
    BY <2>1, <2>2 DEF FileType, Kinds
<1> QED
  BY <1>1, <1>3, <1>4, <1>5, <1>6, <1>7 DEF Contributions

-----------------------------------------------------------------------------
(* Types.                                                                  *)

\* A command that is in a file has that file's write before it.
InHand ==
  \A c \in Commands : pc[c] \in {"commit", "clash", "lost"} => todo[c] # <<>>

TypeInv == TypeOK /\ InHand

\* What is left to write after a file is of the same type.
LEMMA TailType ==
  ASSUME NEW c \in Commands, NEW writes, TodoType(c, writes), writes # <<>>
  PROVE  /\ TodoType(c, Tail(writes)) /\ Head(writes).path \in Elems(Outs[c])
         /\ Head(writes).path \in Paths /\ FileType(Head(writes).data)
<1>1. /\ IsSeq(Tail(writes)) /\ Len(Tail(writes)) = Len(writes) - 1
      /\ \A i \in 1 .. Len(writes) - 1 : Tail(writes)[i] = writes[i + 1]
      /\ Head(writes) = writes[1] /\ Len(writes) >= 1
  BY TailIs DEF TodoType
<1>2. /\ DOMAIN writes = 1 .. Len(writes) /\ Len(writes) \in Nat
      /\ DOMAIN Tail(writes) = 1 .. Len(writes) - 1
  BY <1>1, LenIs DEF TodoType
<1>3. \A i \in DOMAIN Tail(writes) : i + 1 \in DOMAIN writes /\ Tail(writes)[i] = writes[i + 1]
  BY <1>1, <1>2
<1>4. 1 \in DOMAIN writes
  BY <1>1, <1>2
<1> QED
  BY <1>1, <1>3, <1>4, LineIs DEF TodoType

\* No process has anything in memory or to write when its run is over.
LEMMA NothingType ==
  ASSUME NEW c \in Commands
  PROVE  MemType(c, <<>>) /\ TodoType(c, <<>>)
BY EmptyIs, LineIs DEF MemType, TodoType

LEMMA TypeInit == Init => TypeInv
<1> SUFFICES ASSUME Init PROVE TypeInv
  OBVIOUS
<1>1. \A p \in Paths : FileType(file[p])
  BY CeremonyAssumption DEF Init, FileType, None, Kinds
<1>2. \A c \in Commands : MemType(c, mem[c]) /\ TodoType(c, todo[c])
  BY NothingType DEF Init
<1>3. faults \in 0 .. MaxFaults /\ repeats \in 0 .. MaxRepeats
  BY CeremonyAssumption DEF Init
<1> QED
  BY <1>1, <1>2, <1>3 DEF Init, TypeInv, TypeOK, InHand

\* A run that is over leaves the types alone.
LEMMA QuitType ==
  ASSUME TypeInv, NEW c \in Commands, Quit(c)
  PROVE  /\ pc' \in [Commands -> {"idle", "read", "write", "commit", "clash", "lost"}]
         /\ DOMAIN mem' = Commands /\ DOMAIN todo' = Commands
         /\ \A d \in Commands : MemType(d, mem'[d]) /\ TodoType(d, todo'[d])
         /\ InHand'
BY NothingType DEF Quit, TypeInv, TypeOK, InHand

\* What is put into a file is of the type of a file.
LEMMA PutType ==
  ASSUME TypeInv, NEW c \in Commands, NEW p \in Paths, NEW data, FileType(data), Put(c, p, data)
  PROVE  /\ DOMAIN file' = Paths /\ \A q \in Paths : FileType(file[q])'
         /\ moved' \subseteq Commands
BY DEF Put, Moved, Users, TypeInv, TypeOK, FileType

LEMMA TypeStep == TypeInv /\ [Next]_vars => TypeInv'
<1> SUFFICES ASSUME TypeInv, [Next]_vars PROVE TypeInv'
  OBVIOUS
<1> USE DEF TypeInv, TypeOK
<1>1. ASSUME NEW c \in Commands, Start(c) PROVE TypeInv'
  <2>1. repeats' \in 0 .. MaxRepeats
    BY <1>1, CeremonyAssumption DEF Start
  <2>2. CASE FlagsOK(c) /\ pc' = [pc EXCEPT ![c] = "read"]
    BY <1>1, <2>1, <2>2 DEF Start, InHand
  <2>3. CASE Stop(c)
    BY <1>1, <2>1, <2>3, QuitType DEF Start, Stop
  <2> QED
    BY <1>1, <2>2, <2>3 DEF Start
<1>2. ASSUME NEW c \in Commands, Read(c) PROVE TypeInv'
  <2> DEFINE n == Len(mem[c]) + 1
             data == file[Ins(c)[n]]
  <2>1. CASE mem' = [mem EXCEPT ![c] = Append(@, data)] /\ Decodes(Reads(c)[n], data)
    <3>1. IsSeq(mem[c]) /\ Len(mem[c]) \in Nat /\ DOMAIN mem[c] = 1 .. Len(mem[c])
      BY LenIs DEF MemType
    <3>2. n <= Len(Ins(c)) /\ n \in DOMAIN Ins(c)
      BY <1>2, <3>1, LineIs DEF Read
    <3>3. FileType(data) /\ data.kind = Reads(c)[n]
      BY <2>1, <3>2, LineIs DEF Decodes
    <3> DEFINE in == Append(mem[c], data)
    <3>4. /\ IsSeq(in) /\ DOMAIN in = 1 .. n /\ Len(in) = n
          /\ \A i \in 1 .. Len(mem[c]) : in[i] = mem[c][i]
          /\ in[n] = data
      BY <3>1, AppendIs, LenIs
    <3>5. \A i \in 1 .. n : i \in DOMAIN mem[c] \/ i = n
      BY <3>1
    <3> HIDE DEF n, data
    <3>6. MemType(c, in)
      BY <3>1, <3>2, <3>3, <3>4, <3>5 DEF MemType
    <3> QED
      BY <1>2, <2>1, <3>6 DEF Read, InHand, n, data
  <2>2. CASE Stop(c)
    BY <1>2, <2>2, QuitType DEF Read, Stop
  <2> QED
    BY <1>2, <2>1, <2>2 DEF Read
<1>3. ASSUME NEW c \in Commands, Compute(c) PROVE TypeInv'
  <2>1. CASE Op(c) \in Verifications
    <3>1. Quit(c) /\ ok' \subseteq Commands /\ moved' \subseteq Commands
      BY <1>3, <2>1 DEF Compute, Succeed, Stop
    <3> QED
      BY <1>3, <3>1, QuitType DEF Compute
  <2>2. CASE Op(c) \notin Verifications
    <3> DEFINE writes == [i \in DOMAIN Outs[c] |->
                 [path |-> Outs[c][i], data |-> Products(c, mem[c], drawn[c] + 1)[i]]]
    <3>1. Typed(c, mem[c])
      <4>1. DOMAIN mem[c] = DOMAIN Ins(c)
        BY <1>3, LenIs, LineIs DEF Compute, MemType
      <4> QED
        BY <4>1 DEF MemType, Typed
    <3>2. \A i \in DOMAIN Outs[c] : FileType(writes[i].data)
      BY <2>2, <3>1, ProductsIs
    <3>3. IsSeq(writes)
      <4> HIDE DEF TypeOK, TypeInv
      <4>1. writes = [i \in 1 .. Len(Outs[c]) |-> writes[i]] /\ Len(Outs[c]) \in Nat
        BY LineIs
      <4> HIDE DEF writes
      <4> QED
        BY <4>1, FunIs
    <3>4. TodoType(c, writes)
      BY <3>2, <3>3, LineIs DEF TodoType
    <3> HIDE DEF writes
    <3>5. todo' = [todo EXCEPT ![c] = writes] /\ pc' = [pc EXCEPT ![c] = "write"]
      BY <1>3, <2>2 DEF Compute, writes
    <3> QED
      BY <1>3, <2>2, <3>4, <3>5 DEF Compute, InHand
  <2> QED
    BY <2>1, <2>2
<1>4. ASSUME NEW c \in Commands, OpenTemp(c) PROVE TypeInv'
  <2>1. TodoType(c, todo[c]) /\ todo[c] # <<>>
    BY <1>4 DEF OpenTemp
  <2>2. CASE /\ temp' = [temp EXCEPT ![Head(todo[c]).path] = c]
             /\ pc' = [pc EXCEPT ![c] = "commit"] /\ UNCHANGED <<mem, todo, ok, moved>>
    BY <1>4, <2>1, <2>2 DEF OpenTemp, InHand
  <2>3. CASE Stop(c)
    BY <1>4, <2>3, QuitType DEF OpenTemp, Stop
  <2> QED
    BY <1>4, <2>2, <2>3 DEF OpenTemp
<1>5. ASSUME NEW c \in Commands, CreateContract(c) PROVE TypeInv'
  <2> DEFINE p == Head(todo[c]).path
             others == OthersIn(c, p)
  <2>1. todo[c] # <<>> /\ p \in Paths
    BY <1>5, TailType DEF CreateContract
  <2>2. FileType(Torn)
    BY DEF Torn, FileType, Kinds
  <2>3. others \subseteq Commands /\ \A d \in others : todo[d] # <<>>
    BY DEF OthersIn, InHand
  <2>4. /\ DOMAIN file' = Paths /\ \A q \in Paths : FileType(file[q])'
        /\ moved' \subseteq Commands
    <3>1. Moved(c, p, Torn) \subseteq Commands
      BY DEF Moved, Users
    <3> QED
      BY <1>5, <2>1, <2>2, <2>3, <3>1 DEF CreateContract, FileType
  <2>5. InHand' /\ pc' \in [Commands -> {"idle", "read", "write", "commit", "clash", "lost"}]
    BY <1>5, <2>1, <2>3 DEF CreateContract, InHand
  <2> QED
    BY <1>5, <2>4, <2>5 DEF CreateContract
<1>6. ASSUME NEW c \in Commands, CommitTemp(c) PROVE TypeInv'
  <2> DEFINE w == Head(todo[c])
             others == OthersIn(c, w.path)
  <2>1. todo[c] # <<>> /\ w.path \in Paths /\ FileType(w.data) /\ TodoType(c, Tail(todo[c]))
    BY <1>6, TailType DEF CommitTemp, InHand
  <2>2. /\ DOMAIN file' = Paths /\ \A q \in Paths : FileType(file[q])'
        /\ moved' \subseteq Commands
    BY <1>6, <2>1, PutType DEF CommitTemp
  <2>3. \A d \in others : d \in Commands /\ d # c /\ todo[d] # <<>>
    BY DEF OthersIn, InHand
  <2>4. InHand' /\ pc' \in [Commands -> {"idle", "read", "write", "commit", "clash", "lost"}]
    BY <1>6, <2>1, <2>3 DEF CommitTemp, InHand
  <2>5. drawn' \in [Commands -> Nat]
    BY <1>6 DEF CommitTemp
  <2> QED
    BY <1>6, <2>1, <2>2, <2>4, <2>5 DEF CommitTemp
<1>7. ASSUME NEW c \in Commands, CompleteContract(c) PROVE TypeInv'
  <2> DEFINE w == Head(todo[c])
  <2>1. todo[c] # <<>> /\ w.path \in Paths /\ FileType(w.data) /\ TodoType(c, Tail(todo[c]))
    BY <1>7, TailType DEF CompleteContract, InHand
  <2>2. FileType(Torn)
    BY DEF Torn, FileType, Kinds
  <2>3. /\ DOMAIN file' = Paths /\ \A q \in Paths : FileType(file[q])'
        /\ moved' \subseteq Commands
    <3>1. CASE Put(c, w.path, w.data) \/ Put(c, w.path, Torn)
      BY <2>1, <2>2, <3>1, PutType
    <3>2. CASE UNCHANGED <<file, moved>>
      BY <3>2 DEF FileType
    <3> QED
      BY <1>7, <3>1, <3>2 DEF CompleteContract
  <2> QED
    BY <1>7, <2>1, <2>3 DEF CompleteContract, InHand
<1>8. ASSUME NEW c \in Commands, Finish(c) PROVE TypeInv'
  BY <1>8, QuitType DEF Finish, Succeed
<1>9. ASSUME Fault PROVE faults' \in 0 .. MaxFaults
  BY <1>9, CeremonyAssumption DEF Fault
<1>10. ASSUME NEW c \in Commands, FailWrite(c) PROVE TypeInv'
  <2>1. Fault /\ Stop(c) /\ UNCHANGED <<file, drawn, repeats>>
    BY <1>10 DEF FailWrite
  <2>2. temp' \in [Paths -> Commands \cup {Unset}]
    BY <1>10 DEF FailWrite
  <2> QED
    BY <1>9, <2>1, <2>2, QuitType DEF Stop
<1>11. ASSUME NEW c \in Commands, Kill(c) PROVE TypeInv'
  BY <1>9, <1>11, QuitType DEF Kill, Stop
<1>12. ASSUME NEW p \in Paths, RemoveStale(p) PROVE TypeInv'
  BY <1>12 DEF RemoveStale, InHand
<1>13. CASE UNCHANGED vars
  BY <1>13 DEF vars, InHand
<1>14. CASE \E c \in Commands : Start(c) \/ Run(c) \/ FailWrite(c) \/ Kill(c)
  BY <1>14, <1>1, <1>2, <1>3, <1>4, <1>5, <1>6, <1>7, <1>8, <1>10, <1>11 DEF Run
<1> QED
  BY <1>12, <1>13, <1>14 DEF Next, Over

\* Whatever commands run, fail and are killed in whatever order, each process of
\* mpccmd holds what its handler reads and writes, and every file has a type.
THEOREM TypeCorrect == Spec => []TypeOK
<1>1. TypeInv => TypeOK
  BY DEF TypeInv
<1> QED
  BY <1>1, TypeInit, TypeStep, PTL DEF Spec

-----------------------------------------------------------------------------
(* What a command writes, and what the others do to it meanwhile.          *)

Writing(c) == pc[c] \in {"write", "commit", "clash", "lost"}
Written(c) == Len(Outs[c]) - Len(todo[c])

\* c is writing a contract that has a name.
InContract(c) == pc[c] \in {"commit", "clash"} /\ Head(todo[c]).data.kind = "contract"

\* The outputs of c as they will be: in the files, or still to be written.
Outcome(c) ==
  [i \in DOMAIN Outs[c] |-> IF i <= Written(c) THEN file[Outs[c][i]]
                            ELSE todo[c][i - Written(c)].data]

\* A command writes its outputs in the order of its paths, and what it writes is
\* there; a command that has lost a contract to another knows it is disturbed.
InOrder(c) ==
  /\ pc[c] = "idle" => mem[c] = <<>>
  /\ Writing(c) =>
       /\ Op(c) \notin Verifications /\ Len(todo[c]) <= Len(Outs[c])
       /\ \A i \in DOMAIN todo[c] :
            /\ todo[c][i].path = Outs[c][Written(c) + i]
            /\ todo[c][i].data.kind \notin {"none", "torn"}
  /\ pc[c] \in {"clash", "lost"} => c \in moved /\ Head(todo[c]).data.kind = "contract"
  /\ InContract(c) => file[Head(todo[c]).path].kind \in {"torn", "contract"}

WriteInv == \A c \in Commands : InOrder(c)

\* Unless another command has changed one of its files, what c has read is in
\* its files and what it has written, and will write, is made from that.
Undisturbed(c) ==
  /\ pc[c] = "read" => \A i \in DOMAIN mem[c] : mem[c][i] = file[Ins(c)[i]]
  /\ Writing(c) => Derivation(c, In(c), Outcome(c))
  /\ Succeeded(c) => Derivation(c, In(c), Out(c))

DerivedInv == \A c \in Commands : Apart(c) /\ c \notin moved => Undisturbed(c)

\* A seal whose paths are its own writes four files of one export.
AgreeInv ==
  \A c \in Commands :
    Op(c) = "seal" /\ Exclusive(c) =>
      /\ Writing(c) => pc[c] \in {"write", "commit"} /\ Agree(Outcome(c))
      /\ Succeeded(c) => Agree(Out(c))

\* What a step that is not of c does to c: it may change the files of c, and then
\* c knows of it, and it may take a contract away from c that c is writing.
Aside(c) ==
  /\ mem'[c] = mem[c] /\ todo'[c] = todo[c] /\ (c \in ok' <=> c \in ok)
  /\ c \in moved => c \in moved'
  /\ (pc[c] # "idle" \/ c \in ok) /\ c \notin moved' =>
       \A p \in Files[c] : file'[p] = file[p]
  /\ \A p \in Elems(Outs[c]) :
       file'[p] # file[p] => \E d \in Commands \ {c} : p \in Elems(Outs[d])
  /\ pc'[c] # pc[c] =>
       /\ InContract(c) /\ pc'[c] \in {"clash", "lost"} /\ c \in moved'
       /\ \E d \in Commands \ {c} : Head(todo[c]).path \in Elems(Outs[d])
  /\ InContract(c)' =>
       LET p == Head(todo[c]).path IN
       file'[p] = file[p] \/ file'[p].kind \in {"torn", "contract"}

\* A step that changes no file and nothing of c is an aside for c.
LEMMA Quiet ==
  ASSUME NEW c \in Commands, UNCHANGED file, mem'[c] = mem[c], todo'[c] = todo[c],
         pc'[c] = pc[c], c \in ok' <=> c \in ok, c \in moved' <=> c \in moved
  PROVE  Aside(c)
BY DEF Aside

\* So is the end of the run of another command.
LEMMA StopAside ==
  ASSUME TypeInv, NEW c \in Commands, NEW d \in Commands \ {c}, UNCHANGED file,
         Stop(d) \/ Succeed(d)
  PROVE  Aside(c)
BY Quiet DEF TypeInv, TypeOK, Stop, Succeed, Quit

\* The file at p becomes data, and at least those who use it are disturbed: what
\* Put and CreateContract have in common.
Touch(d, p, data) == file' = [file EXCEPT ![p] = data] /\ Moved(d, p, data) \subseteq moved'

\* A command that changes a file of c puts c into moved.
LEMMA TouchAside ==
  ASSUME TypeInv, NEW c \in Commands, NEW d \in Commands \ {c}, NEW p \in Elems(Outs[d]),
         NEW data, Touch(d, p, data)
  PROVE  /\ c \in moved => c \in moved'
         /\ (pc[c] # "idle" \/ c \in ok) /\ c \notin moved' =>
              \A q \in Files[c] : file'[q] = file[q]
         /\ \A q \in Elems(Outs[c]) :
              file'[q] # file[q] => \E e \in Commands \ {c} : q \in Elems(Outs[e])
         /\ p \in Paths /\ file'[p] = data
         /\ \A q \in Paths : q # p => file'[q] = file[q]
<1>1. p \in Paths /\ Files[c] \subseteq Paths /\ Elems(Outs[c]) \subseteq Paths
  BY LineIs
<1>2. file'[p] = data /\ \A q \in Paths : q # p => file'[q] = file[q]
  BY <1>1 DEF Touch, TypeInv, TypeOK
<1>3. \A q \in Elems(Outs[c]) :
        file'[q] # file[q] => \E e \in Commands \ {c} : q \in Elems(Outs[e])
  BY <1>1, <1>2
<1>4. c \in moved => c \in moved'
  BY DEF Touch, Moved
<1>5. ASSUME pc[c] # "idle" \/ c \in ok, c \notin moved', NEW q \in Files[c]
      PROVE  file'[q] = file[q]
  <2>1. CASE q = p
    BY <1>2, <1>5, <2>1 DEF Touch, Moved, Users
  <2>2. CASE q # p
    BY <1>1, <1>2, <2>2
  <2> QED
    BY <2>1, <2>2
<1> QED
  BY <1>1, <1>2, <1>3, <1>4, <1>5

\* As much is true of Put.
LEMMA PutAside ==
  ASSUME TypeInv, NEW c \in Commands, NEW d \in Commands \ {c}, NEW p \in Elems(Outs[d]),
         NEW data, Put(d, p, data)
  PROVE  /\ c \in moved => c \in moved'
         /\ (pc[c] # "idle" \/ c \in ok) /\ c \notin moved' =>
              \A q \in Files[c] : file'[q] = file[q]
         /\ \A q \in Elems(Outs[c]) :
              file'[q] # file[q] => \E e \in Commands \ {c} : q \in Elems(Outs[e])
         /\ p \in Paths /\ file'[p] = data
         /\ \A q \in Paths : q # p => file'[q] = file[q]
<1>1. Touch(d, p, data)
  BY DEF Put, Touch
<1> QED
  BY <1>1, TouchAside

\* Every step of another command is an aside for c.
LEMMA AsideStep ==
  ASSUME TypeInv, WriteInv, NEW c \in Commands, NEW d \in Commands \ {c},
         Start(d) \/ Run(d) \/ FailWrite(d) \/ Kill(d)
  PROVE  Aside(c)
<1> USE DEF TypeInv, TypeOK
<1>1. CASE Start(d)
  <2>1. CASE pc' = [pc EXCEPT ![d] = "read"] /\ moved' = moved \ {d} /\ UNCHANGED <<mem, todo, ok>>
    BY <1>1, <2>1, Quiet DEF Start
  <2>2. CASE Stop(d)
    BY <1>1, <2>2, StopAside DEF Start
  <2> QED
    BY <1>1, <2>1, <2>2 DEF Start
<1>2. CASE Read(d)
  <2>1. CASE /\ mem' = [mem EXCEPT ![d] = Append(@, file[Ins(d)[Len(mem[d]) + 1]])]
             /\ UNCHANGED <<pc, todo, ok, moved>>
    BY <1>2, <2>1, Quiet DEF Read
  <2>2. CASE Stop(d)
    BY <1>2, <2>2, StopAside DEF Read
  <2> QED
    BY <1>2, <2>1, <2>2 DEF Read
<1>3. CASE Compute(d)
  <2>1. CASE Op(d) \in Verifications
    <3>1. Stop(d) \/ Succeed(d)
      BY <1>3, <2>1 DEF Compute
    <3> QED
      BY <1>3, <3>1, StopAside DEF Compute
  <2>2. CASE Op(d) \notin Verifications
    BY <1>3, <2>2, Quiet DEF Compute
  <2> QED
    BY <2>1, <2>2
<1>4. CASE OpenTemp(d)
  <2>1. CASE pc' = [pc EXCEPT ![d] = "commit"] /\ UNCHANGED <<mem, todo, ok, moved>>
    BY <1>4, <2>1, Quiet DEF OpenTemp
  <2>2. CASE Stop(d)
    BY <1>4, <2>2, StopAside DEF OpenTemp
  <2> QED
    BY <1>4, <2>1, <2>2 DEF OpenTemp
<1>5. CASE Finish(d)
  BY <1>5, StopAside DEF Finish
<1>6. CASE FailWrite(d) \/ Kill(d)
  BY <1>6, StopAside DEF FailWrite, Kill
<1>7. ASSUME todo[d] # <<>>
      PROVE  Head(todo[d]).path \in Elems(Outs[d])
  BY <1>7, TailType
<1>8. CASE CreateContract(d)
  <2> DEFINE p == Head(todo[d]).path
  <2>1. p \in Elems(Outs[d])
    BY <1>7, <1>8 DEF CreateContract
  <2>2. Touch(d, p, Torn) /\ UNCHANGED <<mem, todo, ok>>
    BY <1>8 DEF CreateContract, Touch
  <2>3. pc'[c] # pc[c] =>
          InContract(c) /\ pc'[c] = "clash" /\ c \in moved' /\ Head(todo[c]).path = p
    BY <1>8 DEF CreateContract, OthersIn, InContract
  <2>4. InContract(c)' =>
          LET q == Head(todo[c]).path IN file'[q] = file[q] \/ file'[q].kind \in {"torn", "contract"}
    <3>1. InContract(c) \/ pc'[c] = pc[c]
      BY <2>3
    <3>2. InContract(c)' => Head(todo[c]).path \in Paths
      BY <2>2, <3>1, LineIs, TailType DEF InContract, InHand
    <3>3. file'[p] = Torn /\ \A q \in Paths : q # p => file'[q] = file[q]
      BY <2>1, <2>2, TouchAside
    <3> QED
      BY <2>2, <3>2, <3>3 DEF Torn, InContract
  <2> QED
    BY <2>1, <2>2, <2>3, <2>4, TouchAside DEF Aside
<1>9. CASE CommitTemp(d)
  <2> DEFINE w == Head(todo[d])
  <2>1. w.path \in Elems(Outs[d]) /\ Put(d, w.path, w.data) /\ UNCHANGED <<mem, ok>>
        /\ todo'[c] = todo[c]
    BY <1>7, <1>9 DEF CommitTemp, InHand
  <2>2. CASE c \in OthersIn(d, w.path)
    <3>1. InContract(c) /\ Head(todo[c]).path = w.path /\ pc'[c] = "lost"
      BY <1>9, <2>2 DEF CommitTemp, OthersIn, InContract
    <3>2. w.data.kind \notin {"none", "torn", "contract"}
      <4>1. todo[d] # <<>> /\ Writing(d) /\ w.data.kind # "contract"
        BY <1>9 DEF CommitTemp, InHand, Writing
      <4>2. 1 \in DOMAIN todo[d] /\ w = todo[d][1]
        BY <4>1, LenIs, TailIs DEF TodoType
      <4> QED
        BY <4>1, <4>2 DEF WriteInv, InOrder
    <3>3. file[w.path] # w.data
      BY <3>1, <3>2 DEF WriteInv, InOrder
    <3>4. c \in moved'
      <4>1. w.path \in Files[c]
        BY <3>1, TailType, LineIs DEF InContract, InHand
      <4>2. pc[c] # "idle"
        BY <3>1 DEF InContract
      <4> QED
        BY <2>1, <3>3, <4>1, <4>2 DEF Put, Moved, Users
    <3>5. ~InContract(c)'
      BY <3>1 DEF InContract
    <3> QED
      BY <2>1, <3>1, <3>4, <3>5, PutAside DEF Aside
  <2>3. CASE c \notin OthersIn(d, w.path)
    <3>1. pc'[c] = pc[c]
      BY <1>9, <2>3 DEF CommitTemp
    <3>2. InContract(c)' =>
            LET q == Head(todo[c]).path IN file'[q] = file[q] \/ file'[q].kind \in {"torn", "contract"}
      <4>1. InContract(c)' => InContract(c) /\ Head(todo[c]).path # w.path
        BY <2>1, <2>3, <3>1 DEF InContract, OthersIn
      <4>2. InContract(c) => Head(todo[c]).path \in Paths
        BY LineIs, TailType DEF InContract, InHand
      <4>3. \A q \in Paths : q # w.path => file'[q] = file[q]
        BY <2>1, LineIs DEF Put
      <4> QED
        BY <4>1, <4>2, <4>3
    <3> QED
      BY <2>1, <3>1, <3>2, PutAside DEF Aside
  <2> QED
    BY <2>2, <2>3
<1>10. CASE CompleteContract(d)
  <2> DEFINE w == Head(todo[d])
  <2>1. /\ w.path \in Elems(Outs[d]) /\ UNCHANGED <<mem, ok>> /\ todo'[c] = todo[c]
        /\ pc'[c] = pc[c] /\ w.data.kind = "contract"
    BY <1>7, <1>10 DEF CompleteContract, InHand
  <2>2. ASSUME NEW data, data.kind \in {"torn", "contract"}, Put(d, w.path, data)
        PROVE  Aside(c)
    <3>1. InContract(c)' =>
            LET q == Head(todo[c]).path IN file'[q] = file[q] \/ file'[q].kind \in {"torn", "contract"}
      <4>1. InContract(c)' => Head(todo[c]).path \in Paths
        BY <2>1, LineIs, TailType DEF InContract, InHand
      <4>2. file'[w.path] = data /\ \A q \in Paths : q # w.path => file'[q] = file[q]
        BY <2>1, <2>2, PutAside
      <4> QED
        BY <2>2, <4>1, <4>2
    <3> QED
      BY <2>1, <2>2, <3>1, PutAside DEF Aside
  <2>3. CASE UNCHANGED <<file, moved>>
    BY <2>1, <2>3, Quiet
  <2> QED
    BY <1>10, <2>1, <2>2, <2>3 DEF CompleteContract, Torn
<1> QED
  BY <1>1, <1>2, <1>3, <1>4, <1>5, <1>6, <1>8, <1>9, <1>10 DEF Run

\* A step is a step of c or an aside for c.
LEMMA StepOrAside ==
  ASSUME TypeInv, WriteInv, NEW c \in Commands, [Next]_vars
  PROVE  Start(c) \/ Run(c) \/ FailWrite(c) \/ Kill(c) \/ Aside(c)
<1>1. CASE \E d \in Commands : Start(d) \/ Run(d) \/ FailWrite(d) \/ Kill(d)
  BY <1>1, AsideStep
<1>2. CASE \E p \in Paths : RemoveStale(p)
  BY <1>2, Quiet DEF RemoveStale
<1>3. CASE UNCHANGED vars
  BY <1>3, Quiet DEF vars
<1> QED
  BY <1>1, <1>2, <1>3 DEF Next, Over

-----------------------------------------------------------------------------
(* The order of the writes.                                                *)

LEMMA AsideInOrder ==
  ASSUME NEW c \in Commands, InOrder(c), Aside(c)
  PROVE  InOrder(c)'
<1>1. mem'[c] = mem[c] /\ todo'[c] = todo[c] /\ (c \in moved => c \in moved')
  BY DEF Aside
<1>2. pc'[c] = pc[c] \/ (InContract(c) /\ pc'[c] \in {"clash", "lost"} /\ c \in moved')
  BY DEF Aside
<1>3. Written(c)' = Written(c) /\ (Writing(c)' => Writing(c))
  BY <1>1, <1>2 DEF Written, Writing, InContract
<1>4. InContract(c)' => file'[Head(todo[c]).path].kind \in {"torn", "contract"}
  <2>1. InContract(c)' => InContract(c)
    BY <1>1, <1>2 DEF InContract
  <2> QED
    BY <2>1 DEF Aside, InOrder
<1> QED
  BY <1>1, <1>2, <1>3, <1>4 DEF InOrder, InContract

LEMMA QuitInOrder ==
  ASSUME TypeInv, NEW c \in Commands, Quit(c)
  PROVE  InOrder(c)'
BY DEF Quit, InOrder, Writing, InContract, TypeInv, TypeOK

\* When a file is done, the next in order is the next of the paths.
LEMMA TailInOrder ==
  ASSUME TypeInv, NEW c \in Commands, InOrder(c), Writing(c), todo[c] # <<>>,
         todo'[c] = Tail(todo[c]), pc'[c] = "write"
  PROVE  /\ InOrder(c)' /\ Written(c)' = Written(c) + 1 /\ Written(c) + 1 \in DOMAIN Outs[c]
         /\ Head(todo[c]) = todo[c][1] /\ Outs[c][Written(c) + 1] = Head(todo[c]).path
         /\ \A i \in DOMAIN Outs[c] : i > Written(c) + 1 =>
              todo'[c][i - (Written(c) + 1)] = todo[c][i - Written(c)]
<1>1. /\ IsSeq(todo[c]) /\ Len(todo[c]) \in Nat /\ DOMAIN todo[c] = 1 .. Len(todo[c])
      /\ Len(Outs[c]) \in Nat /\ DOMAIN Outs[c] = 1 .. Len(Outs[c])
  BY LenIs, LineIs DEF TypeInv, TypeOK, TodoType
<1>2. /\ Len(todo'[c]) = Len(todo[c]) - 1 /\ Len(todo[c]) >= 1
      /\ \A i \in 1 .. Len(todo[c]) - 1 : todo'[c][i] = todo[c][i + 1]
      /\ DOMAIN todo'[c] = 1 .. Len(todo[c]) - 1 /\ Head(todo[c]) = todo[c][1]
  BY <1>1, TailIs, LenIs
<1>3. Len(todo[c]) <= Len(Outs[c]) /\ Op(c) \notin Verifications
  BY DEF InOrder
<1>4. /\ Written(c) \in Nat /\ Written(c)' = Written(c) + 1
      /\ Written(c) + 1 \in DOMAIN Outs[c]
  <2> DEFINE m == Len(Outs[c])
             n == Len(todo[c])
             k == Len(todo'[c])
  <2>1. m \in Nat /\ n \in Nat /\ k = n - 1 /\ n >= 1 /\ n <= m
    BY <1>1, <1>2, <1>3
  <2>2. Written(c) = m - n /\ Written(c)' = m - k /\ DOMAIN Outs[c] = 1 .. m
    BY <1>1 DEF Written
  <2> HIDE DEF m, n, k
  <2> QED
    BY <2>1, <2>2
<1>5. \A i \in DOMAIN todo'[c] :
        /\ i + 1 \in DOMAIN todo[c] /\ todo'[c][i] = todo[c][i + 1]
        /\ Written(c)' + i = Written(c) + (i + 1)
  <2>1. \A i \in 1 .. Len(todo[c]) - 1 : i + 1 \in 1 .. Len(todo[c])
    BY <1>1
  <2>2. \A i \in Nat : Written(c)' + i = Written(c) + (i + 1)
    BY <1>4
  <2>3. \A i \in DOMAIN todo'[c] : i \in 1 .. Len(todo[c]) - 1 /\ i \in Nat
    BY <1>1, <1>2
  <2> HIDE DEF Written
  <2>4. ASSUME NEW i \in DOMAIN todo'[c]
        PROVE  i + 1 \in DOMAIN todo[c] /\ todo'[c][i] = todo[c][i + 1]
    BY <1>1, <1>2, <2>1, <2>3
  <2> QED
    BY <2>2, <2>3, <2>4
<1>6. \A i \in DOMAIN todo[c] :
        /\ todo[c][i].path = Outs[c][Written(c) + i]
        /\ todo[c][i].data.kind \notin {"none", "torn"}
  BY DEF InOrder
<1>7. \A i \in DOMAIN todo'[c] :
        /\ todo'[c][i].path = Outs[c][Written(c)' + i]
        /\ todo'[c][i].data.kind \notin {"none", "torn"}
  BY <1>5, <1>6
<1>8. Len(todo'[c]) <= Len(Outs[c])
  BY <1>1, <1>2, <1>3
<1>9. InOrder(c)'
  BY <1>3, <1>7, <1>8 DEF InOrder, Writing, InContract
<1>10. Outs[c][Written(c) + 1] = Head(todo[c]).path
  BY <1>1, <1>2, <1>6
<1>11. ASSUME NEW i \in DOMAIN Outs[c], i > Written(c) + 1
       PROVE  todo'[c][i - (Written(c) + 1)] = todo[c][i - Written(c)]
  <2>1. i - (Written(c) + 1) \in 1 .. Len(todo[c]) - 1
    <3> DEFINE m == Len(Outs[c])
               n == Len(todo[c])
               k == Written(c)
    <3>1. m \in Nat /\ n \in Nat /\ k = m - n /\ i \in 1 .. m /\ i > k + 1
      BY <1>1, <1>11 DEF Written
    <3> HIDE DEF m, n, k
    <3>2. i - (k + 1) \in 1 .. n - 1
      BY <3>1
    <3> QED
      BY <3>2 DEF n, k
  <2>2. (i - (Written(c) + 1)) + 1 = i - Written(c)
    BY <1>1, <1>4
  <2> QED
    BY <1>2, <2>1, <2>2
<1> QED
  BY <1>2, <1>4, <1>9, <1>10, <1>11

\* What Compute leaves to be written: every output, at its path.
LEMMA ComputeWrites ==
  ASSUME TypeInv, NEW c \in Commands, Op(c) \notin Verifications, Compute(c)
  PROVE  /\ pc'[c] = "write" /\ Len(todo'[c]) = Len(Outs[c]) /\ Written(c)' = 0
         /\ DOMAIN todo'[c] = DOMAIN Outs[c] /\ Typed(c, mem[c])
         /\ UNCHANGED <<file, mem, ok, moved, drawn>> /\ DOMAIN mem[c] = DOMAIN Ins(c)
         /\ \A i \in DOMAIN Outs[c] :
              /\ todo'[c][i].path = Outs[c][i]
              /\ todo'[c][i].data = Products(c, mem[c], drawn[c] + 1)[i]
              /\ todo'[c][i].data.kind \notin {"none", "torn"}
<1>1. DOMAIN mem[c] = DOMAIN Ins(c)
  BY LenIs, LineIs DEF Compute, TypeInv, TypeOK, MemType
<1>2. Typed(c, mem[c])
  BY <1>1 DEF Typed, TypeInv, TypeOK, MemType
<1>3. \A i \in DOMAIN Outs[c] :
        Products(c, mem[c], drawn[c] + 1)[i].kind \notin {"none", "torn"}
  BY <1>2, ProductsIs
<1>4. /\ todo'[c] = [i \in DOMAIN Outs[c] |->
                       [path |-> Outs[c][i], data |-> Products(c, mem[c], drawn[c] + 1)[i]]]
      /\ pc'[c] = "write" /\ UNCHANGED <<file, mem, ok, moved, drawn>>
  BY DEF Compute, TypeInv, TypeOK
<1>5. DOMAIN Outs[c] = 1 .. Len(Outs[c]) /\ Len(Outs[c]) \in Nat
  BY LineIs
<1>6. Len(todo'[c]) = Len(Outs[c])
  BY <1>4, <1>5, FunIs
<1>7. Written(c)' = 0
  BY <1>5, <1>6 DEF Written
<1> QED
  BY <1>1, <1>2, <1>3, <1>4, <1>6, <1>7

LEMMA WriteInit == Init => WriteInv
BY DEF Init, WriteInv, InOrder, Writing, InContract

LEMMA WriteStep == TypeInv /\ WriteInv /\ [Next]_vars => WriteInv'
<1> SUFFICES ASSUME TypeInv, WriteInv, [Next]_vars, NEW c \in Commands
             PROVE  InOrder(c)'
  BY DEF WriteInv
<1>0. InOrder(c)
  BY DEF WriteInv
<1>1. CASE Aside(c)
  BY <1>0, <1>1, AsideInOrder
<1>2. CASE Quit(c)
  BY <1>2, QuitInOrder
<1>3. CASE Start(c)
  <2>1. CASE pc' = [pc EXCEPT ![c] = "read"]
    BY <2>1 DEF InOrder, Writing, InContract, TypeInv, TypeOK
  <2> QED
    BY <1>2, <1>3, <2>1 DEF Start, Stop
<1>4. CASE Read(c)
  <2>1. CASE UNCHANGED <<pc, todo, ok, moved>> /\ UNCHANGED file
    BY <1>4, <2>1 DEF Read, InOrder, Writing, InContract
  <2> QED
    BY <1>2, <1>4, <2>1 DEF Read, Stop
<1>5. CASE Compute(c)
  <2>1. CASE Op(c) \in Verifications
    BY <1>2, <1>5, <2>1 DEF Compute, Succeed, Stop
  <2>2. CASE Op(c) \notin Verifications
    <3>1. \A i \in DOMAIN todo'[c] : Written(c)' + i = i
      BY <1>5, <2>2, ComputeWrites, LineIs
    <3>2. Len(todo'[c]) <= Len(Outs[c])
      BY <1>5, <2>2, ComputeWrites, LineIs
    <3> QED
      BY <1>5, <2>2, <3>1, <3>2, ComputeWrites DEF InOrder, Writing, InContract
  <2> QED
    BY <2>1, <2>2
<1>6. CASE OpenTemp(c)
  <2>1. CASE pc' = [pc EXCEPT ![c] = "commit"] /\ UNCHANGED todo
    <3>1. pc'[c] = "commit" /\ pc[c] = "write"
      BY <1>6, <2>1 DEF OpenTemp, TypeInv, TypeOK
    <3>2. Head(todo'[c]).data.kind # "contract"
      BY <1>6, <2>1 DEF OpenTemp
    <3> QED
      BY <1>0, <2>1, <3>1, <3>2 DEF InOrder, Writing, InContract, Written
  <2> QED
    BY <1>2, <1>6, <2>1 DEF OpenTemp, Stop
<1>7. CASE CreateContract(c)
  <2> DEFINE p == Head(todo[c]).path
  <2>1. /\ p \in Paths /\ pc[c] = "write" /\ UNCHANGED todo
        /\ Head(todo[c]).data.kind = "contract"
    BY <1>7, TailType DEF CreateContract, TypeInv, TypeOK
  <2>2. file'[p] = Torn
    BY <1>7, <2>1 DEF CreateContract, TypeInv, TypeOK
  <2>3. pc'[c] = "commit" \/ (pc'[c] = "clash" /\ c \in moved')
    BY <1>7 DEF CreateContract
  <2> QED
    BY <1>0, <2>1, <2>2, <2>3 DEF InOrder, Writing, InContract, Written, Torn
<1>8. CASE CommitTemp(c) \/ CompleteContract(c)
  <2>1. pc'[c] = "write" /\ todo'[c] = Tail(todo[c]) /\ Writing(c) /\ todo[c] # <<>>
    BY <1>8 DEF CommitTemp, CompleteContract, OthersIn, Writing, TypeInv, TypeOK, InHand
  <2> QED
    BY <1>0, <2>1, TailInOrder
<1>9. CASE Finish(c) \/ FailWrite(c) \/ Kill(c)
  BY <1>2, <1>9 DEF Finish, FailWrite, Kill, Succeed, Stop
<1> QED
  BY <1>1, <1>3, <1>4, <1>5, <1>6, <1>7, <1>8, <1>9, StepOrAside DEF Run

-----------------------------------------------------------------------------
(* What the files of a command are to each other.                          *)

\* The secret is in contributions alone.
LEMMA ProductsSame ==
  ASSUME NEW c \in Commands, Op(c) \notin Verifications \cup Contributions, NEW in,
         NEW n, NEW m
  PROVE  Products(c, in, n) = Products(c, in, m)
<1>1. Op(c) \in {"phase1_init", "phase1_seal", "phase2_init", "seal"}
  BY LineIs DEF Handler, Verifications, Contributions
<1> QED
  BY <1>1 DEF Products

\* What a command computes follows from its inputs.
LEMMA ProductsDerive ==
  ASSUME NEW c \in Commands, Op(c) \notin Verifications, NEW in, Typed(c, in), NEW n,
         NEW out, \A i \in DOMAIN Outs[c] : out[i] = Products(c, in, n)[i]
  PROVE  Derivation(c, in, out)
<1>0. \A i \in DOMAIN Ins(c) : Decodes(Reads(c)[i], in[i])
  BY DEF Typed, Decodes
<1>1. CASE Op(c) \in Contributions
  <2>1. 1 \in DOMAIN Outs[c] /\ 1 \in DOMAIN Ins(c) /\ Reads(c)[1] \in {"phase1", "phase2"}
    BY <1>1, LineIs, OutsAre
      DEF Contributions, Reads, Handler, contributePhase1, contributePhase2
  <2>2. out[1] = Contribute(in[1], <<c, n>>)
    BY <1>1, <2>1 DEF Products, Contributions, ContributePhase1, ContributePhase2
  <2>3. Verify(in[1], out[1]) /\ out[1].secrets[Len(out[1].secrets)] = <<c, n>>
    BY <2>1, <2>2, ContributeIs DEF Typed
  <2> QED
    BY <1>0, <1>1, <2>3 DEF Derivation, Verifications, Contributions
<1>2. CASE Op(c) \notin Contributions
  BY <1>0, <1>2, ProductsSame DEF Derivation
<1> QED
  BY <1>1, <1>2

\* The four files that a seal computes are of one export.
LEMMA ProductsAgree ==
  ASSUME NEW c \in Commands, Op(c) = "seal", NEW in, NEW n,
         NEW out, \A i \in DOMAIN Outs[c] : out[i] = Products(c, in, n)[i]
  PROVE  Agree(out)
<1>1. DOMAIN Outs[c] = {1, 2, 3, 4}
  BY LineIs, OutsAre
<1> DEFINE keys == SealKeysFromExistedMPC(Line[c].batch, in[1], Line[c].beacon, in[2])
<1>2. /\ out[1] = ExportContract(keys) /\ out[2] = ExportProvingKey(keys)
      /\ out[3] = ExportVerifyingKey(keys) /\ out[4] = ExportCCS(Line[c].batch)
  BY <1>1 DEF Products
<1>3. keys.batch = Line[c].batch
  BY DEF SealKeysFromExistedMPC
<1> HIDE DEF keys
<1> QED
  BY <1>2, <1>3 DEF Agree, ExportContract

\* The value that a step of c puts into one of its files is the value that was
\* to be written there, and the step touches no other file.
LEMMA OwnWrite ==
  ASSUME TypeInv, NEW c \in Commands, InOrder(c), Distinct(c), Writing(c), todo[c] # <<>>,
         Put(c, Head(todo[c]).path, Head(todo[c]).data),
         todo'[c] = Tail(todo[c]), pc'[c] = "write"
  PROVE  /\ Outcome(c)' = Outcome(c)
         /\ \A q \in Paths \ Elems(Outs[c]) : file'[q] = file[q]
<1> DEFINE k == Written(c)
           p == Head(todo[c]).path
<1>1. /\ Written(c)' = k + 1 /\ k + 1 \in DOMAIN Outs[c] /\ Outs[c][k + 1] = p
      /\ Head(todo[c]) = todo[c][1]
      /\ \A i \in DOMAIN Outs[c] : i > k + 1 => todo'[c][i - (k + 1)] = todo[c][i - k]
  BY TailInOrder
<1>2. DOMAIN Outs[c] = 1 .. Len(Outs[c]) /\ Len(Outs[c]) \in Nat
  BY LineIs
<1>3. k \in Int
  <2>1. Len(todo[c]) \in Nat
    BY LenIs DEF TypeInv, TypeOK, TodoType
  <2> QED
    BY <1>2, <2>1 DEF Written
<1>4. p \in Elems(Outs[c]) /\ p \in Paths
  BY TailType DEF TypeInv, TypeOK
<1>5. file'[p] = Head(todo[c]).data /\ \A q \in Paths : q # p => file'[q] = file[q]
  BY <1>4 DEF Put, TypeInv, TypeOK
<1> HIDE DEF k, p
<1>6. ASSUME NEW i \in DOMAIN Outs[c]
      PROVE  (IF i <= k + 1 THEN file'[Outs[c][i]] ELSE todo'[c][i - (k + 1)].data)
             = IF i <= k THEN file[Outs[c][i]] ELSE todo[c][i - k].data
  <2>1. i \in Nat /\ Outs[c][i] \in Paths
    BY <1>2, LineIs
  <2>2. CASE i <= k
    <3>1. i # k + 1 /\ i <= k + 1
      BY <1>3, <2>1, <2>2
    <3>2. Outs[c][i] # p
      BY <1>1, <3>1 DEF Distinct
    <3> QED
      BY <1>5, <2>1, <2>2, <3>1, <3>2
  <2>3. CASE i = k + 1
    <3>1. i - k = 1 /\ ~(i <= k) /\ i <= k + 1
      BY <1>3, <2>3
    <3> QED
      BY <1>1, <1>5, <2>3, <3>1
  <2>4. CASE i > k + 1
    <3>1. ~(i <= k) /\ ~(i <= k + 1)
      BY <1>3, <2>1, <2>4
    <3> QED
      BY <1>1, <2>4, <3>1
  <2>5. i <= k \/ i = k + 1 \/ i > k + 1
    BY <1>3, <2>1
  <2> QED
    BY <2>2, <2>3, <2>4, <2>5
<1>7. Outcome(c)' = Outcome(c)
  BY <1>1, <1>6 DEF Outcome, k
<1> QED
  BY <1>4, <1>5, <1>7

\* A contract is created over a file whose value is still to be written.
LEMMA OwnCreate ==
  ASSUME TypeInv, NEW c \in Commands, InOrder(c), Distinct(c), pc[c] = "write",
         todo[c] # <<>>, Put(c, Head(todo[c]).path, Torn), UNCHANGED todo
  PROVE  /\ Outcome(c)' = Outcome(c)
         /\ \A q \in Paths \ Elems(Outs[c]) : file'[q] = file[q]
<1> DEFINE k == Written(c)
           p == Head(todo[c]).path
<1>1. /\ IsSeq(todo[c]) /\ DOMAIN todo[c] = 1 .. Len(todo[c]) /\ Len(todo[c]) \in Nat
      /\ Len(todo[c]) >= 1 /\ Head(todo[c]) = todo[c][1]
  BY LenIs, TailIs DEF TypeInv, TypeOK, TodoType
<1>2. /\ DOMAIN Outs[c] = 1 .. Len(Outs[c]) /\ Len(Outs[c]) \in Nat
      /\ Len(todo[c]) <= Len(Outs[c]) /\ 1 \in DOMAIN todo[c]
  BY <1>1, LineIs DEF InOrder, Writing
<1>3. k + 1 \in DOMAIN Outs[c] /\ k \in Int
  <2> DEFINE m == Len(Outs[c])
             n == Len(todo[c])
  <2>1. m \in Nat /\ n \in Nat /\ n >= 1 /\ n <= m /\ k = m - n
    BY <1>1, <1>2 DEF Written
  <2> HIDE DEF m, n, k
  <2>2. k + 1 \in 1 .. m /\ k \in Int
    BY <2>1
  <2> QED
    BY <1>2, <2>2 DEF m
<1>4. p = Outs[c][k + 1]
  BY <1>1, <1>2 DEF InOrder, Writing
<1>5. p \in Elems(Outs[c]) /\ p \in Paths
  BY TailType DEF TypeInv, TypeOK
<1>6. \A q \in Paths : q # p => file'[q] = file[q]
  BY <1>5 DEF Put, TypeInv, TypeOK
<1> HIDE DEF k, p
<1>7. ASSUME NEW i \in DOMAIN Outs[c], i <= k
      PROVE  file'[Outs[c][i]] = file[Outs[c][i]]
  <2>1. i # k + 1 /\ Outs[c][i] \in Paths
    BY <1>2, <1>3, <1>7, LineIs
  <2> QED
    BY <1>3, <1>4, <1>6, <2>1 DEF Distinct
<1>8. Outcome(c)' = Outcome(c)
  BY <1>7 DEF Outcome, Written, k
<1> QED
  BY <1>5, <1>6, <1>8

\* What has been written entirely is in the files.
LEMMA AllWritten ==
  ASSUME TypeInv, NEW c \in Commands, todo[c] = <<>>
  PROVE  Outcome(c) = Out(c)
<1>1. Len(todo[c]) = 0 /\ DOMAIN Outs[c] = 1 .. Len(Outs[c]) /\ Len(Outs[c]) \in Nat
  BY EmptyIs, LineIs
<1>2. \A i \in DOMAIN Outs[c] : i <= Written(c)
  BY <1>1 DEF Written
<1> QED
  BY <1>2 DEF Outcome, Out

\* A step that leaves the paths Ins(c) alone leaves what c finds there.
LEMMA InputsStay ==
  ASSUME NEW c \in Commands, Apart(c), \A q \in Paths \ Elems(Outs[c]) : file'[q] = file[q]
  PROVE  In(c)' = In(c)
<1>1. \A i \in DOMAIN Ins(c) : Ins(c)[i] \in Paths \ Elems(Outs[c])
  BY LineIs DEF Apart, Elems
<1> QED
  BY <1>1 DEF In

\* What c has read without a disturbance is what is there.
LEMMA ReadIsIn ==
  ASSUME TypeInv, NEW c \in Commands, Undisturbed(c), pc[c] = "read",
         Len(mem[c]) = Len(Ins(c))
  PROVE  mem[c] = In(c)
<1>1. IsSeq(mem[c]) /\ DOMAIN mem[c] = DOMAIN Ins(c)
  BY LenIs, LineIs DEF TypeInv, TypeOK, MemType
<1>2. \A i \in DOMAIN mem[c] : In(c)[i] = mem[c][i]
  BY <1>1 DEF Undisturbed, In
<1>3. In(c) = [i \in DOMAIN In(c) |-> In(c)[i]] /\ DOMAIN In(c) = DOMAIN Ins(c)
  BY DEF In
<1> HIDE DEF In
<1> QED
  BY <1>1, <1>2, <1>3, SameSeq

LEMMA AsideUndisturbed ==
  ASSUME TypeInv, NEW c \in Commands, Undisturbed(c), Aside(c), c \notin moved'
  PROVE  Undisturbed(c)'
<1>1. pc'[c] = pc[c] /\ mem'[c] = mem[c] /\ todo'[c] = todo[c] /\ (c \in ok' <=> c \in ok)
  BY DEF Aside
<1>2. CASE pc[c] # "idle" \/ c \in ok
  <2>1. \A p \in Files[c] : file'[p] = file[p]
    BY <1>2 DEF Aside
  <2>2. /\ \A i \in DOMAIN Ins(c) : file'[Ins(c)[i]] = file[Ins(c)[i]]
        /\ \A i \in DOMAIN Outs[c] : file'[Outs[c][i]] = file[Outs[c][i]]
    BY <2>1, LineIs
  <2>3. In(c)' = In(c) /\ Out(c)' = Out(c)
    BY <2>2 DEF In, Out
  <2>4. Outcome(c)' = Outcome(c)
    BY <1>1, <2>2 DEF Outcome, Written
  <2>5. DOMAIN mem[c] \subseteq DOMAIN Ins(c)
    BY LenIs, LineIs DEF TypeInv, TypeOK, MemType
  <2>6. pc[c] = "read" => \A i \in DOMAIN mem[c] : mem'[c][i] = file'[Ins(c)[i]]
    BY <1>1, <2>2, <2>5 DEF Undisturbed
  <2> QED
    BY <1>1, <2>3, <2>4, <2>6 DEF Undisturbed, Writing, Succeeded
<1>3. CASE pc[c] = "idle" /\ c \notin ok
  BY <1>1, <1>3 DEF Undisturbed, Writing, Succeeded
<1> QED
  BY <1>2, <1>3

LEMMA DerivedInit == Init => DerivedInv
BY DEF Init, DerivedInv, Undisturbed, Writing, Succeeded

LEMMA DerivedStep == TypeInv /\ WriteInv /\ DerivedInv /\ [Next]_vars => DerivedInv'
<1> SUFFICES ASSUME TypeInv, WriteInv, DerivedInv, [Next]_vars, NEW c \in Commands,
                    Apart(c), c \notin moved'
             PROVE  Undisturbed(c)'
  BY DEF DerivedInv, Apart, Distinct
<1>0. InOrder(c) /\ (c \notin moved => Undisturbed(c)) /\ Distinct(c)
  BY DEF WriteInv, DerivedInv, Apart
<1> USE DEF TypeInv, TypeOK
<1>1. CASE Aside(c)
  BY <1>0, <1>1, AsideUndisturbed DEF Aside
<1>2. CASE Stop(c)
  BY <1>2 DEF Stop, Quit, Undisturbed, Writing, Succeeded
<1>3. CASE Start(c)
  <2>1. CASE pc' = [pc EXCEPT ![c] = "read"] /\ UNCHANGED <<mem, todo, ok>>
    <3>1. DOMAIN mem'[c] = {} /\ pc'[c] = "read"
      BY <1>0, <1>3, <2>1, EmptyIs DEF Start, InOrder
    <3> QED
      BY <3>1 DEF Undisturbed, Writing, Succeeded
  <2> QED
    BY <1>2, <1>3, <2>1 DEF Start
<1>4. CASE Read(c)
  <2> DEFINE n == Len(mem[c]) + 1
             data == file[Ins(c)[n]]
  <2>1. CASE mem' = [mem EXCEPT ![c] = Append(@, data)] /\ UNCHANGED <<pc, todo, ok, moved>>
    <3>1. IsSeq(mem[c]) /\ Len(mem[c]) \in Nat /\ DOMAIN mem[c] = 1 .. Len(mem[c])
      BY LenIs DEF MemType
    <3>2. mem'[c] = Append(mem[c], data) /\ pc'[c] = "read" /\ pc[c] = "read"
      BY <1>4, <2>1 DEF Read
    <3>3. /\ DOMAIN mem'[c] = 1 .. n /\ mem'[c][n] = data
          /\ \A i \in 1 .. Len(mem[c]) : mem'[c][i] = mem[c][i]
      BY <3>1, <3>2, AppendIs, LenIs
    <3>4. \A i \in 1 .. n : i \in DOMAIN mem[c] \/ i = n
      BY <3>1
    <3>5. \A i \in DOMAIN mem[c] : mem[c][i] = file[Ins(c)[i]]
      BY <1>0, <2>1, <3>2 DEF Undisturbed
    <3>6. UNCHANGED file
      BY <1>4 DEF Read
    <3> HIDE DEF n
    <3>7. \A i \in DOMAIN mem'[c] : mem'[c][i] = file[Ins(c)[i]]
      BY <3>1, <3>3, <3>4, <3>5
    <3> QED
      BY <3>2, <3>6, <3>7 DEF Undisturbed, Writing, Succeeded
  <2> QED
    BY <1>2, <1>4, <2>1 DEF Read
<1>5. CASE Compute(c)
  <2>1. CASE Op(c) \in Verifications /\ Answer(c, mem[c]) /\ Succeed(c)
    <3>1. c \notin moved /\ UNCHANGED file /\ pc'[c] = "idle"
      BY <1>5, <2>1 DEF Compute, Succeed, Quit
    <3>2. mem[c] = In(c)
      BY <1>0, <1>5, <3>1, ReadIsIn DEF Compute
    <3>3. Verify(In(c)[1], In(c)[2])
      BY <2>1, <3>2 DEF Answer, VerifyPhase1, VerifyPhase2
    <3>4. In(c)' = In(c)
      BY <3>1 DEF In
    <3>5. \A i \in DOMAIN Ins(c) : Decodes(Reads(c)[i], In(c)[i])
      BY <1>5, <3>2, LenIs, LineIs DEF Compute, MemType, Decodes
    <3>6. Derivation(c, In(c), Out(c)')
      BY <2>1, <3>3, <3>5 DEF Derivation, Verifications, Contributions
    <3> QED
      BY <3>1, <3>4, <3>6 DEF Undisturbed, Writing
  <2>2. CASE Op(c) \notin Verifications
    <3>1. c \notin moved /\ UNCHANGED <<file, mem>> /\ pc'[c] = "write" /\ Written(c)' = 0
      BY <1>5, <2>2, ComputeWrites
    <3>2. mem[c] = In(c)
      BY <1>0, <1>5, <3>1, ReadIsIn DEF Compute
    <3>3. \A i \in DOMAIN Outs[c] :
            todo'[c][i].data = Products(c, mem[c], drawn[c] + 1)[i]
      BY <1>5, <2>2, ComputeWrites
    <3>4. \A i \in DOMAIN Outs[c] : ~(i <= 0) /\ i - 0 = i
      BY LineIs
    <3>5. \A i \in DOMAIN Outs[c] :
            Outcome(c)'[i] = Products(c, In(c), drawn[c] + 1)[i]
      BY <3>1, <3>2, <3>3, <3>4 DEF Outcome
    <3>6. Derivation(c, In(c), Outcome(c)')
      BY <1>5, <2>2, <3>2, <3>5, ComputeWrites, ProductsDerive
    <3>7. In(c)' = In(c)
      BY <3>1 DEF In
    <3> QED
      BY <3>1, <3>6, <3>7 DEF Undisturbed, Writing, Succeeded
  <2> QED
    BY <1>2, <1>5, <2>1, <2>2 DEF Compute
<1>6. CASE OpenTemp(c)
  <2>1. CASE pc' = [pc EXCEPT ![c] = "commit"] /\ UNCHANGED <<mem, todo, ok, moved>>
    <3>1. /\ c \notin moved /\ UNCHANGED <<file, todo>> /\ Writing(c) /\ Writing(c)'
          /\ pc'[c] = "commit"
      BY <1>6, <2>1 DEF OpenTemp, Writing
    <3>2. In(c)' = In(c) /\ Outcome(c)' = Outcome(c)
      BY <3>1 DEF In, Outcome, Written
    <3> QED
      BY <1>0, <3>1, <3>2 DEF Undisturbed, Succeeded
  <2> QED
    BY <1>2, <1>6, <2>1 DEF OpenTemp
<1>7. CASE CreateContract(c)
  <2>1. /\ OthersIn(c, Head(todo[c]).path) = {} /\ Put(c, Head(todo[c]).path, Torn)
        /\ pc'[c] = "commit" /\ UNCHANGED todo /\ pc[c] = "write" /\ todo[c] # <<>>
    BY <1>7 DEF CreateContract, Put
  <2>2. c \notin moved
    BY <2>1 DEF Put, Moved
  <2>3. Outcome(c)' = Outcome(c) /\ In(c)' = In(c)
    BY <1>0, <2>1, OwnCreate, InputsStay
  <2> QED
    BY <1>0, <2>1, <2>2, <2>3 DEF Undisturbed, Writing, Succeeded
<1>8. CASE CommitTemp(c) \/ CompleteContract(c)
  <2>1. /\ c \notin moved /\ pc'[c] = "write" /\ todo'[c] = Tail(todo[c])
        /\ Put(c, Head(todo[c]).path, Head(todo[c]).data) /\ Writing(c) /\ todo[c] # <<>>
    BY <1>0, <1>8 DEF CommitTemp, CompleteContract, OthersIn, Put, Moved, InOrder, Writing, InHand
  <2>2. Outcome(c)' = Outcome(c) /\ In(c)' = In(c)
    BY <1>0, <2>1, OwnWrite, InputsStay
  <2> QED
    BY <1>0, <2>1, <2>2 DEF Undisturbed, Writing, Succeeded
<1>9. CASE Finish(c)
  <2>1. /\ c \notin moved /\ UNCHANGED file /\ pc'[c] = "idle" /\ Writing(c) /\ todo[c] = <<>>
    BY <1>9 DEF Finish, Succeed, Quit, Writing
  <2>2. In(c)' = In(c) /\ Out(c)' = Outcome(c)
    BY <2>1, AllWritten DEF In, Out
  <2> QED
    BY <1>0, <2>1, <2>2 DEF Undisturbed, Writing
<1>10. CASE FailWrite(c) \/ Kill(c)
  BY <1>2, <1>10 DEF FailWrite, Kill
<1> QED
  BY <1>1, <1>3, <1>4, <1>5, <1>6, <1>7, <1>8, <1>9, <1>10, StepOrAside DEF Run

\* Whatever commands run at the same time, fail, are killed and are repeated: a
\* command that succeeded and whose files nobody else has changed since it was
\* started leaves outputs that follow from the inputs that are there.
THEOREM SuccessDerives == Spec => []Derived
<1>1. DerivedInv => Derived
  BY DEF DerivedInv, Derived, Undisturbed
<1> QED
  BY <1>1, TypeInit, TypeStep, WriteInit, WriteStep, DerivedInit, DerivedStep, PTL DEF Spec

-----------------------------------------------------------------------------
(* The artifacts of one seal.                                              *)

LEMMA AgreeInit == Init => AgreeInv
BY DEF Init, AgreeInv, Writing, Succeeded

\* No other command is in a file that c alone writes.
LEMMA NobodyElse ==
  ASSUME TypeInv, NEW c \in Commands, Exclusive(c), NEW p \in Elems(Outs[c])
  PROVE  OthersIn(c, p) = {}
<1> SUFFICES ASSUME NEW d \in OthersIn(c, p) PROVE FALSE
  OBVIOUS
<1>1. d \in Commands \ {c} /\ Head(todo[d]).path = p /\ todo[d] # <<>>
  BY DEF OthersIn, TypeInv, InHand
<1>2. p \in Elems(Outs[d])
  BY <1>1, TailType DEF TypeInv, TypeOK
<1> QED
  BY <1>1, <1>2 DEF Exclusive

LEMMA AgreeStep == TypeInv /\ WriteInv /\ AgreeInv /\ [Next]_vars => AgreeInv'
<1> DEFINE Whole(c) == /\ Writing(c) => pc[c] \in {"write", "commit"} /\ Agree(Outcome(c))
                       /\ Succeeded(c) => Agree(Out(c))
<1> SUFFICES ASSUME TypeInv, WriteInv, AgreeInv, [Next]_vars,
                    NEW c \in Commands, Op(c) = "seal", Exclusive(c)
             PROVE  Whole(c)'
  BY DEF AgreeInv, Exclusive, Distinct
<1>0. Whole(c) /\ InOrder(c) /\ Distinct(c)
  BY DEF AgreeInv, WriteInv, Exclusive
<1> USE DEF TypeInv, TypeOK
<1>1. CASE Aside(c)
  <2>1. /\ mem'[c] = mem[c] /\ todo'[c] = todo[c] /\ (c \in ok' <=> c \in ok)
    BY <1>1 DEF Aside
  <2>2. pc'[c] = pc[c]
    <3>1. SUFFICES ASSUME pc'[c] # pc[c] PROVE FALSE
      OBVIOUS
    <3>2. PICK d \in Commands \ {c} : Head(todo[c]).path \in Elems(Outs[d])
      BY <1>1, <3>1 DEF Aside
    <3>3. todo[c] # <<>>
      BY <1>1, <3>1 DEF Aside, InContract, InHand
    <3>4. Head(todo[c]).path \in Elems(Outs[c])
      BY <3>3, TailType
    <3> QED
      BY <3>2, <3>4 DEF Exclusive
  <2>3. \A p \in Elems(Outs[c]) : file'[p] = file[p]
    BY <1>1 DEF Aside, Exclusive
  <2>4. \A i \in DOMAIN Outs[c] : file'[Outs[c][i]] = file[Outs[c][i]]
    BY <2>3, LineIs
  <2>5. Outcome(c)' = Outcome(c) /\ Out(c)' = Out(c)
    BY <2>1, <2>4 DEF Outcome, Written, Out
  <2> QED
    BY <1>0, <2>1, <2>2, <2>5 DEF Writing, Succeeded
<1>2. CASE Stop(c)
  BY <1>2 DEF Stop, Quit, Writing, Succeeded
<1>3. CASE Start(c) \/ Read(c)
  <2>1. CASE pc'[c] = "read"
    BY <2>1 DEF Writing, Succeeded
  <2> QED
    BY <1>2, <1>3, <2>1 DEF Start, Read
<1>4. CASE Compute(c)
  <2>1. Op(c) \notin Verifications
    BY DEF Verifications
  <2>2. /\ pc'[c] = "write" /\ Written(c)' = 0
        /\ \A i \in DOMAIN Outs[c] :
             todo'[c][i].data = Products(c, mem[c], drawn[c] + 1)[i]
    BY <1>4, <2>1, ComputeWrites
  <2>3. \A i \in DOMAIN Outs[c] : ~(i <= 0) /\ i - 0 = i
    BY LineIs
  <2>4. \A i \in DOMAIN Outs[c] :
          Outcome(c)'[i] = Products(c, mem[c], drawn[c] + 1)[i]
    BY <2>2, <2>3 DEF Outcome
  <2>5. Agree(Outcome(c)')
    BY <2>4, ProductsAgree
  <2>6. Agree(Outcome(c))'
    BY <2>5 DEF Agree
  <2> QED
    BY <2>2, <2>6 DEF Writing, Succeeded
<1>5. CASE OpenTemp(c)
  <2>1. CASE pc' = [pc EXCEPT ![c] = "commit"] /\ UNCHANGED <<mem, todo, ok, moved>>
    <3>1. UNCHANGED <<file, todo>> /\ Writing(c) /\ pc'[c] = "commit"
      BY <1>5, <2>1 DEF OpenTemp, Writing
    <3>2. Outcome(c)' = Outcome(c)
      BY <3>1 DEF Outcome, Written
    <3> QED
      BY <1>0, <3>1, <3>2 DEF Writing, Succeeded, Agree
  <2> QED
    BY <1>2, <1>5, <2>1 DEF OpenTemp
<1>6. CASE CreateContract(c)
  <2>1. todo[c] # <<>> /\ pc[c] = "write" /\ UNCHANGED todo
    BY <1>6 DEF CreateContract
  <2>2. OthersIn(c, Head(todo[c]).path) = {}
    BY <2>1, TailType, NobodyElse
  <2>3. Put(c, Head(todo[c]).path, Torn) /\ pc'[c] = "commit"
    BY <1>6, <2>2 DEF CreateContract, Put
  <2>4. Outcome(c)' = Outcome(c)
    BY <1>0, <2>1, <2>3, OwnCreate
  <2> QED
    BY <1>0, <2>1, <2>3, <2>4 DEF Writing, Succeeded, Agree
<1>7. CASE CommitTemp(c) \/ CompleteContract(c)
  <2>1. /\ Writing(c) /\ todo[c] # <<>> /\ pc'[c] = "write" /\ todo'[c] = Tail(todo[c])
        /\ Put(c, Head(todo[c]).path, Head(todo[c]).data)
    BY <1>0, <1>7 DEF CommitTemp, CompleteContract, OthersIn, Writing, InHand
  <2>2. Outcome(c)' = Outcome(c)
    BY <1>0, <2>1, OwnWrite
  <2> QED
    BY <1>0, <2>1, <2>2 DEF Writing, Succeeded, Agree
<1>8. CASE Finish(c)
  <2>1. UNCHANGED file /\ pc'[c] = "idle" /\ Writing(c) /\ todo[c] = <<>>
    BY <1>8 DEF Finish, Succeed, Quit, Writing
  <2>2. Out(c)' = Outcome(c)
    BY <2>1, AllWritten DEF Out
  <2> QED
    BY <1>0, <2>1, <2>2 DEF Writing, Succeeded, Agree
<1>9. CASE FailWrite(c) \/ Kill(c)
  BY <1>2, <1>9 DEF FailWrite, Kill
<1> QED
  BY <1>1, <1>3, <1>4, <1>5, <1>6, <1>7, <1>8, <1>9, StepOrAside DEF Run

\* After a seal that succeeded, the four artifacts belong together, for any
\* number of seals before it that failed or were killed at any point, as long as
\* it has its paths to itself; its inputs may change at any time.
THEOREM SealsWhole == Spec => []ArtifactsAgree
<1>1. AgreeInv => ArtifactsAgree
  BY DEF AgreeInv, ArtifactsAgree
<1> QED
  BY <1>1, TypeInit, TypeStep, WriteInit, WriteStep, AgreeInit, AgreeStep, PTL DEF Spec
-----------------------------------------------------------------------------
(* The secrets in the keys.                                                *)

Writers(p) == {c \in Commands : p \in Elems(Outs[c])}

\* c and everything that its inputs depend on.
Fed(c) == {c} \cup UNION {Upstream[q] : q \in Elems(Ins(c))}

\* What is upstream of a path is what is upstream of its writers.
LEMMA UpstreamIs ==
  ASSUME NEW p \in Paths
  PROVE  Upstream[p] = UNION {Fed(c) : c \in Writers(p)}
<1> DEFINE Whole(q, D) ==
             \A d \in Commands :
               \/ q \in Elems(Outs[d])
               \/ \E c \in D : Elems(Outs[d]) \cap Elems(Ins(c)) # {}
               => d \in D
           All == UNION {Fed(c) : c \in Writers(p)}
<1>1. \A q \in Paths :
        Upstream[q] = {d \in Commands : \A D \in SUBSET Commands : Whole(q, D) => d \in D}
  BY DEF Upstream
<1>2. \A c \in Commands : Elems(Ins(c)) \subseteq Paths
  BY LineIs DEF Elems
<1>3. ASSUME NEW q \in Paths
      PROVE  Upstream[q] \subseteq Commands /\ Whole(q, Upstream[q])
  <2> HIDE DEF Whole
  <2>1. SUFFICES ASSUME NEW d \in Commands,
                        q \in Elems(Outs[d])
                          \/ \E c \in Upstream[q] : Elems(Outs[d]) \cap Elems(Ins(c)) # {},
                        NEW D \in SUBSET Commands, Whole(q, D)
                 PROVE  d \in D
    BY <1>1 DEF Whole
  <2>2. Upstream[q] \subseteq D
    BY <1>1, <2>1
  <2> QED
    BY <2>1, <2>2 DEF Whole
<1>4. ASSUME NEW q \in Paths, NEW D \in SUBSET Commands, Whole(q, D)
      PROVE  Upstream[q] \subseteq D
  <2> HIDE DEF Whole
  <2> QED
    BY <1>1, <1>4
<1>5. All \subseteq Upstream[p]
  <2>1. SUFFICES ASSUME NEW c \in Writers(p)
                 PROVE  Fed(c) \subseteq Upstream[p]
    OBVIOUS
  <2>2. c \in Commands /\ c \in Upstream[p]
    BY <1>3 DEF Writers
  <2>3. ASSUME NEW q \in Elems(Ins(c))
        PROVE  Upstream[q] \subseteq Upstream[p]
    <3>1. q \in Paths
      BY <1>2, <2>2
    <3>2. Whole(q, Upstream[p])
      <4>1. \A d \in Commands : q \in Elems(Outs[d]) => d \in Upstream[p]
        BY <1>3, <2>2
      <4> QED
        BY <1>3, <4>1
    <3> QED
      BY <1>3, <1>4, <3>1, <3>2
  <2> QED
    BY <2>2, <2>3 DEF Fed
<1>6. Upstream[p] \subseteq All
  <2>1. All \subseteq Commands
    BY <1>2, <1>3 DEF Fed, Writers
  <2>2. \A d \in Commands : p \in Elems(Outs[d]) => d \in All
    BY DEF Fed, Writers
  <2>3. ASSUME NEW d \in Commands, NEW c \in All, NEW q \in Elems(Outs[d]) \cap Elems(Ins(c))
        PROVE  d \in All
    <3>1. PICK w \in Writers(p) : c \in Fed(w)
      OBVIOUS
    <3>2. q \in Paths /\ c \in Commands /\ d \in Upstream[q] /\ w \in Commands
      BY <1>2, <1>3, <2>1, <3>1 DEF Writers
    <3>3. CASE c = w
      BY <3>1, <3>2, <3>3 DEF Fed
    <3>4. CASE c # w
      <4>1. PICK r \in Elems(Ins(w)) : c \in Upstream[r]
        BY <3>1, <3>4 DEF Fed
      <4>2. r \in Paths
        BY <1>2, <3>2, <4>1
      <4>3. d \in Upstream[r]
        BY <1>3, <4>1, <4>2
      <4> QED
        BY <3>1, <4>1, <4>3 DEF Fed
    <3> QED
      BY <3>3, <3>4
  <2>4. Whole(p, All)
    <3> HIDE DEF All
    <3> QED
      BY <2>2, <2>3
  <2> QED
    BY <1>4, <2>1, <2>4
<1> QED
  BY <1>5, <1>6

\* A path that nobody writes is as it was given.
KeepInv ==
  \A p \in Paths :
    Writers(p) = {} => file[p] = IF p \in DOMAIN Given THEN Given[p] ELSE None

LEMMA KeepInit == Init => KeepInv
BY DEF Init, KeepInv

LEMMA KeepStep == TypeInv /\ KeepInv /\ [Next]_vars => KeepInv'
<1> SUFFICES ASSUME TypeInv, KeepInv, [Next]_vars, NEW p \in Paths, Writers(p) = {}
             PROVE  file'[p] = file[p]
  BY DEF KeepInv, Writers
<1>1. ASSUME NEW c \in Commands, NEW data, todo[c] # <<>>,
             file' = [file EXCEPT ![Head(todo[c]).path] = data]
      PROVE  file'[p] = file[p]
  <2>1. Head(todo[c]).path \in Elems(Outs[c])
    BY <1>1, TailType DEF TypeInv, TypeOK
  <2> QED
    BY <1>1, <2>1 DEF Writers, TypeInv, TypeOK
<1>2. ASSUME NEW c \in Commands, Start(c) \/ Run(c) \/ FailWrite(c) \/ Kill(c)
      PROVE  file'[p] = file[p]
  <2>1. CASE CreateContract(c)
    BY <1>1, <2>1 DEF CreateContract
  <2>2. CASE CommitTemp(c)
    BY <1>1, <2>2 DEF CommitTemp, Put, TypeInv, InHand
  <2>3. CASE CompleteContract(c)
    BY <1>1, <2>3 DEF CompleteContract, Put, TypeInv, InHand
  <2>4. CASE Start(c) \/ Read(c) \/ Compute(c) \/ OpenTemp(c) \/ Finish(c) \/ FailWrite(c) \/ Kill(c)
    BY <2>4 DEF Start, Read, Compute, OpenTemp, Finish, FailWrite, Kill
  <2> QED
    BY <1>2, <2>1, <2>2, <2>3, <2>4 DEF Run
<1>3. CASE (\E q \in Paths : RemoveStale(q)) \/ UNCHANGED vars
  BY <1>3 DEF RemoveStale, vars
<1> QED
  BY <1>2, <1>3 DEF Next, Over

\* The ceremony is over, and everything that is there follows from what is there.
Settles ==
  /\ TypeOK /\ KeepInv /\ Planned
  /\ \A c \in Commands : Derivation(c, In(c), Out(c))

\* What there is in a path of a command.
LEMMA WrittenIs ==
  ASSUME Settles, NEW c \in Commands, NEW p \in Elems(Outs[c])
  PROVE  LET q == Ins(c)[1] IN
         /\ Op(c) = "phase1_init" => file[p] = InitPhase1 /\ Fed(c) = {c}
         /\ Op(c) \in Contributions =>
              /\ p = Outs[c][1] /\ q \in Paths /\ Fed(c) = {c} \cup Upstream[q]
              /\ file[q].kind = Reads(c)[1] /\ Verify(file[q], file[p])
              /\ file[p].secrets[Len(file[p].secrets)][1] = c
         /\ Op(c) = "phase1_seal" =>
              /\ q \in Paths /\ Fed(c) = {c} \cup Upstream[q] /\ file[q].kind = "phase1"
              /\ file[p] = SealPhase1(file[q], Line[c].beacon)
         /\ Op(c) = "phase2_init" =>
              /\ q \in Paths /\ Fed(c) = {c} \cup Upstream[q] /\ file[q].kind = "srs"
              /\ file[p] = InitPhase2(Line[c].batch, file[q])
         /\ Op(c) = "seal" => file[p].kind \in {"contract", "pk", "vk", "r1cs"}
         /\ Op(c) \notin Verifications
<1> DEFINE q == Ins(c)[1]
<1>1. PICK i \in DOMAIN Outs[c] : p = Outs[c][i] /\ Out(c)[i] = file[p]
  BY DEF Elems, Out
<1>2. DOMAIN Outs[c] = 1 .. Len(Handler[Op(c)].outs) /\ DOMAIN Ins(c) = 1 .. Len(Reads(c))
  BY LineIs
<1>3. \A j \in DOMAIN Ins(c) :
        /\ Ins(c)[j] \in Paths /\ In(c)[j] = file[Ins(c)[j]]
        /\ file[Ins(c)[j]].kind = Reads(c)[j]
  BY LineIs DEF Settles, Derivation, Decodes, In
<1>4. Op(c) \notin Verifications
  <2>1. Op(c) \in Verifications => Len(Handler[Op(c)].outs) = 0
    BY DEF Verifications, Handler, verifyPhase1, verifyPhase2
  <2> QED
    BY <1>1, <1>2, <2>1
<1>5. Derivation(c, In(c), Out(c))
  BY DEF Settles
<1>6. Op(c) \in Contributions =>
        /\ Verify(In(c)[1], Out(c)[1]) /\ Out(c)[1].secrets[Len(Out(c)[1].secrets)][1] = c
  BY <1>4, <1>5 DEF Derivation
<1>7. Op(c) \notin Contributions => file[p] = Products(c, In(c), 0)[i]
  BY <1>1, <1>4, <1>5 DEF Derivation
<1>8. Op(c) \in Contributions \cup {"phase1_init", "phase1_seal", "phase2_init"} => i = 1
  BY <1>1, <1>2, OutsAre
<1>9. Op(c) = "phase1_init" => DOMAIN Ins(c) = {}
  BY <1>2 DEF Reads, Handler, initPhase1
<1>10. /\ Op(c) \in Contributions \cup {"phase1_seal", "phase2_init"} => DOMAIN Ins(c) = {1}
       /\ Op(c) = "phase1_seal" => Reads(c)[1] = "phase1"
       /\ Op(c) = "phase2_init" => Reads(c)[1] = "srs"
  <2>1. /\ Op(c) = "phase1_contribute" => Reads(c) = <<"phase1">>
        /\ Op(c) = "phase1_seal" => Reads(c) = <<"phase1">>
        /\ Op(c) = "phase2_contribute" => Reads(c) = <<"phase2">>
        /\ Op(c) = "phase2_init" => Reads(c) = <<"srs">>
    BY DEF Reads, Handler, contributePhase1, contributePhase2, sealPhase1, initPhase2
  <2>2. /\ <<"phase1">>[1] = "phase1" /\ <<"srs">>[1] = "srs"
        /\ Len(<<"phase1">>) = 1 /\ Len(<<"phase2">>) = 1 /\ Len(<<"srs">>) = 1
    OBVIOUS
  <2>3. 1 .. 1 = {1}
    OBVIOUS
  <2> QED
    BY <1>2, <2>1, <2>2, <2>3 DEF Contributions
<1>11. DOMAIN Ins(c) = {} => Fed(c) = {c}
  BY DEF Fed, Elems
<1>12. DOMAIN Ins(c) = {1} => Fed(c) = {c} \cup Upstream[q]
  BY DEF Fed, Elems
<1>13. Op(c) = "phase1_init" => file[p] = InitPhase1
  BY <1>7, <1>8 DEF Products, Contributions
<1>14. Op(c) = "phase1_seal" => file[p] = SealPhase1(file[q], Line[c].beacon)
  BY <1>3, <1>7, <1>8, <1>10 DEF Products, Contributions
<1>15. Op(c) = "phase2_init" => file[p] = InitPhase2(Line[c].batch, file[q])
  BY <1>3, <1>7, <1>8, <1>10 DEF Products, Contributions
<1>16. Op(c) = "seal" => file[p].kind \in {"contract", "pk", "vk", "r1cs"}
  <2>1. SUFFICES ASSUME Op(c) = "seal"
                 PROVE  file[p].kind \in {"contract", "pk", "vk", "r1cs"}
    OBVIOUS
  <2>2. i \in {1, 2, 3, 4}
    BY <1>1, <1>2, <2>1, OutsAre
  <2>3. file[p] = Products(c, In(c), 0)[i]
    BY <1>7, <2>1 DEF Contributions
  <2> QED
    BY <2>1, <2>2, <2>3
      DEF Products, ExportContract, ExportProvingKey, ExportVerifyingKey, ExportCCS
<1> QED
  BY <1>1, <1>3, <1>4, <1>6, <1>8, <1>9, <1>10, <1>11, <1>12, <1>13, <1>14, <1>15, <1>16
\* Which commands write a file of which kind.
LEMMA WriterIs ==
  ASSUME Settles, NEW c \in Commands, NEW p \in Elems(Outs[c])
  PROVE  /\ file[p].kind = "phase1" => Op(c) \in {"phase1_init", "phase1_contribute"}
         /\ file[p].kind = "srs" => Op(c) = "phase1_seal"
         /\ file[p].kind = "phase2" => Op(c) \in {"phase2_init", "phase2_contribute"}
<1>1. Op(c) \in {"phase1_init", "phase1_contribute", "phase1_seal", "phase2_init",
                 "phase2_contribute", "seal"}
  BY LineIs, WrittenIs DEF Handler, Verifications
<1>2. Op(c) \in Contributions => file[p].kind = Reads(c)[1]
  BY WrittenIs DEF Verify
<1>3. /\ Op(c) = "phase1_contribute" => file[p].kind = "phase1"
      /\ Op(c) = "phase2_contribute" => file[p].kind = "phase2"
  BY <1>2 DEF Contributions, Reads, Handler, contributePhase1, contributePhase2
<1>4. Op(c) = "phase1_init" => file[p].kind = "phase1"
  BY WrittenIs DEF InitPhase1
<1>5. Op(c) = "phase1_seal" => file[p].kind = "srs"
  <2>1. \A data, beacon : SealPhase1(data, beacon).kind = "srs"
    BY DEF SealPhase1
  <2> QED
    BY <2>1, WrittenIs
<1>6. Op(c) = "phase2_init" => file[p].kind = "phase2"
  <2>1. \A data, batch : InitPhase2(batch, data).kind = "phase2"
    BY DEF InitPhase2
  <2> QED
    BY <2>1, WrittenIs
<1>7. Op(c) = "seal" => file[p].kind \in {"contract", "pk", "vk", "r1cs"}
  BY WrittenIs
<1> QED
  BY <1>1, <1>3, <1>4, <1>5, <1>6, <1>7

\* The contributions of this kind upstream are in these secrets, once each.
HasAll(upstream, op, secrets) ==
  Owners(secrets) \cap Commands = {d \in upstream : Op(d) = op} /\ NoneTwice(secrets)

\* Nobody upstream has made a longer list of secrets.
Longest(upstream, op, secrets) ==
  \A d \in upstream : Op(d) = op => Len(file[Outs[d][1]].secrets) \in 0 .. Len(secrets)

\* A contribution adds its secret to those of everybody upstream.
LEMMA ContributionHasAll ==
  ASSUME Settles, NEW c \in Commands, NEW op \in Contributions, Op(c) = op,
         NEW p \in Elems(Outs[c]),
         HasAll(Upstream[Ins(c)[1]], op, file[Ins(c)[1]].secrets),
         Longest(Upstream[Ins(c)[1]], op, file[Ins(c)[1]].secrets)
  PROVE  HasAll(Fed(c), op, file[p].secrets) /\ Longest(Fed(c), op, file[p].secrets)
<1> DEFINE q == Ins(c)[1]
           in == file[q].secrets
           out == file[p].secrets
           n == Len(in)
           last == out[Len(out)]
<1>1. /\ p = Outs[c][1] /\ q \in Paths /\ Fed(c) = {c} \cup Upstream[q]
      /\ file[q].kind = Reads(c)[1] /\ Verify(file[q], file[p]) /\ last[1] = c
  BY WrittenIs
<1>2. file[q].kind \in {"phase1", "phase2"}
  BY <1>1 DEF Contributions, Reads, Handler, contributePhase1, contributePhase2
<1>3. IsSeq(in) /\ "secrets" \in DOMAIN file[q]
  BY <1>1, <1>2 DEF Settles, TypeOK, FileType
<1>4. file[p] = [file[q] EXCEPT !.secrets = Append(in, last)]
  BY <1>1 DEF Verify, Contribute
<1>5. out = Append(in, last)
  BY <1>3, <1>4
<1> HIDE DEF in, out, q, last
<1>6. /\ IsSeq(out) /\ Len(out) = n + 1 /\ n \in Nat /\ DOMAIN in = 1 .. n
      /\ DOMAIN out = 1 .. n + 1
      /\ \A i \in 1 .. n : out[i] = in[i]
      /\ out[n + 1] = last
  BY <1>3, <1>5, AppendIs, LenIs
<1>7. /\ Owners(in) \cap Commands = {d \in Upstream[q] : Op(d) = op} /\ NoneTwice(in)
      /\ \A d \in Upstream[q] : Op(d) = op => Len(file[Outs[d][1]].secrets) \in 0 .. n
  BY DEF HasAll, Longest, q, in
<1> HIDE DEF n
<1>8. c \notin Upstream[q]
  <2>1. c \in Upstream[q] => Len(out) \in 0 .. n
    BY <1>1, <1>7 DEF out
  <2> QED
    BY <1>6, <2>1
<1>9. c \notin Owners(in)
  BY <1>7, <1>8
<1>10. Owners(out) = Owners(in) \cup {c}
  <2>1. \A i \in 1 .. n + 1 : i \in 1 .. n \/ i = n + 1
    BY <1>6
  <2>2. 1 .. n \subseteq 1 .. n + 1 /\ n + 1 \in 1 .. n + 1
    BY <1>6
  <2> QED
    BY <1>1, <1>6, <2>1, <2>2 DEF Owners
<1>11. NoneTwice(out)
  <2>1. SUFFICES ASSUME NEW i \in 1 .. n + 1, NEW j \in 1 .. n + 1, out[i] = out[j]
                 PROVE  i = j
    BY <1>6 DEF NoneTwice
  <2>2. \A k \in 1 .. n : in[k] # last
    BY <1>1, <1>6, <1>9 DEF Owners
  <2>3. /\ i \in 1 .. n \/ i = n + 1
        /\ j \in 1 .. n \/ j = n + 1
    BY <1>6
  <2> QED
    BY <1>6, <1>7, <2>1, <2>2, <2>3 DEF NoneTwice
<1>12. HasAll(Fed(c), op, out)
  BY <1>1, <1>7, <1>10, <1>11 DEF HasAll
<1>13. Longest(Fed(c), op, out)
  <2>1. Len(file[Outs[c][1]].secrets) = n + 1
    BY <1>1, <1>6 DEF out
  <2>2. \A d \in Upstream[q] : Op(d) = op => Len(file[Outs[d][1]].secrets) \in 0 .. n + 1
    BY <1>6, <1>7
  <2> QED
    BY <1>1, <1>6, <2>1, <2>2 DEF Longest
<1> QED
  BY <1>12, <1>13 DEF out

\* What holds for each of the writers of a path holds for what is upstream of it.
LEMMA UpstreamHasAll ==
  ASSUME NEW p \in Paths, NEW op, NEW secrets, Writers(p) # {},
         \A c \in Writers(p) : HasAll(Fed(c), op, secrets)
  PROVE  HasAll(Upstream[p], op, secrets)
<1>1. \A d : d \in Upstream[p] <=> \E c \in Writers(p) : d \in Fed(c)
  BY UpstreamIs
<1> QED
  BY <1>1 DEF HasAll

LEMMA UpstreamLongest ==
  ASSUME NEW p \in Paths, NEW op, NEW secrets,
         \A c \in Writers(p) : Longest(Fed(c), op, secrets)
  PROVE  Longest(Upstream[p], op, secrets)
<1>1. \A d : d \in Upstream[p] <=> \E c \in Writers(p) : d \in Fed(c)
  BY UpstreamIs
<1> QED
  BY <1>1 DEF Longest

\* Nobody has contributed yet.
LEMMA NobodyYet ==
  ASSUME NEW D, NEW op, \A d \in D : Op(d) # op
  PROVE  HasAll(D, op, <<>>) /\ Longest(D, op, <<>>)
BY EmptyIs DEF HasAll, Longest, Owners, NoneTwice

\* What is given and never written.
LEMMA GivenIs ==
  ASSUME Settles, NEW p \in Paths, Writers(p) = {}
  PROVE  /\ Upstream[p] = {} /\ file[p].kind # "phase2"
         /\ file[p].kind \in {"phase1", "srs"} =>
              HasAll(Upstream[p], "phase1_contribute", file[p].secrets)
<1>1. Upstream[p] = {}
  BY UpstreamIs
<1>2. file[p] = IF p \in DOMAIN Given THEN Given[p] ELSE None
  BY DEF Settles, KeepInv
<1> QED
  BY <1>1, <1>2 DEF Settles, Planned, None, HasAll

Phase1Ops == {"phase1_init", "phase1_contribute"}

\* A phase1 file has the contributions upstream of it, by induction on their number.
Phase1Sound(p) ==
  /\ HasAll(Upstream[p], "phase1_contribute", file[p].secrets)
  /\ Longest(Upstream[p], "phase1_contribute", file[p].secrets)
  /\ \A d \in Upstream[p] : Op(d) \in Phase1Ops

\* The induction step: if the shorter files are sound, so is what c writes.
LEMMA Phase1Step ==
  ASSUME Settles, NEW c \in Commands, NEW p \in Elems(Outs[c]), p \in Paths,
         file[p].kind = "phase1",
         \A q \in Paths : file[q].kind = "phase1" /\ Len(file[q].secrets) < Len(file[p].secrets)
                            => Phase1Sound(q)
  PROVE  /\ HasAll(Fed(c), "phase1_contribute", file[p].secrets)
         /\ Longest(Fed(c), "phase1_contribute", file[p].secrets)
         /\ \A d \in Fed(c) : Op(d) \in Phase1Ops
<1> DEFINE q == Ins(c)[1]
<1>1. CASE Op(c) = "phase1_init"
  <2>1. file[p].secrets = <<>> /\ Fed(c) = {c}
    BY <1>1, WrittenIs DEF InitPhase1
  <2>2. \A d \in Fed(c) : Op(d) = "phase1_init"
    BY <1>1, <2>1
  <2> QED
    BY <2>1, <2>2, NobodyYet DEF Phase1Ops
<1>2. CASE Op(c) = "phase1_contribute"
  <2>1. /\ q \in Paths /\ Fed(c) = {c} \cup Upstream[q] /\ Verify(file[q], file[p])
        /\ file[q].kind = "phase1"
    BY <1>2, WrittenIs DEF Contributions, Verify
  <2>2. Len(file[q].secrets) < Len(file[p].secrets)
    <3>1. Len(file[q].secrets) \in Nat /\ Len(file[p].secrets) = Len(file[q].secrets) + 1
      BY <2>1, LenIs DEF Verify, Settles, TypeOK, FileType
    <3> QED
      BY <3>1
  <2>3. Phase1Sound(q)
    BY <2>1, <2>2
  <2>4. /\ HasAll(Fed(c), "phase1_contribute", file[p].secrets)
        /\ Longest(Fed(c), "phase1_contribute", file[p].secrets)
    BY <1>2, <2>3, ContributionHasAll DEF Phase1Sound, Contributions
  <2> QED
    BY <1>2, <2>1, <2>3, <2>4 DEF Phase1Sound, Phase1Ops
<1>3. Op(c) \in Phase1Ops
  BY WriterIs DEF Phase1Ops
<1> QED
  BY <1>1, <1>2, <1>3 DEF Phase1Ops

LEMMA Phase1IsSound ==
  ASSUME Settles, NEW p \in Paths, file[p].kind = "phase1"
  PROVE  Phase1Sound(p)
<1> DEFINE Short(n) == \A q \in Paths :
             file[q].kind = "phase1" /\ Len(file[q].secrets) < n => Phase1Sound(q)
           S == {n \in Nat : Short(n)}
<1>1. \A q \in Paths : file[q].kind = "phase1" => Len(file[q].secrets) \in Nat
  BY LenIs DEF Settles, TypeOK, FileType
<1>2. 0 \in S
  BY <1>1
<1>3. ASSUME NEW n \in Nat, n \in S PROVE n + 1 \in S
  <2>1. SUFFICES ASSUME NEW q \in Paths, file[q].kind = "phase1",
                        Len(file[q].secrets) < n + 1
                 PROVE  Phase1Sound(q)
    BY <1>3
  <2>2. Len(file[q].secrets) \in Nat
    BY <1>1, <2>1
  <2>3. \A r \in Paths : file[r].kind = "phase1" /\ Len(file[r].secrets) < Len(file[q].secrets)
                           => Phase1Sound(r)
    BY <1>1, <1>3, <2>1, <2>2
  <2>4. CASE Writers(q) = {}
    <3>1. Upstream[q] = {} /\ HasAll(Upstream[q], "phase1_contribute", file[q].secrets)
      BY <2>1, <2>4, GivenIs
    <3> QED
      BY <3>1 DEF Phase1Sound, Longest
  <2>5. CASE Writers(q) # {}
    <3>1. \A c \in Writers(q) :
            /\ HasAll(Fed(c), "phase1_contribute", file[q].secrets)
            /\ Longest(Fed(c), "phase1_contribute", file[q].secrets)
            /\ \A d \in Fed(c) : Op(d) \in Phase1Ops
      BY <2>1, <2>3, Phase1Step DEF Writers
    <3>2. \A d \in Upstream[q] : Op(d) \in Phase1Ops
      BY <3>1, UpstreamIs
    <3> QED
      BY <2>5, <3>1, <3>2, UpstreamHasAll, UpstreamLongest DEF Phase1Sound
  <2> QED
    BY <2>4, <2>5
<1> HIDE DEF S
<1>4. Nat \subseteq S
  BY <1>2, <1>3, Induction
<1>5. Len(file[p].secrets) + 1 \in S
  BY <1>1, <1>4
<1> QED
  BY <1>1, <1>5 DEF S

\* The SRS has the contributions of the phase1 file that it is made from.
LEMMA SrsIsSound ==
  ASSUME Settles, NEW p \in Paths, file[p].kind = "srs"
  PROVE  /\ HasAll(Upstream[p], "phase1_contribute", file[p].secrets)
         /\ \A d \in Upstream[p] : Op(d) \notin {"phase2_init", "phase2_contribute"}
<1>1. ASSUME NEW c \in Writers(p)
      PROVE  /\ HasAll(Fed(c), "phase1_contribute", file[p].secrets)
             /\ \A d \in Fed(c) : Op(d) \notin {"phase2_init", "phase2_contribute"}
  <2> DEFINE q == Ins(c)[1]
  <2>1. c \in Commands /\ p \in Elems(Outs[c])
    BY DEF Writers
  <2>2. Op(c) = "phase1_seal"
    BY <2>1, WriterIs
  <2>3. /\ q \in Paths /\ Fed(c) = {c} \cup Upstream[q] /\ file[q].kind = "phase1"
        /\ file[p] = SealPhase1(file[q], Line[c].beacon)
    BY <2>1, <2>2, WrittenIs
  <2>4. file[p].secrets = file[q].secrets
    BY <2>3 DEF SealPhase1
  <2>5. Phase1Sound(q)
    BY <2>3, Phase1IsSound
  <2> QED
    BY <2>2, <2>3, <2>4, <2>5 DEF Phase1Sound, HasAll, Phase1Ops
<1>2. CASE Writers(p) = {}
  BY <1>2, GivenIs
<1>3. CASE Writers(p) # {}
  BY <1>1, <1>3, UpstreamIs, UpstreamHasAll
<1> QED
  BY <1>2, <1>3

\* A phase2 file has the contributions upstream of it, and is for the SRS and the
\* batch of an init upstream of it.
Phase2Sound(p) ==
  /\ HasAll(Upstream[p], "phase2_contribute", file[p].secrets)
  /\ Longest(Upstream[p], "phase2_contribute", file[p].secrets)
  /\ {"srs", "batch"} \subseteq DOMAIN file[p]
  /\ \E d \in Upstream[p] :
       /\ d \in Commands /\ Op(d) = "phase2_init"
       /\ file[p].srs = file[Ins(d)[1]] /\ file[p].batch = Line[d].batch

LEMMA Phase2Step ==
  ASSUME Settles, NEW c \in Commands, NEW p \in Elems(Outs[c]), p \in Paths,
         file[p].kind = "phase2",
         \A q \in Paths : file[q].kind = "phase2" /\ Len(file[q].secrets) < Len(file[p].secrets)
                            => Phase2Sound(q)
  PROVE  /\ HasAll(Fed(c), "phase2_contribute", file[p].secrets)
         /\ Longest(Fed(c), "phase2_contribute", file[p].secrets)
         /\ {"srs", "batch"} \subseteq DOMAIN file[p]
         /\ \E d \in Fed(c) :
              /\ d \in Commands /\ Op(d) = "phase2_init"
              /\ file[p].srs = file[Ins(d)[1]] /\ file[p].batch = Line[d].batch
<1> DEFINE q == Ins(c)[1]
<1>1. CASE Op(c) = "phase2_init"
  <2>1. /\ file[p] = InitPhase2(Line[c].batch, file[q]) /\ q \in Paths
        /\ Fed(c) = {c} \cup Upstream[q] /\ file[q].kind = "srs"
    BY <1>1, WrittenIs
  <2>2. /\ file[p].secrets = <<>> /\ file[p].srs = file[q] /\ file[p].batch = Line[c].batch
        /\ {"srs", "batch"} \subseteq DOMAIN file[p]
    BY <2>1 DEF InitPhase2
  <2>3. \A d \in Fed(c) : Op(d) # "phase2_contribute"
    BY <1>1, <2>1, SrsIsSound
  <2> QED
    BY <1>1, <2>1, <2>2, <2>3, NobodyYet
<1>2. CASE Op(c) = "phase2_contribute"
  <2>1. /\ q \in Paths /\ Fed(c) = {c} \cup Upstream[q] /\ Verify(file[q], file[p])
        /\ file[q].kind = "phase2"
    BY <1>2, WrittenIs DEF Contributions, Verify
  <2>2. Len(file[q].secrets) < Len(file[p].secrets)
    <3>1. Len(file[q].secrets) \in Nat /\ Len(file[p].secrets) = Len(file[q].secrets) + 1
      BY <2>1, LenIs DEF Verify, Settles, TypeOK, FileType
    <3> QED
      BY <3>1
  <2>3. Phase2Sound(q)
    BY <2>1, <2>2
  <2>4. /\ HasAll(Fed(c), "phase2_contribute", file[p].secrets)
        /\ Longest(Fed(c), "phase2_contribute", file[p].secrets)
    BY <1>2, <2>3, ContributionHasAll DEF Phase2Sound, Contributions
  <2>5. /\ DOMAIN file[p] = DOMAIN file[q]
        /\ file[p].srs = file[q].srs /\ file[p].batch = file[q].batch
    BY <2>1, <2>3 DEF Verify, Contribute, Phase2Sound
  <2> QED
    BY <2>1, <2>3, <2>4, <2>5 DEF Phase2Sound
<1>3. Op(c) \in {"phase2_init", "phase2_contribute"}
  BY WriterIs
<1> QED
  BY <1>1, <1>2, <1>3

LEMMA Phase2IsSound ==
  ASSUME Settles, NEW p \in Paths, file[p].kind = "phase2"
  PROVE  Phase2Sound(p)
<1> DEFINE Short(n) == \A q \in Paths :
             file[q].kind = "phase2" /\ Len(file[q].secrets) < n => Phase2Sound(q)
           S == {n \in Nat : Short(n)}
<1>1. \A q \in Paths : file[q].kind = "phase2" => Len(file[q].secrets) \in Nat
  BY LenIs DEF Settles, TypeOK, FileType
<1>2. 0 \in S
  BY <1>1
<1>3. ASSUME NEW n \in Nat, n \in S PROVE n + 1 \in S
  <2>1. SUFFICES ASSUME NEW q \in Paths, file[q].kind = "phase2",
                        Len(file[q].secrets) < n + 1
                 PROVE  Phase2Sound(q)
    BY <1>3
  <2>2. Len(file[q].secrets) \in Nat
    BY <1>1, <2>1
  <2>3. \A r \in Paths : file[r].kind = "phase2" /\ Len(file[r].secrets) < Len(file[q].secrets)
                           => Phase2Sound(r)
    BY <1>1, <1>3, <2>1, <2>2
  <2>4. Writers(q) # {}
    BY <2>1, GivenIs
  <2>5. \A c \in Writers(q) :
          /\ HasAll(Fed(c), "phase2_contribute", file[q].secrets)
          /\ Longest(Fed(c), "phase2_contribute", file[q].secrets)
          /\ {"srs", "batch"} \subseteq DOMAIN file[q]
          /\ \E d \in Fed(c) :
               /\ d \in Commands /\ Op(d) = "phase2_init"
               /\ file[q].srs = file[Ins(d)[1]] /\ file[q].batch = Line[d].batch
    BY <2>1, <2>3, Phase2Step DEF Writers
  <2>6. \A c \in Writers(q) : Fed(c) \subseteq Upstream[q]
    BY UpstreamIs
  <2> QED
    BY <2>4, <2>5, <2>6, UpstreamHasAll, UpstreamLongest DEF Phase2Sound
<1> HIDE DEF S
<1>4. Nat \subseteq S
  BY <1>2, <1>3, Induction
<1>5. Len(file[p].secrets) + 1 \in S
  BY <1>1, <1>4
<1> QED
  BY <1>1, <1>5 DEF S

\* In files that follow from one another, the keys are sound.
LEMMA SettledSound ==
  ASSUME Settles
  PROVE  KeysSound
<1> SUFFICES ASSUME NEW c \in Commands, Op(c) = "seal"
             PROVE  LET keys == file[Outs[c][2]].keys IN
                    /\ keys.phase2.srs = keys.srs /\ keys.phase2.batch = keys.batch
                    /\ HasAll(Upstream[Ins(c)[1]], "phase1_contribute", keys.srs.secrets)
                    /\ HasAll(Upstream[Ins(c)[2]], "phase2_contribute", keys.phase2.secrets)
  BY DEF KeysSound, HasAll
<1> DEFINE srs == Ins(c)[1]
           phase2 == Ins(c)[2]
           keys == file[Outs[c][2]].keys
<1>1. DOMAIN Outs[c] = {1, 2, 3, 4}
  BY LineIs, OutsAre
<1>2. DOMAIN Ins(c) = {1, 2} /\ Reads(c)[1] = "srs" /\ Reads(c)[2] = "phase2"
  <2>1. Reads(c) = Handler["seal"].reads /\ Handler["seal"] = exportSeal
    BY DEF Reads, Handler
  <2>2. Reads(c) = <<"srs", "phase2">>
    BY <2>1 DEF exportSeal
  <2>3. DOMAIN Ins(c) = 1 .. Len(Reads(c))
    BY LineIs
  <2> QED
    BY <2>2, <2>3
<1>3. /\ srs \in Paths /\ file[srs].kind = "srs" /\ In(c)[1] = file[srs]
      /\ phase2 \in Paths /\ file[phase2].kind = "phase2" /\ In(c)[2] = file[phase2]
  BY <1>2, LineIs DEF Settles, Derivation, Decodes, In
<1>4. file[Outs[c][2]] = Products(c, In(c), 0)[2]
  BY <1>1 DEF Settles, Derivation, Verifications, Contributions, Out
<1>5. keys = SealKeysFromExistedMPC(Line[c].batch, file[srs], Line[c].beacon, file[phase2])
  BY <1>3, <1>4 DEF Products, ExportProvingKey
<1>6. /\ keys.srs = file[srs] /\ keys.phase2 = file[phase2] /\ keys.batch = Line[c].batch
  BY <1>5 DEF SealKeysFromExistedMPC
<1>7. Phase2Sound(phase2)
  BY <1>3, Phase2IsSound
<1>8. PICK d \in Upstream[phase2] :
        /\ d \in Commands /\ Op(d) = "phase2_init"
        /\ file[phase2].srs = file[Ins(d)[1]] /\ file[phase2].batch = Line[d].batch
  BY <1>7 DEF Phase2Sound
<1>9. Ins(d)[1] = srs /\ Line[d].batch = Line[c].batch
  BY <1>8 DEF Settles, Planned
<1>10. HasAll(Upstream[srs], "phase1_contribute", file[srs].secrets)
  BY <1>3, SrsIsSound
<1> QED
  BY <1>6, <1>7, <1>8, <1>9, <1>10 DEF Phase2Sound

\* For the command lines of any ceremony, run in any order and at the same time,
\* failing, killed and repeated: once each has succeeded and none of its files has
\* been changed since, the keys are of one SRS and one batch, with one secret of
\* everybody upstream and of nobody else who took part.
THEOREM SealsSound == Spec => []KeysSound
<1>1. TypeInv /\ DerivedInv /\ KeepInv => KeysSound
  <2>1. ASSUME TypeInv, DerivedInv, KeepInv, Planned,
               \A c \in Commands : Succeeded(c) /\ c \notin moved
        PROVE  Settles
    BY <2>1 DEF Settles, Planned, TypeInv, DerivedInv, Undisturbed
  <2> QED
    BY <2>1, SettledSound DEF KeysSound
<1> QED
  BY <1>1, TypeInit, TypeStep, WriteInit, WriteStep, DerivedInit, DerivedStep, KeepInit,
     KeepStep, PTL DEF Spec
=============================================================================
