------------------------------ MODULE Ceremony ------------------------------
(***************************************************************************)
(* The Groth16 ceremony as mpccmd (src/cmd/mpccmd.go, src/mpc) runs it:    *)
(* a set of command lines over one directory, each of them a process that  *)
(* validates its flags, reads its input files one after the other,         *)
(* computes, and writes its output files one after the other.  Commands    *)
(* run in any order and at the same time, fail, are killed, and are run    *)
(* again.                                                                  *)
(*                                                                         *)
(* writeSecureAtomic is used as AtomicFile and AtomicWrite describe it: it *)
(* takes t.tmp, or fails if t.tmp is there; it replaces t in one step, or  *)
(* leaves t alone; a failure removes t.tmp, but for a failed Rename, and a *)
(* killed process leaves t.tmp behind.  gnark's mpcsetup is external: a    *)
(* contribution is the list of the secrets in it, and the hash of a file   *)
(* is the file.                                                            *)
(***************************************************************************)
EXTENDS AnySequence, FiniteSets

CONSTANTS
  Line,       \* Line[c]: the flags of the command line named c, see LineType
  Given,      \* Given[p]: a file that is there from the beginning, such as one
              \* that an earlier participant has published
  Unset,      \* the value of a path or beacon flag that is not given
  MaxRunning, \* how many commands run at the same time
  MaxFaults,  \* how many times a write fails or a process is killed
  MaxRepeats, \* how many times a command that succeeded is run again for no reason
  Watched     \* the commands whose operators watch their files, and run them
              \* again when one of these has changed since they were started

(* The handlers of mpccmd, each with the kinds of the files it reads, in    *)
(* the order it reads them, its output paths (the default, or Unset for a  *)
(* required flag), and the other flags it insists on.  The last file that  *)
(* a verify reads is the one --output names.                               *)

initPhase1 == [reads |-> <<>>, outs |-> <<"Phase1_1">>, needs |-> {}]
verifyPhase1 == [reads |-> <<"phase1", "phase1">>, outs |-> <<>>, needs |-> {}]
contributePhase1 == [reads |-> <<"phase1">>, outs |-> <<Unset>>, needs |-> {}]
sealPhase1 == [reads |-> <<"phase1">>, outs |-> <<Unset>>, needs |-> {"beacon"}]
initPhase2 == [reads |-> <<"srs">>, outs |-> <<"Phase2_1">>, needs |-> {"batch"}]
verifyPhase2 == [reads |-> <<"phase2", "phase2">>, outs |-> <<>>, needs |-> {}]
contributePhase2 == [reads |-> <<"phase2">>, outs |-> <<Unset>>, needs |-> {}]

exportSeal ==
  [reads |-> <<"srs", "phase2">>,
   outs |-> <<"Verifier.sol", "ProvingKey", "VerifyingKey", "R1CS">>,
   needs |-> {"batch", "beacon"}]

\* The command table of main.
Handler ==
  [phase1_init |-> initPhase1, phase1_verify |-> verifyPhase1,
   phase1_contribute |-> contributePhase1, phase1_seal |-> sealPhase1,
   phase2_init |-> initPhase2, phase2_verify |-> verifyPhase2,
   phase2_contribute |-> contributePhase2, seal |-> exportSeal]

Contributions == {"phase1_contribute", "phase2_contribute"}
Verifications == {"phase1_verify", "phase2_verify"}

\* ins and outs are the path flags in the order of reads and outs above.
LineType(l) ==
  /\ l.op \in DOMAIN Handler
  /\ IsSeq(l.ins) /\ Len(l.ins) = Len(Handler[l.op].reads)
  /\ IsSeq(l.outs) /\ Len(l.outs) = Len(Handler[l.op].outs)
  /\ l.batch \in Nat

Commands == DOMAIN Line

Kinds == {"none", "torn", "phase1", "srs", "phase2", "contract", "pk", "vk", "r1cs"}

\* What a file may hold; contributions are made to the files with secrets.
FileType(data) ==
  /\ data.kind \in Kinds
  /\ data.kind \in {"phase1", "phase2"} =>
       {"kind", "secrets"} \subseteq DOMAIN data /\ IsSeq(data.secrets)

ASSUME CeremonyAssumption ==
  /\ \A c \in Commands : LineType(Line[c])
  /\ \A p \in DOMAIN Given : FileType(Given[p]) /\ Given[p].kind # "torn"
  /\ MaxRunning \in Nat \ {0} /\ MaxFaults \in Nat /\ MaxRepeats \in Nat
  /\ Watched \subseteq Commands

Op(c) == Line[c].op
Ins(c) == Line[c].ins
Reads(c) == Handler[Op(c)].reads
Outs ==
  [c \in Commands |->
     [i \in DOMAIN Line[c].outs |->
        IF Line[c].outs[i] = Unset THEN Handler[Op(c)].outs[i] ELSE Line[c].outs[i]]]

Files == [c \in Commands |-> Elems(Ins(c)) \cup Elems(Outs[c])]
Paths == UNION {Files[c] : c \in Commands}

\* Faulty: a batch of one is refused.
FlagsOKAboveOne(c) ==
  /\ Unset \notin Files[c]
  /\ "batch" \in Handler[Op(c)].needs => Line[c].batch > 1
  /\ "beacon" \in Handler[Op(c)].needs => Line[c].beacon # Unset

\* The guards at the head of each handler.
FlagsOK(c) ==
  /\ Unset \notin Files[c]
  /\ "batch" \in Handler[Op(c)].needs => Line[c].batch >= 1
  /\ "beacon" \in Handler[Op(c)].needs => Line[c].beacon # Unset

-----------------------------------------------------------------------------
(* The contents of the files, and the functions of src/mpc on them.        *)

None == [kind |-> "none"]       \* no file
Torn == [kind |-> "torn"]       \* a contract that is not written completely

\* initPhase1 asks for the size 2^24, which is in range.
InitPhase1 == [kind |-> "phase1", secrets |-> <<>>]

\* ReadFrom decodes a file of the right kind; anything else is an error.
Decodes(kind, data) == data.kind = kind

\* p.Contribute(): one more secret.  prev.Verify(cur): cur is one contribution
\* to exactly prev, whose hash is the challenge of cur.
Contribute(data, secret) == [data EXCEPT !.secrets = Append(@, secret)]

Verify(prev, cur) ==
  /\ cur.kind = prev.kind
  /\ Len(cur.secrets) = Len(prev.secrets) + 1
  /\ cur = Contribute(prev, cur.secrets[Len(cur.secrets)])

\* Faulty: p.Contribute() is not called.
ContributePhase1Idle(prev, secret) == prev

ContributePhase1(prev, secret) == Contribute(prev, secret)
VerifyPhase1(prev, cur) == Verify(prev, cur)
SealPhase1(phase1, beacon) ==
  [kind |-> "srs", secrets |-> phase1.secrets, beacon |-> beacon]

\* Faulty: the circuit of one message, whatever the batch.
InitPhase2OfOne(batch, srs) ==
  [kind |-> "phase2", srs |-> srs, batch |-> 1, secrets |-> <<>>]

\* The circuit depends on the batch alone.
InitPhase2(batch, srs) ==
  [kind |-> "phase2", srs |-> srs, batch |-> batch, secrets |-> <<>>]
ContributePhase2(prev, secret) == Contribute(prev, secret)
VerifyPhase2(prev, cur) == Verify(prev, cur)

\* phase2.Seal takes the SRS, the circuit and the phase2 file it is given; it
\* does not ask whether they belong together.
SealKeysFromExistedMPC(batch, srs, beacon, phase2) ==
  [srs |-> srs, batch |-> batch, phase2 |-> phase2, beacon |-> beacon]

ExportContract(keys) == [kind |-> "contract", keys |-> keys]
ExportProvingKey(keys) == [kind |-> "pk", keys |-> keys]
ExportVerifyingKey(keys) == [kind |-> "vk", keys |-> keys]
ExportCCS(batch) == [kind |-> "r1cs", batch |-> batch]

-----------------------------------------------------------------------------
VARIABLES
  file,       \* file[p]: the contents of the file at path p
  temp,       \* temp[p]: the command whose p.tmp is there, or Unset
  pc,         \* pc[c]: where c is: "idle", "read", "write" (between two
              \* files), "commit" (in a file), "clash" (in a contract that
              \* another command has truncated or was already writing),
              \* "lost" (in a contract whose name another file has taken)
  mem,        \* mem[c]: what c has read so far, in order
  todo,       \* todo[c]: the writes that c has left, in order
  ok,         \* the commands whose last run has succeeded
  drawn,      \* drawn[c]: how many secrets c has drawn and put into a file;
              \* one that reached no file is gone and its number is free
  moved,      \* of the commands that run or have succeeded, those one of whose
              \* files another command has changed since they were started
  faults,     \* the faults so far
  repeats     \* the repeated commands so far

vars == <<file, temp, pc, mem, todo, ok, drawn, moved, faults, repeats>>

Init ==
  /\ file = [p \in Paths |-> IF p \in DOMAIN Given THEN Given[p] ELSE None]
  /\ temp = [p \in Paths |-> Unset]
  /\ pc = [c \in Commands |-> "idle"]
  /\ mem = [c \in Commands |-> <<>>]
  /\ todo = [c \in Commands |-> <<>>]
  /\ ok = {}
  /\ drawn = [c \in Commands |-> 0]
  /\ moved = {}
  /\ faults = 0
  /\ repeats = 0

\* The run of c is over, and its memory is gone.
Quit(c) ==
  /\ pc' = [pc EXCEPT ![c] = "idle"]
  /\ mem' = [mem EXCEPT ![c] = <<>>]
  /\ todo' = [todo EXCEPT ![c] = <<>>]

Succeed(c) == Quit(c) /\ ok' = ok \cup {c} /\ UNCHANGED moved
Stop(c) == Quit(c) /\ ok' = ok \ {c} /\ moved' = moved \ {c}

Fault == faults < MaxFaults /\ faults' = faults + 1

\* An operator has a reason to start c: it has not succeeded yet, or not on the
\* files that are there now.
Due(c) == c \notin ok \/ c \in moved \cap Watched

\* An operator starts c, or starts it again.
Start(c) ==
  /\ pc[c] = "idle"
  /\ Cardinality({d \in Commands : pc[d] # "idle"}) < MaxRunning
  /\ \/ Due(c) /\ UNCHANGED repeats
     \/ ~Due(c) /\ repeats < MaxRepeats /\ repeats' = repeats + 1
  /\ \/ /\ FlagsOK(c)
        /\ pc' = [pc EXCEPT ![c] = "read"]
        /\ moved' = moved \ {c}
        /\ UNCHANGED <<mem, todo, ok>>
     \/ ~FlagsOK(c) /\ Stop(c)
  /\ UNCHANGED <<file, temp, drawn, faults>>

\* Faulty: the file is decoded as far as it goes, and the error is dropped.
ReadUnchecked(c) ==
  LET n == Len(mem[c]) + 1 IN
  /\ pc[c] = "read" /\ n <= Len(Ins(c))
  /\ mem' = [mem EXCEPT ![c] = Append(@, file[Ins(c)[n]])]
  /\ UNCHANGED <<file, temp, pc, todo, ok, drawn, moved, faults, repeats>>

\* ReadPhase1FromFile, ReadSrsCommonsFromFile, ReadPhase2FromFile: the next
\* input, or an error if there is none or it does not decode.
Read(c) ==
  LET n == Len(mem[c]) + 1 IN
  /\ pc[c] = "read" /\ n <= Len(Ins(c))
  /\ \/ /\ Decodes(Reads(c)[n], file[Ins(c)[n]])
        /\ mem' = [mem EXCEPT ![c] = Append(@, file[Ins(c)[n]])]
        /\ UNCHANGED <<pc, todo, ok, moved>>
     \/ /\ ~Decodes(Reads(c)[n], file[Ins(c)[n]])
        /\ Stop(c)
  /\ UNCHANGED <<file, temp, drawn, faults, repeats>>

\* What c writes, from the inputs it has read; n is the number of the secret.
Products(c, in, n) ==
  LET l == Line[c]
      secret == <<c, n>>
      keys == SealKeysFromExistedMPC(l.batch, in[1], l.beacon, in[2])
  IN CASE Op(c) = "phase1_init" -> <<InitPhase1>>
       [] Op(c) = "phase1_contribute" -> <<ContributePhase1(in[1], secret)>>
       [] Op(c) = "phase1_seal" -> <<SealPhase1(in[1], l.beacon)>>
       [] Op(c) = "phase2_init" -> <<InitPhase2(l.batch, in[1])>>
       [] Op(c) = "phase2_contribute" -> <<ContributePhase2(in[1], secret)>>
       [] Op(c) = "seal" -> <<ExportContract(keys), ExportProvingKey(keys),
                              ExportVerifyingKey(keys), ExportCCS(l.batch)>>

Answer(c, in) ==
  IF Op(c) = "phase1_verify" THEN VerifyPhase1(in[1], in[2]) ELSE VerifyPhase2(in[1], in[2])

\* Faulty: the error of prev.Verify(cur) is dropped.
ComputeUnchecked(c) ==
  /\ pc[c] = "read" /\ Len(mem[c]) = Len(Ins(c))
  /\ \/ Op(c) \in Verifications /\ Succeed(c)
     \/ /\ Op(c) \notin Verifications
        /\ pc' = [pc EXCEPT ![c] = "write"]
        /\ todo' = [todo EXCEPT ![c] =
             [i \in DOMAIN Outs[c] |->
                [path |-> Outs[c][i], data |-> Products(c, mem[c], drawn[c] + 1)[i]]]]
        /\ UNCHANGED <<mem, ok, moved>>
  /\ UNCHANGED <<file, temp, drawn, faults, repeats>>

\* All inputs are read: a verify answers, any other command prepares its
\* outputs.  A contribution draws a fresh secret.
Compute(c) ==
  /\ pc[c] = "read" /\ Len(mem[c]) = Len(Ins(c))
  /\ \/ /\ Op(c) \in Verifications
        /\ IF Answer(c, mem[c]) THEN Succeed(c) ELSE Stop(c)
     \/ /\ Op(c) \notin Verifications
        /\ pc' = [pc EXCEPT ![c] = "write"]
        /\ todo' = [todo EXCEPT ![c] =
             [i \in DOMAIN Outs[c] |->
                [path |-> Outs[c][i], data |-> Products(c, mem[c], drawn[c] + 1)[i]]]]
        /\ UNCHANGED <<mem, ok, moved>>
  /\ UNCHANGED <<file, temp, drawn, faults, repeats>>

\* The other commands that run or have succeeded with a file at p.
Users(c, p) == {d \in Commands \ {c} : p \in Files[d] /\ (pc[d] # "idle" \/ d \in ok)}

\* moved, when the contents of p become data under the other commands.
Moved(c, p, data) == IF file[p] = data THEN moved ELSE moved \cup Users(c, p)

Put(c, p, data) == file' = [file EXCEPT ![p] = data] /\ moved' = Moved(c, p, data)

\* The commands in the middle of writing the contract p, but for c.
OthersIn(c, p) ==
  {d \in Commands \ {c} :
     /\ pc[d] \in {"commit", "clash"}
     /\ Head(todo[d]).path = p /\ Head(todo[d]).data.kind = "contract"}

\* Faulty: O_EXCL is asked of the final path too, so that a file that has been
\* exported is never replaced.
OpenTempOnce(c) ==
  LET p == Head(todo[c]).path IN
  /\ pc[c] = "write" /\ todo[c] # <<>> /\ Head(todo[c]).data.kind # "contract"
  /\ \/ /\ temp[p] = Unset /\ file[p] = None
        /\ temp' = [temp EXCEPT ![p] = c]
        /\ pc' = [pc EXCEPT ![c] = "commit"]
        /\ UNCHANGED <<mem, todo, ok, moved>>
     \/ (temp[p] # Unset \/ file[p] # None) /\ Stop(c) /\ UNCHANGED temp
  /\ UNCHANGED <<file, drawn, faults, repeats>>

\* writeSecureAtomic creates p.tmp, and fails if it is there.
OpenTemp(c) ==
  LET p == Head(todo[c]).path IN
  /\ pc[c] = "write" /\ todo[c] # <<>> /\ Head(todo[c]).data.kind # "contract"
  /\ \/ /\ temp[p] = Unset
        /\ temp' = [temp EXCEPT ![p] = c]
        /\ pc' = [pc EXCEPT ![c] = "commit"]
        /\ UNCHANGED <<mem, todo, ok, moved>>
     \/ temp[p] # Unset /\ Stop(c) /\ UNCHANGED temp
  /\ UNCHANGED <<file, drawn, faults, repeats>>

\* os.Create truncates the contract, also under a command that is writing it.
CreateContract(c) ==
  LET p == Head(todo[c]).path
      others == OthersIn(c, p)
  IN
  /\ pc[c] = "write" /\ todo[c] # <<>> /\ Head(todo[c]).data.kind = "contract"
  /\ file' = [file EXCEPT ![p] = Torn]
  /\ moved' = Moved(c, p, Torn) \cup (IF others = {} THEN {} ELSE others \cup {c})
  /\ pc' = [d \in Commands |->
              IF others # {} /\ d \in others \cup {c} THEN "clash"
              ELSE IF d = c THEN "commit" ELSE pc[d]]
  /\ UNCHANGED <<temp, mem, todo, ok, drawn, faults, repeats>>

\* os.Rename succeeds: the file is replaced and p.tmp is gone.  Whoever is writing
\* a contract of that name writes on, in a file that has no name any more.
CommitTemp(c) ==
  LET w == Head(todo[c]) IN
  /\ pc[c] = "commit" /\ w.data.kind # "contract"
  /\ Put(c, w.path, w.data)
  /\ temp' = [temp EXCEPT ![w.path] = Unset]
  /\ todo' = [todo EXCEPT ![c] = Tail(@)]
  /\ pc' = [d \in Commands |->
              IF d \in OthersIn(c, w.path) THEN "lost" ELSE IF d = c THEN "write" ELSE pc[d]]
  /\ drawn' = IF Op(c) \in Contributions THEN [drawn EXCEPT ![c] = @ + 1] ELSE drawn
  /\ UNCHANGED <<mem, ok, faults, repeats>>

\* Faulty: ExportContract returns without an error before the end.
CompleteContractEarly(c) ==
  LET w == Head(todo[c]) IN
  /\ pc[c] \in {"commit", "clash"} /\ w.data.kind = "contract"
  /\ \/ Put(c, w.path, w.data)
     \/ Put(c, w.path, Torn)
  /\ todo' = [todo EXCEPT ![c] = Tail(@)]
  /\ pc' = [pc EXCEPT ![c] = "write"]
  /\ UNCHANGED <<temp, mem, ok, drawn, faults, repeats>>

\* The last byte of the contract is written; what two commands have written at
\* once need not be a contract, and what has lost its name is in no path.
CompleteContract(c) ==
  LET w == Head(todo[c]) IN
  /\ pc[c] \in {"commit", "clash", "lost"} /\ w.data.kind = "contract"
  /\ \/ pc[c] # "lost" /\ Put(c, w.path, w.data)
     \/ pc[c] = "clash" /\ Put(c, w.path, Torn)
     \/ pc[c] = "lost" /\ UNCHANGED <<file, moved>>
  /\ todo' = [todo EXCEPT ![c] = Tail(@)]
  /\ pc' = [pc EXCEPT ![c] = "write"]
  /\ UNCHANGED <<temp, mem, ok, drawn, faults, repeats>>

\* Faulty: the error of a write is dropped, and the command goes on.
FailWriteIgnored(c) ==
  /\ pc[c] \in {"commit", "clash"}
  /\ temp' = [temp EXCEPT ![Head(todo[c]).path] = Unset]
  /\ Fault
  /\ todo' = [todo EXCEPT ![c] = Tail(@)]
  /\ pc' = [pc EXCEPT ![c] = "write"]
  /\ UNCHANGED <<file, mem, ok, moved, drawn, repeats>>

\* The write that began, or the creation of its file, fails: the command stops
\* with the error.  p.tmp is removed, unless it was Rename that failed.
FailWrite(c) ==
  /\ \/ pc[c] = "write" /\ todo[c] # <<>> /\ UNCHANGED temp
     \/ /\ pc[c] \in {"commit", "clash", "lost"}
        /\ \/ UNCHANGED temp
           \/ /\ Head(todo[c]).data.kind # "contract"
              /\ temp' = [temp EXCEPT ![Head(todo[c]).path] = Unset]
  /\ Fault
  /\ Stop(c)
  /\ UNCHANGED <<file, drawn, repeats>>

\* Nothing is left to write.
Finish(c) ==
  /\ pc[c] = "write" /\ todo[c] = <<>>
  /\ Succeed(c)
  /\ UNCHANGED <<file, temp, drawn, faults, repeats>>

Run(c) ==
  \/ Read(c) \/ Compute(c)
  \/ OpenTemp(c) \/ CommitTemp(c)
  \/ CreateContract(c) \/ CompleteContract(c)
  \/ Finish(c)

\* The process dies wherever it is.
Kill(c) ==
  /\ pc[c] # "idle"
  /\ Fault
  /\ Stop(c)
  /\ UNCHANGED <<file, temp, drawn, repeats>>

\* Somebody deletes by hand a p.tmp that no running command is using.
Stale(p) ==
  /\ temp[p] # Unset
  /\ ~(pc[temp[p]] = "commit" /\ Head(todo[temp[p]]).path = p)

RemoveStale(p) ==
  /\ Stale(p)
  /\ temp' = [temp EXCEPT ![p] = Unset]
  /\ UNCHANGED <<file, pc, mem, todo, ok, drawn, moved, faults, repeats>>

\* Every command has succeeded: the operators may leave it at that.
AllDone == \A c \in Commands : pc[c] = "idle" /\ c \in ok

Over == AllDone /\ UNCHANGED vars

Next ==
  \/ \E c \in Commands : Start(c) \/ Run(c) \/ FailWrite(c) \/ Kill(c)
  \/ \E p \in Paths : RemoveStale(p)
  \/ Over

Spec == Init /\ [][Next]_vars

\* A started command goes on.  That the operators repeat a command until it
\* succeeds, or succeeds on the files that are there, and delete what a crash left
\* behind, is their part of the bargain.
Fairness ==
  /\ \A c \in Commands : WF_vars(Run(c)) /\ WF_vars(Start(c) /\ Due(c))
  /\ \A p \in Paths : WF_vars(RemoveStale(p))

FairSpec == Spec /\ Fairness

-----------------------------------------------------------------------------
(* Properties.                                                             *)

MemType(c, in) ==
  /\ IsSeq(in) /\ Len(in) <= Len(Ins(c))
  /\ \A i \in DOMAIN in : FileType(in[i]) /\ in[i].kind = Reads(c)[i]

TodoType(c, writes) ==
  /\ IsSeq(writes)
  /\ \A i \in DOMAIN writes :
       writes[i].path \in Elems(Outs[c]) /\ FileType(writes[i].data)

\* Type invariant of the processes of mpccmd and of their directory: a process
\* has in memory what its handler reads, in that order, and has left to write
\* what goes to its own output paths.
TypeOK ==
  /\ DOMAIN file = Paths /\ \A p \in Paths : FileType(file[p])
  /\ temp \in [Paths -> Commands \cup {Unset}]
  /\ pc \in [Commands -> {"idle", "read", "write", "commit", "clash", "lost"}]
  /\ ok \subseteq Commands
  /\ drawn \in [Commands -> Nat]
  /\ DOMAIN mem = Commands /\ DOMAIN todo = Commands
  /\ \A c \in Commands : MemType(c, mem[c]) /\ TodoType(c, todo[c])
  /\ moved \subseteq Commands
  /\ faults \in 0 .. MaxFaults /\ repeats \in 0 .. MaxRepeats

In(c) == [i \in DOMAIN Ins(c) |-> file[Ins(c)[i]]]
Out(c) == [i \in DOMAIN Outs[c] |-> file[Outs[c][i]]]

\* What the outputs of c must be to its inputs when c has succeeded.
Derivation(c, in, out) ==
  /\ \A i \in DOMAIN Ins(c) : Decodes(Reads(c)[i], in[i])
  /\ CASE Op(c) \in Verifications -> Verify(in[1], in[2])
       [] Op(c) \in Contributions ->
            /\ Verify(in[1], out[1])
            /\ out[1].secrets[Len(out[1].secrets)][1] = c
       [] OTHER -> \A i \in DOMAIN Outs[c] : out[i] = Products(c, in, 0)[i]

Distinct(c) == \A i, j \in DOMAIN Outs[c] : Outs[c][i] = Outs[c][j] => i = j

\* The command line does not tell c to write one of its files over another.
Apart(c) == Distinct(c) /\ Elems(Ins(c)) \cap Elems(Outs[c]) = {}

Succeeded(c) == pc[c] = "idle" /\ c \in ok

\* A command that has succeeded leaves files that belong together: whoever
\* repeats the step on the files that are there now finds what it found.  Its
\* reads, computation and writes may be interleaved with all others; only a
\* change to one of its own files since it was started excuses it.
Derived ==
  \A c \in Commands :
    Succeeded(c) /\ c \notin moved /\ Apart(c) => Derivation(c, In(c), Out(c))

\* Nobody but c writes its outputs, and c writes each of them once.
Exclusive(c) ==
  /\ Distinct(c)
  /\ \A d \in Commands \ {c} : Elems(Outs[c]) \cap Elems(Outs[d]) = {}

\* The contract, the proving key, the verifying key and the R1CS of one seal.
Agree(out) ==
  /\ out[1].kind = "contract" /\ out[2] = ExportProvingKey(out[1].keys)
  /\ out[3] = ExportVerifyingKey(out[1].keys)
  /\ out[4] = ExportCCS(out[1].keys.batch)

\* When exportSeal has succeeded, the contract, the proving key, the verifying
\* key and the R1CS that are there belong together, also after exports of other
\* keys to the same paths that stopped half-way, and whatever was rewritten
\* upstream.  (The four paths differ, and no other command line writes them.)
ArtifactsAgree ==
  \A c \in Commands :
    Op(c) = "seal" /\ Succeeded(c) /\ Exclusive(c) => Agree(Out(c))

\* The commands that p depends on along the command lines: whoever writes p, and
\* whoever writes an input of one of them.
Upstream ==
  [p \in Paths |->
     LET Whole(D) ==
           \A d \in Commands :
             \/ p \in Elems(Outs[d])
             \/ \E c \in D : Elems(Outs[d]) \cap Elems(Ins(c)) # {}
             => d \in D
     IN {d \in Commands : \A D \in SUBSET Commands : Whole(D) => d \in D}]

Owners(secrets) == {secrets[i][1] : i \in DOMAIN secrets}
NoneTwice(secrets) == \A i, j \in DOMAIN secrets : secrets[i] = secrets[j] => i = j

\* The command lines are those of one ceremony: none writes over one of its own
\* files, phase 2 begins here and from secrets of others, and "the same parameter
\* 'batch' used in 'phase2 init' should also be provided", and the same SRS.
Planned ==
  /\ \A c \in Commands : Apart(c)
  /\ \A p \in DOMAIN Given :
       /\ Given[p].kind # "phase2"
       /\ Given[p].kind \in {"phase1", "srs"} =>
            Owners(Given[p].secrets) \cap Commands = {} /\ NoneTwice(Given[p].secrets)
  /\ \A c, d \in Commands :
       Op(c) = "seal" /\ Op(d) = "phase2_init" /\ d \in Upstream[Ins(c)[2]] =>
         Ins(d)[1] = Ins(c)[1] /\ Line[d].batch = Line[c].batch

\* The keys are a common reference string for their own circuit, with a secret in
\* them of everybody who is upstream, none twice, and of nobody else: a participant
\* who has forked off is not in the keys, however well each verification went.
\* This holds once every command has succeeded and has been run again after its
\* inputs changed.
KeysSound ==
  Planned /\ (\A c \in Commands : Succeeded(c) /\ c \notin moved) =>
    \A c \in Commands : Op(c) = "seal" =>
      LET keys == file[Outs[c][2]].keys
          By(op, p, secrets) ==
            /\ Owners(secrets) \cap Commands = {d \in Upstream[p] : Op(d) = op}
            /\ NoneTwice(secrets)
      IN /\ keys.phase2.srs = keys.srs
         /\ keys.phase2.batch = keys.batch
         /\ By("phase1_contribute", Ins(c)[1], keys.srs.secrets)
         /\ By("phase2_contribute", Ins(c)[2], keys.phase2.secrets)

\* If the operators repeat what failed and delete what crashes left behind,
\* every command of the ceremony succeeds in the end.
Completes == <>[]AllDone

\* If they also repeat what has succeeded on files that another command has
\* replaced since (while it read them, during its computation, before its answer,
\* or later), then in the end every file follows from the files that it was made
\* from, and every verification holds of the files that are there: no command
\* refuses the repetition, and none is left with what it had read before.
Repaired == <>[](AllDone /\ \A c \in Commands : Derivation(c, In(c), Out(c)))
=============================================================================
