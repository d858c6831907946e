------------------------------ MODULE KeyShare ------------------------------
(***************************************************************************)
(* A node that sends a batch of key shares: PrepareEncryptedKeyShares,     *)
(* ComputeMultipleKeyShareEncryptionAssignment (src/circuit/circuit.go)    *)
(* and ProveMultipleKeyShareEncryption (src/zk_dkg.go); the single variant  *)
(* of each is a batch of one.  The three are linked by five arrays that    *)
(* the caller carries from the first to the last.  The caller may also try *)
(* again after an error and then mix the arrays of two attempts, change    *)
(* their order or length, or load the circuit of another batch size.  The  *)
(* process may die and start again; the caller has saved its arrays.       *)
(*                                                                         *)
(* groth16 is external: it proves exactly the assignments that fit the     *)
(* loaded circuit and satisfy its constraints.                             *)
(***************************************************************************)
EXTENDS BatchCircuit, FiniteSets

CONSTANTS
  Prv,         \* Prv[i]: the private key of recipient i
  Shares,      \* Shares[i]: the key share of recipient i
  Secrets,     \* the values of r that ECIESEncrypt may draw
  Senders,     \* the addresses of senders
  Batches,     \* the batch sizes that there is a circuit for
  Slips,       \* what the caller may do to an array, a subset of SlipKinds
  MaxAttempts, \* bound: the calls of PrepareEncryptedKeyShares
  MaxProofs,   \* bound: the calls of ProveMultipleKeyShareEncryption
  MaxRestarts  \* bound: how often the process starts again

SlipKinds == {"stale", "swap", "drop", "blank", "clip", "extend", "tag"}

Recipients == DOMAIN Prv

ASSUME KeyShareAssumption ==
  /\ IsSeq(Prv) /\ IsSeq(Shares) /\ Len(Shares) = Len(Prv)
  /\ Batches \subseteq 1 .. Len(Prv)
  /\ \A i \in Recipients : Prv[i] \in 1 .. Secp.order - 1 /\ Shares[i] \in 1 .. Bls.order - 1
  /\ Secrets \subseteq 1 .. Secp.order - 1
  /\ Senders \subseteq 0 .. 2 ^ ByteBits - 1  \* a byte stands for an address
  /\ Slips \subseteq SlipKinds
  /\ {MaxAttempts, MaxProofs, MaxRestarts} \subseteq Nat

Nil == 0        \* a nil pointer; no key, share or secret is zero here
NilByte == {}   \* an element of a witness that nobody has assigned

\* The arrays that the caller hands from Prepare to Prove.
Arrays == {"pubs", "rs", "fis", "encs", "nonces"}
NoArrays == [f \in Arrays |-> <<>>]

VARIABLES
  pc,         \* "idle", "encrypt", "assign", "solve", "panicked"
  counter,    \* the counter of AESGCMEncrypt
  input,      \* the arguments of the call in progress
  made,       \* what its loop has made so far
  attempts,   \* the arrays that PrepareEncryptedKeyShares has returned, in order
  calls,      \* the calls of each function so far
  life,       \* how often the process has started again
  born,       \* born[n]: the life in which attempt n was made
  statements, \* what has been hashed to a SumHash for a complete witness
  proofs      \* what there is a proof of

vars == <<pc, counter, input, made, attempts, calls, life, born, statements, proofs>>

NoInput == [batch |-> 0, sender |-> 0, arrays |-> NoArrays]
NoneMade == [arrays |-> NoArrays, params |-> <<>>, hashes |-> <<>>, assignment |-> <<>>]

Init ==
  /\ pc = "idle"
  /\ counter = 0
  /\ input = NoInput
  /\ made = NoneMade
  /\ attempts = <<>>
  /\ calls = [prepare |-> 0, prove |-> 0]
  /\ life = 0
  /\ born = <<>>
  /\ statements = {}
  /\ proofs = {}

\* The call returns, with or without an error; its variables are gone.
Leave == pc' = "idle" /\ input' = NoInput /\ made' = NoneMade

-----------------------------------------------------------------------------
(* PrepareEncryptedKeyShares                                               *)

\* The caller has the keys and shares of the first n recipients; one of them may
\* be nil, or the last share may be missing.
PrepareInputs ==
  UNION {LET pubs == [i \in 1 .. n |-> ScalarMulBase(Secp, Prv[i])]
             fis == [i \in 1 .. n |-> Shares[i]]
         IN {[NoArrays EXCEPT !["pubs"] = pubs, !["fis"] = f] :
               f \in {fis, Front(fis), [fis EXCEPT ![n] = Nil]}} : n \in Batches}

Prepare ==
  /\ pc = "idle" /\ calls.prepare < MaxAttempts
  /\ calls' = [calls EXCEPT !.prepare = @ + 1]
  /\ \E arrays \in PrepareInputs :
       IF Len(arrays["pubs"]) # Len(arrays["fis"]) THEN Leave
       ELSE /\ pc' = "encrypt"
            /\ input' = [NoInput EXCEPT !.arrays = arrays]
            /\ UNCHANGED made
  /\ UNCHANGED <<counter, attempts, life, born, statements, proofs>>

\* The recipient that the loop is at.
Index(array) == Len(array) + 1

\* One iteration of the loop.
EncryptNext ==
  LET i == Index(made.arrays["encs"]) IN
  /\ pc = "encrypt" /\ i <= Len(input.arrays["pubs"])
  /\ input.arrays["fis"][i] # Nil
  /\ \E r \in Secrets :
       LET pub == input.arrays["pubs"][i]
           fi == input.arrays["fis"][i]
           sent == ECIESEncrypt(pub, transformKeyShare(fi), r, counter + 1)
           entry == [pubs |-> pub, rs |-> r, fis |-> fi,
                     encs |-> sent.ciphertext, nonces |-> sent.nonce]
       IN made' = [made EXCEPT !.arrays = [f \in Arrays |-> Append(@[f], entry[f])]]
  /\ counter' = counter + 1
  /\ UNCHANGED <<pc, input, attempts, calls, life, born, statements, proofs>>

\* Faulty: what there is so far is returned.
EncryptFailReturning ==
  LET i == Index(made.arrays["encs"]) IN
  /\ pc = "encrypt" /\ i <= Len(input.arrays["pubs"])
  /\ \/ UNCHANGED counter
     \/ input.arrays["fis"][i] # Nil /\ counter' = counter + 1
  /\ attempts' = Append(attempts, [made.arrays EXCEPT !["pubs"] = input.arrays["pubs"]])
  /\ born' = Append(born, life)
  /\ Leave
  /\ UNCHANGED <<calls, life, statements, proofs>>

\* A key or share is nil, or the system has no random bytes left: what the loop
\* has made is dropped, but the counter has moved.
EncryptFail ==
  LET i == Index(made.arrays["encs"]) IN
  /\ pc = "encrypt" /\ i <= Len(input.arrays["pubs"])
  /\ \/ UNCHANGED counter
     \/ input.arrays["fis"][i] # Nil /\ counter' = counter + 1
  /\ Leave
  /\ UNCHANGED <<attempts, calls, life, born, statements, proofs>>

EncryptDone ==
  /\ pc = "encrypt" /\ Len(made.arrays["encs"]) = Len(input.arrays["pubs"])
  /\ attempts' = Append(attempts, made.arrays)
  /\ born' = Append(born, life)
  /\ Leave
  /\ UNCHANGED <<counter, calls, life, statements, proofs>>

-----------------------------------------------------------------------------
(* ProveMultipleKeyShareEncryption                                         *)

\* What becomes of array f of attempt own when the caller makes a mistake.
Slip(kind, f, own, other) ==
  LET a == own[f]
      n == Len(a)
      nonce == own["nonces"][n]
  IN CASE kind = "stale" -> other[f]
       [] kind = "swap" -> [i \in 1 .. n |-> a[n + 1 - i]]
       [] kind = "drop" -> Front(a)
       [] kind = "blank" -> [a EXCEPT ![n] = IF f \in {"encs", "nonces"} THEN <<>> ELSE Nil]
       [] kind = "clip" -> IF f = "nonces" THEN [a EXCEPT ![n] = Front(nonce)] ELSE a
       [] kind = "extend" -> IF f = "nonces" THEN [a EXCEPT ![n] = Append(nonce, Byte(0))] ELSE a
       [] kind = "tag" -> IF f = "encs" THEN [a EXCEPT ![n] = Append(Front(@), Byte(0))] ELSE a

\* The same slip, or none, for every array.
ProveInputs ==
  UNION {{[f \in Arrays |-> IF f \in fs THEN Slip(kind, f, attempts[n], attempts[m])
                            ELSE attempts[n][f]] :
            fs \in SUBSET Arrays, kind \in Slips} : n, m \in DOMAIN attempts}

Prove ==
  /\ pc = "idle" /\ calls.prove < MaxProofs
  /\ calls' = [calls EXCEPT !.prove = @ + 1]
  /\ \E arrays \in ProveInputs, batch \in Batches, sender \in Senders :
       IF \E f \in Arrays : Len(arrays[f]) # Len(arrays["pubs"]) THEN Leave
       ELSE /\ pc' = "assign"
            /\ input' = [batch |-> batch, sender |-> sender, arrays |-> arrays]
            /\ UNCHANGED made
  /\ UNCHANGED <<counter, attempts, life, born, statements, proofs>>

\* Entry i of the arrays.
At(i) == [f \in Arrays |-> input.arrays[f][i]]

Missing(e) ==
  \/ Nil \in {e["pubs"], e["rs"], e["fis"]}
  \/ 0 \in {Len(e["encs"]), Len(e["nonces"])}

\* ComputeSingleKeyShareEncryptionAssignment
Parameters(e) ==
  [R |-> e["rs"], Pub |-> e["pubs"], Fi |-> e["fis"],
   Iv |-> [k \in 1 .. NonceBytes |-> IF k <= Len(e["nonces"]) THEN e["nonces"][k] ELSE NilByte],
   ChunkIndex |-> ChunkIndex, CipherChunks |-> e["encs"]]

InnerHash(e) ==
  computeSumHash(e["pubs"], ScalarMulBase(Secp, e["rs"]), ScalarMulBase(Bls, e["fis"]),
                 e["encs"], e["nonces"])

AssignNext ==
  LET i == Index(made.params) IN
  /\ pc = "assign" /\ i <= Len(input.arrays["pubs"])
  /\ LET e == At(i) IN
     \/ Missing(e) /\ Leave
     \/ /\ ~Missing(e) /\ Len(e["nonces"]) > NonceBytes
        /\ pc' = "panicked" /\ UNCHANGED <<input, made>>
     \/ /\ ~Missing(e) /\ Len(e["nonces"]) <= NonceBytes
        /\ made' = [made EXCEPT !.params = Append(@, Parameters(e)),
                                !.hashes = Append(@, InnerHash(e))]
        /\ UNCHANGED <<pc, input>>
  /\ UNCHANGED <<counter, attempts, calls, life, born, statements, proofs>>

\* The bytes of a string, in ASCII.
hashDomain ==
  LET A == 65  B == 66  C == 67  D == 68  G == 71  H == 72  K == 75  S == 83  T == 84
      V == 86  underscore == 95  one == 49
  IN Octets(<<D, K, G, underscore, B, A, T, C, H, underscore, H, A, S, H, underscore, V, one>>)

\* Faulty: the entries are not numbered.
SummaryUnnumbered(sender, hashes) ==
  hashDomain \o <<Byte(sender), Byte(Len(hashes))>> \o FlattenSeq(hashes)

Summary(sender, hashes) ==
  hashDomain \o <<Byte(sender), Byte(Len(hashes))>>
  \o FlattenSeq([i \in DOMAIN hashes |-> <<Byte(i - 1), Byte(Len(hashes[i]))>> \o hashes[i]])

\* The witness of the whole batch, with the hash that the contract will check.
AssignDone ==
  /\ pc = "assign" /\ Len(made.params) = Len(input.arrays["pubs"])
  /\ pc' = "solve"
  /\ made' = [made EXCEPT !.assignment =
                [Sender |-> <<Byte(input.sender)>>, Parameters |-> made.params,
                 SumHash |-> Sha256(Summary(input.sender, made.hashes))]]
  /\ UNCHANGED <<counter, input, attempts, calls, life, born, statements, proofs>>

\* NewWitness finds every element assigned, and the loaded circuit has as many.
SealedBytes == ShareBytes + 1

Complete(a, batch) ==
  /\ Len(a.Parameters) = batch
  /\ \A i \in DOMAIN a.Parameters :
       /\ Len(a.Parameters[i].CipherChunks) = SealedBytes
       /\ \A k \in 1 .. NonceBytes : a.Parameters[i].Iv[k] # NilByte

Statement ==
  [SumHash |-> made.assignment.SumHash, sender |-> input.sender, arrays |-> input.arrays]

\* ComputeProof
Solve ==
  /\ pc = "solve"
  /\ LET complete == Complete(made.assignment, input.batch) IN
     /\ statements' = IF complete THEN statements \cup {Statement} ELSE statements
     /\ proofs' = IF complete /\ Define(made.assignment) THEN proofs \cup {Statement} ELSE proofs
  /\ Leave
  /\ UNCHANGED <<counter, attempts, calls, life, born>>

-----------------------------------------------------------------------------
\* The process dies and starts again: the counter is zero, and the call in
\* progress is lost.
Restart ==
  /\ life < MaxRestarts /\ <<pc, counter>> # <<"idle", 0>>
  /\ life' = life + 1
  /\ counter' = 0
  /\ Leave
  /\ UNCHANGED <<attempts, calls, born, statements, proofs>>

\* The bounds are reached, or the program is gone.
Terminated ==
  /\ \/ pc = "panicked"
     \/ pc = "idle" /\ calls.prepare = MaxAttempts /\ (calls.prove = MaxProofs \/ attempts = <<>>)
  /\ UNCHANGED vars

Next ==
  \/ Prepare \/ EncryptNext \/ EncryptFail \/ EncryptDone
  \/ Prove \/ AssignNext \/ AssignDone \/ Solve
  \/ Restart \/ Terminated

Spec == Init /\ [][Next]_vars

-----------------------------------------------------------------------------
(* Properties.                                                             *)

\* Five sequences, and of one length.
IsArrays(a) == a = [f \in Arrays |-> a[f]] /\ \A f \in Arrays : IsSeq(a[f])
SameLength(a) == \A f \in Arrays : Len(a[f]) = Len(a["pubs"])

\* Type invariant of the calls and of the arrays between them.
TypeOK ==
  /\ pc \in {"idle", "encrypt", "assign", "solve", "panicked"}
  /\ counter \in Nat
  /\ IsArrays(input.arrays)
  /\ input = [batch |-> input.batch, sender |-> input.sender, arrays |-> input.arrays]
  /\ IsArrays(made.arrays) /\ SameLength(made.arrays)
  /\ IsSeq(made.params) /\ IsSeq(made.hashes) /\ Len(made.params) = Len(made.hashes)
  /\ made = [arrays |-> made.arrays, params |-> made.params, hashes |-> made.hashes,
             assignment |-> made.assignment]
  /\ IsSeq(attempts)
  /\ \A n \in DOMAIN attempts :
       /\ IsArrays(attempts[n]) /\ SameLength(attempts[n])
       /\ Len(attempts[n]["pubs"]) \in Batches
  /\ calls \in [prepare : 0 .. MaxAttempts, prove : 0 .. MaxProofs]
  /\ life \in 0 .. MaxRestarts
  /\ born \in Seq(0 .. life) /\ Len(born) = Len(attempts)
  /\ proofs \subseteq statements

\* Whatever PrepareEncryptedKeyShares returns can be proved with the circuit of
\* its batch size, and each entry alone with the circuit of one message: no call
\* panics, the hashes that the prover computes over Go's byte arrays are those
\* that the circuits compute from bits, and every other assertion of the circuits
\* holds.
HonestProves ==
  input.arrays \in Range(attempts) =>
    /\ pc # "panicked"
    /\ pc = "solve" /\ input.batch = Len(input.arrays["pubs"]) =>
         /\ Complete(made.assignment, input.batch) /\ Define(made.assignment)
         /\ \A i \in DOMAIN made.params : ECIESWrapperDefine(made.params[i], made.hashes[i])

\* A process that makes one call at a time, as this one does, never masks two
\* messages with one keystream: in one life the counter alone sees to it, even if
\* every random number comes again, and after a restart it takes the same recipient
\* and the same r once more.  (What calls at the same time do to the counter is
\* NonceCounter's question.)
NoKeystreamTwice ==
  LET messages == UNION {{n} \X DOMAIN attempts[n]["encs"] : n \in DOMAIN attempts}
      of(m, f) == attempts[m[1]][f][m[2]]
      rPub(m) == ScalarMul(Secp, of(m, "rs"), of(m, "pubs"))
      key(m) == SharedKey(rPub(m), ScalarMulBase(Secp, of(m, "rs")))
  IN \A x, y \in messages :
       x # y /\ key(x) = key(y) /\ of(x, "nonces") = of(y, "nonces") =>
         /\ born[x[1]] # born[y[1]]
         /\ of(x, "rs") = of(y, "rs") /\ X(Secp, of(x, "pubs")) = X(Secp, of(y, "pubs"))

\* Whatever the caller has mixed up: if there is a proof, then each recipient
\* finds in the message at its place the share that the proof commits to.  The
\* circuit does not look at the tag ("the code doesn't compute a GCM tag",
\* README.md), so ECIESDecrypt itself must succeed only on messages of
\* ECIESEncrypt, and the body of any other message is still the share.
ProofDecrypts ==
  \A p \in proofs : \A i \in DOMAIN p.arrays["pubs"] :
    LET prv == CHOOSE k \in 1 .. Secp.order - 1 : ScalarMulBase(Secp, k) = p.arrays["pubs"][i]
        bigR == ScalarMulBase(Secp, p.arrays["rs"][i])
        enc == p.arrays["encs"][i]
        nonce == p.arrays["nonces"][i]
        share == transformKeyShare(p.arrays["fis"][i])
        sent == UNION {Range(attempts[n]["encs"]) : n \in DOMAIN attempts}
    IN /\ CTR(SharedKey(ScalarMul(Secp, prv, bigR), bigR), nonce, Front(enc)) = share
       /\ enc \in sent => ECIESDecrypt(prv, enc, nonce, bigR) = share

\* The one public input of the circuit stands for everything: two complete
\* witnesses with the same SumHash are of the same sender and the same arrays,
\* also where the batch size or an index does not fit into its byte.
SumHashBinds ==
  \A s, t \in statements : s.SumHash = t.SumHash => s = t

-----------------------------------------------------------------------------
(* About the constants alone.  CounterFits is what NoKeystreamTwice needs: *)
(* one life makes fewer messages than the counter has values.  BitsAgree:  *)
(* the circuit's bits and the prover's bytes are of one number; KeysBind:  *)
(* the hash keeps two shared points apart.  These two are theorems of      *)
(* KeyShareLemmas.                                                         *)

Points == {ScalarMulBase(Secp, Prv[i]) : i \in Recipients}

BitsAgree ==
  /\ \A point \in 0 .. Secp.order - 1 :
       LET bits == MarshalG1(Secp, point) IN
       /\ bigEndianBitsToBytes(bits) = RawBytes(Secp, point)
       /\ bigEndianBitsToBytes(SubSeq(bits, 1, ByteBits * Secp.size))
            = FillBytes(X(Secp, point), Secp.size)
  /\ \A fi \in Elems(Shares) :
       LET point == ScalarMulBase(Bls, fi) IN
       /\ bigEndianBitsToBytes(MarshalG1(Bls, point)) = RawBytes(Bls, point)
       /\ PlainBytes(fi) = transformKeyShare(fi)
  /\ \A c \in ChunkIndex .. ChunkIndex + ShareBytes :
       GetIV(<<>>, c) = FillBytes(c, CounterBytes)

CounterFits ==
  \A c, d \in 1 .. MaxAttempts * Len(Prv) : Byte(c) = Byte(d) => c = d

KeysBind ==
  LET key(r, pub) == SharedKey(ScalarMul(Secp, r, pub), ScalarMulBase(Secp, r)) IN
  \A r, s \in Secrets, p, q \in Points :
    key(r, p) = key(s, q) => r = s /\ X(Secp, p) = X(Secp, q)
=============================================================================
