--------------------------- MODULE KeyShareProofs ---------------------------
(***************************************************************************)
(* Theorems about KeyShare, for any curves, keys, shares, batch sizes and  *)
(* slips, and any number of attempts, proofs and restarts.                 *)
(***************************************************************************)
EXTENDS KeyShareLemmas

-----------------------------------------------------------------------------
(* The arrays of a call.                                                   *)

\* Entry i of five arrays.
Row(a, i) == [f \in Arrays |-> a[f][i]]

IsRow(e) == e = [f \in Arrays |-> e[f]]
AddRow(a, e) == [f \in Arrays |-> Append(a[f], e[f])]

\* What an element may be when the caller has changed the arrays.
Loose(f, x) ==
  /\ f = "pubs" => x \in Points \cup {Nil}
  /\ f = "rs" => x \in Secrets \cup {Nil}
  /\ f = "fis" => x \in Elems(Shares) \cup {Nil}
  /\ f \in {"encs", "nonces"} => IsSeq(x)

LooseArrays(a) == IsArrays(a) /\ \A f \in Arrays : \A i \in DOMAIN a[f] : Loose(f, a[f][i])

\* Whatever ECIESEncrypt has given to the loop or through it to the caller.
AllSent ==
  \A a \in Elems(attempts) \cup {made.arrays} :
    \A i \in 1 .. Len(a["encs"]) : \E c \in Nat : Sent(Row(a, i), c)

\* PrepareEncryptedKeyShares has the keys and shares of the first recipients.
Preparing ==
  LET n == Len(input.arrays["pubs"]) IN
  /\ n \in Batches /\ Len(input.arrays["fis"]) = n /\ Len(made.arrays["encs"]) <= n
  /\ \A i \in 1 .. n : /\ input.arrays["pubs"][i] = ScalarMulBase(Secp, Prv[i])
                       /\ input.arrays["fis"][i] \in {Shares[i], Nil}

\* The variables of the call in progress.
InCall ==
  /\ pc = "idle" => input = NoInput /\ made = NoneMade
  /\ pc = "encrypt" => Preparing
  /\ pc \in {"assign", "solve", "panicked"} => SameLength(input.arrays)
  /\ pc = "assign" => Len(made.params) <= Len(input.arrays["pubs"])
  /\ pc = "solve" => Len(made.params) = Len(input.arrays["pubs"])

TypeInv == TypeOK /\ InCall /\ AllSent

\* No arrays.
LEMMA NoArraysAre ==
  /\ IsArrays(NoArrays) /\ SameLength(NoArrays) /\ \A f \in Arrays : NoArrays[f] = <<>>
  /\ "pubs" \in Arrays /\ "rs" \in Arrays /\ "fis" \in Arrays /\ "encs" \in Arrays /\ "nonces" \in Arrays
<1>1. \A f \in Arrays : NoArrays[f] = <<>>
  BY DEF NoArrays
<1>2. NoArrays = [f \in Arrays |-> NoArrays[f]]
  BY DEF NoArrays
<1> QED
  BY <1>1, <1>2, EmptyIs DEF IsArrays, SameLength, Arrays

\* The batch sizes.
LEMMA BatchIs ==
  ASSUME NEW n \in Batches
  PROVE  /\ n \in Nat \ {0} /\ n <= Len(Prv) /\ n \in 1 .. n
         /\ \A i \in 1 .. n : /\ i \in Recipients /\ Shares[i] \in Elems(Shares)
                              /\ ScalarMulBase(Secp, Prv[i]) \in Points
<1>1. n \in 1 .. Len(Prv) /\ Recipients = 1 .. Len(Prv) /\ Len(Prv) \in Nat
  BY KeyShareAssumption, LenIs DEF Recipients
<1>2. DOMAIN Shares = 1 .. Len(Prv)
  BY KeyShareAssumption, LenIs
<1> QED
  BY <1>1, <1>2 DEF Elems, Points

\* The arguments that get into the loop of PrepareEncryptedKeyShares.
LEMMA PrepareInputIs ==
  ASSUME NEW a \in PrepareInputs, Len(a["pubs"]) = Len(a["fis"])
  PROVE  /\ IsArrays(a) /\ Len(a["pubs"]) \in Batches
         /\ \A i \in 1 .. Len(a["pubs"]) : /\ a["pubs"][i] = ScalarMulBase(Secp, Prv[i])
                                           /\ a["fis"][i] \in {Shares[i], Nil}
<1>1. PICK n \in Batches :
        LET pubs == [i \in 1 .. n |-> ScalarMulBase(Secp, Prv[i])]
            fis == [i \in 1 .. n |-> Shares[i]]
        IN \E f \in {fis, Front(fis), [fis EXCEPT ![n] = Nil]} :
             a = [NoArrays EXCEPT !["pubs"] = pubs, !["fis"] = f]
  BY DEF PrepareInputs
<1> DEFINE pubs == [i \in 1 .. n |-> ScalarMulBase(Secp, Prv[i])]
           fis == [i \in 1 .. n |-> Shares[i]]
           blank == [fis EXCEPT ![n] = Nil]
<1>2. PICK f \in {fis, Front(fis), blank} : a = [NoArrays EXCEPT !["pubs"] = pubs, !["fis"] = f]
  BY <1>1
<1>3. n \in Nat \ {0} /\ n \in 1 .. n
  BY BatchIs
<1>4. /\ pubs = [i \in 1 .. n |-> pubs[i]] /\ fis = [i \in 1 .. n |-> fis[i]]
      /\ blank = [i \in 1 .. n |-> blank[i]]
  OBVIOUS
<1>5. /\ \A i \in 1 .. n : pubs[i] = ScalarMulBase(Secp, Prv[i])
      /\ \A i \in 1 .. n : fis[i] = Shares[i] /\ blank[i] \in {Shares[i], Nil}
  BY <1>3
<1> HIDE DEF pubs, fis, blank
<1>6. IsSeq(pubs) /\ Len(pubs) = n /\ IsSeq(fis) /\ Len(fis) = n /\ IsSeq(blank) /\ Len(blank) = n
  BY <1>3, <1>4, FunIs
<1>7. fis # <<>> /\ Len(Front(fis)) = n - 1
  <2>1. fis # <<>>
    BY <1>3, <1>6, EmptyIs
  <2> QED
    BY <1>6, <2>1, FrontIs
<1>8. /\ a["pubs"] = pubs /\ a["fis"] = f /\ a = [g \in Arrays |-> a[g]]
      /\ \A g \in Arrays \ {"pubs", "fis"} : a[g] = <<>>
  BY <1>2, NoArraysAre DEF NoArrays
<1>9. f \in {fis, blank}
  BY <1>3, <1>6, <1>7, <1>8
<1>10. IsArrays(a)
  BY <1>6, <1>8, <1>9, EmptyIs DEF IsArrays
<1> QED
  BY <1>5, <1>6, <1>8, <1>9, <1>10

\* One entry more.
LEMMA RowAppend ==
  ASSUME NEW a, IsArrays(a), SameLength(a), NEW e, IsRow(e)
  PROVE  /\ IsArrays(AddRow(a, e)) /\ SameLength(AddRow(a, e))
         /\ \A f \in Arrays : Len(a[f]) \in Nat /\ Len(AddRow(a, e)[f]) = Len(a[f]) + 1
         /\ \A i \in 1 .. Len(a["encs"]) : Row(AddRow(a, e), i) = Row(a, i)
         /\ Row(AddRow(a, e), Len(a["encs"]) + 1) = e
<1> DEFINE n == Len(a["pubs"])
           b == AddRow(a, e)
<1>0. b = [f \in Arrays |-> b[f]] /\ \A f \in Arrays : b[f] = Append(a[f], e[f])
  BY DEF AddRow
<1> HIDE DEF b
<1>1. ASSUME NEW f \in Arrays
      PROVE  /\ IsSeq(b[f]) /\ Len(b[f]) = n + 1 /\ Len(a[f]) = n
             /\ \A i \in 1 .. n : b[f][i] = a[f][i]
             /\ b[f][n + 1] = e[f]
  <2>1. IsSeq(a[f]) /\ Len(a[f]) = n /\ b[f] = Append(a[f], e[f])
    BY <1>0 DEF IsArrays, SameLength
  <2> QED
    BY <2>1, AppendIs
<1>2. n \in Nat /\ n = Len(a["encs"])
  BY LenIs, NoArraysAre DEF IsArrays, SameLength
<1> HIDE DEF n
<1>3. ASSUME NEW i \in 1 .. n PROVE Row(b, i) = Row(a, i)
  BY <1>1 DEF Row
<1>4. Row(b, n + 1) = e
  BY <1>1 DEF Row, IsRow
<1>5. IsArrays(b) /\ SameLength(b)
  BY <1>0, <1>1, NoArraysAre DEF IsArrays, SameLength
<1> QED
  BY <1>1, <1>2, <1>3, <1>4, <1>5 DEF b

\* Whatever the caller does to an array that it was given, an array it stays.
LEMMA SlipIs ==
  ASSUME NEW own, LooseArrays(own), SameLength(own), Len(own["pubs"]) # 0,
         NEW other, LooseArrays(other), NEW kind \in SlipKinds, NEW f \in Arrays
  PROVE  LET a == Slip(kind, f, own, other)
         IN IsSeq(a) /\ \A i \in DOMAIN a : Loose(f, a[i])
<1> DEFINE a == own[f]
           n == Len(a)
           b == Slip(kind, f, own, other)
           Good(s) == IsSeq(s) /\ \A i \in DOMAIN s : Loose(f, s[i])
<1>1. /\ Good(a) /\ Good(other[f])
      /\ n \in Nat \ {0} /\ DOMAIN a = 1 .. n /\ n \in DOMAIN a
  <2>1. IsSeq(a) /\ n = Len(own["pubs"]) /\ Good(a) /\ Good(other[f])
    BY DEF LooseArrays, IsArrays, SameLength
  <2> QED
    BY <2>1, LenIs
<1>2. ASSUME NEW x, Loose(f, x) PROVE Good([a EXCEPT ![n] = x])
  <2> DEFINE c == [a EXCEPT ![n] = x]
  <2>0. a = [i \in 1 .. n |-> a[i]]
    BY <1>1 DEF IsSeq
  <2>1. c = [i \in 1 .. n |-> c[i]] /\ DOMAIN c = 1 .. n
    BY <1>1, <2>0
  <2>2. \A i \in 1 .. n : c[i] \in {a[i], x}
    BY <1>1, <2>0
  <2> HIDE DEF c
  <2>3. IsSeq(c)
    BY <1>1, <2>1, FunIs
  <2> QED
    BY <1>1, <1>2, <2>1, <2>2, <2>3 DEF c
<1>3. CASE kind = "stale"
  BY <1>1, <1>3 DEF Slip
<1>4. CASE kind = "swap"
  <2> DEFINE c == [i \in 1 .. n |-> a[n + 1 - i]]
  <2>1. b = c
    BY <1>4 DEF Slip
  <2>2. c = [i \in 1 .. n |-> c[i]] /\ DOMAIN c = 1 .. n
    OBVIOUS
  <2>3. ASSUME NEW i \in 1 .. n PROVE Loose(f, c[i])
    <3>1. n + 1 - i \in 1 .. n /\ c[i] = a[n + 1 - i]
      BY <1>1
    <3> QED
      BY <1>1, <3>1
  <2> HIDE DEF c
  <2>4. IsSeq(c)
    BY <1>1, <2>2, FunIs
  <2> QED
    BY <2>1, <2>2, <2>3, <2>4
<1>5. CASE kind = "drop"
  <2>1. b = Front(a) /\ a # <<>>
    BY <1>1, <1>5, EmptyIs DEF Slip
  <2>2. IsSeq(Front(a)) /\ Len(Front(a)) = n - 1 /\ \A i \in 1 .. n - 1 : Front(a)[i] = a[i]
    BY <1>1, <2>1, FrontIs
  <2>3. DOMAIN Front(a) = 1 .. n - 1 /\ \A i \in 1 .. n - 1 : i \in DOMAIN a
    BY <1>1, <2>2, LenIs
  <2> QED
    BY <1>1, <2>1, <2>2, <2>3
<1>6. CASE kind = "blank"
  <2> DEFINE x == IF f \in {"encs", "nonces"} THEN <<>> ELSE Nil
  <2>1. b = [a EXCEPT ![n] = x]
    BY <1>6 DEF Slip
  <2>2. Loose(f, x)
    BY EmptyIs DEF Loose
  <2> HIDE DEF x
  <2> QED
    BY <1>2, <2>1, <2>2
<1>7. CASE kind \in {"clip", "extend"}
  <2>1. CASE f # "nonces"
    BY <1>1, <1>7, <2>1 DEF Slip
  <2>2. CASE f = "nonces"
    <3> DEFINE nonce == own["nonces"][n]
               x == IF kind = "clip" THEN Front(nonce) ELSE Append(nonce, Byte(0))
    <3>1. b = [a EXCEPT ![n] = x]
      BY <1>7, <2>2 DEF Slip
    <3>2. Loose("nonces", nonce)
      BY <1>1, <2>2
    <3>3. IsSeq(nonce)
      BY <3>2 DEF Loose
    <3> HIDE DEF nonce
    <3>4. IsSeq(Front(nonce))
      <4>1. CASE nonce = <<>>
        <5>1. Front(<<>>) = <<>>
          BY EmptyIs, SubSeqEmpty DEF Front
        <5> QED
          BY <4>1, <5>1, EmptyIs
      <4> QED
        BY <3>3, <4>1, FrontIs
    <3>5. IsSeq(Append(nonce, Byte(0)))
      BY <3>3, AppendIs
    <3>6. Loose(f, x)
      BY <2>2, <3>4, <3>5 DEF Loose
    <3> HIDE DEF x
    <3> QED
      BY <1>2, <3>1, <3>6
  <2> QED
    BY <2>1, <2>2
<1>8. CASE kind = "tag"
  <2>1. CASE f # "encs"
    BY <1>1, <1>8, <2>1 DEF Slip
  <2>2. CASE f = "encs"
    <3> DEFINE enc == a[n]
               x == Append(Front(enc), Byte(0))
    <3>1. b = [a EXCEPT ![n] = x]
      BY <1>8, <2>2 DEF Slip
    <3>2. IsSeq(enc)
      BY <1>1, <2>2 DEF Loose
    <3> HIDE DEF enc
    <3>3. IsSeq(Front(enc))
      <4>1. CASE enc = <<>>
        <5>1. Front(<<>>) = <<>>
          BY EmptyIs, SubSeqEmpty DEF Front
        <5> QED
          BY <4>1, <5>1, EmptyIs
      <4> QED
        BY <3>2, <4>1, FrontIs
    <3>4. IsSeq(x)
      BY <3>3, AppendIs
    <3> HIDE DEF x
    <3>5. Loose(f, x)
      BY <2>2, <3>4 DEF Loose
    <3> QED
      BY <1>2, <3>1, <3>5
  <2> QED
    BY <2>1, <2>2
<1> QED
  BY <1>3, <1>4, <1>5, <1>6, <1>7, <1>8 DEF SlipKinds

\* Arrays whose entries were sent have elements of every kind.
LEMMA SentLoose ==
  ASSUME NEW a, IsArrays(a), SameLength(a),
         \A i \in 1 .. Len(a["encs"]) : \E c \in Nat : Sent(Row(a, i), c)
  PROVE  LooseArrays(a)
<1> SUFFICES ASSUME NEW f \in Arrays, NEW i \in DOMAIN a[f] PROVE Loose(f, a[f][i])
  BY DEF LooseArrays
<1>1. i \in 1 .. Len(a["encs"])
  BY NoArraysAre, LenIs DEF IsArrays, SameLength
<1>2. PICK c \in Nat : Sent(Row(a, i), c)
  BY <1>1
<1>3. Masked(Row(a, i))
  BY <1>2, SentMasked
<1>4. \A g \in Arrays : Row(a, i)[g] = a[g][i]
  BY DEF Row
<1> QED
  BY <1>3, <1>4, NoArraysAre DEF Masked, Drawn, Loose

\* What PrepareEncryptedKeyShares has returned.
LEMMA AttemptIs ==
  ASSUME TypeInv, NEW n \in DOMAIN attempts
  PROVE  /\ LooseArrays(attempts[n]) /\ IsArrays(attempts[n]) /\ SameLength(attempts[n])
         /\ Len(attempts[n]["pubs"]) \in Nat \ {0}
         /\ \A i \in 1 .. Len(attempts[n]["pubs"]) : \E c \in Nat : Sent(Row(attempts[n], i), c)
<1>1. /\ IsArrays(attempts[n]) /\ SameLength(attempts[n]) /\ attempts[n] \in Elems(attempts)
      /\ Len(attempts[n]["pubs"]) \in Batches
  BY DEF TypeInv, TypeOK, Elems
<1>2. \A i \in 1 .. Len(attempts[n]["encs"]) : \E c \in Nat : Sent(Row(attempts[n], i), c)
  BY <1>1 DEF TypeInv, AllSent
<1>3. LooseArrays(attempts[n])
  BY <1>1, <1>2, SentLoose
<1> QED
  BY <1>1, <1>2, <1>3, BatchIs, NoArraysAre DEF SameLength

\* What the caller hands to ProveMultipleKeyShareEncryption.
LEMMA ProveInputIs ==
  ASSUME TypeInv, NEW a \in ProveInputs
  PROVE  LooseArrays(a)
<1>1. PICK n \in DOMAIN attempts, m \in DOMAIN attempts :
        \E fs \in SUBSET Arrays, kind \in Slips :
          a = [f \in Arrays |-> IF f \in fs THEN Slip(kind, f, attempts[n], attempts[m])
                                ELSE attempts[n][f]]
  BY DEF ProveInputs
<1>2. PICK fs \in SUBSET Arrays, kind \in Slips :
        a = [f \in Arrays |-> IF f \in fs THEN Slip(kind, f, attempts[n], attempts[m])
                              ELSE attempts[n][f]]
  BY <1>1
<1>3. /\ LooseArrays(attempts[n]) /\ SameLength(attempts[n]) /\ Len(attempts[n]["pubs"]) # 0
      /\ LooseArrays(attempts[m]) /\ kind \in SlipKinds
  BY AttemptIs, KeyShareAssumption
<1>4. ASSUME NEW f \in Arrays
      PROVE  IsSeq(a[f]) /\ \A i \in DOMAIN a[f] : Loose(f, a[f][i])
  <2>1. CASE f \in fs
    <3>1. a[f] = Slip(kind, f, attempts[n], attempts[m])
      BY <1>2, <2>1
    <3> QED
      BY <1>3, <3>1, SlipIs
  <2>2. CASE f \notin fs
    <3>1. a[f] = attempts[n][f]
      BY <1>2, <2>2
    <3> QED
      BY <1>3, <3>1 DEF LooseArrays, IsArrays
  <2> QED
    BY <2>1, <2>2
<1> QED
  BY <1>2, <1>4 DEF LooseArrays, IsArrays

-----------------------------------------------------------------------------
(* Types.                                                                  *)

\* The variables of no call.
LEMMA NoneIs ==
  /\ NoInput.arrays = NoArrays /\ NoneMade.arrays = NoArrays
  /\ NoneMade.params = <<>> /\ NoneMade.hashes = <<>>
  /\ NoInput = [batch |-> NoInput.batch, sender |-> NoInput.sender, arrays |-> NoInput.arrays]
  /\ NoneMade = [arrays |-> NoneMade.arrays, params |-> NoneMade.params,
                 hashes |-> NoneMade.hashes, assignment |-> NoneMade.assignment]
BY DEF NoInput, NoneMade

\* The types of the variables of a call, and of what outlives it.
HandOK ==
  /\ pc \in {"idle", "encrypt", "assign", "solve", "panicked"}
  /\ IsArrays(input.arrays)
  /\ input = [batch |-> input.batch, sender |-> input.sender, arrays |-> input.arrays]
  /\ IsArrays(made.arrays) /\ SameLength(made.arrays)
  /\ IsSeq(made.params) /\ IsSeq(made.hashes) /\ Len(made.params) = Len(made.hashes)
  /\ made = [arrays |-> made.arrays, params |-> made.params, hashes |-> made.hashes,
             assignment |-> made.assignment]

KeptOK ==
  /\ counter \in Nat
  /\ IsSeq(attempts)
  /\ \A n \in DOMAIN attempts :
       /\ IsArrays(attempts[n]) /\ SameLength(attempts[n])
       /\ Len(attempts[n]["pubs"]) \in Batches
  /\ calls \in [prepare : 0 .. MaxAttempts, prove : 0 .. MaxProofs]
  /\ life \in 0 .. MaxRestarts
  /\ born \in Seq(0 .. life) /\ Len(born) = Len(attempts)
  /\ proofs \subseteq statements

LEMMA TypeParts == TypeOK <=> HandOK /\ KeptOK
BY DEF TypeOK, HandOK, KeptOK

\* Nothing is left of a call that returns.
LEMMA LeaveIs ==
  ASSUME Leave
  PROVE  /\ HandOK' /\ InCall' /\ made'.arrays = NoArrays
         /\ \A i \in 1 .. Len(made'.arrays["encs"]) : FALSE
<1>1. pc' = "idle" /\ input' = NoInput /\ made' = NoneMade
  BY DEF Leave
<1>2. InCall'
  BY <1>1 DEF InCall
<1>3. HandOK'
  BY <1>1, NoneIs, NoArraysAre, EmptyIs DEF HandOK
<1>4. made'.arrays = NoArrays /\ Len(NoArrays["encs"]) = 0
  BY <1>1, NoneIs, NoArraysAre, EmptyIs
<1> QED
  BY <1>2, <1>3, <1>4

\* A call that returns without arrays has sent nothing.
LEMMA LeaveSent == AllSent /\ Leave /\ UNCHANGED attempts => AllSent'
BY LeaveIs DEF AllSent

LEMMA TypeInit == Init => TypeInv
<1> SUFFICES ASSUME Init PROVE TypeInv
  OBVIOUS
<1> USE DEF Init
<1>1. HandOK
  BY NoneIs, NoArraysAre, EmptyIs DEF HandOK
<1>2. KeptOK
  <2>1. born \in Seq(0 .. life) /\ DOMAIN attempts = {} /\ IsSeq(attempts) /\ Len(born) = Len(attempts)
    BY EmptyIs, EmptySeq
  <2>2. MaxAttempts \in Nat /\ MaxProofs \in Nat /\ MaxRestarts \in Nat
    BY KeyShareAssumption
  <2> QED
    BY <2>1, <2>2 DEF KeptOK
<1>3. InCall
  BY DEF InCall
<1>4. AllSent
  <2>1. Elems(attempts) = {} /\ Len(made.arrays["encs"]) = 0
    BY EmptyIs, NoneIs, NoArraysAre DEF Elems
  <2> QED
    BY <2>1 DEF AllSent
<1> QED
  BY <1>1, <1>2, <1>3, <1>4, TypeParts DEF TypeInv

\* The entry that one iteration of the loop makes.
LEMMA EncryptNextMakes ==
  ASSUME TypeInv, EncryptNext
  PROVE  \E e : /\ IsRow(e) /\ Sent(e, counter + 1)
                /\ made' = [made EXCEPT !.arrays = AddRow(made.arrays, e)]
                /\ made'.arrays = AddRow(made.arrays, e)
<1> DEFINE i == Index(made.arrays["encs"])
           pub == input.arrays["pubs"][i]
           fi == input.arrays["fis"][i]
           sentBy(r) == ECIESEncrypt(pub, transformKeyShare(fi), r, counter + 1)
           entry(r) == [pubs |-> pub, rs |-> r, fis |-> fi,
                        encs |-> sentBy(r).ciphertext, nonces |-> sentBy(r).nonce]
<1>1. PICK r \in Secrets :
        made' = [made EXCEPT !.arrays = [f \in Arrays |-> Append(@[f], entry(r)[f])]]
  BY DEF EncryptNext
<1> DEFINE e == entry(r)
<1>2. /\ e["pubs"] = pub /\ e["rs"] = r /\ e["fis"] = fi
      /\ e["encs"] = sentBy(r).ciphertext /\ e["nonces"] = sentBy(r).nonce
  OBVIOUS
<1>3. IsRow(e)
  BY DEF Arrays, IsRow
<1>4. pub \in Points /\ fi \in Elems(Shares)
  <2>1. i \in 1 .. Len(input.arrays["pubs"]) /\ pc = "encrypt" /\ fi # Nil
    <3>1. Len(made.arrays["encs"]) \in Nat /\ Len(input.arrays["pubs"]) \in Nat
      BY LenIs, NoArraysAre DEF TypeInv, TypeOK, IsArrays
    <3> QED
      BY <3>1 DEF EncryptNext, Index
  <2> QED
    BY <2>1, BatchIs DEF TypeInv, InCall, Preparing
<1>5. Sent(e, counter + 1)
  BY <1>2, <1>4 DEF Sent
<1> HIDE DEF entry
<1>6. made' = [made EXCEPT !.arrays = AddRow(made.arrays, e)]
  BY <1>1 DEF AddRow
<1>7. made'.arrays = AddRow(made.arrays, e)
  BY <1>6 DEF TypeInv, TypeOK
<1> QED
  BY <1>3, <1>5, <1>6, <1>7

\* Every action leaves the variables in their types, the call in progress as its
\* place in the code says, and every message one that ECIESEncrypt made.
LEMMA TypeStep == TypeInv /\ [Next]_vars => TypeInv'
<1> SUFFICES ASSUME TypeInv, [Next]_vars PROVE TypeInv'
  OBVIOUS
<1>0. HandOK /\ KeptOK /\ InCall /\ AllSent
  BY TypeParts DEF TypeInv
<1> SUFFICES HandOK' /\ KeptOK' /\ InCall' /\ AllSent'
  BY TypeParts DEF TypeInv, TypeOK, HandOK, KeptOK
<1>lens. /\ Len(made.arrays["encs"]) \in Nat /\ Len(input.arrays["pubs"]) \in Nat
         /\ Len(made.params) \in Nat
  BY <1>0, LenIs, NoArraysAre DEF HandOK, IsArrays
<1>1. CASE Prepare
  <2>1. KeptOK'
    <3>0. calls.prepare + 1 \in 0 .. MaxAttempts
      <4>1. calls.prepare \in 0 .. MaxAttempts /\ calls.prepare < MaxAttempts /\ MaxAttempts \in Nat
        BY <1>0, <1>1, KeyShareAssumption DEF Prepare, KeptOK
      <4> QED
        BY <4>1
    <3>1. calls' \in [prepare : 0 .. MaxAttempts, prove : 0 .. MaxProofs]
      BY <1>0, <1>1, <3>0 DEF Prepare, KeptOK
    <3> QED
      BY <1>0, <1>1, <3>1 DEF Prepare, KeptOK
  <2>2. CASE Leave
    BY <1>0, <1>1, <2>1, <2>2, LeaveIs, LeaveSent DEF Prepare
  <2>3. CASE ~Leave
    <3>1. PICK a \in PrepareInputs :
            /\ Len(a["pubs"]) = Len(a["fis"]) /\ pc' = "encrypt"
            /\ input' = [NoInput EXCEPT !.arrays = a] /\ UNCHANGED made
      BY <1>1, <2>3 DEF Prepare
    <3>2. /\ IsArrays(a) /\ Len(a["pubs"]) \in Batches
          /\ \A i \in 1 .. Len(a["pubs"]) : /\ a["pubs"][i] = ScalarMulBase(Secp, Prv[i])
                                            /\ a["fis"][i] \in {Shares[i], Nil}
      BY <3>1, PrepareInputIs
    <3>3. /\ input'.arrays = a
          /\ input' = [batch |-> input'.batch, sender |-> input'.sender, arrays |-> input'.arrays]
      BY <3>1 DEF NoInput
    <3>4. made' = NoneMade /\ made'.arrays = NoArrays /\ Len(made'.arrays["encs"]) = 0
      BY <1>0, <1>1, <3>1, NoneIs, NoArraysAre, EmptyIs DEF InCall, Prepare
    <3>5. HandOK'
      BY <1>0, <3>1, <3>2, <3>3 DEF HandOK
    <3>6. InCall'
      <4>1. Len(a["pubs"]) \in Nat
        BY <3>2, BatchIs
      <4> QED
        BY <3>1, <3>2, <3>3, <3>4, <4>1 DEF InCall, Preparing
    <3>7. AllSent'
      BY <1>0, <1>1, <3>1 DEF AllSent, Prepare
    <3> QED
      BY <2>1, <3>5, <3>6, <3>7
  <2> QED
    BY <2>2, <2>3
<1>2. CASE EncryptNext
  <2> DEFINE n == Len(made.arrays["encs"])
  <2>1. PICK e : /\ IsRow(e) /\ Sent(e, counter + 1)
                 /\ made' = [made EXCEPT !.arrays = AddRow(made.arrays, e)]
                 /\ made'.arrays = AddRow(made.arrays, e)
    BY <1>2, EncryptNextMakes
  <2> DEFINE b == AddRow(made.arrays, e)
  <2>2. made' = [made EXCEPT !.arrays = b] /\ made'.arrays = b
    BY <2>1
  <2>3. /\ IsArrays(b) /\ SameLength(b) /\ Len(b["encs"]) = n + 1
        /\ \A i \in 1 .. n : Row(b, i) = Row(made.arrays, i)
        /\ Row(b, n + 1) = e
    <3>1. IsArrays(made.arrays) /\ SameLength(made.arrays)
      BY <1>0 DEF HandOK
    <3> QED
      BY <2>1, <3>1, RowAppend, NoArraysAre
  <2> HIDE DEF b
  <2>4. UNCHANGED <<pc, input, attempts, calls, life, born, statements, proofs>> /\ counter' = counter + 1
    BY <1>2 DEF EncryptNext
  <2>5. KeptOK'
    BY <1>0, <2>4 DEF KeptOK
  <2>6. made'.params = made.params /\ made'.hashes = made.hashes /\ made'.assignment = made.assignment
        /\ made' = [arrays |-> made'.arrays, params |-> made'.params, hashes |-> made'.hashes,
                    assignment |-> made'.assignment]
    BY <1>0, <2>2 DEF HandOK
  <2>7. HandOK'
    BY <1>0, <2>2, <2>3, <2>4, <2>6 DEF HandOK
  <2>8. InCall'
    <3>1. n + 1 <= Len(input.arrays["pubs"]) /\ pc = "encrypt"
      BY <1>2 DEF EncryptNext, Index
    <3> QED
      BY <1>0, <2>2, <2>3, <2>4, <3>1 DEF InCall, Preparing
  <2>9. AllSent'
    <3>1. ASSUME NEW i \in 1 .. n + 1 PROVE \E c \in Nat : Sent(Row(b, i), c)
      <4>1. CASE i \in 1 .. n
        BY <1>0, <2>3, <4>1 DEF AllSent
      <4>2. CASE i = n + 1
        BY <1>0, <2>1, <2>3, <4>2 DEF KeptOK
      <4> QED
        BY <1>lens, <4>1, <4>2
    <3> QED
      BY <1>0, <2>2, <2>3, <2>4, <3>1 DEF AllSent
  <2> QED
    BY <2>5, <2>7, <2>8, <2>9
<1>3. CASE EncryptFail
  <2>1. KeptOK'
    BY <1>0, <1>3 DEF EncryptFail, KeptOK
  <2> QED
    BY <1>0, <1>3, <2>1, LeaveIs, LeaveSent DEF EncryptFail
<1>4. CASE EncryptDone
  <2> DEFINE a == made.arrays
             n == Len(attempts)
  <2>1. /\ attempts' = Append(attempts, a) /\ born' = Append(born, life) /\ Leave
        /\ UNCHANGED <<counter, calls, life, statements, proofs>>
    BY <1>4 DEF EncryptDone
  <2>2. IsArrays(a) /\ SameLength(a) /\ Len(a["pubs"]) \in Batches
    BY <1>0, <1>4, NoArraysAre DEF HandOK, InCall, Preparing, SameLength, EncryptDone
  <2> HIDE DEF a
  <2>3. IsSeq(attempts) /\ n \in Nat /\ DOMAIN attempts = 1 .. n
    BY <1>0, LenIs DEF KeptOK
  <2>4. /\ IsSeq(attempts') /\ Len(attempts') = n + 1 /\ DOMAIN attempts' = 1 .. n + 1
        /\ \A i \in 1 .. n : attempts'[i] = attempts[i] /\ attempts'[n + 1] = a
    <3>1. IsSeq(attempts') /\ Len(attempts') = n + 1
      BY <2>1, <2>3, AppendIs
    <3> QED
      BY <2>1, <2>3, <3>1, AppendIs, LenIs
  <2>5. attempts'[n + 1] = a
    BY <2>1, <2>3, AppendIs
  <2>6. \A i \in DOMAIN attempts' : (i \in DOMAIN attempts /\ attempts'[i] = attempts[i]) \/ attempts'[i] = a
    <3>1. \A i \in 1 .. n + 1 : i \in 1 .. n \/ i = n + 1
      BY <2>3
    <3> QED
      BY <2>3, <2>4, <2>5, <3>1
  <2>7. KeptOK'
    <3>1. born' \in Seq(0 .. life) /\ Len(born') = Len(born) + 1
      BY <1>0, <2>1, AppendProperties, KeyShareAssumption DEF KeptOK
    <3>2. \A i \in DOMAIN attempts' :
            /\ IsArrays(attempts'[i]) /\ SameLength(attempts'[i])
            /\ Len(attempts'[i]["pubs"]) \in Batches
      BY <1>0, <2>2, <2>6 DEF KeptOK
    <3> QED
      BY <1>0, <2>1, <2>4, <3>1, <3>2 DEF KeptOK
  <2>8. AllSent'
    <3>1. Elems(attempts') \subseteq Elems(attempts) \cup {a}
      BY <2>6 DEF Elems
    <3> QED
      BY <1>0, <2>1, <3>1, LeaveIs DEF AllSent, a
  <2> QED
    BY <2>1, <2>7, <2>8, LeaveIs
<1>5. CASE Prove
  <2>1. KeptOK'
    <3>1. calls'.prepare = calls.prepare /\ calls'.prove = calls.prove + 1
          /\ calls' \in [prepare : 0 .. MaxAttempts, prove : 0 .. MaxProofs]
      <4>1. MaxAttempts \in Nat /\ MaxProofs \in Nat
        BY KeyShareAssumption
      <4>2. /\ calls' = [calls EXCEPT !.prove = @ + 1] /\ calls.prove < MaxProofs
            /\ calls \in [prepare : 0 .. MaxAttempts, prove : 0 .. MaxProofs]
        BY <1>0, <1>5 DEF Prove, KeptOK
      <4> QED
        BY <4>1, <4>2
    <3> QED
      BY <1>0, <1>5, <3>1 DEF Prove, KeptOK
  <2>2. CASE Leave
    BY <1>0, <1>5, <2>1, <2>2, LeaveIs, LeaveSent DEF Prove
  <2>3. CASE ~Leave
    <3>1. PICK a \in ProveInputs, batch \in Batches, sender \in Senders :
            /\ \A f \in Arrays : Len(a[f]) = Len(a["pubs"])
            /\ pc' = "assign"
            /\ input' = [batch |-> batch, sender |-> sender, arrays |-> a] /\ UNCHANGED made
      BY <1>5, <2>3 DEF Prove
    <3>2. IsArrays(a) /\ SameLength(a) /\ Len(a["pubs"]) \in Nat
      BY <3>1, ProveInputIs, NoArraysAre, LenIs DEF LooseArrays, SameLength, IsArrays
    <3>3. made' = NoneMade /\ Len(made'.params) = 0
      BY <1>0, <1>5, <3>1, NoneIs, EmptyIs DEF InCall, Prove
    <3>4. HandOK' /\ InCall'
      <4>1. input'.arrays = a
        BY <3>1
      <4>2. input' = [batch |-> input'.batch, sender |-> input'.sender, arrays |-> input'.arrays]
        BY <3>1
      <4> QED
        BY <1>0, <3>1, <3>2, <3>3, <4>1, <4>2 DEF HandOK, InCall
    <3>5. AllSent'
      BY <1>0, <1>5, <3>1 DEF AllSent, Prove
    <3> QED
      BY <2>1, <3>4, <3>5
  <2> QED
    BY <2>2, <2>3
<1>6. CASE AssignNext
  <2>1. KeptOK'
    BY <1>0, <1>6 DEF AssignNext, KeptOK
  <2>2. CASE Leave
    BY <1>0, <1>6, <2>1, <2>2, LeaveIs, LeaveSent DEF AssignNext
  <2>3. CASE pc' = "panicked" /\ UNCHANGED <<input, made>>
    BY <1>0, <1>6, <2>1, <2>3 DEF AssignNext, HandOK, InCall, AllSent
  <2>4. CASE ~Leave /\ ~(pc' = "panicked" /\ UNCHANGED <<input, made>>)
    <3>1. PICK p, h :
            /\ made' = [made EXCEPT !.params = Append(@, p), !.hashes = Append(@, h)]
            /\ UNCHANGED <<pc, input, attempts>>
            /\ pc = "assign" /\ Len(made.params) + 1 <= Len(input.arrays["pubs"])
      BY <1>6, <2>4 DEF AssignNext, Index
    <3>2. /\ made'.params = Append(made.params, p) /\ made'.hashes = Append(made.hashes, h)
          /\ made'.arrays = made.arrays
          /\ made' = [arrays |-> made'.arrays, params |-> made'.params, hashes |-> made'.hashes,
                      assignment |-> made'.assignment]
      BY <1>0, <3>1 DEF HandOK
    <3>3. /\ IsSeq(made'.params) /\ Len(made'.params) = Len(made.params) + 1
          /\ IsSeq(made'.hashes) /\ Len(made'.hashes) = Len(made.hashes) + 1
      BY <1>0, <3>2, AppendIs DEF HandOK
    <3>4. HandOK'
      BY <1>0, <3>1, <3>2, <3>3 DEF HandOK
    <3>5. InCall'
      BY <1>0, <3>1, <3>3 DEF InCall
    <3>6. AllSent'
      BY <1>0, <3>1, <3>2 DEF AllSent
    <3> QED
      BY <2>1, <3>4, <3>5, <3>6
  <2> QED
    BY <2>2, <2>3, <2>4
<1>7. CASE AssignDone
  <2>1. /\ made'.arrays = made.arrays /\ made'.params = made.params /\ made'.hashes = made.hashes
        /\ made' = [arrays |-> made'.arrays, params |-> made'.params, hashes |-> made'.hashes,
                    assignment |-> made'.assignment]
    BY <1>0, <1>7 DEF AssignDone, HandOK
  <2>2. HandOK' /\ InCall' /\ AllSent'
    BY <1>0, <1>7, <2>1 DEF AssignDone, HandOK, InCall, AllSent
  <2>3. KeptOK'
    BY <1>0, <1>7 DEF AssignDone, KeptOK
  <2> QED
    BY <2>2, <2>3
<1>8. CASE Solve
  <2>1. KeptOK'
    BY <1>0, <1>8 DEF Solve, KeptOK
  <2> QED
    BY <1>0, <1>8, <2>1, LeaveIs, LeaveSent DEF Solve
<1>9. CASE Restart
  <2>1. KeptOK'
    <3>1. life + 1 \in 0 .. MaxRestarts /\ 0 .. life \subseteq 0 .. life + 1
      BY <1>0, <1>9, KeyShareAssumption DEF Restart, KeptOK
    <3>2. born \in Seq(0 .. life + 1)
      BY <1>0, <3>1, SeqMonotonic DEF KeptOK
    <3> QED
      BY <1>0, <1>9, <3>1, <3>2 DEF Restart, KeptOK
  <2> QED
    BY <1>0, <1>9, <2>1, LeaveIs, LeaveSent DEF Restart
<1>10. CASE UNCHANGED vars
  BY <1>0, <1>10 DEF vars, HandOK, KeptOK, InCall, Preparing, AllSent
<1> QED
  BY <1>1, <1>2, <1>3, <1>4, <1>5, <1>6, <1>7, <1>8, <1>9, <1>10 DEF Next, Terminated

\* Type correctness: every variable keeps its type, and the five arrays of every
\* attempt stay of one length whatever fails on the way.
THEOREM TypeCorrect == Spec => []TypeOK
<1>1. TypeInv => TypeOK
  BY DEF TypeInv
<1> QED
  BY <1>1, TypeInit, TypeStep, PTL DEF Spec

-----------------------------------------------------------------------------
(* Keystreams.                                                             *)

\* Every message that there is, in the attempts and in the loop: its arrays, the
\* life in which they were made, its entry.
HeldAt(n) == IF n \in DOMAIN attempts THEN attempts[n] ELSE made.arrays
HeldIn(n) == IF n \in DOMAIN attempts THEN born[n] ELSE life
Held == {m \in (1 .. Len(attempts) + 1) \X (Nat \ {0}) : m[2] <= Len(HeldAt(m[1])["encs"])}
HeldEntry(m) == Row(HeldAt(m[1]), m[2])

\* The calls so far leave the counter as many steps as they may still take.
Room ==
  counter + (IF pc = "encrypt" THEN Len(input.arrays["pubs"]) - Len(made.arrays["encs"]) ELSE 0)
    <= calls.prepare * Len(Prv)

\* The messages of this life have had the counter's values up to now.
Numbered ==
  \A m \in Held : HeldIn(m[1]) = life => \E c \in 1 .. counter : Sent(HeldEntry(m), c)

\* And no two messages of one life have one nonce.
NoncesApart ==
  \A x, y \in Held :
    x # y /\ HeldIn(x[1]) = HeldIn(y[1]) => HeldEntry(x)["nonces"] # HeldEntry(y)["nonces"]

FreshInv == TypeInv /\ Room /\ Numbered /\ NoncesApart

LEMMA RoomStep == TypeInv /\ Room /\ [Next]_vars => Room'
<1> SUFFICES ASSUME TypeInv, Room, [Next]_vars PROVE Room'
  OBVIOUS
<1> DEFINE L == Len(Prv)
           k == calls.prepare
           n == Len(input.arrays["pubs"])
           m == Len(made.arrays["encs"])
           room == k * L
<1>1. L \in Nat /\ k \in Nat /\ n \in Nat /\ m \in Nat /\ counter \in Nat /\ room \in Nat
  <2>1. L \in Nat /\ k \in Nat /\ n \in Nat /\ m \in Nat /\ counter \in Nat
    BY LenIs, NoArraysAre, KeyShareAssumption DEF TypeInv, TypeOK, IsArrays
  <2> QED
    BY <2>1
<1>2. (k + 1) * L = room + L
  BY <1>1
<1>3. counter + (IF pc = "encrypt" THEN n - m ELSE 0) <= room
  BY DEF Room
<1>4. pc = "encrypt" => m <= n
  BY DEF TypeInv, InCall, Preparing
<1> HIDE DEF L, k, n, m, room
<1>5. CASE Prepare
  <2>1. calls'.prepare * Len(Prv) = room + L /\ counter' = counter /\ pc = "idle"
    <3>1. calls'.prepare = k + 1
      BY <1>5 DEF Prepare, TypeInv, TypeOK, k
    <3> QED
      BY <1>2, <1>5, <3>1 DEF Prepare, L
  <2>2. CASE Leave
    BY <1>1, <1>3, <2>1, <2>2 DEF Leave, Room
  <2>3. CASE ~Leave
    <3>1. PICK a \in PrepareInputs :
            /\ Len(a["pubs"]) = Len(a["fis"])
            /\ input' = [NoInput EXCEPT !.arrays = a] /\ UNCHANGED made
      BY <1>5, <2>3 DEF Prepare
    <3>2. Len(a["pubs"]) \in Nat /\ Len(a["pubs"]) <= L
      BY <3>1, PrepareInputIs, BatchIs DEF L
    <3>3. input'.arrays = a
      BY <3>1 DEF NoInput
    <3>4. Len(made'.arrays["encs"]) = 0
      BY <1>5, <3>1, NoneIs, NoArraysAre, EmptyIs DEF TypeInv, InCall, Prepare
    <3> QED
      BY <1>1, <1>3, <2>1, <3>2, <3>3, <3>4 DEF Room
  <2> QED
    BY <2>2, <2>3
<1>6. CASE EncryptNext
  <2>1. PICK e : IsRow(e) /\ made'.arrays = AddRow(made.arrays, e)
    BY <1>6, EncryptNextMakes
  <2>2. Len(made'.arrays["encs"]) = m + 1
    <3>1. IsArrays(made.arrays) /\ SameLength(made.arrays)
      BY DEF TypeInv, TypeOK
    <3> QED
      BY <2>1, <3>1, RowAppend, NoArraysAre DEF m
  <2>3. /\ pc = "encrypt" /\ pc' = pc /\ Len(input'.arrays["pubs"]) = n
        /\ counter' = counter + 1 /\ calls'.prepare * Len(Prv) = room
    BY <1>6 DEF EncryptNext, n, room, k, L
  <2>4. counter' + (Len(input'.arrays["pubs"]) - Len(made'.arrays["encs"])) <= room
    BY <1>1, <1>3, <2>2, <2>3
  <2> QED
    BY <2>3, <2>4 DEF Room
<1>7. CASE EncryptFail
  <2>1. /\ pc = "encrypt" /\ pc' = "idle" /\ counter' \in {counter, counter + 1}
        /\ m + 1 <= n /\ calls'.prepare * Len(Prv) = room
    BY <1>7 DEF EncryptFail, Leave, Index, m, n, room, k, L
  <2> QED
    BY <1>1, <1>3, <2>1 DEF Room
<1>8. CASE EncryptDone \/ Solve
  <2>1. /\ pc' = "idle" /\ counter' = counter /\ calls'.prepare * Len(Prv) = room
    BY <1>8 DEF EncryptDone, Solve, Leave, room, k, L
  <2> QED
    BY <1>1, <1>3, <1>4, <2>1 DEF Room
<1>9. CASE Prove \/ AssignNext \/ AssignDone
  <2>1. /\ pc # "encrypt" /\ counter' = counter
        /\ pc' \in {"idle", "assign", "solve", "panicked"}
    BY <1>9 DEF Prove, AssignNext, AssignDone, Leave
  <2>2. calls'.prepare * Len(Prv) = room
    BY <1>9 DEF Prove, AssignNext, AssignDone, TypeInv, TypeOK, room, k, L
  <2> QED
    BY <1>1, <1>3, <2>1, <2>2 DEF Room
<1>10. CASE Restart
  <2>1. /\ pc' = "idle" /\ counter' = 0 /\ calls'.prepare * Len(Prv) = room
    BY <1>10 DEF Restart, Leave, room, k, L
  <2> QED
    BY <1>1, <2>1 DEF Room
<1>11. CASE UNCHANGED vars
  BY <1>11 DEF vars, Room
<1> QED
  BY <1>5, <1>6, <1>7, <1>8, <1>9, <1>10, <1>11 DEF Next, Terminated

\* Two values of the counter, two nonces.
LEMMA NonceNames ==
  ASSUME CounterFits, NEW c \in 1 .. MaxAttempts * Len(Prv), NEW d \in 1 .. MaxAttempts * Len(Prv),
         Nonce(c) = Nonce(d)
  PROVE  c = d
<1>1. 1 \in 1 .. NonceBytes
  BY ConstantsAre
<1>2. Nonce(c)[1] = Byte(c) /\ Nonce(d)[1] = Byte(d)
  BY <1>1 DEF Nonce
<1>3. Byte(c) = Byte(d)
  BY <1>2
<1> QED
  BY <1>3 DEF CounterFits

\* Where nothing is sent and the process lives on, the messages stay as they are.
LEMMA HeldKept ==
  ASSUME Numbered, NoncesApart, life' = life, counter \in Nat, counter' \in Nat, counter <= counter',
         Held' \subseteq Held,
         \A m \in Held' : HeldEntry(m)' = HeldEntry(m) /\ HeldIn(m[1])' = HeldIn(m[1])
  PROVE  Numbered' /\ NoncesApart'
<1>1. ASSUME NEW m \in Held', HeldIn(m[1])' = life'
      PROVE  \E c \in 1 .. counter' : Sent(HeldEntry(m)', c)
  <2>1. PICK c \in 1 .. counter : Sent(HeldEntry(m), c)
    BY <1>1 DEF Numbered
  <2> QED
    BY <2>1
<1>2. ASSUME NEW x \in Held', NEW y \in Held', x # y, HeldIn(x[1])' = HeldIn(y[1])'
      PROVE  HeldEntry(x)'["nonces"] # HeldEntry(y)'["nonces"]
  BY <1>2 DEF NoncesApart
<1>3. Numbered'
  BY <1>1 DEF Numbered, Sent
<1>4. NoncesApart'
  BY <1>2 DEF NoncesApart
<1> QED
  BY <1>3, <1>4

\* So it is when the loop's arrays stay or are dropped.
LEMMA HeldSame ==
  ASSUME Numbered, NoncesApart, counter \in Nat, counter' \in Nat, counter <= counter',
         UNCHANGED <<attempts, born, life>>, Len(attempts) \in Nat,
         DOMAIN attempts = 1 .. Len(attempts),
         made'.arrays = made.arrays \/ Len(made'.arrays["encs"]) = 0
  PROVE  Numbered' /\ NoncesApart'
<1>1. ASSUME NEW n PROVE /\ HeldIn(n)' = HeldIn(n)
                         /\ HeldAt(n)' = HeldAt(n) \/ Len(HeldAt(n)'["encs"]) = 0
  BY DEF HeldIn, HeldAt
<1>2. ASSUME NEW m \in Held' PROVE m \in Held /\ HeldAt(m[1])' = HeldAt(m[1])
  <2>1. m \in (1 .. Len(attempts) + 1) \X (Nat \ {0}) /\ m[2] <= Len(HeldAt(m[1])'["encs"])
    BY DEF Held
  <2>2. Len(HeldAt(m[1])'["encs"]) # 0
    BY <2>1
  <2>3. HeldAt(m[1])' = HeldAt(m[1])
    BY <1>1, <2>2
  <2> QED
    BY <2>1, <2>3 DEF Held
<1>3. \A m \in Held' : HeldEntry(m)' = HeldEntry(m)
  BY <1>2 DEF HeldEntry, Row
<1> QED
  BY <1>1, <1>2, <1>3, HeldKept

LEMMA FreshInit == Init => FreshInv
<1> SUFFICES ASSUME Init PROVE FreshInv
  OBVIOUS
<1>1. TypeInv
  BY TypeInit
<1>2. Room
  <2>1. calls.prepare * Len(Prv) = 0
    <3>1. calls.prepare = 0 /\ Len(Prv) \in Nat
      BY KeyShareAssumption, LenIs DEF Init
    <3> QED
      BY <3>1
  <2> QED
    BY <2>1 DEF Init, Room
<1>3. Held = {}
  <2>1. \A n : Len(HeldAt(n)["encs"]) = 0
    BY EmptyIs, NoneIs, NoArraysAre DEF Init, HeldAt
  <2> QED
    BY <2>1 DEF Held
<1> QED
  BY <1>1, <1>2, <1>3 DEF FreshInv, Numbered, NoncesApart

LEMMA FreshStep == CounterFits /\ FreshInv /\ [Next]_vars => FreshInv'
<1> SUFFICES ASSUME CounterFits, FreshInv, [Next]_vars PROVE FreshInv'
  OBVIOUS
<1>1. TypeInv /\ TypeInv' /\ Room /\ Room' /\ Numbered /\ NoncesApart
  BY TypeStep, RoomStep DEF FreshInv
<1> SUFFICES Numbered' /\ NoncesApart'
  BY <1>1 DEF FreshInv
<1>n. PICK N, M : N = Len(attempts) /\ M = Len(made.arrays["encs"])
  OBVIOUS
<1>2. /\ N \in Nat /\ DOMAIN attempts = 1 .. N /\ N + 1 \notin DOMAIN attempts /\ M \in Nat
      /\ counter \in Nat /\ counter' \in Nat /\ IsSeq(attempts)
  <2>1. IsSeq(attempts) /\ IsSeq(made.arrays["encs"]) /\ counter \in Nat /\ counter' \in Nat
    BY <1>1, NoArraysAre DEF TypeInv, TypeOK, IsArrays
  <2>2. N \in Nat /\ DOMAIN attempts = 1 .. N /\ M \in Nat
    BY <1>n, <2>1, LenIs
  <2> QED
    BY <2>1, <2>2
<1>3. ASSUME Leave PROVE Len(made'.arrays["encs"]) = 0
  BY <1>3, LeaveIs, NoArraysAre, EmptyIs
<1>4. CASE Prepare \/ EncryptFail \/ Prove \/ AssignNext \/ AssignDone \/ Solve \/ UNCHANGED vars
  <2>1. UNCHANGED <<attempts, born, life>> /\ counter' \in {counter, counter + 1}
    BY <1>4 DEF Prepare, EncryptFail, Prove, AssignNext, AssignDone, Solve, vars
  <2>2. Leave \/ made'.arrays = made.arrays
    <3>1. CASE AssignNext \/ AssignDone
      BY <1>1, <3>1 DEF AssignNext, AssignDone, TypeInv, TypeOK
    <3>2. CASE Prepare \/ EncryptFail \/ Prove \/ Solve \/ UNCHANGED vars
      BY <3>2 DEF Prepare, EncryptFail, Prove, Solve, vars
    <3> QED
      BY <1>4, <3>1, <3>2
  <2>3. counter <= counter'
    BY <1>2, <2>1
  <2> QED
    BY <1>1, <1>2, <1>3, <1>n, <2>1, <2>2, <2>3, HeldSame
<1>5. CASE EncryptNext
  <2>1. PICK e : IsRow(e) /\ Sent(e, counter + 1) /\ made'.arrays = AddRow(made.arrays, e)
    BY <1>1, <1>5, EncryptNextMakes
  <2> DEFINE b == AddRow(made.arrays, e)
             new == <<N + 1, M + 1>>
  <2>2. /\ Len(b["encs"]) = M + 1 /\ \A i \in 1 .. M : Row(b, i) = Row(made.arrays, i)
        /\ Row(b, M + 1) = e
    <3>1. IsArrays(made.arrays) /\ SameLength(made.arrays)
      BY <1>1 DEF TypeInv, TypeOK
    <3> QED
      BY <1>n, <2>1, <3>1, RowAppend, NoArraysAre
  <2>3. UNCHANGED <<pc, input, attempts, calls, life, born>> /\ counter' = counter + 1
    BY <1>5 DEF EncryptNext
  <2>4. made'.arrays = b
    BY <2>1
  <2> HIDE DEF b
  <2>5. \A n : HeldIn(n)' = HeldIn(n)
    BY <2>3 DEF HeldIn
  <2>6. HeldIn(N + 1)' = life /\ HeldAt(N + 1)' = b /\ HeldAt(N + 1) = made.arrays
        /\ \A n \in 1 .. N : HeldAt(n)' = HeldAt(n)
    BY <1>2, <1>n, <2>3, <2>4 DEF HeldIn, HeldAt
  <2>7. ASSUME NEW m \in Held', m # new PROVE m \in Held /\ HeldEntry(m)' = HeldEntry(m)
    <3>1. m = <<m[1], m[2]>> /\ m[1] \in 1 .. N + 1 /\ m[2] \in Nat \ {0} /\ m[2] <= Len(HeldAt(m[1])'["encs"])
      BY <1>n, <2>3 DEF Held
    <3>2. CASE m[1] \in 1 .. N
      BY <1>2, <1>n, <2>6, <3>1, <3>2 DEF Held, HeldEntry, Row
    <3>3. CASE m[1] = N + 1
      <4>1. m[2] # M + 1 /\ m[2] <= M + 1
        BY <2>2, <2>6, <2>7, <3>1, <3>3
      <4>2. m[2] \in 1 .. M
        BY <1>2, <3>1, <4>1
      <4>3. Row(b, m[2]) = Row(made.arrays, m[2])
        BY <2>2, <4>2
      <4> QED
        BY <1>n, <1>2, <2>6, <3>1, <3>3, <4>2, <4>3 DEF Held, HeldEntry
    <3> QED
      BY <1>2, <3>1, <3>2, <3>3
  <2>8. HeldEntry(new)' = e /\ HeldIn(new[1])' = life
    BY <2>2, <2>6 DEF HeldEntry
  <2> HIDE DEF new
  <2>9. Numbered'
    <3>1. ASSUME NEW m \in Held', HeldIn(m[1])' = life'
          PROVE  \E c \in 1 .. counter' : Sent(HeldEntry(m)', c)
      <4>1. CASE m = new
        <5>1. counter + 1 \in 1 .. counter'
          BY <1>2, <2>3
        <5> QED
          BY <2>1, <2>8, <4>1, <5>1
      <4>2. CASE m # new
        <5>1. PICK c \in 1 .. counter : Sent(HeldEntry(m), c)
          BY <1>1, <2>3, <2>5, <2>7, <3>1, <4>2 DEF Numbered
        <5> QED
          BY <1>2, <2>3, <2>7, <4>2, <5>1
      <4> QED
        BY <4>1, <4>2
    <3> QED
      BY <3>1 DEF Numbered, Sent
  <2>10. NoncesApart'
    <3>0. counter + 1 \in 1 .. MaxAttempts * Len(Prv)
      <4>0. PICK now, most, p, q : /\ most = MaxAttempts * Len(Prv) /\ now = calls.prepare * Len(Prv)
                                   /\ p = Len(made'.arrays["encs"]) /\ q = Len(input'.arrays["pubs"])
        OBVIOUS
      <4>1. now <= most /\ now \in Nat /\ most \in Nat
        <5>1. calls.prepare \in Nat /\ calls.prepare <= MaxAttempts /\ MaxAttempts \in Nat /\ Len(Prv) \in Nat
          BY <1>1, KeyShareAssumption, LenIs DEF TypeInv, TypeOK
        <5> QED
          BY <4>0, <5>1
      <4>2. pc' = "encrypt" /\ calls' = calls
        BY <1>5 DEF EncryptNext
      <4>3. p <= q /\ p \in Nat /\ q \in Nat
        <5>1. IsSeq(made'.arrays["encs"]) /\ IsSeq(input'.arrays["pubs"])
          BY <1>1, NoArraysAre DEF TypeInv, TypeOK, IsArrays
        <5>2. p <= q
          BY <1>1, <4>0, <4>2 DEF TypeInv, InCall, Preparing
        <5> QED
          BY <4>0, <5>1, <5>2, LenIs
      <4>4. counter' + (q - p) <= now
        BY <1>1, <4>0, <4>2 DEF Room
      <4>5. counter' <= now
        <5>1. PICK c \in Nat : c = counter'
          BY <1>2
        <5>2. ASSUME NEW a \in Nat, NEW d \in Nat, NEW k \in Nat, NEW n \in Nat, a <= k, d + (k - a) <= n
              PROVE  d <= n
          BY <5>2
        <5>3. c + (q - p) <= now
          BY <4>4, <5>1
        <5>4. c <= now
          BY <4>1, <4>3, <5>2, <5>3
        <5> QED
          BY <5>1, <5>4
      <4>6. counter + 1 \in 1 .. most
        BY <1>2, <2>3, <4>1, <4>5
      <4> QED
        BY <4>0, <4>6
    <3>1. ASSUME NEW m \in Held', m # new, HeldIn(m[1])' = life
          PROVE  HeldEntry(m)'["nonces"] # e["nonces"]
      <4>1. PICK c \in 1 .. counter : Sent(HeldEntry(m), c)
        BY <1>1, <2>5, <2>7, <3>1 DEF Numbered
      <4>2. HeldEntry(m)'["nonces"] = Nonce(c) /\ e["nonces"] = Nonce(counter + 1)
        BY <2>1, <2>7, <3>1, <4>1 DEF Sent, ECIESEncrypt
      <4>3. c # counter + 1 /\ c \in 1 .. MaxAttempts * Len(Prv)
        <5> DEFINE most == MaxAttempts * Len(Prv)
        <5>1. most \in Nat
          BY KeyShareAssumption, LenIs
        <5> HIDE DEF most
        <5>2. counter + 1 \in 1 .. most
          BY <3>0 DEF most
        <5>3. c # counter + 1 /\ c \in 1 .. most
          BY <1>2, <5>1, <5>2
        <5> QED
          BY <5>3 DEF most
      <4> QED
        BY <3>0, <4>2, <4>3, NonceNames
    <3>2. ASSUME NEW x \in Held', NEW y \in Held', x # y, HeldIn(x[1])' = HeldIn(y[1])'
          PROVE  HeldEntry(x)'["nonces"] # HeldEntry(y)'["nonces"]
      <4>1. CASE x = new
        BY <2>8, <3>1, <3>2, <4>1
      <4>2. CASE y = new
        BY <2>8, <3>1, <3>2, <4>2
      <4>3. CASE x # new /\ y # new
        BY <1>1, <2>5, <2>7, <3>2, <4>3 DEF NoncesApart
      <4> QED
        BY <4>1, <4>2, <4>3
    <3> QED
      BY <3>2 DEF NoncesApart
  <2> QED
    BY <2>9, <2>10
<1>6. CASE EncryptDone
  <2>1. /\ attempts' = Append(attempts, made.arrays) /\ born' = Append(born, life) /\ Leave
        /\ UNCHANGED <<counter, life>>
    BY <1>6 DEF EncryptDone
  <2>2. Len(born) = N /\ IsSeq(born)
    <3>1. born \in Seq(0 .. life) /\ Len(born) = N
      BY <1>1, <1>n DEF TypeInv, TypeOK
    <3> QED
      BY <3>1, SeqIs
  <2>3. /\ Len(attempts') = N + 1 /\ DOMAIN attempts' = 1 .. N + 1
        /\ \A n \in 1 .. N : attempts'[n] = attempts[n] /\ born'[n] = born[n]
        /\ attempts'[N + 1] = made.arrays /\ born'[N + 1] = life
    <3>1. /\ IsSeq(attempts') /\ Len(attempts') = N + 1 /\ attempts'[N + 1] = made.arrays
          /\ \A n \in 1 .. N : attempts'[n] = attempts[n]
      BY <1>2, <1>n, <2>1, AppendIs
    <3>2. born'[N + 1] = life /\ \A n \in 1 .. N : born'[n] = born[n]
      BY <2>1, <2>2, AppendIs
    <3> QED
      BY <3>1, <3>2, LenIs
  <2>4. ASSUME NEW n \in 1 .. N + 1 PROVE HeldAt(n)' = HeldAt(n) /\ HeldIn(n)' = HeldIn(n)
    <3>1. CASE n \in 1 .. N
      BY <1>2, <1>n, <2>3, <3>1 DEF HeldAt, HeldIn
    <3>2. CASE n = N + 1
      BY <1>2, <1>n, <2>1, <2>3, <3>2 DEF HeldAt, HeldIn
    <3> QED
      BY <1>2, <3>1, <3>2
  <2>5. Len(HeldAt(N + 2)'["encs"]) = 0
    <3>1. N + 2 \notin DOMAIN attempts'
      BY <1>2, <2>3
    <3> QED
      BY <1>3, <2>1, <3>1 DEF HeldAt
  <2>6. ASSUME NEW m \in Held'
        PROVE  m \in Held /\ HeldEntry(m)' = HeldEntry(m) /\ HeldIn(m[1])' = HeldIn(m[1])
    <3>1. m \in (1 .. N + 2) \X (Nat \ {0}) /\ m[2] <= Len(HeldAt(m[1])'["encs"])
      <4>1. Len(attempts') + 1 = N + 2
        BY <1>2, <2>3
      <4> QED
        BY <4>1 DEF Held
    <3>2. m[1] # N + 2
      BY <2>5, <3>1
    <3>3. m[1] \in 1 .. N + 1
      BY <1>2, <3>1, <3>2
    <3> QED
      BY <1>n, <2>4, <3>1, <3>3 DEF Held, HeldEntry, Row
  <2> QED
    BY <1>1, <1>2, <2>1, <2>6, HeldKept
<1>7. CASE Restart
  <2>1. UNCHANGED <<attempts, born>> /\ life' = life + 1 /\ life \in Nat /\ Len(made'.arrays["encs"]) = 0
    BY <1>1, <1>3, <1>7, KeyShareAssumption DEF Restart, TypeInv, TypeOK
  <2>2. ASSUME NEW m \in Held'
        PROVE  /\ m[1] \in DOMAIN attempts /\ m \in Held /\ HeldEntry(m)' = HeldEntry(m)
               /\ HeldIn(m[1])' = HeldIn(m[1]) /\ HeldIn(m[1])' # life'
    <3>1. m \in (1 .. N + 1) \X (Nat \ {0}) /\ m[2] <= Len(HeldAt(m[1])'["encs"])
      BY <1>n, <2>1 DEF Held
    <3>2. m[1] \in DOMAIN attempts
      BY <1>2, <2>1, <3>1 DEF HeldAt
    <3>3. HeldAt(m[1])' = HeldAt(m[1]) /\ HeldIn(m[1])' = born[m[1]] /\ HeldIn(m[1]) = born[m[1]]
      BY <2>1, <3>2 DEF HeldAt, HeldIn
    <3>4. born[m[1]] \in 0 .. life
      <4>1. born \in Seq(0 .. life) /\ Len(born) = N
        BY <1>1, <1>n DEF TypeInv, TypeOK
      <4> QED
        BY <1>2, <3>2, <4>1, SeqIs
    <3> QED
      BY <1>n, <2>1, <3>1, <3>2, <3>3, <3>4 DEF Held, HeldEntry, Row
  <2>3. Numbered'
    BY <2>2 DEF Numbered
  <2>4. NoncesApart'
    <3>1. ASSUME NEW x \in Held', NEW y \in Held', x # y, HeldIn(x[1])' = HeldIn(y[1])'
          PROVE  HeldEntry(x)'["nonces"] # HeldEntry(y)'["nonces"]
      BY <1>1, <2>2, <3>1 DEF NoncesApart
    <3> QED
      BY <3>1 DEF NoncesApart
  <2> QED
    BY <2>3, <2>4
<1> QED
  BY <1>4, <1>5, <1>6, <1>7 DEF Next, Terminated

\* Two messages of different nonces, or of different lives and one key.
LEMMA FreshSays == KeysBind /\ FreshInv => NoKeystreamTwice
<1> DEFINE messages == UNION {{n} \X DOMAIN attempts[n]["encs"] : n \in DOMAIN attempts}
           of(m, f) == attempts[m[1]][f][m[2]]
           rPub(m) == ScalarMul(Secp, of(m, "rs"), of(m, "pubs"))
           key(m) == SharedKey(rPub(m), ScalarMulBase(Secp, of(m, "rs")))
<1> SUFFICES ASSUME KeysBind, FreshInv, NEW x \in messages, NEW y \in messages,
                    x # y, key(x) = key(y), of(x, "nonces") = of(y, "nonces")
             PROVE  /\ born[x[1]] # born[y[1]]
                    /\ of(x, "rs") = of(y, "rs") /\ X(Secp, of(x, "pubs")) = X(Secp, of(y, "pubs"))
  BY DEF NoKeystreamTwice
<1>1. ASSUME NEW m \in messages
      PROVE  /\ m \in Held /\ HeldIn(m[1]) = born[m[1]]
             /\ HeldEntry(m)["nonces"] = of(m, "nonces")
             /\ of(m, "pubs") \in Points /\ of(m, "rs") \in Secrets
  <2>1. PICK n \in DOMAIN attempts : m \in {n} \X DOMAIN attempts[n]["encs"]
    OBVIOUS
  <2>2. m[1] = n /\ m[2] \in DOMAIN attempts[n]["encs"] /\ m = <<m[1], m[2]>>
    BY <2>1
  <2>3. /\ IsArrays(attempts[n]) /\ SameLength(attempts[n])
        /\ \A i \in 1 .. Len(attempts[n]["pubs"]) : \E c \in Nat : Sent(Row(attempts[n], i), c)
    BY AttemptIs DEF FreshInv
  <2>4. m[2] \in 1 .. Len(attempts[n]["encs"]) /\ Len(attempts[n]["encs"]) = Len(attempts[n]["pubs"])
        /\ Len(attempts[n]["encs"]) \in Nat
    BY <2>2, <2>3, LenIs, NoArraysAre DEF IsArrays, SameLength
  <2>5. n \in 1 .. Len(attempts) + 1
    BY LenIs DEF FreshInv, TypeInv, TypeOK
  <2>6. HeldAt(n) = attempts[n] /\ HeldIn(n) = born[n]
    BY DEF HeldAt, HeldIn
  <2>7. m \in Held
    BY <2>2, <2>4, <2>5, <2>6 DEF Held
  <2>8. PICK c \in Nat : Sent(Row(attempts[n], m[2]), c)
    BY <2>3, <2>4
  <2>9. \A f \in Arrays : Row(attempts[n], m[2])[f] = of(m, f)
    BY <2>2 DEF Row
  <2> QED
    BY <2>2, <2>6, <2>7, <2>8, <2>9, NoArraysAre DEF HeldEntry, Sent
<1>2. born[x[1]] # born[y[1]]
  BY <1>1 DEF FreshInv, NoncesApart
<1>3. of(x, "rs") = of(y, "rs") /\ X(Secp, of(x, "pubs")) = X(Secp, of(y, "pubs"))
  BY <1>1 DEF KeysBind
<1> QED
  BY <1>2, <1>3

\* No keystream masks two messages of a process that makes one call at a time: as
\* long as one life makes fewer messages than the counter has values, the counter
\* alone keeps their nonces apart,
\* whatever the random bytes are and however many calls fail on the way; two lives
\* can only meet in the same secret and the same recipient.
THEOREM KeystreamsOnce ==
  ASSUME CounterFits
  PROVE  Spec => []NoKeystreamTwice
<1>1. Init => FreshInv
  BY FreshInit
<1>2. FreshInv /\ [Next]_vars => FreshInv'
  BY FreshStep
<1>3. FreshInv => NoKeystreamTwice
  BY FreshSays, KeysApart
<1> QED
  BY <1>1, <1>2, <1>3, PTL DEF Spec

-----------------------------------------------------------------------------
(* Witnesses and proofs.                                                   *)

\* What the loop has made of entry i.
Placed(i) ==
  /\ ~Missing(At(i)) /\ Len(At(i)["nonces"]) <= NonceBytes
  /\ made.params[i] = Parameters(At(i)) /\ made.hashes[i] = InnerHash(At(i))

\* The witness so far is that of the caller's arrays, and a panic has its cause in them.
WitnessOK ==
  /\ pc \in {"assign", "solve", "panicked"} => LooseArrays(input.arrays)
  /\ pc \in {"assign", "solve"} => \A i \in 1 .. Len(made.params) : Placed(i)
  /\ pc = "solve" =>
       made.assignment = [Sender |-> <<Byte(input.sender)>>, Parameters |-> made.params,
                          SumHash |-> Sha256(Summary(input.sender, made.hashes))]
  /\ pc = "panicked" =>
       \E i \in 1 .. Len(input.arrays["pubs"]) : ~(Len(At(i)["nonces"]) <= NonceBytes)

\* Whatever there is a proof of is masked as its entries say.
ProofsMasked ==
  \A p \in proofs :
    /\ IsArrays(p.arrays) /\ SameLength(p.arrays)
    /\ \A i \in 1 .. Len(p.arrays["pubs"]) : Masked(Row(p.arrays, i))

WitnessInv == TypeInv /\ WitnessOK /\ ProofsMasked

\* An entry in its place is one that there is.
LEMMA PlacedDrawn ==
  ASSUME NEW a, LooseArrays(a), SameLength(a), NEW i \in 1 .. Len(a["pubs"]), ~Missing(Row(a, i))
  PROVE  Drawn(Row(a, i))
<1>1. \A f \in Arrays : i \in DOMAIN a[f] /\ Row(a, i)[f] = a[f][i]
  BY LenIs DEF LooseArrays, IsArrays, SameLength, Row
<1>2. \A f \in Arrays : Loose(f, Row(a, i)[f])
  BY <1>1 DEF LooseArrays
<1> DEFINE e == Row(a, i)
<1>3. /\ e["pubs"] \in Points \cup {Nil} /\ e["rs"] \in Secrets \cup {Nil}
      /\ e["fis"] \in Elems(Shares) \cup {Nil} /\ IsSeq(e["encs"]) /\ IsSeq(e["nonces"])
  BY <1>2, NoArraysAre DEF Loose
<1> HIDE DEF e
<1> QED
  BY <1>3 DEF Drawn, Missing, e

\* The witness of a proof is complete and satisfies the circuit: every entry is masked.
LEMMA SolveMasks ==
  ASSUME BitsAgree, WitnessInv, pc = "solve", Complete(made.assignment, input.batch),
         Define(made.assignment), NEW i \in 1 .. Len(input.arrays["pubs"])
  PROVE  Masked(Row(input.arrays, i))
<1> DEFINE e == Row(input.arrays, i)
<1>1. e = At(i)
  BY DEF Row, At
<1>2. /\ LooseArrays(input.arrays) /\ SameLength(input.arrays)
      /\ IsSeq(made.params) /\ Len(made.params) = Len(input.arrays["pubs"])
      /\ made.assignment.Parameters = made.params
  BY DEF WitnessInv, WitnessOK, TypeInv, TypeOK, InCall
<1>3. Placed(i) /\ i \in DOMAIN made.params
  BY <1>2, LenIs DEF WitnessInv, WitnessOK
<1> HIDE DEF e
<1>4. /\ Drawn(e) /\ made.params[i] = Parameters(e) /\ Len(e["nonces"]) <= NonceBytes
  BY <1>1, <1>2, <1>3, PlacedDrawn DEF Placed, e
<1>5. /\ Len(Parameters(e).CipherChunks) = SealedBytes
      /\ \A k \in 1 .. NonceBytes : Parameters(e).Iv[k] # NilByte
  BY <1>2, <1>3, <1>4 DEF Complete
<1>6. EncryptHolds(Parameters(e))
  BY <1>2, <1>3, <1>4 DEF Define
<1> QED
  BY <1>4, <1>5, <1>6, HoldsMasked DEF e

LEMMA WitnessInit == Init => WitnessInv
BY TypeInit DEF Init, WitnessInv, WitnessOK, ProofsMasked

LEMMA WitnessStep == BitsAgree /\ WitnessInv /\ [Next]_vars => WitnessInv'
<1> SUFFICES ASSUME BitsAgree, WitnessInv, [Next]_vars PROVE WitnessInv'
  OBVIOUS
<1>1. TypeInv /\ TypeInv' /\ WitnessOK /\ ProofsMasked
  BY TypeStep DEF WitnessInv
<1> SUFFICES WitnessOK' /\ ProofsMasked'
  BY <1>1 DEF WitnessInv
<1>2. ASSUME pc' \notin {"assign", "solve", "panicked"} PROVE WitnessOK'
  BY <1>2 DEF WitnessOK
<1>3. ASSUME UNCHANGED proofs PROVE ProofsMasked'
  BY <1>1, <1>3 DEF ProofsMasked
<1>4. CASE Prepare
  <2>1. pc' \in {"idle", "encrypt"} /\ UNCHANGED proofs
    BY <1>4 DEF Prepare, Leave
  <2> QED
    BY <1>2, <1>3, <2>1
<1>5. CASE EncryptNext \/ EncryptFail \/ EncryptDone \/ Restart
  <2>1. pc' \in {"idle", "encrypt"} /\ UNCHANGED proofs
    BY <1>5 DEF EncryptNext, EncryptFail, EncryptDone, Restart, Leave
  <2> QED
    BY <1>2, <1>3, <2>1
<1>6. CASE Prove
  <2>1. UNCHANGED proofs
    BY <1>6 DEF Prove
  <2>2. CASE Leave
    BY <1>2, <1>3, <2>1, <2>2 DEF Leave
  <2>3. CASE ~Leave
    <3>1. PICK a \in ProveInputs, batch \in Batches, sender \in Senders :
            /\ pc' = "assign" /\ UNCHANGED made
            /\ input' = [batch |-> batch, sender |-> sender, arrays |-> a]
      BY <1>6, <2>3 DEF Prove
    <3>2. input'.arrays = a /\ LooseArrays(a)
      BY <1>1, <3>1, ProveInputIs
    <3>3. Len(made'.params) = 0
      BY <1>1, <1>6, <3>1, NoneIs, EmptyIs DEF TypeInv, InCall, Prove
    <3>4. WitnessOK'
      BY <3>1, <3>2, <3>3 DEF WitnessOK
    <3> QED
      BY <1>3, <2>1, <3>4
  <2> QED
    BY <2>2, <2>3
<1>7. CASE AssignNext
  <2> DEFINE n == Len(made.params)
  <2>1. UNCHANGED proofs /\ pc = "assign" /\ n \in Nat /\ n + 1 <= Len(input.arrays["pubs"])
    BY <1>1, <1>7, LenIs DEF AssignNext, Index, TypeInv, TypeOK
  <2>2. Len(input.arrays["pubs"]) \in Nat
    BY <1>1, LenIs, NoArraysAre DEF TypeInv, TypeOK, IsArrays
  <2>3. CASE Leave
    BY <1>2, <1>3, <2>1, <2>3 DEF Leave
  <2>4. CASE /\ pc' = "panicked" /\ UNCHANGED <<input, made>>
             /\ Len(At(n + 1)["nonces"]) > NonceBytes
    <3>1. ~(Len(At(n + 1)["nonces"]) <= NonceBytes)
      <4>1. LooseArrays(input.arrays) /\ SameLength(input.arrays)
        BY <1>1, <2>1 DEF WitnessOK, TypeInv, InCall
      <4>2. n + 1 \in DOMAIN input.arrays["nonces"] /\ IsSeq(input.arrays["nonces"])
        BY <2>1, <2>2, <4>1, LenIs, NoArraysAre DEF LooseArrays, IsArrays, SameLength
      <4>3. Loose("nonces", input.arrays["nonces"][n + 1])
        BY <4>1, <4>2, NoArraysAre DEF LooseArrays
      <4>4. At(n + 1)["nonces"] = input.arrays["nonces"][n + 1]
        BY NoArraysAre DEF At
      <4>5. Len(At(n + 1)["nonces"]) \in Nat
        BY <4>3, <4>4, LenIs DEF Loose
      <4> QED
        BY <2>4, <4>5, ConstantsAre
    <3>2. n + 1 \in 1 .. Len(input.arrays["pubs"])
      BY <2>1, <2>2
    <3>3. WitnessOK'
      BY <1>1, <2>1, <2>4, <3>1, <3>2 DEF WitnessOK, At
    <3> QED
      BY <1>3, <2>1, <3>3
  <2>5. CASE /\ ~Missing(At(n + 1)) /\ Len(At(n + 1)["nonces"]) <= NonceBytes
             /\ made' = [made EXCEPT !.params = Append(@, Parameters(At(n + 1))),
                                     !.hashes = Append(@, InnerHash(At(n + 1)))]
             /\ UNCHANGED <<pc, input>>
    <3>1. /\ made'.params = Append(made.params, Parameters(At(n + 1)))
          /\ made'.hashes = Append(made.hashes, InnerHash(At(n + 1)))
      BY <1>1, <2>5 DEF TypeInv, TypeOK
    <3>2. IsSeq(made.params) /\ IsSeq(made.hashes) /\ Len(made.hashes) = n
      BY <1>1 DEF TypeInv, TypeOK
    <3>3. /\ Len(made'.params) = n + 1
          /\ \A i \in 1 .. n : made'.params[i] = made.params[i] /\ made'.hashes[i] = made.hashes[i]
          /\ made'.params[n + 1] = Parameters(At(n + 1))
          /\ made'.hashes[n + 1] = InnerHash(At(n + 1))
      BY <3>1, <3>2, AppendIs
    <3>4. \A i : At(i)' = At(i)
      BY <2>5 DEF At
    <3>5. ASSUME NEW i \in 1 .. n + 1
          PROVE  /\ ~Missing(At(i)) /\ Len(At(i)["nonces"]) <= NonceBytes
                 /\ made'.params[i] = Parameters(At(i)) /\ made'.hashes[i] = InnerHash(At(i))
      <4>1. CASE i \in 1 .. n
        <5>1. Placed(i)
          BY <1>1, <2>1, <4>1 DEF WitnessOK
        <5> QED
          BY <3>3, <4>1, <5>1 DEF Placed
      <4>2. CASE i = n + 1
        BY <2>5, <3>3, <4>2
      <4> QED
        BY <2>1, <4>1, <4>2
    <3> HIDE DEF n
    <3>6. \A i \in 1 .. Len(made'.params) : Placed(i)'
      BY <3>3, <3>4, <3>5 DEF Placed, Missing, Parameters, InnerHash
    <3>7. WitnessOK'
      BY <1>1, <2>1, <2>5, <3>6 DEF WitnessOK
    <3> QED
      BY <1>3, <2>1, <3>7
  <2> QED
    BY <1>7, <2>3, <2>4, <2>5 DEF AssignNext, Index
<1>8. CASE AssignDone
  <2>1. /\ pc = "assign" /\ pc' = "solve" /\ UNCHANGED <<input, proofs>>
        /\ made'.params = made.params /\ made'.hashes = made.hashes
        /\ made'.assignment = [Sender |-> <<Byte(input.sender)>>, Parameters |-> made.params,
                               SumHash |-> Sha256(Summary(input.sender, made.hashes))]
    BY <1>1, <1>8 DEF AssignDone, TypeInv, TypeOK
  <2>2. \A i : At(i)' = At(i)
    BY <2>1 DEF At
  <2>3. \A i \in 1 .. Len(made'.params) : Placed(i)'
    BY <1>1, <2>1, <2>2 DEF WitnessOK, Placed, Missing, Parameters, InnerHash
  <2>4. WitnessOK'
    BY <1>1, <2>1, <2>3 DEF WitnessOK
  <2> QED
    BY <1>3, <2>1, <2>4
<1>9. CASE Solve
  <2>1. pc = "solve" /\ pc' = "idle"
    BY <1>9 DEF Solve, Leave
  <2>2. ASSUME NEW p \in proofs'
        PROVE  /\ IsArrays(p.arrays) /\ SameLength(p.arrays)
               /\ \A i \in 1 .. Len(p.arrays["pubs"]) : Masked(Row(p.arrays, i))
    <3>1. CASE p \in proofs
      BY <1>1, <3>1 DEF ProofsMasked
    <3>2. CASE p \notin proofs
      <4>1. /\ Complete(made.assignment, input.batch) /\ Define(made.assignment)
            /\ p = Statement
        BY <1>9, <2>2, <3>2 DEF Solve
      <4>2. p.arrays = input.arrays
        BY <4>1 DEF Statement
      <4>3. IsArrays(input.arrays) /\ SameLength(input.arrays)
        BY <1>1, <2>1 DEF TypeInv, TypeOK, InCall
      <4> QED
        BY <2>1, <4>1, <4>2, <4>3, SolveMasks
    <3> QED
      BY <3>1, <3>2
  <2>3. ProofsMasked'
    BY <2>2 DEF ProofsMasked
  <2> QED
    BY <1>2, <2>1, <2>3
<1>10. CASE UNCHANGED vars
  <2>1. UNCHANGED <<pc, input, made, proofs>>
    BY <1>10 DEF vars
  <2>2. \A i : Placed(i)' <=> Placed(i)
    BY <2>1 DEF Placed, At, Missing, Parameters, InnerHash
  <2>3. \A i : At(i)' = At(i)
    BY <2>1 DEF At
  <2>4. WitnessOK'
    BY <1>1, <2>1, <2>2, <2>3 DEF WitnessOK
  <2> QED
    BY <1>3, <2>1, <2>4
<1> QED
  BY <1>4, <1>5, <1>6, <1>7, <1>8, <1>9, <1>10 DEF Next, Terminated

\* The prover's string and the bytes in the circuit are one domain.
LEMMA DomainIs == IsSeq(hashDomain) /\ hashDomain = hashDomainU8s
<1> DEFINE codes == <<68, 75, 71, 95, 66, 65, 84, 67, 72, 95, 72, 65, 83, 72, 95, 86, 49>>
<1>1. codes \in Seq(Nat)
  OBVIOUS
<1>2. hashDomain = Octets(codes)
  BY DEF hashDomain
<1>3. hashDomainU8s = Octets(codes)
  BY DEF hashDomainU8s
<1> HIDE DEF codes
<1>4. Len(codes) \in Nat /\ DOMAIN codes = 1 .. Len(codes)
  BY <1>1, SeqIs
<1>5. hashDomain = [i \in 1 .. Len(codes) |-> hashDomain[i]]
  BY <1>2, <1>4 DEF Octets
<1> QED
  BY <1>2, <1>3, <1>4, <1>5, FunIs

\* Two bytes, one after the other.
LEMMA PairIs ==
  ASSUME NEW a, NEW b
  PROVE  <<a>> \o <<b>> = <<a, b>>
<1> DEFINE s == <<a>> \o <<b>>
           t == <<a, b>>
<1>1. IsSeq(<<a>>) /\ IsSeq(<<b>>) /\ IsSeq(t)
  <2>1. <<a>> \in Seq({a, b}) /\ <<b>> \in Seq({a, b}) /\ t \in Seq({a, b})
    OBVIOUS
  <2> QED
    BY <2>1, SeqIs
<1>2. Len(<<a>>) = 1 /\ Len(<<b>>) = 1 /\ <<a>>[1] = a /\ <<b>>[1] = b
  OBVIOUS
<1>3. IsSeq(s) /\ Len(s) = 1 + 1 /\ s[1] = a /\ s[1 + 1] = b
  <2>1. 1 \in 1 .. 1
    OBVIOUS
  <2> QED
    BY <1>1, <1>2, <2>1, JoinIs
<1>4. Len(t) = 2 /\ t[1] = a /\ t[2] = b /\ t = [i \in DOMAIN t |-> t[i]] /\ DOMAIN t = 1 .. 2
  OBVIOUS
<1> HIDE DEF s, t
<1>5. DOMAIN s = 1 .. 2 /\ s[2] = b
  BY <1>3, LenIs
<1>6. \A i \in DOMAIN s : t[i] = s[i]
  <2>1. \A i \in 1 .. 2 : i = 1 \/ i = 2
    OBVIOUS
  <2> QED
    BY <1>3, <1>4, <1>5, <2>1
<1>7. t = s
  BY <1>3, <1>4, <1>5, <1>6, SameSeq
<1> QED
  BY <1>7 DEF s, t

\* The batch hash of the prover and that of the circuit are one.
LEMMA SummariesAgree ==
  ASSUME NEW sender, NEW params, IsSeq(params), NEW hashes, IsSeq(hashes),
         Len(params) = Len(hashes),
         \A i \in DOMAIN params : Sha256(PubInputs(params[i])) = hashes[i] /\ EncryptHolds(params[i])
  PROVE  Define([Sender |-> <<Byte(sender)>>, Parameters |-> params,
                 SumHash |-> Sha256(Summary(sender, hashes))])
<1> DEFINE entries == [i \in DOMAIN params |-> Entry(i - 1, Sha256(PubInputs(params[i])))]
           numbered == [i \in DOMAIN hashes |-> <<Byte(i - 1), Byte(Len(hashes[i]))>> \o hashes[i]]
           flat == FlattenSeq(entries)
<1>1. DOMAIN params = DOMAIN hashes
  BY LenIs
<1>2. entries = numbered
  BY <1>1 DEF Entry
<1> HIDE DEF entries, numbered
<1>3. Summary(sender, hashes) = hashDomain \o <<Byte(sender), Byte(Len(hashes))>> \o flat
  BY <1>2 DEF Summary, numbered
<1> HIDE DEF flat
<1>4. ASSUME NEW x, IsSeq(x), NEW a, NEW b PROVE x \o <<a>> \o <<b>> = x \o <<a, b>>
  <2> DEFINE S == Elems(x) \cup {a, b}
             y == <<a>>
             z == <<b>>
  <2>1. x \in Seq(S)
    <3>1. x \in Seq(Elems(x)) /\ Elems(x) \subseteq S
      BY <1>4 DEF IsSeq
    <3> HIDE DEF S
    <3> QED
      BY <3>1, SeqMonotonic
  <2>2. y \in Seq(S) /\ z \in Seq(S)
    OBVIOUS
  <2>3. y \o z = <<a, b>>
    BY PairIs
  <2> HIDE DEF S, y, z
  <2>4. (x \o y) \o z = x \o (y \o z)
    BY <2>1, <2>2, ConcatAssociative
  <2> QED
    BY <2>3, <2>4 DEF y, z
<1>5. hashDomain \o <<Byte(sender), Byte(Len(hashes))>>
        = hashDomainU8s \o <<Byte(sender)>> \o <<Byte(Len(params))>>
  BY <1>4, DomainIs
<1>6. Sha256(hashDomainU8s \o <<Byte(sender)>> \o <<Byte(Len(params))>> \o flat)
        = Sha256(Summary(sender, hashes))
  BY <1>3, <1>5
<1> QED
  BY <1>6 DEF Define, flat, entries

\* Honest arrays have a complete witness that satisfies both circuits.
LEMMA HonestSays == BitsAgree /\ WitnessInv => HonestProves
<1> SUFFICES ASSUME BitsAgree, WitnessInv, input.arrays \in Range(attempts)
             PROVE  /\ pc # "panicked"
                    /\ pc = "solve" /\ input.batch = Len(input.arrays["pubs"]) =>
                         /\ Complete(made.assignment, input.batch) /\ Define(made.assignment)
                         /\ \A i \in DOMAIN made.params : ECIESWrapperDefine(made.params[i], made.hashes[i])
  BY DEF HonestProves
<1>1. PICK n \in DOMAIN attempts : input.arrays = attempts[n]
  BY DEF Range
<1>2. ASSUME NEW i \in 1 .. Len(input.arrays["pubs"])
      PROVE  Masked(At(i))
  <2>1. PICK c \in Nat : Sent(Row(input.arrays, i), c)
    BY <1>1, AttemptIs DEF WitnessInv
  <2> QED
    BY <2>1, SentMasked DEF Row, At
<1>3. pc # "panicked"
  <2>1. \A i \in 1 .. Len(input.arrays["pubs"]) : Len(At(i)["nonces"]) <= NonceBytes
    BY <1>2, ConstantsAre DEF Masked
  <2> QED
    BY <2>1 DEF WitnessInv, WitnessOK
<1>4. ASSUME pc = "solve", input.batch = Len(input.arrays["pubs"])
      PROVE  /\ Complete(made.assignment, input.batch) /\ Define(made.assignment)
             /\ \A i \in DOMAIN made.params : ECIESWrapperDefine(made.params[i], made.hashes[i])
  <2>1. /\ IsSeq(made.params) /\ IsSeq(made.hashes) /\ Len(made.params) = Len(made.hashes)
        /\ Len(made.params) = Len(input.arrays["pubs"])
        /\ made.assignment = [Sender |-> <<Byte(input.sender)>>, Parameters |-> made.params,
                              SumHash |-> Sha256(Summary(input.sender, made.hashes))]
        /\ \A i \in 1 .. Len(made.params) : Placed(i)
    BY <1>4 DEF WitnessInv, WitnessOK, TypeInv, TypeOK, InCall
  <2>2. DOMAIN made.params = 1 .. Len(input.arrays["pubs"])
    BY <2>1, LenIs
  <2>3. ASSUME NEW i \in DOMAIN made.params
        PROVE  /\ EncryptHolds(made.params[i]) /\ Sha256(PubInputs(made.params[i])) = made.hashes[i]
               /\ Len(made.params[i].CipherChunks) = SealedBytes
               /\ \A k \in 1 .. NonceBytes : made.params[i].Iv[k] # NilByte
    <3>1. Masked(At(i)) /\ Placed(i)
      BY <1>2, <2>1, <2>2
    <3> QED
      BY <3>1, MaskedHolds DEF Placed
  <2>4. Define(made.assignment)
    BY <2>1, <2>3, SummariesAgree
  <2>5. made.assignment.Parameters = made.params
    BY <2>1
  <2>6. Complete(made.assignment, input.batch)
    BY <1>4, <2>1, <2>3, <2>5 DEF Complete
  <2>7. \A i \in DOMAIN made.params : ECIESWrapperDefine(made.params[i], made.hashes[i])
    BY <2>3 DEF ECIESWrapperDefine
  <2> QED
    BY <2>4, <2>6, <2>7
<1> QED
  BY <1>3, <1>4

\* What there is a proof of decrypts to the share that it commits to.
LEMMA MaskedSays == WitnessInv => ProofDecrypts
<1> SUFFICES ASSUME WitnessInv, NEW p \in proofs, NEW i \in DOMAIN p.arrays["pubs"]
             PROVE  LET prv == PrvOf(p.arrays["pubs"][i])
                        bigR == ScalarMulBase(Secp, p.arrays["rs"][i])
                        enc == p.arrays["encs"][i]
                        nonce == p.arrays["nonces"][i]
                        share == transformKeyShare(p.arrays["fis"][i])
                        sent == UNION {Range(attempts[n]["encs"]) : n \in DOMAIN attempts}
                    IN /\ CTR(SharedKey(ScalarMul(Secp, prv, bigR), bigR), nonce, Front(enc)) = share
                       /\ enc \in sent => ECIESDecrypt(prv, enc, nonce, bigR) = share
  BY DEF ProofDecrypts, PrvOf
<1> DEFINE e == Row(p.arrays, i)
           bigR == ScalarMulBase(Secp, e["rs"])
           prv == PrvOf(e["pubs"])
<1>1. /\ e["pubs"] = p.arrays["pubs"][i] /\ e["rs"] = p.arrays["rs"][i]
      /\ e["fis"] = p.arrays["fis"][i] /\ e["encs"] = p.arrays["encs"][i]
      /\ e["nonces"] = p.arrays["nonces"][i]
  BY NoArraysAre DEF Row
<1>2. Masked(e)
  <2>1. i \in 1 .. Len(p.arrays["pubs"])
    BY LenIs, NoArraysAre DEF WitnessInv, ProofsMasked, IsArrays
  <2> QED
    BY <2>1 DEF WitnessInv, ProofsMasked
<1> HIDE DEF e
<1>3. CTR(SharedKey(ScalarMul(Secp, prv, bigR), bigR), e["nonces"], Front(e["encs"]))
        = transformKeyShare(e["fis"])
  <2>1. SharedKey(ScalarMul(Secp, prv, bigR), bigR) = EntryKey(e)
    BY <1>2, RecipientKey DEF Masked
  <2> QED
    BY <1>2, <2>1, MaskedDecrypts
<1>4. ASSUME NEW n \in DOMAIN attempts, e["encs"] \in Range(attempts[n]["encs"])
      PROVE  ECIESDecrypt(prv, e["encs"], e["nonces"], bigR) = transformKeyShare(e["fis"])
  <2>1. PICK j \in DOMAIN attempts[n]["encs"] : e["encs"] = attempts[n]["encs"][j]
    BY <1>4 DEF Range
  <2>2. j \in 1 .. Len(attempts[n]["pubs"])
    <3>1. IsArrays(attempts[n]) /\ SameLength(attempts[n])
      BY AttemptIs DEF WitnessInv
    <3> QED
      BY <3>1, LenIs, NoArraysAre DEF IsArrays, SameLength
  <2>3. PICK c \in Nat : Sent(Row(attempts[n], j), c)
    BY <2>2, AttemptIs DEF WitnessInv
  <2>4. Row(attempts[n], j)["encs"] = e["encs"]
    BY <2>1, NoArraysAre DEF Row
  <2> QED
    BY <1>2, <2>3, <2>4, SentDecrypts
<1> QED
  BY <1>1, <1>3, <1>4

\* What PrepareEncryptedKeyShares returns can be proved: with the circuit of its batch
\* size ProveMultipleKeyShareEncryption does not panic, every constraint of the batch
\* circuit and of the circuit of one message holds, and prover and circuit hash the same.
THEOREM HonestArraysProve == Spec => []HonestProves
<1>1. Init => WitnessInv
  BY WitnessInit
<1>2. WitnessInv /\ [Next]_vars => WitnessInv'
  BY WitnessStep, Encodings
<1>3. WitnessInv => HonestProves
  BY HonestSays, Encodings
<1> QED
  BY <1>1, <1>2, <1>3, PTL DEF Spec

\* Whatever the caller has mixed up between the two calls, a proof means that every
\* recipient gets, at its place, the share that the proof commits to.
THEOREM ProofsDecrypt == Spec => []ProofDecrypts
<1>1. Init => WitnessInv
  BY WitnessInit
<1>2. WitnessInv /\ [Next]_vars => WitnessInv'
  BY WitnessStep, Encodings
<1>3. WitnessInv => ProofDecrypts
  BY MaskedSays
<1> QED
  BY <1>1, <1>2, <1>3, PTL DEF Spec

-----------------------------------------------------------------------------
(* What the hash of a batch stands for.                                    *)

\* The length of one byte, and of two.
LEMMA ShortIs ==
  ASSUME NEW a, NEW b
  PROVE  /\ IsSeq(<<a>>) /\ Len(<<a>>) = 1 /\ <<a>>[1] = a
         /\ IsSeq(<<a, b>>) /\ Len(<<a, b>>) = 2 /\ <<a, b>>[1] = a /\ <<a, b>>[2] = b
<1>1. <<a>> \in Seq({a, b}) /\ <<a, b>> \in Seq({a, b})
  OBVIOUS
<1>2. IsSeq(<<a>>) /\ IsSeq(<<a, b>>)
  BY <1>1, SeqIs
<1> QED
  BY <1>2

\* The bytes of two senders.
LEMMA SenderBinds ==
  ASSUME NEW p \in Senders, NEW q \in Senders, Byte(p) = Byte(q)
  PROVE  p = q
<1> DEFINE w == 2 ^ ByteBits
<1>1. w \in Nat \ {0}
  BY TwoTo, ConstantsAre
<1>2. p \in 0 .. w - 1 /\ q \in 0 .. w - 1
  BY KeyShareAssumption
<1>3. {<<"byte", p % w>>} = {<<"byte", q % w>>}
  BY DEF Byte
<1> HIDE DEF w
<1>4. <<"byte", p % w>> = <<"byte", q % w>>
  BY <1>3
<1>5. p % w = q % w
  BY <1>4
<1>6. ASSUME NEW x \in 0 .. w - 1 PROVE x % w = x
  BY <1>1
<1> QED
  BY <1>2, <1>5, <1>6

\* Digests, one for each message.
Digests(g) == IsSeq(g) /\ \A i \in 1 .. Len(g) : \E text : g[i] = Sha256(text)

\* The entries of a summary.
Entries(g) == [i \in DOMAIN g |-> <<Byte(i - 1), Byte(Len(g[i]))>> \o g[i]]

\* They have one length.
LEMMA EntriesEven ==
  ASSUME NEW g, Digests(g)
  PROVE  /\ Even(Entries(g), 3) /\ Len(Entries(g)) = Len(g)
         /\ \A i \in 1 .. Len(g) : Entries(g)[i] = <<Byte(i - 1), Byte(Len(g[i]))>> \o g[i]
<1> DEFINE n == Len(g)
           e == Entries(g)
<1>1. n \in Nat /\ DOMAIN g = 1 .. n
  BY LenIs DEF Digests
<1>2. /\ e = [i \in 1 .. n |-> e[i]]
      /\ \A i \in 1 .. n : e[i] = <<Byte(i - 1), Byte(Len(g[i]))>> \o g[i]
  BY <1>1 DEF Entries
<1> HIDE DEF n, e
<1>3. IsSeq(e) /\ Len(e) = n
  BY <1>1, <1>2, FunIs
<1>4. ASSUME NEW i \in 1 .. n PROVE IsSeq(e[i]) /\ Len(e[i]) = 3
  <2> DEFINE s == <<Byte(i - 1), Byte(Len(g[i]))>>
             t == g[i]
  <2>1. IsSeq(s) /\ Len(s) = 2
    BY ShortIs
  <2>2. IsSeq(t) /\ Len(t) = 1
    <3>1. PICK text : t = Sha256(text)
      BY DEF Digests, n
    <3> QED
      BY <3>1, ShortIs DEF Sha256
  <2>3. e[i] = s \o t
    BY <1>2
  <2> HIDE DEF s, t
  <2>4. IsSeq(s \o t) /\ Len(s \o t) = Len(s) + Len(t)
    BY <2>1, <2>2, JoinIs
  <2> QED
    BY <2>1, <2>2, <2>3, <2>4
<1> QED
  BY <1>2, <1>3, <1>4 DEF Even, n, e

\* The summary stands for the sender and for each hash.
LEMMA SummaryBinds ==
  ASSUME NEW p \in Senders, NEW q \in Senders, NEW g, Digests(g), NEW h, Digests(h),
         Summary(p, g) = Summary(q, h)
  PROVE  p = q /\ g = h
<1> DEFINE u == <<Byte(p), Byte(Len(g))>>
           v == <<Byte(q), Byte(Len(h))>>
           hg == hashDomain \o u
           hh == hashDomain \o v
           fg == FlattenSeq(Entries(g))
           fh == FlattenSeq(Entries(h))
<1>1. IsSeq(hashDomain) /\ IsSeq(u) /\ IsSeq(v) /\ Len(u) = Len(v)
  <2>1. IsSeq(u) /\ Len(u) = 2 /\ IsSeq(v) /\ Len(v) = 2
    BY ShortIs
  <2>2. IsSeq(hashDomain)
    BY DomainIs
  <2> QED
    BY <2>1, <2>2
<1>2. hg \o fg = hh \o fh
  BY DEF Summary, Entries
<1>3. /\ Even(Entries(g), 3) /\ Len(Entries(g)) = Len(g)
      /\ \A i \in 1 .. Len(g) : Entries(g)[i] = <<Byte(i - 1), Byte(Len(g[i]))>> \o g[i]
  BY EntriesEven
<1>4. /\ Even(Entries(h), 3) /\ Len(Entries(h)) = Len(h)
      /\ \A i \in 1 .. Len(h) : Entries(h)[i] = <<Byte(i - 1), Byte(Len(h[i]))>> \o h[i]
  BY EntriesEven
<1>5. IsSeq(fg) /\ IsSeq(fh)
  <2>1. ASSUME NEW three \in Nat, Even(Entries(g), three), Even(Entries(h), three)
        PROVE  IsSeq(fg) /\ IsSeq(fh)
    <3>1. Laid(fg, Entries(g), three) /\ Laid(fh, Entries(h), three)
      BY <2>1, FlattenIs
    <3> QED
      BY <3>1 DEF Laid
  <2> QED
    BY <1>3, <1>4, <2>1
<1> HIDE DEF u, v, fg, fh
<1>6. IsSeq(hg) /\ IsSeq(hh) /\ Len(hg) = Len(hh)
  <2>1. IsSeq(hg) /\ Len(hg) = Len(hashDomain) + Len(u)
    BY <1>1, JoinIs
  <2>2. IsSeq(hh) /\ Len(hh) = Len(hashDomain) + Len(v)
    BY <1>1, JoinIs
  <2> QED
    BY <1>1, <2>1, <2>2
<1> HIDE DEF hg, hh
<1>7. hg = hh /\ fg = fh
  <2> DEFINE a == hg \o fg
  <2>1. a = hg \o fg /\ a = hh \o fh
    BY <1>2
  <2> HIDE DEF a
  <2> QED
    BY <1>5, <1>6, <2>1, JoinBinds
<1>8. p = q
  <2>1. hg = hashDomain \o u /\ hg = hashDomain \o v
    BY <1>7 DEF hg, hh
  <2>2. u = v
    BY <1>1, <2>1, JoinRest
  <2>3. u[1] = Byte(p) /\ v[1] = Byte(q)
    BY ShortIs DEF u, v
  <2> QED
    BY <2>2, <2>3, SenderBinds
<1>9. Entries(g) = Entries(h)
  <2>1. ASSUME NEW three \in Nat \ {0}, Even(Entries(g), three), Even(Entries(h), three)
        PROVE  Entries(g) = Entries(h)
    <3> DEFINE a == fg
    <3>1. a = FlattenSeq(Entries(g)) /\ a = FlattenSeq(Entries(h))
      BY <1>7 DEF fg, fh
    <3> HIDE DEF a
    <3> QED
      BY <2>1, <3>1, FlattenBinds
  <2> QED
    BY <1>3, <1>4, <2>1
<1>10. g = h
  <2>1. Len(g) = Len(h) /\ IsSeq(g) /\ IsSeq(h)
    BY <1>3, <1>4, <1>9 DEF Digests
  <2>2. Len(g) \in Nat /\ DOMAIN g = 1 .. Len(g) /\ DOMAIN h = 1 .. Len(g)
    BY <2>1, LenIs
  <2>3. ASSUME NEW i \in 1 .. Len(g) PROVE g[i] = h[i]
    <3>1. PICK x : g[i] = Sha256(x)
      BY DEF Digests
    <3>2. PICK y : h[i] = Sha256(y)
      BY <2>1 DEF Digests
    <3>3. /\ IsSeq(g[i]) /\ Len(g[i]) = 1
          /\ IsSeq(h[i]) /\ Len(h[i]) = 1
      BY <3>1, <3>2, ShortIs DEF Sha256
    <3> DEFINE s == <<Byte(i - 1), Byte(Len(g[i]))>>
               t == <<Byte(i - 1), Byte(Len(h[i]))>>
               a == Entries(g)[i]
               b == g[i]
               c == h[i]
    <3>4. a = s \o b /\ a = s \o c
      <4>1. a = s \o b /\ a = t \o c
        BY <1>3, <1>4, <1>9, <2>1
      <4>2. s = t
        BY <3>3
      <4> QED
        BY <4>1, <4>2
    <3>5. IsSeq(s) /\ IsSeq(b) /\ IsSeq(c)
      BY <3>3, ShortIs
    <3> HIDE DEF s, a, b, c
    <3>6. b = c
      BY <3>4, <3>5, JoinRest
    <3> QED
      BY <3>6 DEF b, c
  <2>4. g = [i \in DOMAIN g |-> g[i]]
    BY <2>1, LenProperties DEF IsSeq
  <2> QED
    BY <2>1, <2>2, <2>3, <2>4, SameSeq
<1> QED
  BY <1>8, <1>10

\* The hash of each message of a batch.
Hashes(a) == [i \in 1 .. Len(a["pubs"]) |-> InnerHash(Row(a, i))]

\* What a statement is: its hash is made of its sender and its arrays.
Said(s) ==
  /\ s = [SumHash |-> s.SumHash, sender |-> s.sender, arrays |-> s.arrays]
  /\ s.sender \in Senders
  /\ IsArrays(s.arrays) /\ SameLength(s.arrays)
  /\ \A i \in 1 .. Len(s.arrays["pubs"]) : Whole(Row(s.arrays, i))
  /\ s.SumHash = Sha256(Summary(s.sender, Hashes(s.arrays)))

\* Every statement is one, and so is the next.
StatementsOK ==
  /\ \A s \in statements : Said(s)
  /\ pc \in {"assign", "solve"} => input.sender \in Senders

SaidInv == WitnessInv /\ StatementsOK

\* One for each message.
LEMMA HashesAre ==
  ASSUME NEW a, IsArrays(a)
  PROVE  /\ Digests(Hashes(a)) /\ Len(Hashes(a)) = Len(a["pubs"])
         /\ \A i \in 1 .. Len(a["pubs"]) : Hashes(a)[i] = InnerHash(Row(a, i))
<1> DEFINE n == Len(a["pubs"])
           h == Hashes(a)
<1>1. n \in Nat
  BY LenIs, NoArraysAre DEF IsArrays
<1>2. h = [i \in 1 .. n |-> h[i]] /\ \A i \in 1 .. n : h[i] = InnerHash(Row(a, i))
  BY DEF Hashes
<1> HIDE DEF n, h
<1>3. IsSeq(h) /\ Len(h) = n
  BY <1>1, <1>2, FunIs
<1>4. \A i \in 1 .. n : \E text : h[i] = Sha256(text)
  BY <1>2 DEF InnerHash, computeSumHash
<1>5. Digests(h)
  BY <1>3, <1>4 DEF Digests
<1> QED
  BY <1>2, <1>3, <1>5 DEF n, h

\* Two statements with one hash are one.
LEMMA SaidBinds ==
  ASSUME NEW s, Said(s), NEW t, Said(t), s.SumHash = t.SumHash
  PROVE  s = t
<1> DEFINE a == s.arrays
           b == t.arrays
           n == Len(a["pubs"])
<1>1. IsArrays(a) /\ SameLength(a) /\ IsArrays(b) /\ SameLength(b)
  BY DEF Said
<1>2. s.sender = t.sender /\ Hashes(a) = Hashes(b)
  <2>1. Summary(s.sender, Hashes(a)) = Summary(t.sender, Hashes(b))
    <3>1. Sha256(Summary(s.sender, Hashes(a))) = Sha256(Summary(t.sender, Hashes(b)))
      BY DEF Said
    <3> QED
      BY <3>1, Sha256Binds
  <2>2. Digests(Hashes(a)) /\ Digests(Hashes(b))
    BY <1>1, HashesAre
  <2>3. s.sender \in Senders /\ t.sender \in Senders
    BY DEF Said
  <2> QED
    BY <2>1, <2>2, <2>3, SummaryBinds
<1>3. /\ \A i \in 1 .. n : Whole(Row(a, i))
      /\ \A i \in 1 .. Len(b["pubs"]) : Whole(Row(b, i))
  BY DEF Said
<1> HIDE DEF a, b
<1>4. /\ Len(b["pubs"]) = n /\ n \in Nat
      /\ \A i \in 1 .. n : InnerHash(Row(a, i)) = InnerHash(Row(b, i))
  <2>1. /\ Len(Hashes(a)) = n /\ \A i \in 1 .. n : Hashes(a)[i] = InnerHash(Row(a, i))
    BY <1>1, HashesAre
  <2>2. /\ Len(Hashes(b)) = Len(b["pubs"])
        /\ \A i \in 1 .. Len(b["pubs"]) : Hashes(b)[i] = InnerHash(Row(b, i))
    BY <1>1, HashesAre
  <2>3. n \in Nat
    BY <1>1, LenIs, NoArraysAre DEF IsArrays
  <2> QED
    BY <1>2, <2>1, <2>2, <2>3
<1>5. ASSUME NEW f \in Arrays PROVE a[f] = b[f]
  <2> DEFINE x == a[f]
             y == b[f]
  <2>1. IsSeq(x) /\ IsSeq(y) /\ Len(x) = n /\ Len(y) = n
    BY <1>1, <1>4 DEF IsArrays, SameLength
  <2>2. ASSUME NEW i \in 1 .. n PROVE x[i] = y[i]
    <3>1. Whole(Row(a, i)) /\ Whole(Row(b, i)) /\ InnerHash(Row(a, i)) = InnerHash(Row(b, i))
      BY <1>3, <1>4
    <3>2. Row(a, i)[f] = Row(b, i)[f]
      BY <3>1, InnerHashBinds
    <3> QED
      BY <3>2 DEF Row
  <2> HIDE DEF x, y
  <2>3. DOMAIN x = 1 .. n /\ DOMAIN y = 1 .. n
    BY <2>1, LenIs
  <2>4. x = [i \in DOMAIN x |-> x[i]]
    BY <2>1, LenProperties DEF IsSeq
  <2>5. x = y
    BY <2>1, <2>2, <2>3, <2>4, SameSeq
  <2> QED
    BY <2>5 DEF x, y
<1>6. a = b
  <2>1. a = [f \in Arrays |-> a[f]] /\ b = [f \in Arrays |-> b[f]]
    BY <1>1 DEF IsArrays
  <2> QED
    BY <1>5, <2>1
<1>7. /\ s = [SumHash |-> s.SumHash, sender |-> s.sender, arrays |-> s.arrays]
      /\ t = [SumHash |-> t.SumHash, sender |-> t.sender, arrays |-> t.arrays]
  BY DEF Said
<1> QED
  BY <1>2, <1>6, <1>7 DEF a, b

\* A complete witness makes a statement.
LEMMA SolveSays ==
  ASSUME SaidInv, pc = "solve", Complete(made.assignment, input.batch)
  PROVE  Said(Statement)
<1> DEFINE a == input.arrays
           n == Len(a["pubs"])
<1>1. /\ LooseArrays(a) /\ SameLength(a) /\ IsArrays(a)
      /\ IsSeq(made.params) /\ Len(made.params) = n
      /\ IsSeq(made.hashes) /\ Len(made.hashes) = n
      /\ \A i \in 1 .. n : Placed(i)
      /\ made.assignment = [Sender |-> <<Byte(input.sender)>>, Parameters |-> made.params,
                            SumHash |-> Sha256(Summary(input.sender, made.hashes))]
      /\ input.sender \in Senders
  BY DEF SaidInv, StatementsOK, WitnessInv, WitnessOK, TypeInv, TypeOK, InCall
<1>2. \A i : At(i) = Row(a, i)
  BY DEF Row, At
<1>3. ASSUME NEW i \in 1 .. n PROVE Whole(Row(a, i)) /\ made.hashes[i] = InnerHash(Row(a, i))
  <2> DEFINE e == Row(a, i)
  <2>1. Placed(i) /\ i \in DOMAIN made.params /\ e = At(i)
    BY <1>1, <1>2, LenIs
  <2>2. ~Missing(e) /\ Drawn(e) /\ Len(e["nonces"]) <= NonceBytes /\ made.params[i] = Parameters(e)
    <3>1. ~Missing(e) /\ Len(e["nonces"]) <= NonceBytes /\ made.params[i] = Parameters(e)
      BY <2>1 DEF Placed
    <3> QED
      BY <1>1, <3>1, PlacedDrawn
  <2>3. /\ Len(Parameters(e).CipherChunks) = SealedBytes
        /\ \A k \in 1 .. NonceBytes : Parameters(e).Iv[k] # NilByte
    BY <1>1, <2>1, <2>2 DEF Complete
  <2>4. Whole(e)
    BY <2>2, <2>3, CompleteWhole
  <2> QED
    BY <2>1, <2>4 DEF Placed
<1>4. made.hashes = Hashes(a)
  <2> DEFINE x == made.hashes
             y == Hashes(a)
  <2>1. IsSeq(y) /\ Len(y) = n /\ \A i \in 1 .. n : y[i] = InnerHash(Row(a, i))
    BY <1>1, HashesAre DEF Digests
  <2>2. IsSeq(x) /\ Len(x) = n /\ \A i \in 1 .. n : x[i] = y[i]
    BY <1>1, <1>3, <2>1
  <2> HIDE DEF x, y
  <2>3. DOMAIN x = 1 .. n /\ DOMAIN y = 1 .. n
    BY <2>1, <2>2, LenIs
  <2>4. x = [i \in DOMAIN x |-> x[i]]
    BY <2>2, LenProperties DEF IsSeq
  <2>5. x = y
    BY <2>1, <2>2, <2>3, <2>4, SameSeq
  <2> QED
    BY <2>5 DEF x, y
<1>5. made.assignment.SumHash = Sha256(Summary(input.sender, Hashes(a)))
  BY <1>1, <1>4
<1> QED
  BY <1>1, <1>3, <1>5 DEF Said, Statement

LEMMA SaidInit == Init => SaidInv
BY WitnessInit DEF Init, SaidInv, StatementsOK

LEMMA SaidStep == SaidInv /\ [Next]_vars => SaidInv'
<1> SUFFICES ASSUME SaidInv, [Next]_vars PROVE SaidInv'
  OBVIOUS
<1>1. WitnessInv'
  BY WitnessStep, Encodings DEF SaidInv
<1>2. ASSUME UNCHANGED statements, pc' \notin {"assign", "solve"} PROVE StatementsOK'
  BY <1>2 DEF SaidInv, StatementsOK
<1>3. ASSUME UNCHANGED statements, pc \in {"assign", "solve"}, UNCHANGED input PROVE StatementsOK'
  BY <1>3 DEF SaidInv, StatementsOK
<1>4. CASE Prepare \/ EncryptNext \/ EncryptFail \/ EncryptDone \/ Restart
  <2>1. UNCHANGED statements /\ pc' \notin {"assign", "solve"}
    BY <1>4 DEF Prepare, EncryptNext, EncryptFail, EncryptDone, Restart, Leave
  <2> QED
    BY <1>1, <1>2, <2>1 DEF SaidInv
<1>5. CASE Prove
  <2>1. UNCHANGED statements
    BY <1>5 DEF Prove
  <2>2. pc' = "idle" \/ input'.sender \in Senders
    BY <1>5 DEF Prove, Leave
  <2> QED
    BY <1>1, <1>2, <2>1, <2>2 DEF SaidInv, StatementsOK
<1>6. CASE AssignNext
  <2>1. UNCHANGED statements /\ pc = "assign" /\ (pc' \in {"idle", "panicked"} \/ UNCHANGED input)
    BY <1>6 DEF AssignNext, Leave
  <2> QED
    BY <1>1, <1>2, <1>3, <2>1 DEF SaidInv
<1>7. CASE AssignDone
  <2>1. UNCHANGED <<statements, input>> /\ pc = "assign"
    BY <1>7 DEF AssignDone
  <2> QED
    BY <1>1, <1>3, <2>1 DEF SaidInv
<1>8. CASE Solve
  <2>1. pc = "solve" /\ pc' = "idle"
    BY <1>8 DEF Solve, Leave
  <2>2. ASSUME NEW s \in statements' PROVE Said(s)
    <3>1. CASE s \in statements
      BY <3>1 DEF SaidInv, StatementsOK
    <3>2. CASE s \notin statements
      <4>1. Complete(made.assignment, input.batch) /\ s = Statement
        BY <1>8, <2>2, <3>2 DEF Solve
      <4> QED
        BY <2>1, <4>1, SolveSays
    <3> QED
      BY <3>1, <3>2
  <2>3. StatementsOK'
    BY <2>1, <2>2 DEF StatementsOK
  <2> QED
    BY <1>1, <2>3 DEF SaidInv
<1>9. CASE UNCHANGED vars
  BY <1>1, <1>9 DEF vars, SaidInv, StatementsOK
<1> QED
  BY <1>4, <1>5, <1>6, <1>7, <1>8, <1>9 DEF Next, Terminated

\* The one public input of the circuit stands for everything: two complete witnesses
\* with the same SumHash are of the same sender and the same arrays, whatever the sizes
\* of bytes and batches.
THEOREM SumHashesBind == Spec => []SumHashBinds
<1>1. Init => SaidInv
  BY SaidInit
<1>2. SaidInv /\ [Next]_vars => SaidInv'
  BY SaidStep
<1>3. SaidInv => SumHashBinds
  BY SaidBinds DEF SaidInv, StatementsOK, SumHashBinds
<1> QED
  BY <1>1, <1>2, <1>3, PTL DEF Spec
=============================================================================
