--------------------------- MODULE KeyShareLemmas ---------------------------
(***************************************************************************)
(* The operators that KeyShare is built from, for any curves, keys and     *)
(* shares: numbers modulo the order of a curve, bytes, what is masked and  *)
(* unmasked, when one entry satisfies the circuit, that the circuit's bits *)
(* and the prover's bytes are the same, and that what is hashed can be     *)
(* taken apart again.                                                      *)
(***************************************************************************)
EXTENDS KeyShare, SequenceLemmas

-----------------------------------------------------------------------------
(* Numbers.                                                                *)

\* A remainder does not see whole multiples of the modulus.
LEMMA ModPlus ==
  ASSUME NEW o \in Nat \ {0}, NEW k \in Nat, NEW x \in Nat
  PROVE  (o * k + x) % o = x % o
<1> DEFINE q == x \div o
           m == x % o
<1>1. q \in Nat /\ m \in 0 .. o - 1 /\ x = o * q + m
  OBVIOUS
<1> HIDE DEF q, m
<1>2. o * k + x = o * (k + q) + m /\ k + q \in Nat
  BY <1>1
<1>3. (o * (k + q) + m) % o = m
  BY <1>1, <1>2
<1> QED
  BY <1>2, <1>3 DEF m

\* It does not matter whether a factor is reduced before.
LEMMA ModTimes ==
  ASSUME NEW o \in Nat \ {0}, NEW r \in Nat, NEW p \in Nat
  PROVE  (r * (p % o)) % o = (r * p) % o
<1> DEFINE q == p \div o
           m == p % o
<1>1. q \in Nat /\ m \in Nat /\ p = o * q + m
  OBVIOUS
<1> HIDE DEF q, m
<1>2. r * p = o * (r * q) + r * m /\ r * q \in Nat /\ r * m \in Nat
  BY <1>1
<1>3. (o * (r * q) + r * m) % o = (r * m) % o
  BY <1>2, ModPlus
<1> QED
  BY <1>2, <1>3 DEF m

\* Place j of block e, and the way back; the blocks fill n * b places.
LEMMA BlockPlace ==
  ASSUME NEW b \in Nat \ {0}, NEW n \in Nat
  PROVE  /\ \A e \in 0 .. n - 1, j \in 1 .. b :
              /\ e * b + j \in 1 .. n * b
              /\ (e * b + j - 1) \div b = e /\ ((e * b + j - 1) % b) = j - 1
         /\ \A i \in 1 .. n * b :
              /\ (i - 1) \div b \in 0 .. n - 1 /\ 1 + ((i - 1) % b) \in 1 .. b
              /\ i = ((i - 1) \div b) * b + (1 + ((i - 1) % b))
<1>1. ASSUME NEW e \in 0 .. n - 1, NEW j \in 1 .. b
      PROVE  /\ e * b + j \in 1 .. n * b
             /\ (e * b + j - 1) \div b = e /\ ((e * b + j - 1) % b) = j - 1
  <2>1. e * b \in Nat /\ (e + 1) * b = e * b + b
    OBVIOUS
  <2>2. (e + 1) * b <= n * b
    OBVIOUS
  <2>3. e * b + j \in 1 .. n * b
    BY <2>1, <2>2
  <2> QED
    BY <2>3
<1>2. ASSUME NEW i \in 1 .. n * b
      PROVE  /\ (i - 1) \div b \in 0 .. n - 1 /\ 1 + ((i - 1) % b) \in 1 .. b
             /\ i = ((i - 1) \div b) * b + (1 + ((i - 1) % b))
  <2> DEFINE q == (i - 1) \div b
             m == (i - 1) % b
  <2>0. i - 1 \in Nat /\ i - 1 < n * b
    OBVIOUS
  <2>1. q \in Nat /\ m \in 0 .. b - 1 /\ i - 1 = b * q + m
    BY <2>0
  <2> HIDE DEF q, m
  <2>2. q <= n - 1
    <3>1. SUFFICES ASSUME q >= n PROVE FALSE
      BY <2>1
    <3>2. b * q >= n * b
      BY <2>1, <3>1
    <3> QED
      BY <2>0, <2>1, <3>2
  <2>3. i = q * b + (1 + m) /\ q \in 0 .. n - 1 /\ 1 + m \in 1 .. b
    BY <2>1, <2>2
  <2> QED
    BY <2>3 DEF q, m
<1> QED
  BY <1>1, <1>2

-----------------------------------------------------------------------------
(* Bytes and messages.                                                     *)

\* Masked twice, a byte is itself.
LEMMA XorTwice == \A a, b : XorBytes(XorBytes(a, b), b) = a /\ XorBytes(a, b) = XorBytes(b, a)
BY DEF XorBytes

\* A number fills the bytes it is given.
LEMMA FillIs ==
  ASSUME NEW n, NEW length \in Nat
  PROVE  IsSeq(FillBytes(n, length)) /\ Len(FillBytes(n, length)) = length
<1>1. FillBytes(n, length) = [i \in 1 .. length |-> FillBytes(n, length)[i]]
  BY DEF FillBytes
<1> QED
  BY <1>1, FunIs

\* Two sequences of one length, followed by the same.
LEMMA JoinSame ==
  ASSUME NEW s, IsSeq(s), NEW t, IsSeq(t), Len(s) = Len(t), NEW u, IsSeq(u), NEW v, IsSeq(v),
         s \o u = t \o v
  PROVE  s = t
<1>1. \A i \in 1 .. Len(s) : s[i] = t[i]
  BY JoinIs
<1>2. DOMAIN s = 1 .. Len(s) /\ DOMAIN t = 1 .. Len(t)
  BY LenIs
<1>3. t = [i \in DOMAIN t |-> t[i]]
  BY DEF IsSeq
<1> QED
  BY <1>1, <1>2, <1>3, SameSeq

\* All but the last.
LEMMA FrontIs ==
  ASSUME NEW s, IsSeq(s), s # <<>>
  PROVE  /\ IsSeq(Front(s)) /\ Len(Front(s)) = Len(s) - 1
         /\ \A i \in 1 .. Len(s) - 1 : Front(s)[i] = s[i]
<1>1. Len(s) \in Nat /\ Len(s) >= 1 /\ s \in Seq(Elems(s))
  BY LenIs DEF IsSeq
<1> DEFINE n == Len(s) - 1
<1>2. 1 \in 1 .. n + 1 /\ n \in 1 - 1 .. Len(s) /\ n \in Nat
  BY <1>1
<1>3. Front(s) = SubSeq(s, 1, n)
  BY DEF Front
<1> HIDE DEF n
<1>4. /\ SubSeq(s, 1, n) \in Seq(Elems(s)) /\ Len(SubSeq(s, 1, n)) = n
      /\ \A i \in 1 .. n : SubSeq(s, 1, n)[i] = s[i]
  BY <1>1, <1>2, SubSeqProperties
<1> QED
  BY <1>3, <1>4, SeqIs DEF n

\* The last element is dropped again.
LEMMA FrontJoin ==
  ASSUME NEW s, IsSeq(s), NEW e
  PROVE  Front(s \o <<e>>) = s /\ IsSeq(s \o <<e>>) /\ Len(s \o <<e>>) = Len(s) + 1
<1>1. IsSeq(<<e>>) /\ Len(<<e>>) = 1
  <2>1. <<e>> \in Seq({e}) /\ Len(<<e>>) = 1
    OBVIOUS
  <2> QED
    BY <2>1, SeqIs
<1>2. Len(s) \in Nat /\ DOMAIN s = 1 .. Len(s)
  BY LenIs
<1> DEFINE t == s \o <<e>>
<1>3. IsSeq(t) /\ Len(t) = Len(s) + 1 /\ \A i \in 1 .. Len(s) : t[i] = s[i]
  BY <1>1, JoinIs
<1>4. t # <<>>
  BY <1>2, <1>3, EmptyIs
<1> HIDE DEF t
<1>5. IsSeq(Front(t)) /\ Len(Front(t)) = Len(s) /\ \A i \in 1 .. Len(s) : Front(t)[i] = s[i]
  BY <1>2, <1>3, <1>4, FrontIs
<1>6. DOMAIN Front(t) = 1 .. Len(s) /\ Front(t) = [i \in DOMAIN Front(t) |-> Front(t)[i]]
  BY <1>5, LenIs DEF IsSeq
<1> QED
  BY <1>2, <1>3, <1>5, <1>6, SameSeq DEF t

\* Masked data has the places of the data.
LEMMA CTRIs ==
  ASSUME NEW key, NEW nonce, NEW data, IsSeq(data)
  PROVE  /\ IsSeq(CTR(key, nonce, data)) /\ Len(CTR(key, nonce, data)) = Len(data)
         /\ \A i \in 1 .. Len(data) :
              CTR(key, nonce, data)[i] = XorBytes(data[i], KeyStream(key, nonce, i))
<1>1. Len(data) \in Nat /\ DOMAIN data = 1 .. Len(data)
  BY LenIs
<1> DEFINE masked == CTR(key, nonce, data)
<1>2. masked = [i \in 1 .. Len(data) |-> XorBytes(data[i], KeyStream(key, nonce, i))]
  BY <1>1 DEF CTR
<1>3. masked = [i \in 1 .. Len(data) |-> masked[i]]
  BY <1>2
<1>4. IsSeq(masked) /\ Len(masked) = Len(data)
  <2> HIDE DEF masked
  <2> QED
    BY <1>1, <1>3, FunIs
<1> QED
  BY <1>2, <1>4

\* What the assumptions say of the lengths.
LEMMA ConstantsAre ==
  /\ {ByteBits, NonceBytes, CounterBytes, ShareBytes, BlockBytes, Secp.size} \subseteq Nat \ {0}
  /\ Secp.order \in Nat \ {0, 1}
  /\ ShareBytes \div BlockBytes \in Nat
  /\ ShareBytes = (ShareBytes \div BlockBytes) * BlockBytes
<1>1. /\ {ByteBits, NonceBytes, CounterBytes, ShareBytes, BlockBytes, Secp.size} \subseteq Nat \ {0}
      /\ Secp.order \in Nat \ {0, 1} /\ ShareBytes % BlockBytes = 0
  BY ECIESAssumption DEF BlockBytes
<1>2. ASSUME NEW a \in Nat, NEW b \in Nat \ {0}, a % b = 0
      PROVE  a \div b \in Nat /\ a = (a \div b) * b
  BY <1>2
<1> QED
  BY <1>1, <1>2

\* Byte j of block e of the keystream.
LEMMA KeyStreamIs ==
  ASSUME NEW key, NEW nonce, NEW e \in 0 .. (ShareBytes \div BlockBytes) - 1,
         NEW j \in 1 .. BlockBytes
  PROVE  KeyStream(key, nonce, e * BlockBytes + j)
           = AESBlock(key, nonce \o FillBytes(ChunkIndex + e, CounterBytes))[j]
<1> DEFINE i == e * BlockBytes + j
<1>0. BlockBytes \in Nat \ {0} /\ ShareBytes \div BlockBytes \in Nat
  BY ConstantsAre
<1>1. (i - 1) \div BlockBytes = e /\ ((i - 1) % BlockBytes) = j - 1
  BY <1>0, BlockPlace
<1>2. 1 + (j - 1) = j
  OBVIOUS
<1> HIDE DEF i
<1>3. KeyStream(key, nonce, i)
        = AESBlock(key, nonce \o FillBytes(2 + e, CounterBytes))[1 + (j - 1)]
  BY <1>1 DEF KeyStream
<1> QED
  BY <1>2, <1>3 DEF i, ChunkIndex

\* The circuit's counter block is crypto/cipher's.
LEMMA IVIs ==
  ASSUME BitsAgree, NEW nonce, IsSeq(nonce), NEW c \in ChunkIndex .. ChunkIndex + ShareBytes
  PROVE  GetIV(nonce, c) = nonce \o FillBytes(c, CounterBytes)
<1> DEFINE bits == ToBinary(c, ByteBits * CounterBytes)
           bytes == [k \in 1 .. CounterBytes |-> ChunkByte(bits, CounterBytes - k)]
<1>1. GetIV(<<>>, c) = <<>> \o bytes /\ GetIV(nonce, c) = nonce \o bytes
  BY DEF GetIV
<1>2. bytes = [k \in 1 .. CounterBytes |-> bytes[k]] /\ CounterBytes \in Nat
  BY ConstantsAre
<1> HIDE DEF bytes
<1>3. IsSeq(bytes) /\ DOMAIN bytes = 1 .. Len(bytes) /\ Len(bytes) \in Nat
  BY <1>2, FunIs, LenIs
<1> DEFINE joined == <<>> \o bytes
<1>4. /\ IsSeq(joined) /\ Len(joined) = Len(bytes)
      /\ \A i \in 1 .. Len(bytes) : joined[i] = bytes[i]
  BY <1>3, EmptyIs, JoinIs
<1> HIDE DEF joined
<1>5. DOMAIN joined = DOMAIN bytes /\ joined = [i \in DOMAIN joined |-> joined[i]]
  BY <1>3, <1>4, LenIs DEF IsSeq
<1>6. joined = bytes
  BY <1>3, <1>4, <1>5, SameSeq
<1>7. GetIV(<<>>, c) = FillBytes(c, CounterBytes)
  BY DEF BitsAgree
<1> QED
  BY <1>1, <1>6, <1>7 DEF joined

\* GCM256.Assert holds of a message iff it is masked with the keystream.
LEMMA GCMIs ==
  ASSUME BitsAgree, NEW key, NEW nonce, IsSeq(nonce), NEW plain, Len(plain) = ShareBytes,
         NEW cipher
  PROVE  GCMAssert(key, nonce, ChunkIndex, plain, cipher)
           <=> \A i \in 1 .. ShareBytes : cipher[i] = XorBytes(KeyStream(key, nonce, i), plain[i])
<1> DEFINE b == BlockBytes
           n == ShareBytes \div BlockBytes
           At2(e, j) == cipher[e * b + j] = XorBytes(KeyStream(key, nonce, e * b + j), plain[e * b + j])
<1>1. ShareBytes = n * b /\ n \in Nat /\ b \in Nat \ {0} /\ ShareBytes \in Nat
  BY ConstantsAre
<1>2. ASSUME NEW e \in 0 .. n - 1, NEW j \in 1 .. b
      PROVE  AESBlock(key, GetIV(nonce, ChunkIndex + e))[j] = KeyStream(key, nonce, e * b + j)
  <2>1. n <= ShareBytes
    BY <1>1
  <2>2. ChunkIndex + e \in ChunkIndex .. ChunkIndex + ShareBytes
    BY <1>1, <2>1 DEF ChunkIndex
  <2>3. GetIV(nonce, ChunkIndex + e) = nonce \o FillBytes(ChunkIndex + e, CounterBytes)
    BY <2>2, IVIs
  <2>4. KeyStream(key, nonce, e * b + j)
          = AESBlock(key, nonce \o FillBytes(ChunkIndex + e, CounterBytes))[j]
    BY KeyStreamIs
  <2> QED
    BY <2>3, <2>4
<1>3. GCMAssert(key, nonce, ChunkIndex, plain, cipher)
        <=> \A e \in 0 .. n - 1 : \A j \in 1 .. b : At2(e, j)
  BY <1>2 DEF GCMAssert
<1>4. ASSUME \A e \in 0 .. n - 1 : \A j \in 1 .. b : At2(e, j), NEW i \in 1 .. ShareBytes
      PROVE  cipher[i] = XorBytes(KeyStream(key, nonce, i), plain[i])
  <2> DEFINE e == (i - 1) \div b
             j == 1 + ((i - 1) % b)
  <2>1. e \in 0 .. n - 1 /\ j \in 1 .. b /\ i = e * b + j
    BY <1>1, BlockPlace
  <2> HIDE DEF e, j
  <2>2. At2(e, j)
    BY <1>4, <2>1
  <2> QED
    BY <2>1, <2>2
<1>5. ASSUME \A i \in 1 .. ShareBytes : cipher[i] = XorBytes(KeyStream(key, nonce, i), plain[i]),
             NEW e \in 0 .. n - 1, NEW j \in 1 .. b
      PROVE  At2(e, j)
  <2>1. e * b + j \in 1 .. ShareBytes
    BY <1>1, BlockPlace
  <2> QED
    BY <1>5, <2>1
<1> QED
  BY <1>3, <1>4, <1>5

\* What Seal makes of a share.
LEMMA SealIs ==
  ASSUME NEW key, NEW nonce, NEW plain, IsSeq(plain)
  PROVE  LET sealed == Seal(key, nonce, plain)
             body == CTR(key, nonce, plain)
         IN /\ IsSeq(sealed) /\ Len(sealed) = Len(plain) + 1
            /\ Front(sealed) = body /\ sealed = body \o Tag(key, nonce, body)
            /\ \A i \in 1 .. Len(plain) : sealed[i] = XorBytes(KeyStream(key, nonce, i), plain[i])
<1> DEFINE body == CTR(key, nonce, plain)
           tag == {<<"tag", key, nonce, body>>}
           sealed == body \o <<tag>>
<1>1. Seal(key, nonce, plain) = sealed /\ sealed = body \o Tag(key, nonce, body)
  BY DEF Seal, Tag
<1>2. /\ IsSeq(body) /\ Len(body) = Len(plain)
      /\ \A i \in 1 .. Len(plain) : body[i] = XorBytes(KeyStream(key, nonce, i), plain[i])
  BY CTRIs, XorTwice
<1> HIDE DEF body
<1>3. IsSeq(<<tag>>)
  <2>1. <<tag>> \in Seq({tag})
    OBVIOUS
  <2> QED
    BY <2>1, SeqIs
<1> HIDE DEF tag
<1>4. Front(sealed) = body /\ IsSeq(sealed) /\ Len(sealed) = Len(body) + 1
  BY <1>2, FrontJoin
<1>5. \A i \in 1 .. Len(body) : sealed[i] = body[i]
  BY <1>2, <1>3, JoinIs
<1> QED
  BY <1>1, <1>2, <1>4, <1>5 DEF body

-----------------------------------------------------------------------------
(* The entries of the arrays.                                              *)

\* The AES key of an entry.
EntryKey(e) == SharedKey(ScalarMul(Secp, e["rs"], e["pubs"]), ScalarMulBase(Secp, e["rs"]))

\* A key, a secret and a share that there are, and a message and a nonce.
Drawn(e) ==
  /\ e["pubs"] \in Points /\ e["rs"] \in Secrets /\ e["fis"] \in Elems(Shares)
  /\ IsSeq(e["encs"]) /\ IsSeq(e["nonces"])

\* What ECIESEncrypt returned when it had the counter c.
Sent(e, c) ==
  LET sent == ECIESEncrypt(e["pubs"], transformKeyShare(e["fis"]), e["rs"], c) IN
  /\ e["pubs"] \in Points /\ e["rs"] \in Secrets /\ e["fis"] \in Elems(Shares)
  /\ e["encs"] = sent.ciphertext /\ e["nonces"] = sent.nonce

\* The body of the message is the share, masked with the keystream.
Masked(e) ==
  /\ Drawn(e)
  /\ Len(e["encs"]) = ShareBytes + 1
  /\ Len(e["nonces"]) = NonceBytes /\ \A k \in 1 .. NonceBytes : e["nonces"][k] # NilByte
  /\ \A i \in 1 .. ShareBytes :
       e["encs"][i] = XorBytes(KeyStream(EntryKey(e), e["nonces"], i), transformKeyShare(e["fis"])[i])

\* The private key that ProofDecrypts takes for a public one.
PrvOf(pub) == CHOOSE k \in 1 .. Secp.order - 1 : ScalarMulBase(Secp, k) = pub

\* Every point has its private key, and every product is a point.
LEMMA PointIs ==
  ASSUME NEW p \in Points
  PROVE  /\ p \in 1 .. Secp.order - 1 /\ p # Nil
         /\ PrvOf(p) \in 1 .. Secp.order - 1 /\ ScalarMulBase(Secp, PrvOf(p)) = p
         /\ \A r \in Secrets : /\ r \in 1 .. Secp.order - 1 /\ r # Nil
                               /\ ScalarMulBase(Secp, r) \in 0 .. Secp.order - 1
                               /\ ScalarMul(Secp, r, p) \in 0 .. Secp.order - 1
<1>1. PICK i \in Recipients : p = ScalarMulBase(Secp, Prv[i])
  BY DEF Points
<1>2. Secp.order \in Nat \ {0} /\ Prv[i] \in 1 .. Secp.order - 1
  BY ConstantsAre, KeyShareAssumption
<1>3. ASSUME NEW k \in 1 .. Secp.order - 1 PROVE k % Secp.order = k
  BY <1>2
<1>4. p = Prv[i]
  BY <1>1, <1>2, <1>3 DEF ScalarMulBase
<1>5. PrvOf(p) \in 1 .. Secp.order - 1 /\ ScalarMulBase(Secp, PrvOf(p)) = p
  BY <1>1, <1>2 DEF PrvOf
<1>6. ASSUME NEW r \in Secrets
      PROVE  /\ r \in 1 .. Secp.order - 1 /\ r # Nil
             /\ ScalarMulBase(Secp, r) \in 0 .. Secp.order - 1
             /\ ScalarMul(Secp, r, p) \in 0 .. Secp.order - 1
  <2>1. r \in 1 .. Secp.order - 1
    BY KeyShareAssumption
  <2>2. r * p \in Nat
    BY <1>2, <1>4, <2>1
  <2>3. ASSUME NEW n \in Nat PROVE n % Secp.order \in 0 .. Secp.order - 1
    BY <1>2
  <2> QED
    BY <1>2, <2>1, <2>2, <2>3 DEF Nil, ScalarMul, ScalarMulBase
<1> QED
  BY <1>2, <1>4, <1>5, <1>6 DEF Nil

\* A share, its bytes.
LEMMA ShareIs ==
  ASSUME NEW f \in Elems(Shares)
  PROVE  f # Nil /\ IsSeq(transformKeyShare(f)) /\ Len(transformKeyShare(f)) = ShareBytes
<1>1. PICK i \in DOMAIN Shares : f = Shares[i]
  BY DEF Elems
<1>2. i \in Recipients
  BY KeyShareAssumption, LenIs DEF Recipients
<1>3. f # Nil
  <2>1. Shares[i] \in 1 .. Bls.order - 1
    BY <1>2, KeyShareAssumption
  <2> QED
    BY <1>1, <2>1 DEF Nil
<1> QED
  BY <1>3, ConstantsAre, FillIs DEF transformKeyShare

\* What was sent is masked.
LEMMA SentMasked ==
  ASSUME NEW e, NEW c, Sent(e, c)
  PROVE  Masked(e)
<1> DEFINE plain == transformKeyShare(e["fis"])
<1>1. IsSeq(plain) /\ Len(plain) = ShareBytes
  BY ShareIs DEF Sent
<1>2. e["encs"] = Seal(EntryKey(e), e["nonces"], plain) /\ e["nonces"] = Nonce(c)
  BY DEF Sent, ECIESEncrypt, EntryKey
<1> DEFINE sealed == Seal(EntryKey(e), e["nonces"], plain)
<1> HIDE DEF plain
<1>3. /\ IsSeq(sealed) /\ Len(sealed) = Len(plain) + 1
      /\ \A i \in 1 .. Len(plain) :
           sealed[i] = XorBytes(KeyStream(EntryKey(e), e["nonces"], i), plain[i])
  BY <1>1, SealIs
<1> HIDE DEF sealed
<1>4. IsSeq(Nonce(c)) /\ Len(Nonce(c)) = NonceBytes
  <2>1. Nonce(c) = [k \in 1 .. NonceBytes |-> Nonce(c)[k]] /\ NonceBytes \in Nat
    BY ConstantsAre DEF Nonce
  <2> QED
    BY <2>1, FunIs
<1>5. \A k \in 1 .. NonceBytes : Nonce(c)[k] # NilByte
  BY DEF Nonce, Byte, NilByte
<1>6. e["encs"] = sealed
  BY <1>2 DEF sealed
<1> QED
  BY <1>1, <1>2, <1>3, <1>4, <1>5, <1>6 DEF Masked, Drawn, Sent, plain

\* The circuit makes the same key.
LEMMA KeysAgree ==
  ASSUME BitsAgree, NEW e, Drawn(e)
  PROVE  EncryptHolds(Parameters(e))
           <=> GCMAssert(EntryKey(e), Parameters(e).Iv, ChunkIndex, transformKeyShare(e["fis"]), e["encs"])
<1> DEFINE p == Parameters(e)
           bigR == ScalarMulBase(Secp, e["rs"])
           rPub == ScalarMul(Secp, e["rs"], e["pubs"])
           bits == SubSeq(MarshalG1(Secp, rPub), 1, ByteBits * Secp.size)
           key == Sha3(bigEndianBitsToBytes(bits) \o bigEndianBitsToBytes(MarshalG1(Secp, bigR)))
<1>1. /\ p.R = e["rs"] /\ p.Pub = e["pubs"] /\ p.Fi = e["fis"]
      /\ p.ChunkIndex = ChunkIndex /\ p.CipherChunks = e["encs"]
  BY DEF Parameters
<1>2. bigR \in 0 .. Secp.order - 1 /\ rPub \in 0 .. Secp.order - 1
  BY PointIs DEF Drawn
<1> HIDE DEF p, bigR, rPub
<1>3. key = SharedKey(rPub, bigR)
  BY <1>2 DEF BitsAgree, SharedKey
<1>4. PlainBytes(e["fis"]) = transformKeyShare(e["fis"])
  BY DEF BitsAgree, Drawn
<1>5. EncryptHolds(p) <=> GCMAssert(key, p.Iv, ChunkIndex, PlainBytes(e["fis"]), e["encs"])
  BY <1>1 DEF EncryptHolds, bigR, rPub
<1> QED
  BY <1>3, <1>4, <1>5 DEF p, EntryKey, bigR, rPub

\* A nonce of the right length is the one in the witness.
LEMMA IvIs ==
  ASSUME NEW e, IsSeq(e["nonces"]), Len(e["nonces"]) = NonceBytes
  PROVE  Parameters(e).Iv = e["nonces"]
<1> DEFINE iv == Parameters(e).Iv
<1>1. iv = [k \in 1 .. NonceBytes |-> IF k <= NonceBytes THEN e["nonces"][k] ELSE NilByte]
  BY DEF Parameters
<1>2. iv = [k \in 1 .. NonceBytes |-> e["nonces"][k]]
  BY <1>1, ConstantsAre
<1> HIDE DEF iv
<1>3. DOMAIN iv = DOMAIN e["nonces"] /\ iv = [k \in DOMAIN iv |-> iv[k]]
  BY <1>2, LenIs
<1>4. \A k \in DOMAIN e["nonces"] : iv[k] = e["nonces"][k]
  BY <1>2, <1>3
<1> QED
  BY <1>3, <1>4, SameSeq DEF iv

\* A masked entry satisfies the circuit of one message.
LEMMA MaskedHolds ==
  ASSUME BitsAgree, NEW e, Masked(e)
  PROVE  /\ ~Missing(e) /\ EncryptHolds(Parameters(e))
         /\ Sha256(PubInputs(Parameters(e))) = InnerHash(e)
         /\ Len(Parameters(e).CipherChunks) = SealedBytes
         /\ \A k \in 1 .. NonceBytes : Parameters(e).Iv[k] # NilByte
<1>1. Parameters(e).Iv = e["nonces"]
  BY IvIs DEF Masked, Drawn
<1>2. EncryptHolds(Parameters(e))
  <2>1. IsSeq(e["nonces"]) /\ Len(transformKeyShare(e["fis"])) = ShareBytes /\ Drawn(e)
    BY ShareIs DEF Masked, Drawn
  <2>2. GCMAssert(EntryKey(e), e["nonces"], ChunkIndex, transformKeyShare(e["fis"]), e["encs"])
    BY <2>1, GCMIs DEF Masked
  <2> QED
    BY <1>1, <2>1, <2>2, KeysAgree
<1>3. Sha256(PubInputs(Parameters(e))) = InnerHash(e)
  <2>1. /\ e["pubs"] \in 0 .. Secp.order - 1 /\ ScalarMulBase(Secp, e["rs"]) \in 0 .. Secp.order - 1
        /\ e["fis"] \in Elems(Shares)
    BY PointIs DEF Masked, Drawn
  <2> DEFINE bigR == ScalarMulBase(Secp, e["rs"])
             bigFi == ScalarMulBase(Bls, e["fis"])
  <2>2. /\ bigEndianBitsToBytes(MarshalG1(Secp, bigR)) = RawBytes(Secp, bigR)
        /\ bigEndianBitsToBytes(MarshalG1(Secp, e["pubs"])) = RawBytes(Secp, e["pubs"])
        /\ bigEndianBitsToBytes(MarshalG1(Bls, bigFi)) = RawBytes(Bls, bigFi)
    BY <2>1 DEF BitsAgree
  <2>3. PubInputs(Parameters(e))
          = bigEndianBitsToBytes(MarshalG1(Secp, bigR)) \o bigEndianBitsToBytes(MarshalG1(Secp, e["pubs"]))
            \o bigEndianBitsToBytes(MarshalG1(Bls, bigFi))
            \o e["nonces"] \o <<Byte(ChunkIndex)>> \o e["encs"]
    BY <1>1 DEF PubInputs, Parameters
  <2> HIDE DEF bigR, bigFi
  <2>4. Sha256(PubInputs(Parameters(e))) = computeSumHash(e["pubs"], bigR, bigFi, e["encs"], e["nonces"])
    BY <2>2, <2>3 DEF computeSumHash
  <2> QED
    BY <2>4 DEF InnerHash, bigR, bigFi
<1>4. ~Missing(e)
  <2>1. Nil \notin {e["pubs"], e["rs"], e["fis"]}
    BY PointIs, ShareIs DEF Masked, Drawn
  <2>2. 0 \notin {Len(e["encs"]), Len(e["nonces"])}
    BY ConstantsAre DEF Masked
  <2> QED
    BY <2>1, <2>2 DEF Missing
<1>5. Parameters(e).CipherChunks = e["encs"]
  BY DEF Parameters
<1> QED
  BY <1>1, <1>2, <1>3, <1>4, <1>5 DEF Masked, SealedBytes

\* An entry of a complete witness.
Whole(e) == Drawn(e) /\ Len(e["encs"]) = SealedBytes /\ Len(e["nonces"]) = NonceBytes

\* Every byte of the witness is there, so nonce and message have their lengths.
LEMMA CompleteWhole ==
  ASSUME NEW e, Drawn(e), Len(e["nonces"]) <= NonceBytes,
         Len(Parameters(e).CipherChunks) = SealedBytes,
         \A k \in 1 .. NonceBytes : Parameters(e).Iv[k] # NilByte
  PROVE  Whole(e)
<1>1. Len(e["nonces"]) \in Nat /\ NonceBytes \in Nat \ {0}
  BY LenIs, ConstantsAre DEF Drawn
<1>2. Len(e["nonces"]) = NonceBytes
  <2>1. SUFFICES ASSUME Len(e["nonces"]) < NonceBytes PROVE FALSE
    BY <1>1
  <2>2. Parameters(e).Iv[NonceBytes] = NilByte
    BY <1>1, <2>1 DEF Parameters
  <2> QED
    BY <1>1, <2>2
<1>3. Len(e["encs"]) = SealedBytes
  BY DEF Parameters
<1> QED
  BY <1>2, <1>3 DEF Whole

\* What satisfies the circuit is masked.
LEMMA HoldsMasked ==
  ASSUME BitsAgree, NEW e, Drawn(e), Len(e["nonces"]) <= NonceBytes,
         Len(Parameters(e).CipherChunks) = SealedBytes,
         \A k \in 1 .. NonceBytes : Parameters(e).Iv[k] # NilByte,
         EncryptHolds(Parameters(e))
  PROVE  Masked(e)
<1>1. Whole(e)
  BY CompleteWhole
<1>2. Len(e["nonces"]) = NonceBytes
  BY <1>1 DEF Whole
<1>3. Parameters(e).Iv = e["nonces"]
  BY <1>2, IvIs DEF Drawn
<1>4. Len(transformKeyShare(e["fis"])) = ShareBytes /\ IsSeq(e["nonces"])
  BY ShareIs DEF Drawn
<1>5. GCMAssert(EntryKey(e), e["nonces"], ChunkIndex, transformKeyShare(e["fis"]), e["encs"])
  BY <1>3, KeysAgree
<1>6. Len(e["encs"]) = ShareBytes + 1
  BY DEF Parameters, SealedBytes
<1> QED
  BY <1>2, <1>3, <1>4, <1>5, <1>6, GCMIs DEF Masked

\* The recipient's private key and the ephemeral point make the same key again.
LEMMA RecipientKey ==
  ASSUME NEW e, Drawn(e)
  PROVE  LET bigR == ScalarMulBase(Secp, e["rs"])
         IN SharedKey(ScalarMul(Secp, PrvOf(e["pubs"]), bigR), bigR) = EntryKey(e)
<1> DEFINE o == Secp.order
           r == e["rs"]
           pub == e["pubs"]
           prv == PrvOf(pub)
<1>1. o \in Nat \ {0} /\ r \in Nat /\ prv \in Nat /\ pub = prv % o
  BY PointIs, ConstantsAre DEF Drawn, ScalarMulBase
<1> HIDE DEF o, r, prv
<1>2. (prv * (r % o)) % o = (prv * r) % o /\ (r * (prv % o)) % o = (r * prv) % o
  BY <1>1, ModTimes
<1>3. prv * r = r * prv
  BY <1>1
<1>4. (prv * (r % o)) % o = (r * pub) % o
  BY <1>1, <1>2, <1>3
<1> QED
  BY <1>4 DEF EntryKey, ScalarMul, ScalarMulBase, o, r, prv

\* Unmasked with that key, the body is the share.
LEMMA MaskedDecrypts ==
  ASSUME NEW e, Masked(e)
  PROVE  CTR(EntryKey(e), e["nonces"], Front(e["encs"])) = transformKeyShare(e["fis"])
<1> DEFINE plain == transformKeyShare(e["fis"])
           enc == e["encs"]
           body == Front(enc)
           stream(i) == KeyStream(EntryKey(e), e["nonces"], i)
           out == CTR(EntryKey(e), e["nonces"], body)
<1>1. IsSeq(plain) /\ DOMAIN plain = 1 .. ShareBytes /\ ShareBytes \in Nat
  BY ShareIs, LenIs, ConstantsAre DEF Masked, Drawn
<1>2. /\ IsSeq(enc) /\ Len(enc) = ShareBytes + 1
      /\ \A i \in 1 .. ShareBytes : enc[i] = XorBytes(stream(i), plain[i])
  BY DEF Masked, Drawn
<1> HIDE DEF plain, enc, stream
<1>3. enc # <<>>
  BY <1>1, <1>2, EmptyIs
<1>4. IsSeq(body) /\ Len(body) = ShareBytes /\ \A i \in 1 .. ShareBytes : body[i] = enc[i]
  BY <1>1, <1>2, <1>3, FrontIs
<1> HIDE DEF body
<1>5. /\ IsSeq(out) /\ Len(out) = ShareBytes
      /\ \A i \in 1 .. ShareBytes : out[i] = XorBytes(body[i], stream(i))
  BY <1>4, CTRIs DEF stream
<1> HIDE DEF out
<1>6. \A i \in 1 .. ShareBytes : out[i] = plain[i]
  BY <1>2, <1>4, <1>5, XorTwice
<1>7. DOMAIN out = DOMAIN plain /\ out = [i \in DOMAIN out |-> out[i]]
  BY <1>1, <1>5, LenIs DEF IsSeq
<1> QED
  BY <1>1, <1>6, <1>7, SameSeq DEF plain, enc, body, out

\* The first byte of a masked share names key and nonce.
LEMMA FirstByte ==
  ASSUME NEW k, NEW n, NEW f, NEW l, NEW m, NEW g,
         XorBytes(KeyStream(k, n, 1), transformKeyShare(f)[1])
           = XorBytes(KeyStream(l, m, 1), transformKeyShare(g)[1])
  PROVE  k = l /\ n \o FillBytes(ChunkIndex, CounterBytes) = m \o FillBytes(ChunkIndex, CounterBytes)
<1> DEFINE tail == FillBytes(ChunkIndex, CounterBytes)
           b == BlockBytes
           blocks == ShareBytes \div BlockBytes
<1>1. ShareBytes \in Nat \ {0} /\ b \in Nat \ {0} /\ blocks \in Nat /\ ShareBytes = blocks * b
  BY ConstantsAre
<1>2. 0 \in 0 .. blocks - 1 /\ 1 \in 1 .. b /\ 0 * b + 1 = 1 /\ ChunkIndex + 0 = ChunkIndex
  BY <1>1 DEF ChunkIndex
<1>3. ASSUME NEW key, NEW nonce
      PROVE  KeyStream(key, nonce, 1) = {<<"aes", key, nonce \o tail, 1>>}
  <2>1. KeyStream(key, nonce, 0 * b + 1)
          = AESBlock(key, nonce \o FillBytes(ChunkIndex + 0, CounterBytes))[1]
    BY <1>2, KeyStreamIs
  <2> QED
    BY <1>2, <2>1 DEF AESBlock
<1> HIDE DEF tail
<1>4. ASSUME NEW share PROVE \E x : transformKeyShare(share)[1] = {<<"byte", x>>}
  <2> DEFINE v == share \div 2 ^ (ByteBits * (ShareBytes - 1))
  <2>1. transformKeyShare(share)[1] = Byte(v)
    BY <1>1 DEF transformKeyShare, FillBytes
  <2> HIDE DEF v
  <2> QED
    BY <2>1 DEF Byte
<1>5. PICK x, y : transformKeyShare(f)[1] = {<<"byte", x>>} /\ transformKeyShare(g)[1] = {<<"byte", y>>}
  BY <1>4
<1> DEFINE mine == <<"aes", k, n \o tail, 1>>
           other == <<"aes", l, m \o tail, 1>>
<1>6. mine # <<"byte", x>> /\ mine # <<"byte", y>>
  OBVIOUS
<1>7. XorBytes({mine}, {<<"byte", x>>}) = XorBytes({other}, {<<"byte", y>>})
  BY <1>3, <1>5
<1>8. mine \in XorBytes({mine}, {<<"byte", x>>})
  BY <1>6 DEF XorBytes
<1>9. mine \in {other} \cup {<<"byte", y>>}
  BY <1>7, <1>8 DEF XorBytes
<1>10. mine = other
  BY <1>6, <1>9
<1> QED
  BY <1>10 DEF tail

\* If the message is one that ECIESEncrypt made, ECIESDecrypt does not refuse it.
LEMMA SentDecrypts ==
  ASSUME NEW e, Masked(e), NEW d, NEW c, Sent(d, c), d["encs"] = e["encs"]
  PROVE  ECIESDecrypt(PrvOf(e["pubs"]), e["encs"], e["nonces"], ScalarMulBase(Secp, e["rs"]))
           = transformKeyShare(e["fis"])
<1>1. Masked(d) /\ 1 \in 1 .. ShareBytes
  BY SentMasked, ConstantsAre
<1>2. e["encs"][1] = d["encs"][1]
  OBVIOUS
<1>3. /\ EntryKey(d) = EntryKey(e)
      /\ d["nonces"] \o FillBytes(ChunkIndex, CounterBytes)
           = e["nonces"] \o FillBytes(ChunkIndex, CounterBytes)
  <2> DEFINE k == EntryKey(d)
             n == d["nonces"]
             f == d["fis"]
             l == EntryKey(e)
             m == e["nonces"]
             g == e["fis"]
  <2>1. XorBytes(KeyStream(k, n, 1), transformKeyShare(f)[1])
          = XorBytes(KeyStream(l, m, 1), transformKeyShare(g)[1])
    BY <1>1, <1>2 DEF Masked
  <2> HIDE DEF k, n, f, l, m, g
  <2>2. k = l /\ n \o FillBytes(ChunkIndex, CounterBytes) = m \o FillBytes(ChunkIndex, CounterBytes)
    BY <2>1, FirstByte
  <2> QED
    BY <2>2 DEF k, n, l, m
<1>4. d["nonces"] = e["nonces"]
  <2>1. IsSeq(FillBytes(ChunkIndex, CounterBytes))
    BY FillIs, ConstantsAre
  <2>2. IsSeq(d["nonces"]) /\ IsSeq(e["nonces"]) /\ Len(d["nonces"]) = Len(e["nonces"])
    BY <1>1 DEF Masked, Drawn
  <2> QED
    BY <1>3, <2>1, <2>2, JoinSame
<1> DEFINE key == EntryKey(e)
           nonce == e["nonces"]
           plain == transformKeyShare(d["fis"])
           sealed == Seal(key, nonce, plain)
           body == CTR(key, nonce, plain)
<1>5. e["encs"] = sealed
  BY <1>3, <1>4 DEF Sent, ECIESEncrypt, EntryKey
<1>6. IsSeq(plain)
  BY ShareIs DEF Sent
<1> HIDE DEF key, plain
<1>7. Front(sealed) = body /\ sealed = body \o Tag(key, nonce, body)
  BY <1>6, SealIs
<1> HIDE DEF sealed, body
<1>8. Open(key, nonce, e["encs"]) = CTR(key, nonce, Front(e["encs"]))
  BY <1>5, <1>7 DEF Open
<1>9. CTR(key, nonce, Front(e["encs"])) = transformKeyShare(e["fis"])
  BY MaskedDecrypts DEF key
<1>10. Len(nonce) = NonceBytes /\ Drawn(e)
  BY DEF Masked
<1> QED
  BY <1>8, <1>9, <1>10, RecipientKey DEF ECIESDecrypt, key

\* ECIESDecrypt inverts ECIESEncrypt, for every recipient, share and secret and
\* whatever the counter is: both sides hash the same point and the same ephemeral
\* key into the AES key, though one multiplies by r and the other by its private key.
THEOREM DecryptInvertsEncrypt ==
  ASSUME NEW pub \in Points, NEW r \in Secrets, NEW fi \in Elems(Shares), NEW c \in Nat
  PROVE  LET sent == ECIESEncrypt(pub, transformKeyShare(fi), r, c)
         IN ECIESDecrypt(PrvOf(pub), sent.ciphertext, sent.nonce, ScalarMulBase(Secp, r))
              = transformKeyShare(fi)
<1> DEFINE sent == ECIESEncrypt(pub, transformKeyShare(fi), r, c)
           value(f) == CASE f = "pubs" -> pub [] f = "rs" -> r [] f = "fis" -> fi
                         [] f = "encs" -> sent.ciphertext [] f = "nonces" -> sent.nonce
           e == [f \in Arrays |-> value(f)]
<1>1. /\ e["pubs"] = pub /\ e["rs"] = r /\ e["fis"] = fi
      /\ e["encs"] = sent.ciphertext /\ e["nonces"] = sent.nonce
  BY DEF Arrays
<1> HIDE DEF e
<1>2. Sent(e, c)
  BY <1>1 DEF Sent
<1> QED
  BY <1>1, <1>2, SentMasked, SentDecrypts

-----------------------------------------------------------------------------
(* The bits of the circuit and the bytes of the prover.                    *)

\* The number of its bits.
LEMMA FromBinaryIs ==
  ASSUME NEW bits, NEW v \in Nat, Len(bits) \in Nat,
         \A j \in 1 .. Len(bits) : bits[j] = (v \div 2 ^ (j - 1)) % 2
  PROVE  FromBinary(bits) = v % 2 ^ Len(bits)
<1> DEFINE n == Len(bits)
           Upper(f) == f = [k \in 0 .. n |-> IF k = 0 THEN 0 ELSE bits[n + 1 - k] + 2 * f[k - 1]]
           upper == CHOOSE f : Upper(f)
           Rest(k) == (v \div 2 ^ (n - k)) % 2 ^ k
<1>1. FromBinary(bits) = upper[n]
  BY DEF FromBinary
<1>2. Rest(0) = 0
  <2>1. 2 ^ 0 = 1 /\ n - 0 \in Nat
    BY TwoTo
  <2>2. 2 ^ (n - 0) \in Nat \ {0}
    BY <2>1, TwoTo
  <2> DEFINE p == 2 ^ (n - 0)
  <2> HIDE DEF p
  <2>3. (v \div p) % 1 = 0
    BY <2>2 DEF p
  <2> QED
    BY <2>1, <2>3 DEF p
<1>3. ASSUME NEW k \in 1 .. n PROVE Rest(k) = bits[n + 1 - k] + 2 * Rest(k - 1)
  <2> DEFINE p == 2 ^ (n - k)
             q == 2 ^ (k - 1)
             u == v \div p
  <2>1. n - k \in Nat /\ k - 1 \in Nat /\ n - (k - 1) = (n - k) + 1 /\ k = (k - 1) + 1
    OBVIOUS
  <2>2. p \in Nat \ {0} /\ q \in Nat \ {0}
    BY <2>1, TwoTo
  <2>3. 2 ^ (n - (k - 1)) = p * 2 /\ 2 ^ k = 2 * q
    <3>1. 2 ^ ((n - k) + 1) = 2 * p /\ 2 ^ ((k - 1) + 1) = 2 * q
      BY <2>1, TwoTo
    <3>2. 2 * p = p * 2
      BY <2>2
    <3> QED
      BY <2>1, <3>1, <3>2
  <2>4. bits[n + 1 - k] = u % 2
    <3>1. n + 1 - k \in 1 .. n /\ (n + 1 - k) - 1 = n - k
      OBVIOUS
    <3> QED
      BY <3>1
  <2>5. Rest(k) = u % (2 * q) /\ Rest(k - 1) = (v \div (p * 2)) % q
    BY <2>3
  <2> HIDE DEF p, q
  <2>6. u \in Nat /\ u \div 2 = v \div (p * 2)
    <3>1. ASSUME NEW two \in Nat \ {0}
          PROVE  u \in Nat /\ u \div two = v \div (p * two)
      BY <2>2, DivDiv
    <3> QED
      BY <3>1
  <2> HIDE DEF u, Rest
  <2>7. u % (2 * q) = (u % 2) + 2 * ((u \div 2) % q)
    <3>1. ASSUME NEW two \in Nat \ {0}
          PROVE  u % (two * q) = (u % two) + two * ((u \div two) % q)
      BY <2>2, <2>6, DigitMore
    <3> QED
      BY <3>1
  <2> QED
    BY <2>4, <2>5, <2>6, <2>7
<1> HIDE DEF Rest
<1>4. Upper([k \in 0 .. n |-> Rest(k)])
  <2> DEFINE g == [k \in 0 .. n |-> Rest(k)]
  <2>1. ASSUME NEW k \in 0 .. n
        PROVE  Rest(k) = IF k = 0 THEN 0 ELSE bits[n + 1 - k] + 2 * g[k - 1]
    <3>1. CASE k = 0
      BY <1>2, <3>1
    <3>2. CASE k # 0
      <4>1. k \in 1 .. n /\ k - 1 \in 0 .. n
        BY <3>2
      <4> QED
        BY <1>3, <3>2, <4>1
    <3> QED
      BY <3>1, <3>2
  <2> QED
    BY <2>1
<1>5. Upper(upper)
  <2> HIDE DEF Upper
  <2> QED
    BY <1>4
<1> HIDE DEF upper
<1>6. /\ upper[0] = 0
      /\ \A k \in 1 .. n : upper[k] = bits[n + 1 - k] + 2 * upper[k - 1]
  BY <1>5
<1> DEFINE S == {k \in Nat : k <= n => upper[k] = Rest(k)}
<1>7. 0 \in S
  BY <1>2, <1>6
<1>8. ASSUME NEW k \in Nat, k \in S PROVE k + 1 \in S
  <2>1. SUFFICES ASSUME k + 1 <= n PROVE upper[k + 1] = Rest(k + 1)
    OBVIOUS
  <2>2. k + 1 \in 1 .. n /\ (k + 1) - 1 = k /\ upper[k] = Rest(k)
    BY <1>8, <2>1
  <2> QED
    BY <1>3, <1>6, <2>2
<1> HIDE DEF S
<1>9. n \in S
  BY <1>7, <1>8, Induction
<1>10. upper[n] = Rest(n)
  BY <1>9 DEF S
<1>11. Rest(n) = v % 2 ^ n
  <2>1. n - n = 0 /\ 2 ^ 0 = 1 /\ v \div 1 = v
    BY TwoTo
  <2> QED
    BY <2>1 DEF Rest
<1> QED
  BY <1>1, <1>10, <1>11

\* A sequence from its last element to its first.
LEMMA ReverseIs ==
  ASSUME NEW s, IsSeq(s)
  PROVE  /\ IsSeq(Reverse(s)) /\ Len(Reverse(s)) = Len(s)
         /\ \A i \in 1 .. Len(s) : Reverse(s)[i] = s[Len(s) + 1 - i]
<1>1. Len(s) \in Nat
  BY LenIs
<1> DEFINE back == Reverse(s)
           n == Len(s)
<1>2. back = [i \in 1 .. n |-> s[(n - i) + 1]]
  BY DEF Reverse
<1> HIDE DEF back
<1>3. back = [i \in 1 .. n |-> back[i]]
  BY <1>2
<1>4. IsSeq(back) /\ Len(back) = n
  BY <1>1, <1>3, FunIs
<1>5. \A i \in 1 .. n : (n - i) + 1 = n + 1 - i
  BY <1>1
<1> QED
  BY <1>2, <1>4, <1>5 DEF back

\* Bit j of byte o of v, the bytes counted from the least significant one, and its
\* place among the bits, the least significant one first.
BitAt(v, o, j) == (v \div 2 ^ (ByteBits * o + (j - 1))) % 2
Place(o, j) == o * ByteBits + j

\* A chunk of the bits of v is one of its bytes.
LEMMA ChunkIs ==
  ASSUME NEW bits, IsSeq(bits), NEW k \in Nat, Place(k, ByteBits) <= Len(bits),
         NEW v \in Nat, NEW o \in Nat,
         \A j \in 1 .. ByteBits : bits[Place(k, j)] = BitAt(v, o, j)
  PROVE  ChunkByte(bits, k) = Byte(v \div 2 ^ (ByteBits * o))
<1> DEFINE b == ByteBits
           m == k * b
           chunk == SubSeq(bits, m + 1, m + b)
           p == 2 ^ (b * o)
           w == v \div p
<1>1. b \in Nat \ {0} /\ m \in Nat /\ m + b <= Len(bits) /\ (k + 1) * b = m + b /\ b * o \in Nat
  <2>1. ByteBits \in Nat \ {0}
    BY ConstantsAre
  <2> QED
    BY <2>1 DEF Place
<1>2. p \in Nat \ {0} /\ w \in Nat
  <2>1. p \in Nat \ {0}
    BY <1>1, TwoTo
  <2> HIDE DEF p
  <2> QED
    BY <2>1, DivDiv
<1>3. IsSeq(chunk) /\ Len(chunk) = b /\ \A j \in 1 .. b : chunk[j] = bits[m + j]
  <2> HIDE DEF m
  <2> QED
    BY <1>1, PieceIs
<1>4. ASSUME NEW j \in 1 .. b PROVE chunk[j] = (w \div 2 ^ (j - 1)) % 2
  <2> DEFINE q == 2 ^ (j - 1)
  <2>1. j - 1 \in Nat
    OBVIOUS
  <2>2. q \in Nat \ {0} /\ 2 ^ (b * o + (j - 1)) = p * q
    BY <1>1, <2>1, TwoTo, TwoToSum
  <2>3. chunk[j] = (v \div (p * q)) % 2
    BY <1>3, <2>2 DEF BitAt, Place
  <2> HIDE DEF p, q
  <2>4. w \div q = v \div (p * q)
    BY <1>2, <2>2, DivDiv
  <2> QED
    BY <2>3, <2>4 DEF q
<1> HIDE DEF w, m
<1>5. FromBinary(chunk) = w % 2 ^ b
  <2> HIDE DEF chunk
  <2> QED
    BY <1>1, <1>2, <1>3, <1>4, FromBinaryIs
<1>6. ChunkByte(bits, k) = Byte(w % 2 ^ b)
  BY <1>1, <1>5 DEF ChunkByte, m
<1>7. Byte(w % 2 ^ b) = Byte(w)
  <2> DEFINE q == 2 ^ b
  <2>1. q \in Nat \ {0}
    BY <1>1, TwoTo
  <2> HIDE DEF q
  <2>2. (w % q) % q = w % q
    BY <1>2, <2>1
  <2> QED
    BY <2>2 DEF Byte, q
<1> QED
  BY <1>6, <1>7 DEF w

\* What bigEndianBitsToBytes makes of bits.
LEMMA BigEndianIs ==
  ASSUME NEW in, IsSeq(in), NEW n \in Nat, Len(in) = ByteBits * n
  PROVE  bigEndianBitsToBytes(in) = [i \in 1 .. n |-> ChunkByte(Reverse(in), n - i)]
<1> DEFINE little == [k \in 1 .. n |-> ChunkByte(Reverse(in), k - 1)]
<1>1. BitBytes(in) = n
  <2>1. ByteBits \in Nat \ {0}
    BY ConstantsAre
  <2>2. (ByteBits * n + 0) \div ByteBits = n
    BY <2>1, DivisionIs
  <2>3. ByteBits * n + 0 = ByteBits * n
    BY <2>1
  <2> QED
    BY <2>2, <2>3 DEF BitBytes
<1>2. bigEndianBitsToBytes(in) = Reverse(little)
  BY <1>1 DEF bigEndianBitsToBytes
<1>3. little = [i \in 1 .. n |-> little[i]]
  OBVIOUS
<1>4. \A i \in 1 .. n : n + 1 - i \in 1 .. n /\ (n + 1 - i) - 1 = n - i
  OBVIOUS
<1>5. \A i \in 1 .. n : little[n + 1 - i] = ChunkByte(Reverse(in), n - i)
  BY <1>4
<1> HIDE DEF little
<1>6. IsSeq(little) /\ Len(little) = n
  BY <1>3, FunIs
<1> DEFINE out == Reverse(little)
<1>7. IsSeq(out) /\ Len(out) = n /\ \A i \in 1 .. n : out[i] = little[n + 1 - i]
  BY <1>6, ReverseIs
<1> HIDE DEF out
<1>8. DOMAIN out = 1 .. n /\ out = [i \in DOMAIN out |-> out[i]]
  BY <1>7, LenIs DEF IsSeq
<1> QED
  BY <1>2, <1>5, <1>7, <1>8 DEF out

\* Bit j of byte o, counted from the end, of a coordinate whose most significant
\* bit comes first.
LEMMA CoordinateIs ==
  ASSUME NEW v \in Nat, NEW size \in Nat
  PROVE  LET bits == Reverse(ToBinary(v, ByteBits * size))
         IN /\ IsSeq(bits) /\ Len(bits) = ByteBits * size /\ ByteBits * size \in Nat
            /\ \A o \in 0 .. size - 1, j \in 1 .. ByteBits :
                 /\ Place(o, j) \in 1 .. ByteBits * size
                 /\ bits[ByteBits * size + 1 - Place(o, j)]
                      = BitAt(v, o, j)
<1> DEFINE w == ByteBits * size
           low == ToBinary(v, w)
           bits == Reverse(low)
<1>1. ByteBits \in Nat \ {0} /\ w \in Nat /\ size * ByteBits = w
  <2>1. ByteBits \in Nat \ {0}
    BY ConstantsAre
  <2> QED
    BY <2>1
<1> HIDE DEF w
<1>2. low = [k \in 1 .. w |-> (v \div 2 ^ (k - 1)) % 2]
  BY DEF ToBinary
<1>3. low = [k \in 1 .. w |-> low[k]]
  BY <1>2
<1> HIDE DEF low
<1>4. IsSeq(low) /\ Len(low) = w
  BY <1>1, <1>3, FunIs
<1>5. IsSeq(bits) /\ Len(bits) = w /\ \A i \in 1 .. w : bits[i] = low[w + 1 - i]
  BY <1>4, ReverseIs
<1> HIDE DEF bits
<1>6. ASSUME NEW o \in 0 .. size - 1, NEW j \in 1 .. ByteBits
      PROVE  /\ Place(o, j) \in 1 .. w
             /\ bits[w + 1 - Place(o, j)] = BitAt(v, o, j)
  <2> DEFINE k == Place(o, j)
  <2>1. k \in 1 .. w
    BY <1>1, BlockPlace DEF Place
  <2>2. k - 1 = ByteBits * o + (j - 1)
    BY <1>1 DEF Place
  <2> HIDE DEF k
  <2>3. w + 1 - k \in 1 .. w /\ w + 1 - (w + 1 - k) = k
    BY <1>1, <2>1
  <2>4. bits[w + 1 - k] = (v \div 2 ^ (k - 1)) % 2
    BY <1>2, <1>5, <2>1, <2>3
  <2> QED
    BY <2>1, <2>2, <2>4 DEF k, BitAt
<1> QED
  BY <1>1, <1>5, <1>6 DEF w, bits, low

\* The bytes of one coordinate.
LEMMA CoordinateBytes ==
  ASSUME NEW v \in Nat, NEW size \in Nat
  PROVE  bigEndianBitsToBytes(Reverse(ToBinary(v, ByteBits * size))) = FillBytes(v, size)
<1> DEFINE w == ByteBits * size
           bits == Reverse(ToBinary(v, w))
           back == Reverse(bits)
<1>1. /\ IsSeq(bits) /\ Len(bits) = w /\ w \in Nat
      /\ \A o \in 0 .. size - 1, j \in 1 .. ByteBits :
           /\ Place(o, j) \in 1 .. w
           /\ bits[w + 1 - Place(o, j)] = BitAt(v, o, j)
  BY CoordinateIs
<1> HIDE DEF bits
<1>2. bigEndianBitsToBytes(bits) = [i \in 1 .. size |-> ChunkByte(back, size - i)]
  BY <1>1, BigEndianIs
<1>3. IsSeq(back) /\ Len(back) = w /\ \A i \in 1 .. w : back[i] = bits[w + 1 - i]
  BY <1>1, ReverseIs
<1> HIDE DEF back
<1>4. ASSUME NEW i \in 1 .. size
      PROVE  ChunkByte(back, size - i) = Byte(v \div 2 ^ (ByteBits * (size - i)))
  <2> DEFINE o == size - i
  <2>1. o \in 0 .. size - 1 /\ o \in Nat
    OBVIOUS
  <2>2. ByteBits \in Nat \ {0}
    BY ConstantsAre
  <2> HIDE DEF o
  <2>3. Place(o, ByteBits) <= Len(back)
    <3>1. ByteBits \in 1 .. ByteBits
      BY <2>2
    <3> QED
      BY <1>1, <1>3, <2>1, <3>1
  <2>4. \A j \in 1 .. ByteBits :
          back[Place(o, j)] = BitAt(v, o, j)
    BY <1>1, <1>3, <2>1
  <2>5. ChunkByte(back, o) = Byte(v \div 2 ^ (ByteBits * o))
    BY <1>3, <2>1, <2>3, <2>4, ChunkIs
  <2> QED
    BY <2>5 DEF o
<1> QED
  BY <1>2, <1>4 DEF FillBytes, bits, w

\* The bytes of a point: the circuit's are the prover's.
LEMMA PointBytes ==
  ASSUME NEW curve, curve.size \in Nat, NEW point, X(curve, point) \in Nat, Y(curve, point) \in Nat
  PROVE  LET bits == MarshalG1(curve, point)
         IN /\ bigEndianBitsToBytes(bits) = RawBytes(curve, point)
            /\ SubSeq(bits, 1, ByteBits * curve.size)
                 = Reverse(ToBinary(X(curve, point), ByteBits * curve.size))
<1> DEFINE size == curve.size
           x == X(curve, point)
           y == Y(curve, point)
           w == ByteBits * size
           n == 2 * size
           first == Reverse(ToBinary(x, w))
           second == Reverse(ToBinary(y, w))
           bits == first \o second
           back == Reverse(bits)
<1>1. MarshalG1(curve, point) = bits
  BY DEF MarshalG1
<1>2. /\ IsSeq(first) /\ Len(first) = w /\ w \in Nat
      /\ \A o \in 0 .. size - 1, j \in 1 .. ByteBits :
           /\ Place(o, j) \in 1 .. w
           /\ first[w + 1 - Place(o, j)] = BitAt(x, o, j)
  BY CoordinateIs
<1>3. /\ IsSeq(second) /\ Len(second) = w
      /\ \A o \in 0 .. size - 1, j \in 1 .. ByteBits :
           second[w + 1 - Place(o, j)] = BitAt(y, o, j)
  BY CoordinateIs
<1>4. ByteBits \in Nat \ {0} /\ size \in Nat /\ x \in Nat /\ y \in Nat
  BY ConstantsAre
<1>5. ByteBits * n = w + w /\ n \in Nat /\ size * ByteBits = w
  BY <1>4
<1> HIDE DEF first, second, n, w, x, y, size
<1>6. /\ IsSeq(bits) /\ Len(bits) = w + w
      /\ \A i \in 1 .. w : bits[i] = first[i]
      /\ \A i \in 1 .. w : bits[w + i] = second[i]
  <2>1. IsSeq(first) /\ IsSeq(second)
    BY <1>2, <1>3
  <2>2. /\ IsSeq(bits) /\ Len(bits) = Len(first) + Len(second)
        /\ \A i \in 1 .. Len(first) : bits[i] = first[i]
        /\ \A i \in 1 .. Len(second) : bits[Len(first) + i] = second[i]
    BY <2>1, JoinIs
  <2> QED
    BY <1>2, <1>3, <2>2
<1> HIDE DEF bits
<1>7. bigEndianBitsToBytes(bits) = [i \in 1 .. n |-> ChunkByte(back, n - i)]
  BY <1>5, <1>6, BigEndianIs
<1>8. IsSeq(back) /\ Len(back) = w + w /\ \A i \in 1 .. w + w : back[i] = bits[w + w + 1 - i]
  <2>1. /\ IsSeq(back) /\ Len(back) = Len(bits)
        /\ \A i \in 1 .. Len(bits) : back[i] = bits[Len(bits) + 1 - i]
    BY <1>6, ReverseIs
  <2> QED
    BY <1>6, <2>1
<1> HIDE DEF back
<1> DEFINE raw == FillBytes(x, size) \o FillBytes(y, size)
<1>9. /\ IsSeq(raw) /\ Len(raw) = n
      /\ \A i \in 1 .. size : raw[i] = Byte(x \div 2 ^ (ByteBits * (size - i)))
      /\ \A i \in 1 .. size : raw[size + i] = Byte(y \div 2 ^ (ByteBits * (size - i)))
  <2> DEFINE fx == FillBytes(x, size)
             fy == FillBytes(y, size)
  <2>1. /\ IsSeq(fx) /\ Len(fx) = size /\ IsSeq(fy) /\ Len(fy) = size
    BY <1>4, FillIs
  <2>2. \A i \in 1 .. size : /\ fx[i] = Byte(x \div 2 ^ (ByteBits * (size - i)))
                             /\ fy[i] = Byte(y \div 2 ^ (ByteBits * (size - i)))
    BY DEF FillBytes
  <2> HIDE DEF fx, fy
  <2>3. /\ IsSeq(fx \o fy) /\ Len(fx \o fy) = size + size
        /\ \A i \in 1 .. size : (fx \o fy)[i] = fx[i]
        /\ \A i \in 1 .. size : (fx \o fy)[size + i] = fy[i]
    <3>1. IsSeq(fx) /\ IsSeq(fy)
      BY <2>1
    <3>2. /\ IsSeq(fx \o fy) /\ Len(fx \o fy) = Len(fx) + Len(fy)
          /\ \A i \in 1 .. Len(fx) : (fx \o fy)[i] = fx[i]
          /\ \A i \in 1 .. Len(fy) : (fx \o fy)[Len(fx) + i] = fy[i]
      BY <3>1, JoinIs
    <3> QED
      BY <2>1, <3>2
  <2>4. n = size + size
    BY <1>4 DEF n
  <2> QED
    BY <2>2, <2>3, <2>4 DEF fx, fy
<1> HIDE DEF raw
<1>10. ASSUME NEW i \in 1 .. size
       PROVE  /\ ChunkByte(back, n - i) = raw[i]
              /\ ChunkByte(back, n - (size + i)) = raw[size + i]
  <2> DEFINE o == size - i
  <2>1. o \in 0 .. size - 1 /\ o \in Nat /\ n - i = size + o /\ n - (size + i) = o /\ size + o \in Nat
    BY <1>4 DEF n
  <2> HIDE DEF o
  <2>2. ASSUME NEW j \in 1 .. ByteBits
        PROVE  /\ back[Place(o, j)] = BitAt(y, o, j)
               /\ back[Place(size + o, j)] = BitAt(x, o, j)
    <3> DEFINE k == Place(o, j)
    <3>1. k \in 1 .. w /\ first[w + 1 - k] = BitAt(x, o, j)
      BY <1>2, <2>1
    <3>2. second[w + 1 - k] = BitAt(y, o, j)
      BY <1>3, <2>1
    <3>3. Place(size + o, j) = w + k
      BY <1>4, <1>5, <2>1 DEF Place
    <3> HIDE DEF k
    <3>4. /\ k \in 1 .. w + w /\ w + k \in 1 .. w + w /\ w + 1 - k \in 1 .. w
          /\ w + w + 1 - k = w + (w + 1 - k) /\ w + w + 1 - (w + k) = w + 1 - k
      BY <1>2, <3>1
    <3>5. back[k] = bits[w + (w + 1 - k)] /\ back[w + k] = bits[w + 1 - k]
      BY <1>8, <3>4
    <3>6. back[k] = second[w + 1 - k] /\ back[w + k] = first[w + 1 - k]
      BY <1>6, <3>4, <3>5
    <3> QED
      BY <3>1, <3>2, <3>3, <3>6 DEF k
  <2>3. Place(o, ByteBits) <= Len(back) /\ Place(size + o, ByteBits) <= Len(back)
    <3>1. ByteBits \in 1 .. ByteBits
      BY <1>4
    <3>2. Place(o, ByteBits) \in 1 .. w
      BY <1>2, <2>1, <3>1
    <3>3. Place(size + o, ByteBits) = w + Place(o, ByteBits)
      BY <1>4, <1>5, <2>1 DEF Place
    <3> QED
      BY <1>2, <1>8, <3>2, <3>3
  <2>4. IsSeq(back) /\ x \in Nat /\ y \in Nat
    BY <1>4, <1>8
  <2>5. ChunkByte(back, o) = Byte(y \div 2 ^ (ByteBits * o))
    <3>1. \A j \in 1 .. ByteBits : back[Place(o, j)] = BitAt(y, o, j)
      BY <2>2
    <3> QED
      BY <2>1, <2>3, <2>4, <3>1, ChunkIs
  <2>6. ChunkByte(back, size + o) = Byte(x \div 2 ^ (ByteBits * o))
    <3> DEFINE k == size + o
    <3>1. \A j \in 1 .. ByteBits : back[Place(k, j)] = BitAt(x, o, j)
      BY <2>2
    <3>2. k \in Nat /\ Place(k, ByteBits) <= Len(back)
      BY <2>1, <2>3
    <3> HIDE DEF k
    <3>3. ChunkByte(back, k) = Byte(x \div 2 ^ (ByteBits * o))
      BY <2>1, <2>4, <3>1, <3>2, ChunkIs
    <3> QED
      BY <3>3 DEF k
  <2> QED
    BY <1>9, <2>1, <2>5, <2>6 DEF o
<1>11. bigEndianBitsToBytes(bits) = raw
  <2> DEFINE out == [i \in 1 .. n |-> ChunkByte(back, n - i)]
  <2>1. DOMAIN out = DOMAIN raw /\ \A i \in DOMAIN raw : i \in 1 .. n
    BY <1>9, LenIs
  <2>2. ASSUME NEW i \in 1 .. n PROVE ChunkByte(back, n - i) = raw[i]
    <3>1. CASE i <= size
      BY <1>4, <1>10, <3>1
    <3>2. CASE i > size
      <4>1. i - size \in 1 .. size /\ size + (i - size) = i
        BY <1>4, <3>2 DEF n
      <4> QED
        BY <1>10, <4>1
    <3> QED
      BY <1>4, <3>1, <3>2
  <2>3. \A i \in DOMAIN raw : out[i] = raw[i]
    BY <2>1, <2>2
  <2>4. out = [i \in DOMAIN out |-> out[i]]
    OBVIOUS
  <2> HIDE DEF out
  <2>5. out = raw
    BY <1>9, <2>1, <2>3, <2>4, SameSeq
  <2> QED
    BY <1>7, <2>5 DEF out
<1>12. SubSeq(bits, 1, w) = first
  <2>1. 0 \in Nat /\ 0 + w <= Len(bits) /\ 0 + 1 = 1 /\ 0 + w = w
    BY <1>2, <1>6
  <2> DEFINE piece == SubSeq(bits, 0 + 1, 0 + w)
  <2>2. IsSeq(piece) /\ Len(piece) = w /\ \A i \in 1 .. w : piece[i] = bits[0 + i]
    <3>1. IsSeq(bits) /\ w \in Nat
      BY <1>2, <1>6
    <3> HIDE DEF piece
    <3> QED
      BY <2>1, <3>1, PieceIs DEF piece
  <2>3. piece = SubSeq(bits, 1, w)
    BY <2>1
  <2> HIDE DEF piece
  <2>4. \A i \in 1 .. w : 0 + i = i
    BY <1>2
  <2>5. DOMAIN first = 1 .. w /\ DOMAIN piece = 1 .. w /\ piece = [i \in DOMAIN piece |-> piece[i]]
    BY <1>2, <2>2, LenIs DEF IsSeq
  <2>6. piece = first
    BY <1>2, <1>6, <2>2, <2>4, <2>5, SameSeq
  <2> QED
    BY <2>3, <2>6
<1> QED
  BY <1>1, <1>11, <1>12 DEF RawBytes, raw, first, w, x, y, size

\* Byte k of a number, from its bits.
LEMMA LowBytes ==
  ASSUME NEW v \in Nat, NEW size \in Nat, NEW k \in 0 .. size - 1
  PROVE  ChunkByte(ToBinary(v, ByteBits * size), k) = Byte(v \div 2 ^ (ByteBits * k))
<1> DEFINE w == ByteBits * size
           low == ToBinary(v, w)
<1>1. ByteBits \in Nat \ {0} /\ w \in Nat /\ size * ByteBits = w /\ k \in Nat
  <2>1. ByteBits \in Nat \ {0}
    BY ConstantsAre
  <2> QED
    BY <2>1
<1> HIDE DEF w
<1>2. low = [i \in 1 .. w |-> (v \div 2 ^ (i - 1)) % 2]
  BY DEF ToBinary
<1>3. low = [i \in 1 .. w |-> low[i]]
  BY <1>2
<1> HIDE DEF low
<1>4. IsSeq(low) /\ Len(low) = w
  BY <1>1, <1>3, FunIs
<1>5. ASSUME NEW j \in 1 .. ByteBits
      PROVE  Place(k, j) \in 1 .. w /\ low[Place(k, j)] = BitAt(v, k, j)
  <2>1. Place(k, j) \in 1 .. w
    BY <1>1, BlockPlace DEF Place
  <2>2. Place(k, j) - 1 = ByteBits * k + (j - 1)
    BY <1>1 DEF Place
  <2> QED
    BY <1>2, <2>1, <2>2 DEF BitAt
<1>6. Place(k, ByteBits) <= Len(low)
  <2>1. ByteBits \in 1 .. ByteBits
    BY <1>1
  <2> QED
    BY <1>1, <1>4, <1>5, <2>1
<1>7. ChunkByte(low, k) = Byte(v \div 2 ^ (ByteBits * k))
  <2>1. \A j \in 1 .. ByteBits : low[Place(k, j)] = BitAt(v, k, j)
    BY <1>5
  <2>2. IsSeq(low) /\ k \in Nat
    BY <1>1, <1>4
  <2> QED
    BY <1>6, <2>1, <2>2, ChunkIs
<1> QED
  BY <1>7 DEF low, w

\* Above its bits a number has zeros.
LEMMA AboveBits ==
  ASSUME NEW v \in Nat, NEW a \in Nat, v < 2 ^ a, NEW c \in Nat, a <= c
  PROVE  (v \div 2 ^ c) % 2 = 0
<1> DEFINE p == 2 ^ a
           q == 2 ^ (c - a)
           d == c - a
<1>1. d \in Nat /\ a + d = c
  OBVIOUS
<1>2. 2 ^ c = p * q /\ p \in Nat \ {0} /\ q \in Nat \ {0}
  BY <1>1, TwoTo, TwoToSum
<1>3. v < p
  OBVIOUS
<1> HIDE DEF p, q
<1>4. p * q >= p /\ p * q \in Nat \ {0}
  <2>1. p * q = p * (q - 1) + p /\ p * (q - 1) \in Nat
    BY <1>2
  <2> QED
    BY <1>2, <2>1
<1> DEFINE s == p * q
<1> HIDE DEF s
<1>5. v \div s = 0
  BY <1>2, <1>3, <1>4 DEF s
<1> QED
  BY <1>2, <1>5 DEF s

\* The circuit's bytes of a share are those that are encrypted.
LEMMA ShareBytesAre ==
  ASSUME NEW fi \in Nat, fi < 2 ^ ShareBits
  PROVE  PlainBytes(fi) = transformKeyShare(fi)
<1> DEFINE b == ByteBits
           r == ShareBits % b
           q == ShareBits \div b
           fill == (b - r) % b
           w == b * ShareBytes
           low == ToBinary(fi, ShareBits)
           zeros == [k \in 1 .. fill |-> 0]
           bits == low \o zeros
           whole == ToBinary(fi, w)
<1>1. /\ b \in Nat \ {0} /\ ShareBits \in Nat \ {0} /\ ShareBytes \in Nat \ {0}
      /\ b * (ShareBytes - 1) < ShareBits /\ ShareBits <= b * ShareBytes
  BY ECIESAssumption
<1>2. q \in Nat /\ r \in 0 .. b - 1 /\ ShareBits = b * q + r
  BY <1>1
<1>3. fill \in Nat /\ ShareBits + fill = w /\ w \in Nat
  <2> HIDE DEF q, r
  <2>1. CASE r = 0
    <3>1. (b - r) % b = 0
      BY <1>1, <2>1
    <3>2. q = ShareBytes
      <4>1. q <= ShareBytes
        <5>1. SUFFICES ASSUME q >= ShareBytes + 1 PROVE FALSE
          BY <1>1, <1>2
        <5>2. b * q >= b * (ShareBytes + 1) /\ b * (ShareBytes + 1) = b * ShareBytes + b
          BY <1>1, <1>2, <5>1
        <5> QED
          BY <1>1, <1>2, <5>2
      <4>2. q > ShareBytes - 1
        <5>1. SUFFICES ASSUME q <= ShareBytes - 1 PROVE FALSE
          BY <1>1, <1>2
        <5>2. b * q <= b * (ShareBytes - 1)
          BY <1>1, <1>2, <5>1
        <5> QED
          BY <1>1, <1>2, <2>1, <5>2
      <4> QED
        BY <1>1, <1>2, <4>1, <4>2
    <3> QED
      BY <1>1, <1>2, <2>1, <3>1, <3>2
  <2>2. CASE r # 0
    <3>1. (b - r) % b = b - r
      BY <1>1, <1>2, <2>2
    <3>2. q = ShareBytes - 1
      <4>1. q <= ShareBytes - 1
        <5>1. SUFFICES ASSUME q >= ShareBytes PROVE FALSE
          BY <1>1, <1>2
        <5>2. b * q >= b * ShareBytes
          BY <1>1, <1>2, <5>1
        <5> QED
          BY <1>1, <1>2, <2>2, <5>2
      <4>2. q >= ShareBytes - 1
        <5>1. SUFFICES ASSUME q + 1 <= ShareBytes - 1 PROVE FALSE
          BY <1>1, <1>2
        <5>2. b * (q + 1) <= b * (ShareBytes - 1) /\ b * (q + 1) = b * q + b
          BY <1>1, <1>2, <5>1
        <5> QED
          BY <1>1, <1>2, <5>2
      <4> QED
        BY <1>1, <1>2, <4>1, <4>2
    <3>3. b * ShareBytes = b * q + b
      BY <1>1, <3>2
    <3> QED
      BY <1>1, <1>2, <2>2, <3>1, <3>3
  <2> QED
    BY <2>1, <2>2
<1> HIDE DEF r, q, fill
<1>4. low = [k \in 1 .. ShareBits |-> (fi \div 2 ^ (k - 1)) % 2]
  BY DEF ToBinary
<1>5. whole = [k \in 1 .. w |-> (fi \div 2 ^ (k - 1)) % 2]
  BY DEF ToBinary
<1>6. bits = whole
  <2> HIDE DEF w
  <2>1. low = [k \in 1 .. ShareBits |-> low[k]] /\ whole = [k \in 1 .. w |-> whole[k]]
    BY <1>4, <1>5
  <2> HIDE DEF low, whole
  <2>2. IsSeq(low) /\ Len(low) = ShareBits
    BY <1>1, <2>1, FunIs
  <2>3. IsSeq(whole) /\ Len(whole) = w
    BY <1>3, <2>1, FunIs
  <2>4. zeros = [k \in 1 .. fill |-> zeros[k]] /\ \A k \in 1 .. fill : zeros[k] = 0
    OBVIOUS
  <2> HIDE DEF zeros
  <2>5. IsSeq(zeros) /\ Len(zeros) = fill
    BY <1>3, <2>4, FunIs
  <2>6. /\ IsSeq(bits) /\ Len(bits) = Len(low) + Len(zeros)
        /\ \A i \in 1 .. Len(low) : bits[i] = low[i]
        /\ \A i \in 1 .. Len(zeros) : bits[Len(low) + i] = zeros[i]
    <3>1. IsSeq(low) /\ IsSeq(zeros)
      BY <2>2, <2>5
    <3> QED
      BY <3>1, JoinIs
  <2> HIDE DEF bits
  <2>7. ASSUME NEW i \in 1 .. w PROVE bits[i] = whole[i]
    <3>1. CASE i <= ShareBits
      <4>1. i \in 1 .. ShareBits
        BY <1>1, <3>1
      <4> QED
        BY <1>4, <1>5, <2>2, <2>6, <4>1
    <3>2. CASE i > ShareBits
      <4>1. i - ShareBits \in 1 .. fill /\ ShareBits + (i - ShareBits) = i
        BY <1>1, <1>3, <3>2
      <4>2. bits[i] = 0
        BY <2>2, <2>4, <2>5, <2>6, <4>1
      <4>3. i - 1 \in Nat /\ ShareBits <= i - 1 /\ ShareBits \in Nat
        BY <1>1, <3>2
      <4>4. (fi \div 2 ^ (i - 1)) % 2 = 0
        BY <4>3, AboveBits
      <4> QED
        BY <1>5, <4>2, <4>4
    <3> QED
      BY <1>1, <3>1, <3>2
  <2>8. Len(bits) = w
    BY <1>3, <2>2, <2>5, <2>6
  <2>9. DOMAIN bits = 1 .. w /\ DOMAIN whole = 1 .. w /\ bits = [i \in DOMAIN bits |-> bits[i]]
    BY <2>3, <2>6, <2>8, LenIs DEF IsSeq
  <2> QED
    BY <2>3, <2>7, <2>9, SameSeq
<1> HIDE DEF bits, low, zeros
<1>7. Len(bits) = w
  <2>1. whole = [k \in 1 .. w |-> whole[k]]
    BY <1>5
  <2> HIDE DEF whole, w
  <2> QED
    BY <1>3, <1>6, <2>1, FunIs
<1>8. BitBytes(bits) = ShareBytes
  <2>1. (b * ShareBytes + 0) \div b = ShareBytes /\ b * ShareBytes + 0 = b * ShareBytes
    BY <1>1, DivisionIs
  <2> QED
    BY <1>7, <2>1 DEF BitBytes
<1> HIDE DEF whole
<1>9. PlainBytes(fi) = [i \in 1 .. ShareBytes |-> ChunkByte(bits, ShareBytes - i)]
  <2>1. PlainBytes(fi) = [i \in 1 .. BitBytes(bits) |-> ChunkByte(bits, BitBytes(bits) - i)]
    BY DEF PlainBytes, bits, low, zeros, fill, r
  <2> QED
    BY <1>8, <2>1
<1>10. ASSUME NEW i \in 1 .. ShareBytes
       PROVE  ChunkByte(bits, ShareBytes - i) = Byte(fi \div 2 ^ (b * (ShareBytes - i)))
  <2> DEFINE k == ShareBytes - i
  <2>1. k \in 0 .. ShareBytes - 1 /\ ShareBytes \in Nat
    BY <1>1
  <2> HIDE DEF k
  <2>2. ChunkByte(whole, k) = Byte(fi \div 2 ^ (b * k))
    BY <2>1, LowBytes DEF whole
  <2> QED
    BY <1>6, <2>2 DEF k
<1> QED
  BY <1>9, <1>10 DEF transformKeyShare, FillBytes

\* The circuit's counter is that of crypto/cipher.
LEMMA CounterBytesAre ==
  ASSUME NEW c \in Nat
  PROVE  GetIV(<<>>, c) = FillBytes(c, CounterBytes)
<1> DEFINE bits == ToBinary(c, ByteBits * CounterBytes)
           bytes == [k \in 1 .. CounterBytes |-> ChunkByte(bits, CounterBytes - k)]
<1>1. GetIV(<<>>, c) = <<>> \o bytes /\ CounterBytes \in Nat
  BY ConstantsAre DEF GetIV
<1>2. bytes = FillBytes(c, CounterBytes)
  <2>1. ASSUME NEW k \in 1 .. CounterBytes
        PROVE  ChunkByte(bits, CounterBytes - k) = Byte(c \div 2 ^ (ByteBits * (CounterBytes - k)))
    <3> DEFINE i == CounterBytes - k
    <3>1. i \in 0 .. CounterBytes - 1
      BY <1>1
    <3> HIDE DEF i
    <3>2. ChunkByte(bits, i) = Byte(c \div 2 ^ (ByteBits * i))
      BY <1>1, <3>1, LowBytes
    <3> QED
      BY <3>2 DEF i
  <2> HIDE DEF bits
  <2> QED
    BY <2>1 DEF FillBytes
<1> HIDE DEF bytes
<1>3. IsSeq(bytes)
  BY <1>1, <1>2, FillIs
<1> QED
  BY <1>1, <1>2, <1>3, ConcatEmptySeq DEF IsSeq

\* The coordinates of a point are numbers.
LEMMA CoordinatesAre ==
  ASSUME NEW curve, curve.order \in Nat, NEW point \in 0 .. curve.order - 1
  PROVE  X(curve, point) \in 0 .. curve.order - 1 /\ Y(curve, point) \in 0 .. curve.order - 1
BY DEF X, Y

\* The circuit's bits and the prover's bytes are of one number: for any lengths of
\* bytes and coordinates, whatever the points and the shares are.
THEOREM Encodings == BitsAgree
<1>1. /\ \A curve \in {Secp, Bls} : curve.order \in Nat \ {0, 1} /\ curve.size \in Nat \ {0}
      /\ Bls.order <= 2 ^ ShareBits /\ ShareBits \in Nat
  BY ECIESAssumption
<1>2. ASSUME NEW point \in 0 .. Secp.order - 1
      PROVE  LET bits == MarshalG1(Secp, point) IN
             /\ bigEndianBitsToBytes(bits) = RawBytes(Secp, point)
             /\ bigEndianBitsToBytes(SubSeq(bits, 1, ByteBits * Secp.size))
                  = FillBytes(X(Secp, point), Secp.size)
  <2>1. X(Secp, point) \in Nat /\ Y(Secp, point) \in Nat /\ Secp.size \in Nat
    BY <1>1, CoordinatesAre
  <2> DEFINE bits == MarshalG1(Secp, point)
  <2>2. /\ bigEndianBitsToBytes(bits) = RawBytes(Secp, point)
        /\ SubSeq(bits, 1, ByteBits * Secp.size)
             = Reverse(ToBinary(X(Secp, point), ByteBits * Secp.size))
    BY <2>1, PointBytes
  <2> HIDE DEF bits
  <2>3. bigEndianBitsToBytes(SubSeq(bits, 1, ByteBits * Secp.size))
          = FillBytes(X(Secp, point), Secp.size)
    BY <2>1, <2>2, CoordinateBytes
  <2> QED
    BY <2>2, <2>3 DEF bits
<1>3. ASSUME NEW fi \in Elems(Shares)
      PROVE  LET point == ScalarMulBase(Bls, fi) IN
             /\ bigEndianBitsToBytes(MarshalG1(Bls, point)) = RawBytes(Bls, point)
             /\ PlainBytes(fi) = transformKeyShare(fi)
  <2> DEFINE point == ScalarMulBase(Bls, fi)
  <2>1. fi \in 1 .. Bls.order - 1
    <3>1. PICK i \in DOMAIN Shares : fi = Shares[i]
      BY DEF Elems
    <3>2. i \in Recipients
      BY KeyShareAssumption, LenIs DEF Recipients
    <3> QED
      BY <3>1, <3>2, KeyShareAssumption
  <2>2. fi \in Nat /\ fi < 2 ^ ShareBits
    <3>1. 2 ^ ShareBits \in Nat
      BY <1>1, TwoTo
    <3> DEFINE p == 2 ^ ShareBits
    <3>2. p \in Nat /\ Bls.order <= p /\ Bls.order \in Nat
      BY <1>1, <3>1
    <3> HIDE DEF p
    <3>3. fi < p
      BY <2>1, <3>2
    <3> QED
      BY <1>1, <2>1, <3>3 DEF p
  <2>3. PlainBytes(fi) = transformKeyShare(fi)
    BY <2>2, ShareBytesAre
  <2>4. point \in 0 .. Bls.order - 1
    BY <1>1, <2>2 DEF ScalarMulBase
  <2> HIDE DEF point
  <2>5. X(Bls, point) \in Nat /\ Y(Bls, point) \in Nat /\ Bls.size \in Nat
    BY <1>1, <2>4, CoordinatesAre
  <2>6. bigEndianBitsToBytes(MarshalG1(Bls, point)) = RawBytes(Bls, point)
    BY <2>5, PointBytes
  <2> QED
    BY <2>3, <2>6 DEF point
<1>4. ASSUME NEW c \in ChunkIndex .. ChunkIndex + ShareBytes
      PROVE  GetIV(<<>>, c) = FillBytes(c, CounterBytes)
  BY CounterBytesAre DEF ChunkIndex
<1> QED
  BY <1>2, <1>3, <1>4 DEF BitsAgree

-----------------------------------------------------------------------------
(* What is hashed, taken apart again.                                      *)

\* What comes after s.
LEMMA JoinAfter ==
  ASSUME NEW s, IsSeq(s), NEW u, IsSeq(u), NEW i \in 1 .. Len(u)
  PROVE  (s \o u)[Len(s) + i] = u[i]
BY JoinIs

\* Of two sequences that start alike, what follows is alike.
LEMMA JoinRest ==
  ASSUME NEW s, IsSeq(s), NEW u, IsSeq(u), NEW v, IsSeq(v), NEW a, a = s \o u, a = s \o v
  PROVE  u = v
<1> DEFINE n == Len(s)
           l == Len(u)
           m == Len(v)
<1>1. Len(a) = n + l
  BY JoinIs
<1>2. Len(a) = n + m
  BY JoinIs
<1>3. n \in Nat /\ l \in Nat /\ m \in Nat /\ DOMAIN u = 1 .. l /\ DOMAIN v = 1 .. m
  BY LenIs
<1>4. \A i \in 1 .. l : (s \o u)[n + i] = u[i]
  BY JoinAfter
<1>5. \A i \in 1 .. m : (s \o v)[n + i] = v[i]
  BY JoinAfter
<1> HIDE DEF n, l, m
<1>6. l = m
  BY <1>1, <1>2, <1>3
<1>7. \A i \in DOMAIN u : v[i] = u[i]
  BY <1>3, <1>4, <1>5, <1>6
<1>8. v = [i \in DOMAIN v |-> v[i]]
  BY DEF IsSeq
<1> QED
  BY <1>3, <1>6, <1>7, <1>8, SameSeq

\* Two sequences, each followed by another, the first ones of one length.
LEMMA JoinBinds ==
  ASSUME NEW s, IsSeq(s), NEW t, IsSeq(t), Len(s) = Len(t), NEW u, IsSeq(u), NEW v, IsSeq(v),
         NEW a, a = s \o u, a = t \o v
  PROVE  s = t /\ u = v
<1>1. s = t
  BY JoinSame
<1>2. u = v
  <2>1. a = s \o v
    BY <1>1
  <2> QED
    BY <2>1, JoinRest
<1> QED
  BY <1>1, <1>2

\* A number that the bytes have room for is known by them.
LEMMA FillBinds ==
  ASSUME NEW size \in Nat, NEW v \in Nat, NEW w \in Nat,
         v < 2 ^ (ByteBits * size), w < 2 ^ (ByteBits * size),
         FillBytes(v, size) = FillBytes(w, size)
  PROVE  v = w
<1>1. ByteBits \in Nat
  BY ConstantsAre
<1>2. ASSUME NEW j \in 0 .. size - 1
      PROVE  DigitAt(ByteBits, v, j) = DigitAt(ByteBits, w, j)
  <2> DEFINE k == size - j
  <2>1. k \in 1 .. size /\ size - k = j
    OBVIOUS
  <2> HIDE DEF k
  <2>2. FillBytes(v, size)[k] = Byte(v \div 2 ^ (ByteBits * j))
    BY <2>1 DEF FillBytes
  <2>3. FillBytes(w, size)[k] = Byte(w \div 2 ^ (ByteBits * j))
    BY <2>1 DEF FillBytes
  <2>4. Byte(v \div 2 ^ (ByteBits * j)) = Byte(w \div 2 ^ (ByteBits * j))
    BY <2>2, <2>3
  <2> DEFINE x == (v \div 2 ^ (ByteBits * j)) % 2 ^ ByteBits
             y == (w \div 2 ^ (ByteBits * j)) % 2 ^ ByteBits
  <2>5. {<<"byte", x>>} = {<<"byte", y>>}
    BY <2>4 DEF Byte
  <2> HIDE DEF x, y
  <2>6. <<"byte", x>> = <<"byte", y>>
    BY <2>5
  <2>7. x = y
    BY <2>6
  <2> QED
    BY <2>7 DEF x, y, DigitAt
<1> QED
  BY <1>1, <1>2, Digits

\* A curve and what the assumptions say of it.
LEMMA CurveIs ==
  ASSUME NEW curve \in {Secp, Bls}
  PROVE  /\ curve.order \in Nat \ {0, 1} /\ curve.size \in Nat \ {0}
         /\ \A v \in 0 .. curve.order - 1 : v < 2 ^ (ByteBits * curve.size)
<1>1. curve.order \in Nat \ {0, 1} /\ curve.size \in Nat \ {0} /\ curve.order <= 2 ^ (ByteBits * curve.size)
  BY ECIESAssumption
<1> DEFINE p == 2 ^ (ByteBits * curve.size)
<1>2. p \in Nat
  <2>1. ByteBits * curve.size \in Nat
    BY <1>1, ConstantsAre
  <2> QED
    BY <2>1, TwoTo
<1>3. curve.order <= p
  BY <1>1
<1> HIDE DEF p
<1>4. \A v \in 0 .. curve.order - 1 : v < p
  BY <1>1, <1>2, <1>3
<1> QED
  BY <1>1, <1>4 DEF p

\* Points of one X.
LEMMA XBinds ==
  ASSUME NEW curve \in {Secp, Bls}, NEW p \in 0 .. curve.order - 1, NEW q \in 0 .. curve.order - 1,
         FillBytes(X(curve, p), curve.size) = FillBytes(X(curve, q), curve.size)
  PROVE  X(curve, p) = X(curve, q)
<1> DEFINE x == X(curve, p)
           y == X(curve, q)
           size == curve.size
<1>1. size \in Nat /\ x \in 0 .. curve.order - 1 /\ y \in 0 .. curve.order - 1
  BY CurveIs, CoordinatesAre
<1> HIDE DEF x, y
<1>2. /\ x < 2 ^ (ByteBits * size) /\ y < 2 ^ (ByteBits * size) /\ x \in Nat /\ y \in Nat
  BY <1>1, CurveIs
<1>3. FillBytes(x, size) = FillBytes(y, size)
  BY DEF x, y
<1> HIDE DEF size
<1>4. x = y
  BY <1>1, <1>2, <1>3, FillBinds
<1> QED
  BY <1>4 DEF x, y

\* How many bytes a point has.
LEMMA RawIs ==
  ASSUME NEW curve \in {Secp, Bls}, NEW p
  PROVE  IsSeq(RawBytes(curve, p)) /\ Len(RawBytes(curve, p)) = curve.size + curve.size
<1> DEFINE fx == FillBytes(X(curve, p), curve.size)
           fy == FillBytes(Y(curve, p), curve.size)
<1>1. curve.size \in Nat
  BY CurveIs
<1>2. IsSeq(fx) /\ Len(fx) = curve.size
  BY <1>1, FillIs
<1>3. IsSeq(fy) /\ Len(fy) = curve.size
  BY <1>1, FillIs
<1> HIDE DEF fx, fy
<1>4. IsSeq(fx \o fy) /\ Len(fx \o fy) = Len(fx) + Len(fy)
  <2>1. IsSeq(fx) /\ IsSeq(fy)
    BY <1>2, <1>3
  <2> QED
    BY <2>1, JoinIs
<1> QED
  BY <1>2, <1>3, <1>4 DEF RawBytes, fx, fy

\* A point stands in its bytes.
LEMMA RawBinds ==
  ASSUME NEW curve \in {Secp, Bls}, NEW p \in 0 .. curve.order - 1, NEW q \in 0 .. curve.order - 1,
         RawBytes(curve, p) = RawBytes(curve, q)
  PROVE  p = q
<1> DEFINE size == curve.size
           s == FillBytes(X(curve, p), size)
           t == FillBytes(X(curve, q), size)
           u == FillBytes(p, size)
           v == FillBytes(q, size)
<1>1. size \in Nat
  BY CurveIs
<1>2. /\ IsSeq(s) /\ Len(s) = size /\ IsSeq(t) /\ Len(t) = size
      /\ IsSeq(u) /\ Len(u) = size /\ IsSeq(v) /\ Len(v) = size
  <2> HIDE DEF size
  <2> QED
    BY <1>1, FillIs
<1>3. s \o u = t \o v
  BY DEF RawBytes, Y
<1> HIDE DEF s, t, u, v
<1>4. u = v
  <2>1. IsSeq(s) /\ IsSeq(t) /\ IsSeq(u) /\ IsSeq(v) /\ Len(s) = Len(t)
    BY <1>2
  <2> DEFINE m == s \o u
  <2>2. m = s \o u /\ m = t \o v
    BY <1>3
  <2> HIDE DEF m
  <2> QED
    BY <2>1, <2>2, JoinBinds
<1>5. p \in Nat /\ q \in Nat /\ p < 2 ^ (ByteBits * size) /\ q < 2 ^ (ByteBits * size)
  BY CurveIs
<1> HIDE DEF size
<1> QED
  BY <1>1, <1>4, <1>5, FillBinds DEF u, v

\* Multiples of one secret that have one X are of points that have one X: the order
\* is prime, so the secret is no multiple of what divides it.
LEMMA TimesBinds ==
  ASSUME NEW r \in 1 .. Secp.order - 1, NEW p \in 1 .. Secp.order - 1, NEW q \in 1 .. Secp.order - 1,
         X(Secp, ScalarMul(Secp, r, p)) = X(Secp, ScalarMul(Secp, r, q))
  PROVE  X(Secp, p) = X(Secp, q)
<1> DEFINE o == Secp.order
           a == (r * p) % o
           b == (r * q) % o
           c == (r * p) \div o
           d == (r * q) \div o
<1>1. o \in Nat \ {0, 1}
  BY ConstantsAre
<1> HIDE DEF o
<1>2. /\ r * p \in Nat /\ r * q \in Nat
      /\ r \in 1 .. o - 1 /\ p \in 1 .. o - 1 /\ q \in 1 .. o - 1
  BY <1>1 DEF o
<1>3. /\ a \in 0 .. o - 1 /\ c \in Nat /\ r * p = o * c + a
      /\ b \in 0 .. o - 1 /\ d \in Nat /\ r * q = o * d + b
  <2>1. ASSUME NEW m \in Nat PROVE m % o \in 0 .. o - 1 /\ m \div o \in Nat /\ m = o * (m \div o) + (m % o)
    BY <1>1
  <2> QED
    BY <1>2, <2>1
<1>4. X(Secp, a) = X(Secp, b)
  BY DEF ScalarMul, o
<1>5. ASSUME NEW k \in 1 .. o - 1, NEW z \in Int, r * k = o * z PROVE FALSE
  <2>1. r * k \in Nat
    BY <1>1
  <2>2. z \in Nat
    <3>1. SUFFICES ASSUME z <= 0 - 1 PROVE FALSE
      OBVIOUS
    <3>2. o * z <= 0 - o
      <4>1. o * (z + 1) <= 0
        BY <1>1, <3>1
      <4>2. o * (z + 1) = o * z + o
        BY <1>1
      <4> QED
        BY <1>1, <4>1, <4>2
    <3> QED
      BY <1>1, <1>5, <2>1, <3>2
  <2>3. (r * k) % o = 0
    <3>1. 0 \in 0 .. o - 1 /\ o * z + 0 = o * z
      BY <1>1, <2>2
    <3>2. (o * z + 0) % o = 0
      BY <1>1, <2>2, <3>1, DivisionIs
    <3> QED
      BY <1>5, <3>1, <3>2
  <2>4. (r * k) % o # 0
    BY ECIESAssumption DEF o
  <2> QED
    BY <2>3, <2>4
<1> HIDE DEF a, b, c, d
<1>6. a = b \/ a + b = o
  BY <1>1, <1>3, <1>4 DEF X, o
<1>7. CASE a = b
  <2>1. SUFFICES ASSUME p # q PROVE FALSE
    OBVIOUS
  <2>2. CASE p < q
    <3>1. q - p \in 1 .. o - 1 /\ d - c \in Int
      BY <1>1, <1>2, <1>3, <2>2
    <3>2. r * (q - p) = r * q - r * p /\ o * (d - c) = o * d - o * c
      BY <1>1, <1>3
    <3>3. r * q - r * p = o * d - o * c
      BY <1>3, <1>7, <1>2, <1>1
    <3> QED
      BY <1>5, <3>1, <3>2, <3>3
  <2>3. CASE q < p
    <3>1. p - q \in 1 .. o - 1 /\ c - d \in Int
      BY <1>1, <1>2, <1>3, <2>3
    <3>2. r * (p - q) = r * p - r * q /\ o * (c - d) = o * c - o * d
      BY <1>1, <1>3
    <3>3. r * p - r * q = o * c - o * d
      BY <1>3, <1>7, <1>2, <1>1
    <3> QED
      BY <1>5, <3>1, <3>2, <3>3
  <2> QED
    BY <2>1, <2>2, <2>3, <1>1
<1>8. CASE a + b = o
  <2>1. p + q = o
    <3>1. SUFFICES ASSUME p + q # o PROVE FALSE
      OBVIOUS
    <3>2. r * (p + q) = r * p + r * q /\ o * (c + d + 1) = o * c + o * d + o
      BY <1>1, <1>3
    <3>3. r * (p + q) = o * (c + d + 1)
      BY <1>1, <1>2, <1>3, <1>8, <3>2
    <3>4. CASE p + q < o
      <4>1. p + q \in 1 .. o - 1 /\ c + d + 1 \in Int
        BY <1>1, <1>2, <1>3, <3>4
      <4> QED
        BY <1>5, <3>3, <4>1
    <3>5. CASE p + q > o
      <4>1. p + q - o \in 1 .. o - 1 /\ c + d + 1 - r \in Int
        BY <1>1, <1>2, <1>3, <3>5
      <4>2. r * (p + q - o) = r * (p + q) - r * o /\ o * (c + d + 1 - r) = o * (c + d + 1) - o * r
        BY <1>1, <1>3
      <4>3. r * o = o * r /\ r * o \in Nat /\ o * (c + d + 1) \in Nat
        BY <1>1, <1>3
      <4>4. r * (p + q - o) = o * (c + d + 1 - r)
        BY <3>3, <4>2, <4>3
      <4> QED
        BY <1>5, <4>1, <4>4
    <3> QED
      BY <1>1, <3>1, <3>4, <3>5
  <2> QED
    BY <1>1, <2>1 DEF X, o
<1> QED
  BY <1>6, <1>7, <1>8

\* Two messages have one AES key only if they have one r and recipients of one X.
THEOREM KeysApart == KeysBind
<1>1. SUFFICES ASSUME NEW r \in Secrets, NEW s \in Secrets, NEW p \in Points, NEW q \in Points,
                      SharedKey(ScalarMul(Secp, r, p), ScalarMulBase(Secp, r))
                        = SharedKey(ScalarMul(Secp, s, q), ScalarMulBase(Secp, s))
               PROVE  r = s /\ X(Secp, p) = X(Secp, q)
  BY DEF KeysBind
<1> DEFINE o == Secp.order
           rp == ScalarMul(Secp, r, p)
           sq == ScalarMul(Secp, s, q)
           rg == ScalarMulBase(Secp, r)
           sg == ScalarMulBase(Secp, s)
<1>2. /\ r \in 1 .. o - 1 /\ s \in 1 .. o - 1 /\ p \in 1 .. o - 1 /\ q \in 1 .. o - 1
      /\ rp \in 0 .. o - 1 /\ sq \in 0 .. o - 1 /\ rg \in 0 .. o - 1 /\ sg \in 0 .. o - 1
  BY PointIs
<1>3. rg = r /\ sg = s
  <2>1. o \in Nat \ {0}
    BY ConstantsAre
  <2>2. ASSUME NEW k \in 1 .. o - 1 PROVE k % o = k
    BY <2>1
  <2> QED
    BY <1>2, <2>2 DEF ScalarMulBase
<1> HIDE DEF rp, sq, rg, sg
<1> DEFINE fr == FillBytes(X(Secp, rp), Secp.size)
           fs == FillBytes(X(Secp, sq), Secp.size)
           gr == RawBytes(Secp, rg)
           gs == RawBytes(Secp, sg)
<1>4. <<{<<"sha3", fr \o gr>>}>> = <<{<<"sha3", fs \o gs>>}>>
  BY <1>1 DEF SharedKey, Sha3, rp, sq, rg, sg
<1>5. Secp \in {Secp, Bls} /\ Secp.size \in Nat
  BY CurveIs
<1>6. IsSeq(fr) /\ Len(fr) = Secp.size /\ IsSeq(fs) /\ Len(fs) = Secp.size
  BY <1>5, FillIs
<1>7. IsSeq(gr) /\ IsSeq(gs)
  BY <1>5, RawIs
<1> HIDE DEF fr, fs, gr, gs
<1>8. fr \o gr = fs \o gs
  <2> DEFINE m == fr \o gr
             n == fs \o gs
  <2>1. <<{<<"sha3", m>>}>> = <<{<<"sha3", n>>}>>
    BY <1>4
  <2> HIDE DEF m, n
  <2>2. {<<"sha3", m>>} = {<<"sha3", n>>}
    BY <2>1
  <2>3. <<"sha3", m>> = <<"sha3", n>>
    BY <2>2
  <2>4. m = n
    BY <2>3
  <2> QED
    BY <2>4 DEF m, n
<1>9. fr = fs /\ gr = gs
  <2>1. IsSeq(fr) /\ IsSeq(fs) /\ Len(fr) = Len(fs)
    BY <1>6
  <2> QED
    BY <1>7, <1>8, <2>1, JoinBinds
<1>10. r = s
  <2>1. rg = sg
    BY <1>2, <1>5, <1>9, RawBinds DEF gr, gs
  <2> QED
    BY <1>3, <2>1
<1>11. X(Secp, rp) = X(Secp, sq)
  BY <1>2, <1>5, <1>9, XBinds DEF fr, fs
<1>12. X(Secp, p) = X(Secp, q)
  BY <1>2, <1>10, <1>11, TimesBinds DEF rp, sq
<1> QED
  BY <1>10, <1>12

\* Six parts, one after the other.
Six(p) == p[1] \o p[2] \o p[3] \o p[4] \o p[5] \o p[6]

\* What is the same in all is the same in each of six parts.
LEMMA PartsBind ==
  ASSUME NEW p, \A i \in 1 .. 6 : IsSeq(p[i]), NEW q, \A i \in 1 .. 6 : IsSeq(q[i]),
         \A i \in 1 .. 5 : Len(p[i]) = Len(q[i]), Six(p) = Six(q)
  PROVE  \A i \in 1 .. 6 : p[i] = q[i]
<1> DEFINE a == p[1]
           b == p[2]
           c == p[3]
           d == p[4]
           k == p[5]
           m == p[6]
           aa == q[1]
           bb == q[2]
           cc == q[3]
           dd == q[4]
           kk == q[5]
           mm == q[6]
           x == Six(p)
<1>0. /\ IsSeq(a) /\ IsSeq(b) /\ IsSeq(c) /\ IsSeq(d) /\ IsSeq(k) /\ IsSeq(m)
      /\ IsSeq(aa) /\ IsSeq(bb) /\ IsSeq(cc) /\ IsSeq(dd) /\ IsSeq(kk) /\ IsSeq(mm)
      /\ Len(a) = Len(aa) /\ Len(b) = Len(bb) /\ Len(c) = Len(cc) /\ Len(d) = Len(dd)
      /\ Len(k) = Len(kk)
  OBVIOUS
<1>1. ASSUME NEW s, IsSeq(s), NEW t, IsSeq(t), Len(s) = Len(t),
             NEW u, IsSeq(u), NEW v, IsSeq(v), Len(u) = Len(v)
      PROVE  IsSeq(s \o u) /\ IsSeq(t \o v) /\ Len(s \o u) = Len(t \o v)
  <2>1. IsSeq(s \o u) /\ Len(s \o u) = Len(s) + Len(u)
    BY <1>1, JoinIs
  <2>2. IsSeq(t \o v) /\ Len(t \o v) = Len(t) + Len(v)
    BY <1>1, JoinIs
  <2> QED
    BY <1>1, <2>1, <2>2
<1> DEFINE ab == a \o b
           aabb == aa \o bb
           abc == ab \o c
           aabbcc == aabb \o cc
           abcd == abc \o d
           aabbccdd == aabbcc \o dd
           abcdk == abcd \o k
           aabbccddkk == aabbccdd \o kk
<1>2. x = abcdk \o m /\ x = aabbccddkk \o mm
  BY DEF Six
<1>12. \A i \in 1 .. 6 : i \in {1, 2, 3, 4, 5, 6}
  OBVIOUS
<1>13. SUFFICES a = aa /\ b = bb /\ c = cc /\ d = dd /\ k = kk /\ m = mm
  BY <1>12
<1> HIDE DEF a, b, c, d, k, m, aa, bb, cc, dd, kk, mm, x
<1>3. IsSeq(ab) /\ IsSeq(aabb) /\ Len(ab) = Len(aabb)
  BY <1>0, <1>1
<1> HIDE DEF ab, aabb
<1>4. IsSeq(abc) /\ IsSeq(aabbcc) /\ Len(abc) = Len(aabbcc)
  BY <1>0, <1>1, <1>3
<1> HIDE DEF abc, aabbcc
<1>5. IsSeq(abcd) /\ IsSeq(aabbccdd) /\ Len(abcd) = Len(aabbccdd)
  BY <1>0, <1>1, <1>4
<1> HIDE DEF abcd, aabbccdd
<1>6. IsSeq(abcdk) /\ IsSeq(aabbccddkk) /\ Len(abcdk) = Len(aabbccddkk)
  BY <1>0, <1>1, <1>5
<1> HIDE DEF abcdk, aabbccddkk
<1>7. abcdk = aabbccddkk /\ m = mm
  BY <1>0, <1>2, <1>6, JoinBinds
<1>8. abcd = aabbccdd /\ k = kk
  <2>1. abcdk = abcd \o k /\ abcdk = aabbccdd \o kk
    BY <1>7 DEF abcdk, aabbccddkk
  <2> QED
    BY <1>0, <1>5, <2>1, JoinBinds
<1>9. abc = aabbcc /\ d = dd
  <2>1. abcd = abc \o d /\ abcd = aabbcc \o dd
    BY <1>8 DEF abcd, aabbccdd
  <2> QED
    BY <1>0, <1>4, <2>1, JoinBinds
<1>10. ab = aabb /\ c = cc
  <2>1. abc = ab \o c /\ abc = aabb \o cc
    BY <1>9 DEF abc, aabbcc
  <2> QED
    BY <1>0, <1>3, <2>1, JoinBinds
<1>11. a = aa /\ b = bb
  <2>1. ab = a \o b /\ ab = aa \o bb
    BY <1>10 DEF ab, aabb
  <2> QED
    BY <1>0, <2>1, JoinBinds
<1> QED
  BY <1>7, <1>8, <1>9, <1>10, <1>11

\* The hash of equal data only.
LEMMA Sha256Binds ==
  ASSUME NEW x, NEW y, Sha256(x) = Sha256(y)
  PROVE  x = y
<1>1. <<{<<"sha256", x>>}>>[1] = <<{<<"sha256", y>>}>>[1]
  BY DEF Sha256
<1>2. {<<"sha256", x>>} = {<<"sha256", y>>}
  BY <1>1
<1>3. <<"sha256", x>> = <<"sha256", y>>
  BY <1>2
<1> QED
  BY <1>3

\* The hash of a message stands for all that it is about.
LEMMA InnerHashBinds ==
  ASSUME NEW e, Whole(e), NEW f, Whole(f), InnerHash(e) = InnerHash(f)
  PROVE  \A g \in Arrays : e[g] = f[g]
<1>1. /\ IsSeq(e["encs"]) /\ IsSeq(e["nonces"]) /\ Len(e["encs"]) = Len(f["encs"])
      /\ IsSeq(f["encs"]) /\ IsSeq(f["nonces"]) /\ Len(e["nonces"]) = Len(f["nonces"])
  BY DEF Whole, Drawn
<1> DEFINE R(p) == ScalarMulBase(Secp, p["rs"])
           F(p) == ScalarMulBase(Bls, p["fis"])
           k == <<Byte(ChunkIndex)>>
           Text(p) == RawBytes(Secp, R(p)) \o RawBytes(Secp, p["pubs"]) \o RawBytes(Bls, F(p))
                      \o p["nonces"] \o k \o p["encs"]
<1>2. Text(e) = Text(f)
  <2>1. Sha256(Text(e)) = Sha256(Text(f))
    BY DEF InnerHash, computeSumHash
  <2> HIDE DEF Text
  <2> QED
    BY <2>1, Sha256Binds
<1>3. ASSUME NEW curve \in {Secp, Bls}, NEW p, NEW q
      PROVE  /\ IsSeq(RawBytes(curve, p)) /\ IsSeq(RawBytes(curve, q))
             /\ Len(RawBytes(curve, p)) = Len(RawBytes(curve, q))
  BY RawIs
<1>4. IsSeq(k)
  <2>1. k \in Seq({Byte(ChunkIndex)})
    OBVIOUS
  <2> QED
    BY <2>1, SeqIs
<1> DEFINE re == RawBytes(Secp, R(e))
           rf == RawBytes(Secp, R(f))
           pe == RawBytes(Secp, e["pubs"])
           pf == RawBytes(Secp, f["pubs"])
           fe == RawBytes(Bls, F(e))
           ff == RawBytes(Bls, F(f))
<1>5. /\ IsSeq(re) /\ IsSeq(rf) /\ Len(re) = Len(rf) /\ IsSeq(pe) /\ IsSeq(pf) /\ Len(pe) = Len(pf)
      /\ IsSeq(fe) /\ IsSeq(ff) /\ Len(fe) = Len(ff)
  BY <1>3
<1> DEFINE ne == e["nonces"]
           nf == f["nonces"]
           ee == e["encs"]
           ef == f["encs"]
           p == <<re, pe, fe, ne, k, ee>>
           q == <<rf, pf, ff, nf, k, ef>>
<1>6. Six(p) = Six(q)
  BY <1>2 DEF Six
<1> HIDE DEF re, rf, pe, pf, fe, ff, k, Text
<1>7. re = rf /\ pe = pf /\ fe = ff /\ e["nonces"] = f["nonces"] /\ e["encs"] = f["encs"]
  <2>1. /\ IsSeq(re) /\ IsSeq(pe) /\ IsSeq(fe) /\ IsSeq(ne) /\ IsSeq(k) /\ IsSeq(ee)
        /\ IsSeq(rf) /\ IsSeq(pf) /\ IsSeq(ff) /\ IsSeq(nf) /\ IsSeq(ef)
        /\ Len(re) = Len(rf) /\ Len(pe) = Len(pf) /\ Len(fe) = Len(ff) /\ Len(ne) = Len(nf)
        /\ Len(k) = Len(k)
    BY <1>1, <1>4, <1>5
  <2> HIDE DEF ne, nf, ee, ef
  <2>2. (\A i \in 1 .. 6 : IsSeq(p[i]) /\ IsSeq(q[i])) /\ \A i \in 1 .. 5 : Len(p[i]) = Len(q[i])
    BY <2>1
  <2> HIDE DEF p, q
  <2>3. \A i \in 1 .. 6 : p[i] = q[i]
    BY <1>6, <2>2, PartsBind
  <2>4. re = rf /\ pe = pf /\ fe = ff /\ ne = nf /\ ee = ef
    BY <2>3 DEF p, q
  <2> QED
    BY <2>4 DEF ne, nf, ee, ef
<1>8. ASSUME NEW g, Whole(g)
      PROVE  /\ g["rs"] \in 0 .. Secp.order - 1 /\ R(g) = g["rs"]
             /\ g["fis"] \in 0 .. Bls.order - 1 /\ F(g) = g["fis"]
             /\ g["pubs"] \in 0 .. Secp.order - 1
  <2>1. g["pubs"] \in Points /\ g["rs"] \in Secrets /\ g["fis"] \in Elems(Shares)
    BY <1>8 DEF Whole, Drawn
  <2>2. g["rs"] \in 1 .. Secp.order - 1 /\ Secp.order \in Nat
    BY <2>1, KeyShareAssumption, CurveIs
  <2>3. g["fis"] \in 1 .. Bls.order - 1 /\ Bls.order \in Nat
    <3>1. DOMAIN Shares = Recipients
      BY KeyShareAssumption, LenIs DEF Recipients
    <3> QED
      BY <2>1, <3>1, KeyShareAssumption, CurveIs DEF Elems
  <2>4. g["pubs"] \in 0 .. Secp.order - 1
    BY <2>1, PointIs
  <2>5. ASSUME NEW o \in Nat, NEW n \in 1 .. o - 1 PROVE n % o = n /\ n \in 0 .. o - 1
    BY <2>5
  <2> QED
    BY <2>2, <2>3, <2>4, <2>5 DEF ScalarMulBase
<1>9. e["rs"] = f["rs"]
  BY <1>7, <1>8, RawBinds DEF re, rf
<1>10. e["pubs"] = f["pubs"]
  BY <1>7, <1>8, RawBinds DEF pe, pf
<1>11. e["fis"] = f["fis"]
  BY <1>7, <1>8, RawBinds DEF fe, ff
<1> QED
  BY <1>7, <1>9, <1>10, <1>11 DEF Arrays
=============================================================================
