---------------------------- MODULE BatchCircuit ----------------------------
(***************************************************************************)
(* The constraints of the batch circuit and of the circuit of one message  *)
(* (src/circuit/batch_encryption.go, ecies.go, aes256_gcm.go) over an      *)
(* assignment.  An operator that builds values for the constraints has the *)
(* name of its function; a circuit is satisfied when every assertion on    *)
(* the way holds.  The block cipher and the hashes stand for their         *)
(* circuits; AES256 is about the former.                                   *)
(***************************************************************************)
EXTENDS ECIES

BitBytes(bits) == Len(bits) \div ByteBits

\* Chunk k, counted from 0, of a row of bits, as a byte.
ChunkByte(bits, k) ==
  Byte(FromBinary(SubSeq(bits, k * ByteBits + 1, (k + 1) * ByteBits)))

\* Faulty: the bytes are not turned back.
bigEndianBitsToBytesLittle(in) ==
  [k \in 1 .. BitBytes(in) |-> ChunkByte(Reverse(in), k - 1)]

\* Reverse the bits, read the bytes, reverse the bytes.
bigEndianBitsToBytes(in) ==
  Reverse([k \in 1 .. BitBytes(in) |-> ChunkByte(Reverse(in), k - 1)])

\* gnark's MarshalG1: the bits of X, then of Y, the most significant one first.
MarshalG1(curve, point) ==
  LET bits(n) == Reverse(ToBinary(n, ByteBits * curve.size))
  IN bits(X(curve, point)) \o bits(Y(curve, point))

\* The bytes of the share from its bits, which are filled up with zeros.
PlainBytes(fi) ==
  LET bits == ToBinary(fi, ShareBits)
      fill == (ByteBits - (ShareBits % ByteBits)) % ByteBits
      shareBits == bits \o [k \in 1 .. fill |-> 0]
      n == BitBytes(shareBits)
  IN [i \in 1 .. n |-> ChunkByte(shareBits, n - i)]

\* The counter's bytes, the most significant one first.
GetIV(nonce, counter) ==
  LET bits == ToBinary(counter, ByteBits * CounterBytes)
  IN nonce \o [k \in 1 .. CounterBytes |-> ChunkByte(bits, CounterBytes - k)]

\* Faulty: the last block is not reached.
GCMAssertButLast(key, iv, chunkIndex, plaintext, ciphertext) ==
  \A epoch \in 0 .. (Len(plaintext) \div BlockBytes) - 2 :
    LET mask == AESBlock(key, GetIV(iv, chunkIndex + epoch)) IN
    \A j \in 1 .. BlockBytes :
      ciphertext[epoch * BlockBytes + j] = XorBytes(mask[j], plaintext[epoch * BlockBytes + j])

\* GCM256.Assert, for each whole block of the plaintext.
GCMAssert(key, iv, chunkIndex, plaintext, ciphertext) ==
  \A epoch \in 0 .. (Len(plaintext) \div BlockBytes) - 1 :
    LET mask == AESBlock(key, GetIV(iv, chunkIndex + epoch)) IN
    \A j \in 1 .. BlockBytes :
      ciphertext[epoch * BlockBytes + j] = XorBytes(mask[j], plaintext[epoch * BlockBytes + j])

\* ECIES.Encrypt: its assertions, and the public inputs it returns.
EncryptHolds(p) ==
  LET bigR == MarshalG1(Secp, ScalarMulBase(Secp, p.R))
      rPub == MarshalG1(Secp, ScalarMul(Secp, p.R, p.Pub))
      rPubX == SubSeq(rPub, 1, ByteBits * Secp.size)
      key == Sha3(bigEndianBitsToBytes(rPubX) \o bigEndianBitsToBytes(bigR))
  IN GCMAssert(key, p.Iv, p.ChunkIndex, PlainBytes(p.Fi), p.CipherChunks)

PubInputs(p) ==
  LET bytes(curve, point) == bigEndianBitsToBytes(MarshalG1(curve, point))
  IN bytes(Secp, ScalarMulBase(Secp, p.R)) \o bytes(Secp, p.Pub)
     \o bytes(Bls, ScalarMulBase(Bls, p.Fi))
     \o p.Iv \o <<Byte(p.ChunkIndex)>> \o p.CipherChunks

\* ECIESWrapper.Define, the circuit of one message alone.
ECIESWrapperDefine(p, PubInputHash) ==
  EncryptHolds(p) /\ Sha256(PubInputs(p)) = PubInputHash

\* The circuit has the same domain byte by byte.
hashDomainU8s ==
  Octets(<<\h44, \h4b, \h47, \h5f, \h42, \h41, \h54, \h43, \h48, \h5f,
           \h48, \h41, \h53, \h48, \h5f, \h56, \h31>>)

\* Batch entry k, counted from 0: its index, the length of its hash, its hash.
Entry(k, hash) == <<Byte(k), Byte(Len(hash))>> \o hash

\* BatchEncryptionWrapper.Define
Define(a) ==
  LET entries == [i \in DOMAIN a.Parameters |->
                    Entry(i - 1, Sha256(PubInputs(a.Parameters[i])))]
      summary == hashDomainU8s \o a.Sender \o <<Byte(Len(a.Parameters))>>
                 \o FlattenSeq(entries)
  IN /\ \A i \in DOMAIN a.Parameters : EncryptHolds(a.Parameters[i])
     /\ Sha256(summary) = a.SumHash
=============================================================================
