------------------------------- MODULE ECIES --------------------------------
(***************************************************************************)
(* The data of a key share on its way to its recipient, and the functions  *)
(* of src/encryption and src/circuit/helper.go on it.                      *)
(*                                                                         *)
(* A byte is a set of atoms: the byte of value n is one atom, and XOR is   *)
(* the symmetric difference, so a byte that is masked and unmasked with    *)
(* the same keystream is itself again, and with another one is no byte.    *)
(* AES, the two hashes and the GCM tag are atoms that name their arguments: *)
(* equal for equal arguments only.  A point is its scalar times the         *)
(* generator; the points of k and of -k have the same X.                   *)
(* These primitives are external, and what this code does with their bytes *)
(* is kept: order, endianness, padding, and which of them goes where.      *)
(***************************************************************************)
EXTENDS AnySequence, SequencesExt

CONSTANTS
  ByteBits,      \* the bits of a byte
  NonceBytes,    \* the length of a nonce, 12
  CounterBytes,  \* the length of GCM's block counter, 4
  Secp,          \* the curve secp256k1: its order, and the bytes of a coordinate
  Bls,           \* the same for the group G1 of BLS12-381
  ShareBits,     \* the bits that ToBits has for a share; the code fills up to whole bytes
  ShareBytes     \* the length of a serialized share, 32: two blocks of AES

ASSUME ECIESAssumption ==
  /\ {ByteBits, NonceBytes, CounterBytes, ShareBits, ShareBytes} \subseteq Nat \ {0}
  /\ \A curve \in {Secp, Bls} :
       /\ curve.order \in Nat \ {0, 1} /\ curve.size \in Nat \ {0}
       /\ curve.order <= 2 ^ (ByteBits * curve.size)
  /\ Bls.order <= 2 ^ ShareBits
  /\ ByteBits * (ShareBytes - 1) < ShareBits /\ ShareBits <= ByteBits * ShareBytes
  /\ ShareBytes % (NonceBytes + CounterBytes) = 0
  /\ \A j, k \in 1 .. Secp.order - 1 : (j * k) % Secp.order # 0  \* it is prime

-----------------------------------------------------------------------------
(* Bytes.                                                                  *)

Byte(n) == {<<"byte", n % (2 ^ ByteBits)>>}

\* Bytes that are written out in the code keep their eight bits.
Octets(codes) == [i \in DOMAIN codes |-> {<<"octet", codes[i]>>}]

\* The bits of n, the least significant one first, and back.
ToBinary(n, width) == [k \in 1 .. width |-> (n \div 2 ^ (k - 1)) % 2]
FromBinary(bits) ==
  LET n == Len(bits)
      upper[k \in 0 .. n] == IF k = 0 THEN 0 ELSE bits[n + 1 - k] + 2 * upper[k - 1]
  IN upper[n]

\* big.Int.FillBytes: big-endian, padded in front.
FillBytes(n, length) ==
  [k \in 1 .. length |-> Byte(n \div 2 ^ (ByteBits * (length - k)))]

XorBytes(a, b) == (a \ b) \cup (b \ a)

\* Every digest counts as one byte.
Sha256(data) == <<{<<"sha256", data>>}>>
Sha3(data) == <<{<<"sha3", data>>}>>

-----------------------------------------------------------------------------
(* Points.                                                                 *)

ScalarMul(curve, k, point) == (k * point) % curve.order
ScalarMulBase(curve, k) == k % curve.order

X(curve, point) == IF 2 * point > curve.order THEN curve.order - point ELSE point
Y(curve, point) == point

RawBytes(curve, point) ==
  FillBytes(X(curve, point), curve.size) \o FillBytes(Y(curve, point), curve.size)

-----------------------------------------------------------------------------
(* crypto/cipher's GCM with a block of BlockBytes.                         *)

BlockBytes == NonceBytes + CounterBytes

AESBlock(key, block) == [j \in 1 .. BlockBytes |-> {<<"aes", key, block, j>>}]

\* The counter block of byte i of a message: block 1 is for the tag.
KeyStream(key, nonce, i) ==
  LET counter == 2 + (i - 1) \div BlockBytes
  IN AESBlock(key, nonce \o FillBytes(counter, CounterBytes))[1 + ((i - 1) % BlockBytes)]

CTR(key, nonce, data) ==
  [i \in DOMAIN data |-> XorBytes(data[i], KeyStream(key, nonce, i))]

Tag(key, nonce, data) == <<{<<"tag", key, nonce, data>>}>>

Seal(key, nonce, data) ==
  LET body == CTR(key, nonce, data) IN body \o Tag(key, nonce, body)

Refused == <<"refused">>

Open(key, nonce, sealed) ==
  LET body == Front(sealed) IN
  IF sealed = body \o Tag(key, nonce, body) THEN CTR(key, nonce, body) ELSE Refused

-----------------------------------------------------------------------------
(* src/encryption and src/circuit/helper.go.                               *)

\* The AES key: the hash of the shared point's X and of the ephemeral point.
SharedKey(rPub, bigR) ==
  Sha3(FillBytes(X(Secp, rPub), Secp.size) \o RawBytes(Secp, bigR))

\* Faulty: random bytes alone.
NonceUncounted(counter) == [k \in 1 .. NonceBytes |-> Byte(0)]

\* Four bytes of the counter, then random ones.  The random bytes of all nonces
\* are the same here, which is their worst case.
Nonce(counter) == [k \in 1 .. NonceBytes |-> Byte(IF k = 1 THEN counter ELSE 0)]

ECIESEncrypt(pub, plaintext, r, counter) ==
  [nonce |-> Nonce(counter),
   ciphertext |-> Seal(SharedKey(ScalarMul(Secp, r, pub), ScalarMulBase(Secp, r)),
                       Nonce(counter), plaintext)]

\* AESGCMDecrypt refuses a nonce of another length, and a tag that is wrong.
ECIESDecrypt(prv, ciphertext, nonce, bigR) ==
  IF Len(nonce) # NonceBytes THEN Refused
  ELSE Open(SharedKey(ScalarMul(Secp, prv, bigR), bigR), nonce, ciphertext)

\* The 32 bytes of a key share.
transformKeyShare(fi) == FillBytes(fi, ShareBytes)

ChunkIndex == 2

\* Faulty: the commitment to the share is left out.
computeSumHashUncommitted(pub, bigR, bigFi, encryptedFi, nonce) ==
  Sha256(RawBytes(Secp, bigR) \o RawBytes(Secp, pub)
         \o nonce \o <<Byte(ChunkIndex)>> \o encryptedFi)

computeSumHash(pub, bigR, bigFi, encryptedFi, nonce) ==
  Sha256(RawBytes(Secp, bigR) \o RawBytes(Secp, pub) \o RawBytes(Bls, bigFi)
         \o nonce \o <<Byte(ChunkIndex)>> \o encryptedFi)
=============================================================================
