--------------------------- MODULE ContractInput ----------------------------
(***************************************************************************)
(* The arguments of the verifier contract, cut out of the bytes of a proof *)
(* by GetContractInput (src/helper/helper.go).  A proof is its coordinates: *)
(* eight for Ar, Bs and Krs, two for each commitment, two for the proof of *)
(* knowledge of the commitments.                                           *)
(***************************************************************************)
EXTENDS AnySequence, SequencesExt

CONSTANTS
  ByteBits,  \* the bits of a byte, 8
  WordBytes  \* the bytes of a coordinate, 32

ASSUME ContractInputAssumption == ByteBits \in Nat \ {0} /\ WordBytes \in Nat \ {0}

\* n as so many bytes, the most significant one first, and back.
PutBytes(n, length) ==
  [k \in 1 .. length |-> (n \div 2 ^ (ByteBits * (length - k))) % 2 ^ ByteBits]
SetBytes(bytes) ==
  LET n == Len(bytes)
      value[k \in 0 .. n] == IF k = 0 THEN 0 ELSE 2 ^ ByteBits * value[k - 1] + bytes[k]
  IN value[n]

\* gnark counts the commitments in four bytes.
MarshalSolidity(body) ==
  LET words(ws) == FlattenSeq([i \in DOMAIN ws |-> PutBytes(ws[i], WordBytes)])
  IN words(body.points) \o PutBytes(Len(body.commitments) \div 2, 4)
     \o words(body.commitments) \o words(body.pok)

\* Faulty: the proof of knowledge is taken for one point per commitment.
GetContractInputUndoubled(proofBytes) ==
  LET fpSize == WordBytes
      word(from) == SetBytes(SubSeq(proofBytes, from + 1, from + fpSize))
      count == SetBytes(SubSeq(proofBytes, fpSize * 8 + 1, fpSize * 8 + 4))
      cmts == fpSize * 8 + 4
      pok == cmts + count * fpSize
  IN [points |-> [i \in 1 .. 8 |-> word(fpSize * (i - 1))],
      commitments |-> [i \in 1 .. 2 * count |-> word(cmts + fpSize * (i - 1))],
      pok |-> [i \in 1 .. 2 |-> word(pok + fpSize * (i - 1))]]

\* prf, cmts and cmtPok
GetContractInput(proofBytes) ==
  LET fpSize == WordBytes
      word(from) == SetBytes(SubSeq(proofBytes, from + 1, from + fpSize))
      count == SetBytes(SubSeq(proofBytes, fpSize * 8 + 1, fpSize * 8 + 4))
      cmts == fpSize * 8 + 4
      pok == cmts + 2 * count * fpSize
  IN [points |-> [i \in 1 .. 8 |-> word(fpSize * (i - 1))],
      commitments |-> [i \in 1 .. 2 * count |-> word(cmts + fpSize * (i - 1))],
      pok |-> [i \in 1 .. 2 |-> word(pok + fpSize * (i - 1))]]
=============================================================================
