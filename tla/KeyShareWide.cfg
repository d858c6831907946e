\* Bytes of one bit: a batch of three does not fit; two proofs by two senders.
CONSTANTS
  ByteBits = 1
  NonceBytes = 1
  CounterBytes = 2
  Secp <- MCSecp
  Bls <- MCBls
  ShareBits = 6
  ShareBytes = 6
  Prv <- MCPrv
  Shares <- MCShares
  Secrets = {3}
  Senders = {0, 1}
  Batches = {1, 3}
  Slips = {"swap"}
  MaxAttempts = 2
  MaxProofs = 2
  MaxRestarts = 0
SPECIFICATION Spec
INVARIANTS
  HonestProves
  SumHashBinds
