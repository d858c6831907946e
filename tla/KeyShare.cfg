\* Two recipients, two attempts and one proof; every kind of slip, and
\* one restart.
CONSTANTS
  ByteBits = 2
  NonceBytes = 2
  CounterBytes = 2
  Secp <- MCSecp
  Bls <- MCBls
  ShareBits = 15
  ShareBytes = 8
  Prv <- MCPrv
  Shares <- MCShares
  Secrets <- MCSecrets
  Senders = {1}
  Batches = {1, 2}
  Slips = {"stale", "swap", "drop", "blank", "clip", "extend", "tag"}
  MaxAttempts = 2
  MaxProofs = 1
  MaxRestarts = 1
SPECIFICATION Spec
INVARIANTS
  TypeOK
  HonestProves
  ProofDecrypts
  NoKeystreamTwice
