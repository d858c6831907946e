# Models of zk-dkg

zk-dkg is the zero-knowledge library of Neo X's distributed key generation. A node
encrypts a key share for each of its peers and proves in zero knowledge that what it
has encrypted is what it has committed to; a multi-party ceremony makes the keys of
the proof system. This directory holds TLA+ models of the library and of its ceremony
tool, the TLC configurations that check them, and TLAPS proofs. Paths and line numbers
below are those of the repository.

## 1. The system

| Part | Code | State | Operations |
|---|---|---|---|
| atomic file export | `mpc/helper.go` 87-142 | a final path, its `.tmp`, local variables | `writeSecureAtomic`, `secureDelete` |
| ceremony commands | `cmd/mpccmd.go`, `mpc/phase1.go`, `mpc/phase2.go`, `mpc/helper.go` | the files of a directory, one process per command | `phase1 init/contribute/verify/seal`, `phase2 init/contribute/verify`, `seal` |
| nonce counter | `encryption/aes.go` | the package variable `counter` | `AESGCMEncrypt` (`AESGCMDecrypt` has no state) |
| ECIES encryption | `encryption/ecies.go` | none | `ECIESEncrypt`, `ECIESDecrypt` |
| key share preparation and assignment | `circuit/circuit.go`, `circuit/helper.go`, `zk_dkg.go` | five arrays that the caller carries from one call to the next | `PrepareEncryptedKeyShares`, `Compute...Assignment`, `Prove...KeyShareEncryption` |
| batch encryption circuit | `circuit/batch_encryption.go`, `circuit/ecies.go`, `circuit/aes256_gcm.go` | none (constraints over a witness) | `Define` |
| AES-256 circuit | `circuit/aes256.go` | the expanded key, the state matrix | `Encrypt`, `expandKey` |
| proof helper | `helper/helper.go` | none | `ComputeProof`, `GetContractInput`, readers of key files |
| deployment | nodes that call `helper/helper.go` and `zk_dkg.go`, as `zk_dkg_test.go` does; the chain | what a node has loaded, its proof, the deployed contract | load, prove, verify, submit |

How they interact:

- Ceremony commands share nothing but files. Each reads its inputs one by one, computes
  for minutes or hours, and writes its outputs one by one through `writeSecureAtomic`;
  only `ExportContract` writes its file in place.
- The exported keys and R1CS are what nodes read later, with one call for each file, and the
  exported contract is what the chain checks their proofs with. Nothing but the file names
  ties the four together, and a seal may replace them while a node reads.
- `PrepareEncryptedKeyShares` calls `ECIESEncrypt`, which calls `AESGCMEncrypt` and so
  moves the global counter. Its result comes back as separate arrays that the caller hands
  to `ProveMultipleKeyShareEncryption`; nothing ties them together but their lengths.
- The prover computes one hash over Go's byte arrays and the circuit computes the same
  hash from bits, in separately written code. That hash is the only public input.

What is hard: concurrent writers of one path; crashes and power failures between the
system calls of an export; repeating a command whose inputs have changed; the four
artifacts of a seal, written one after the other and read one after the other; the unlocked counter, which
starts again with the process; batch sizes,
indices, nonces and shares at the limits of their bytes; retries that mix the arrays of
two attempts; and the two independent encodings of the same statement.

What makes each part correct:

- *atomic file export*: a reader of the final path finds no file or a complete one, also
  after a power failure; nobody else touches a call's `.tmp`; a failed call leaves no data.
- *ceremony*: a command that succeeded leaves files that follow from each other; a verify
  that succeeded vouches for files that are there; what followed from a file that was replaced can be made again; exported keys have one secret of every
  participant upstream of them, the right SRS and the right batch; the ceremony can be completed after any crash.
- *deployment*: whatever exports have done to each other, nodes and chain come to use the keys of the
  last undisturbed one, and a node with files that belong together is accepted.
- *nonce counter*: without concurrent calls no prefix comes back within 2^32 calls.
- *key shares*: honest arrays always prove; no two messages of a process that makes one call at a time have one keystream; a proof implies that the recipients find the
  committed shares in their messages; the public hash determines the statement.
- *AES-256*: the circuit is FIPS 197.

## 2. Modules

| Module | Models | Notes |
|---|---|---|
| `AtomicFile` | what callers of `writeSecureAtomic` rely on | abstract: a file is replaced in one step or not at all |
| `AtomicWrite` | `writeSecureAtomic`, `secureDelete` | one action per system call; instances `AtomicFile` |
| `AtomicWriteProofs` | - | theorems about `AtomicWrite` |
| `AnySequence` | - | the elements of a sequence |
| `Ceremony` | every subcommand of `mpccmd` over one directory | uses the export as `AtomicFile` and `AtomicWrite` describe it |
| `SequenceLemmas` | - | for the proofs below: induction and recursion over numbers, powers and digits, sequences |
| `CeremonyProofs` | - | theorems about `Ceremony` |
| `ContractInput` | `GetContractInput` and the bytes that it cuts up | operators only |
| `Deployment` | nodes and a chain that use the artifacts | composes `Ceremony` and `ContractInput` |
| `DeploymentProofs` | - | theorems about `Deployment`, on top of `CeremonyProofs` |
| `NonceCounter` | the counter of `AESGCMEncrypt` | load, store and second read are steps of their own |
| `NonceCounterProofs` | - | theorems about `NonceCounter` |
| `ECIES` | bytes, points, GCM, ECIES, the prover's inner hash | operators only |
| `BatchCircuit` | the constraints of the batch circuit | operators only; extends `ECIES` |
| `KeyShare` | a node that prepares and proves batches | one action per loop iteration; extends `BatchCircuit` |
| `KeyShareLemmas` | - | lemmas about the operators of `ECIES` and `BatchCircuit`, and that decryption inverts encryption |
| `KeyShareProofs` | - | theorems about `KeyShare` |
| `FIPS197` | the cipher of the standard | abstract: polynomials over GF(2) |
| `AES256` | the AES-256 circuit as the solver computes it | instances `FIPS197` |
| `AES256Proofs` | - | theorems about `AES256` |
| `MC*` | small instances for TLC | |

Definitions called "faulty" are variants of the definition below them with a bug that this
code could have had. No specification uses them: they show that the properties notice.

### AtomicWrite

`pc[c]` is the next system call of call `c`; `err[c]` and `result[c]` are the local
variable and the unnamed result, which are not the same thing at line 127. A call creates
at most one file, so that file is named after the call and the name `t.tmp` is the lock
`temp[t]`. Of the data only "part", "whole" and "random" (overwritten) matter. Names and
data are kept twice, in memory and on the disk (`tempD`, `finalD`, `bodyD`); a call that has created no file has the data "none". `FlushNames`
and `FlushBody` are the kernel's, `Sync` is line 116, `PowerLoss` goes back to the disk.
`Open`, `WriteTo`, `Sync`, `Close`, `Rename` and `Deferred` are lines 94-127, each with its
error path; `Scrub`, `ScrubSync` and `Remove` are `secureDelete`. `Kill` ends a process anywhere.
`Faults` says which of these may happen.

### Ceremony

`Line[c]` is a command line: its operation, paths, batch and beacon; `Handler` is the
command table, with the kinds of input files in the order in which they are read and the
default output paths. `Start` evaluates the guards at the head of the handler, `Read`
takes one input, `Compute` does the mathematics and answers a verify, `OpenTemp`,
`CommitTemp` and `FailWrite` are `writeSecureAtomic` as its own model describes it
(including the `.tmp` that a failed rename leaves), `CreateContract` and `CompleteContract`
are `ExportContract`'s truncate and last write. If another command renames its file to that path in
between, the rest of the contract goes to a file that has lost its name (`pc` is "lost"), and the seal reports
success nevertheless. `Kill` leaves a `.tmp` behind; `RemoveStale`
is an operator who deletes it. gnark's `mpcsetup` is external: a contribution is the list of
the secrets in it, `Verify` accepts exactly one more secret on top of the previous file, and
`Seal` does not compare its inputs. `Given` are files that are there from the start: what an
earlier participant has published, or what an older ceremony has left. `ok` records which commands have
succeeded, and `moved` whose files another command has changed since it was started; they guard only what operators do: a
command is `Due` if it has not succeeded or, where its operator watches its files (`Watched`), if one of them has changed.
The code itself notices no such change.

### ContractInput, Deployment

A proof is its coordinates, which are numbers of `WordBytes` bytes; `MarshalSolidity` is the layout
that `GetContractInput` takes for granted: eight words, the number of commitments in four bytes, two
words for each, two for the proof of knowledge. `GetContractInput` reads the count from these bytes
and computes the offsets from it, as the code does.

In `Deployment` the commands of `Ceremony` go on as they do there, in the same files. A node's `Load` is
one of `ReadProvingKey`, `ReadVerifyingKey` and `ReadCCS`, each a step, each failing on a file that is not
there or of another kind; `Prove` is `ProveSingleKeyShareEncryption` followed by the node's own
`groth16.Verify`, and `Submit` calls the chain with the result of `GetContractInput`. After an error, or after the
call, the node starts again from its files (`GiveUp`). `Deploy` puts the contract that is there on
the chain. A proof fits one set of keys, and only keys that were made for their own SRS and circuit
(`Accepts`). `calm` only records which nodes have begun to read in a directory
that has been `Settled` ever since.

### NonceCounter

`counter++` at line 28 is `Load` and `Store`; `Put` reads the variable again at line 29, or
uses the sum, as the compiler likes. `Restart` begins a new process with a new history, as
no key outlives the call that drew it.

### ECIES, BatchCircuit, KeyShare

A byte is a set of atoms (`Byte`; `Octets` for those written out in the code) and XOR is symmetric difference, so masking twice with one
keystream gives the byte back and with two different ones does not. The hash domain is written out twice, as it is in
the code: by letters in `hashDomain`, by hexadecimal numbers in `hashDomainU8s`. Hashes, AES blocks and
tags are atoms that name their arguments (equal only for equal arguments). A point is
its scalar, and the points of k and -k have the same X. Everything zk-dkg itself does with
the bytes is kept: the order of the fields, endianness, padding of the share, the chunk
index, the counter block, block boundaries, the batch and index bytes modulo 256, and the
length checks. `Prepare` and `Prove` are the calls with their guards, `EncryptNext` and
`AssignNext` are loop iterations, `EncryptFail` is each error return in the loop (with the
counter already moved, where it is), `AssignNext` panics where line 79 runs over its
array, and `Solve` is `ComputeProof`: groth16 proves exactly the complete assignments that
fit the loaded circuit and satisfy `Define`.
The caller is part of the model: it may take arrays from two attempts, reverse or shorten
some, blank an element, change the length of a nonce, spoil a tag, or load the circuit of
another batch size. `Restart` ends the process anywhere and sets its counter to zero; the arrays of earlier attempts are
the caller's and stay. `life` and `born` only record which process made which attempt.

### AES256

Words of the key schedule and rounds are steps. `subw`, `variableXor`, `getBit`,
`shiftLeft`, `galoisMulConst`, `subBytes`, `shiftRows`, `mixColumns` and `addRoundKey` are
the functions of those names on values; `Cell` and `Transposed` are the two layouts between
which `Encrypt` changes. The reference has another representation: a byte is the set of its
exponents, the S-box is an inverse and an affine map (`SBox`), and the state is a matrix.
`ImplementsFIPS197` maps one onto the other after every word and every round: `Poly` maps a byte,
`BlockOf` the arguments, `Words` the expanded key, `MatrixOf` the state. `variableXor` works on the
bits of its arguments. `api.ToBinary(v, 8)` is also a constraint, that v is below 256: where it is not, `variableXor`, `getBit` and
`shiftLeft` give `Unsatisfiable`, which is no byte and which nothing turns into one again, so `TypeOK` says that the
circuit has a solution. `SBoxTable` compares the table with the standard's S-box for each of the 256 bytes; nothing in
it can be chosen, and TLC evaluates all of it.

## 3. Runs

| Run | Instance | Shows |
|---|---|---|
| `atomic_write` | 3 calls, 2 paths, all faults | `TypeOK`, `NoTornFile`, `ExclusiveTemp`, `Inv`, `NeverVanishes`, `OrphanBlocks`, `ImplementsAtomicFile` |
| `atomic_write_cleanup` | 3 calls, 2 paths, failing open, write, sync, close | `TempCleaned`, `ScrubbedOnDisk`, and `TempReleased` under fairness |
| `atomic_write_rename` | 1 call, failing rename | violates `TempCleaned`, see section 6 |
| `ceremony_script` | the command lines of `cmd/test_mpc.sh` up to one seal, 2 at a time, 1 fault | `TypeOK`, `Derived`, `KeysSound` |
| `ceremony_chain` | 2 participants who fork, default artifacts, 1 fault, 2 repeated commands | `KeysSound`, `ArtifactsAgree` |
| `ceremony_completes` | 2 operators who create the same file for 2 batch sizes and one who exports a contract to its path, all 4 at a time, 1 fault | `Completes` under fairness |
| `ceremony_repaired` | two contributions in a row, a verify of the second, a seal, all 4 at a time, 1 fault | `Derived`, and `Repaired` under fairness |
| `deployment` | 2 seals and a refused one into one directory with an R1CS of another batch, 2 at a time, 1 fault, 1 node | `DeploymentTypeOK`, `Derived`, `CalmAccepted`, and `Served` under fairness |
| `nonce_counter` | 3 goroutines, modulus 4, 6 calls per process | `TypeOK`, `RepeatNeedsOverlap`, `NeverAhead` |
| `key_share` | batches of 1 and 2, 2 attempts, 1 proof, every slip, 1 restart | `TypeOK`, `HonestProves`, `ProofDecrypts`, `NoKeystreamTwice` |
| `key_share_wide` | one-bit bytes, batches of 1 and 3, 2 senders, 2 attempts, 2 proofs | `HonestProves`, `SumHashBinds` |
| `aes256` | 6 keys and blocks | `TypeOK`, `KnownAnswer`, `ImplementsFIPS197` |

What they say of the code, in words:

- `NoTornFile`, `NeverVanishes` need `Sync` before `Rename`, and an `err` that is never set
  after the rename; `ExclusiveTemp` needs `O_EXCL` and a `defer` registered after the open.
- `OrphanBlocks`: a crash between open and rename makes the path unwritable until somebody
  deletes the `.tmp` by hand. It is a fact of the design that an operator should know.
- `ScrubbedOnDisk`: whatever a failed call does, the name of its file goes only after the data is overwritten on the disk,
  as `secureDelete` writes, syncs and removes in this order. It is said of every call that returned an error after it had
  created its file, wherever it is by then; the theorem has it also for calls that are killed on the way. Both leave out what it does not hold for: a failed rename, after
  which nothing is overwritten (section 6), a failure of the overwriting, and a power failure, which may take back a
  name that had not reached the disk.
- `Derived`: the inputs and outputs that are there when a command has succeeded are
  related as the command says, unless another command changed them since it started. This exception is wide: it leaves out every command that
  read or wrote a file while somebody replaced it, which the code cannot notice. `Repaired` is about those. It is said of
  commands whose paths are all different (`Apart`): one that writes two outputs, or an output and an input,
  to one path destroys its own files.
- `Repaired`: if operators run again what has worked on files that were replaced, while it read
  them, computed, before it answered, or later, then all files and verifications fit together in the end. So no command may refuse to run
  a second time over its own outputs, and none may keep what it had read before.
- `KeysSound`: once all commands have succeeded on unchanged files, the keys hold one
  secret of each contribution that is upstream of them, nothing of a participant who forked off, and
  their SRS, circuit and batch belong together.
- `ArtifactsAgree`: after a successful seal the contract, the two keys and the R1CS are of
  one set of keys, also when earlier seals stopped half-way, if no other command line writes to the seal's
  paths (`Exclusive`).
- `CalmAccepted`: a node that reads in a directory whose last export was undisturbed meets no error,
  and the contract of that directory takes its proof, although reads, proof and call are steps of
  their own and anything may have happened before; `GetContractInput` must give the contract
  exactly the coordinates of the proof.
- `Served`: if the last export stays undisturbed, chain and nodes end up with its keys, from every
  mixture of files that they can have met. The condition is needed: two overlapping seals can both report
  success and leave a contract of one beside keys of the other, which only a further seal repairs.
- `HonestProves`: the two encodings of the statement agree, for the batch and for a single message,
  and no call panics.
- `NoKeystreamTwice`: in a process that makes one call at a time the counter alone keeps the keystreams of any two messages
  apart (overlapping calls can get one prefix, as `NonceCounter` shows), even if the random generator repeats itself. Across a restart the counter starts again at zero, and
  then a keystream comes back only for the same r and the same recipient.
- `ProofDecrypts`: with a proof, the body of each message is the committed share, and a
  message of `ECIESEncrypt` is accepted by `ECIESDecrypt`. The circuit ignores the tag, as
  the repository's `README.md` says, so a spoiled tag is proved and then refused.
- `TypeOK` of `AES256`: each value that is given to `ToBinary(v, 8)`, inside the multiplications as well, is a byte; a bit
  that is not shifted out would make honest proofs impossible for half of the bytes.
- `SumHashBinds`: one public hash, one sender and one set of arrays, also where the batch
  size and the indices wrap.

### Bounds

- *AtomicWrite*: two calls meet on a path and a third comes after them or works on the
  other path; a path has one `.tmp`, so a further call meets nothing new. The theorems of
  section 5 hold for any number.
- *Ceremony*: `MaxRunning` 2 to 4 commands at once, `MaxFaults` failed writes or kills,
  `MaxRepeats` commands repeated after success. Two writers of one path, or one writer and one
  reader of it, are what the hazards need; two repeats let an upstream file and then the keys
  be replaced. A command that failed may be tried again without bound. `ceremony_repaired` needs no repeats: a contribution whose
  write is followed by a fault (a kill after the rename) is run again and draws another secret, while others have built on the first.
- *Deployment*: two seals that differ in one contribution are enough to make every mixture of four files, and as
  the fault makes a seal fail and run again, either of them may be last (`MaxRepeats` is 0: nothing that has succeeded is repeated). One node, because nodes share nothing but
  the files and a chain that treats each by itself. Coordinates of five bits (`ByteBits` 1, `WordBytes` 5), all
  different, in proofs without commitments and with two: what lies behind the count is then at another place.
- *NonceCounter*: `MaxCalls` 6 is more than the modulus 4, so the counter wraps, and three
  callers can lose two increments to each other.
- *KeyShare*: `MaxAttempts`, `MaxProofs`, `MaxRestarts` (a second restart starts from the same zero as the first). Bytes of two bits (or one), a curve of order 13 and one of
  order 32749 or 61 are the smallest where a share has two cipher blocks, where bytes are of several bits,
  where r and -r differ, and where a batch of three does not fit into its byte. A share takes 15 bits
  of 16 in `key_share`, so that the filling loop at `ecies.go:93` runs. Lengths are
  constants of the model and nothing in it depends on their size.
- *AES256*: the six inputs look up all 256 entries of the table, which makes every wrong entry visible; one
  of them is the example of FIPS 197, appendix C.3, whose published result `KnownAnswer` states.

Deadlock is checked in every run: `Terminated` and `Over` are the states where the
program, or the bound, is at its end.

### Fairness

`TempReleased` assumes weak fairness of each call's next step: a process that is not killed
goes on, and every system call returns. `Completes` assumes the same of a started
command (`Run`), and that operators start a command that has not succeeded (`Start`) and
delete a stale `.tmp` (`RemoveStale`). The latter two are not the code's but the operators'
part, which `neo-x-mpc.md` expects of them. `Repaired` assumes in addition that the operators of the `Watched` commands start them
again when their files have changed (`Due`). In the runs of both, all commands may run at once, as a smaller
`MaxRunning` would let one wait for ever behind others that fail for want of it. `Served` assumes that a node takes
its next step, and again after an error (`Step`), and that the latest contract is deployed in the end (`Deploy`), which is what
the artifacts are for; it assumes nothing of the ceremony's commands, so `<>[]Settled` is its condition.
No fairness is assumed of faults. All other properties are safety properties.

## 4. Assumptions

- A rename is atomic and the two names of a path lie in one directory; no final path is the `.tmp` of
  another; the file system keeps what was synced.
- gnark, gnark-crypto and Go's crypto do what they document. Hash, AES and tag values are equal only
  for equal arguments. groth16 proves exactly the satisfied assignments.
- No share, key or secret is zero, so no point is the point at infinity (whose encodings
  differ between gnark-crypto and the circuit); `SetRandom` and a key share give zero with
  negligible probability.
- A contract that is not written completely does not compile. `MarshalSolidity` has the layout
  that `GetContractInput` relies on.
- In `Ceremony` a file decodes only as the kind that it is, and two runs draw different secrets.
- The order of secp256k1 is prime (`ECIESAssumption` says so: no product of two numbers below it is a
  multiple of it), a scalar of BLS12-381 has `ShareBits` bits, and both orders fit their bytes.
- An address is one byte of the model (`KeyShareAssumption`): only whether two senders differ matters.
- A proof has fewer commitments than four bytes can count, and its coordinates fit a word
  (`DeploymentAssumption`), as gnark's types have it.

## 5. Proofs

Every theorem is about all values of the constants that the named `ASSUME`s of its module allow: any numbers of
calls, commands, nodes, callers, messages, faults and retries.
What a theorem asks beyond them stands in its `ASSUME` and in the table.

| Theorem | States | Under |
|---|---|---|
| `AtomicWriteProofs`: `TypeCorrect` | `Spec => []TypeOK` | |
| `Invariance` | `Spec => []Inv` | |
| `NeverTorn` | `Spec => []NoTornFile` | |
| `TempIsExclusive` | `Spec => []ExclusiveTemp` | |
| `FilesStay` | `Spec => NeverVanishes` | |
| `StaleTempBlocks` | `Spec => OrphanBlocks` | |
| `Refinement` | `Spec => ImplementsAtomicFile` | |
| `FailuresCleanUp` | `Spec => []TempCleaned` | no rename and no remove fails, no power failure |
| `FailuresScrub` | `Spec => []ScrubbedOnDisk` | no rename fails, the overwriting does not fail, no power failure |
| `CeremonyProofs`: `TypeCorrect` | `Spec => []TypeOK` | |
| `SuccessDerives` | `Spec => []Derived` | |
| `SealsWhole` | `Spec => []ArtifactsAgree` | |
| `SealsSound` | `Spec => []KeysSound` | |
| `DeploymentProofs`: `DeploymentTypeCorrect` | `DeploymentSpec => []DeploymentTypeOK` | |
| `DeploymentIsCeremony` | `DeploymentSpec => Spec` | |
| `DeployedDerives` | `DeploymentSpec => []Derived` | |
| `InputsArrive` | `Received = Bodies`: the contract gets the coordinates as they are | |
| `CalmServed` | `DeploymentSpec => CalmAccepted` | |
| `NonceCounterProofs`: `TypeCorrect` | `Spec => []TypeOK` | |
| `PrefixesInTurn` | `Spec => []RepeatNeedsOverlap` | |
| `PrefixesWithinCalls` | `Spec => []NeverAhead` | |
| `KeyShareLemmas`: `DecryptInvertsEncrypt` | `ECIESDecrypt` gives back what `ECIESEncrypt` got | |
| `Encodings` | `BitsAgree`: the circuit's bytes are the prover's | |
| `KeysApart` | `KeysBind`: different r or X, different key | |
| `KeyShareProofs`: `TypeCorrect` | `Spec => []TypeOK` | |
| `KeystreamsOnce` | `Spec => []NoKeystreamTwice` | `CounterFits` |
| `HonestArraysProve` | `Spec => []HonestProves` | |
| `ProofsDecrypt` | `Spec => []ProofDecrypts` | |
| `SumHashesBind` | `Spec => []SumHashBinds` | |
| `AES256Proofs`: `TypeCorrect` | `Spec => []TypeOK` | |
| `Refinement` | `Spec => ImplementsFIPS197` | |

### SequenceLemmas

Several of these theorems are about code whose loops run a number of times that no constant of the proof fixes: bits of a byte,
bytes of a word, hashes of a batch, contributions of a ceremony. The library's induction theorems take an operator, which the
provers here cannot instantiate. `Induction` is about sets instead: a set that has 0, and n + 1 with each n, has every
number (`Least` gets it from well-foundedness, whose theorem is about sets too). A proof names the set
of the numbers that it wants, as `{n \in Nat : ...}`. `Recursion` says in the same way that a function that is defined from its
value at n - 1 has that equation. From them follow powers of two (`TwoTo`, `TwoToSum`: 2^n is the number of
subsets of n things, as the prover knows no other fact about powers), the digits of a number (`DigitMore`, `Digits`:
numbers with the same digits are the same), and what `FlattenSeq` does (`FlattenIs`, and `FlattenBinds`: pieces of one length
can be told apart again).

### AtomicWriteProofs

`NoTornFile` is not inductive: a file with a final name is complete because
its call had completed and synced it before the rename, and stays complete because that call
will not erase it. `Inv` says so in three parts. `Owns`: from the open to its last use
of the name, and in the deferred function if `err` is set, a call holds the `.tmp` that it created.
`Written`: after `WriteTo` the data is complete, after `Sync` also on the disk, and neither
`err` nor the result is set before the rename. `Published`: the call of a published file
is past the rename with `err` unset, and its data is complete in memory and on the disk; and
a path that has a file on the disk has one in memory. `StepInv` proves `Inv` step by step for the system
calls, `EnvironmentInv` for kills, flushes and power failures; `NeverTorn`, `TempIsExclusive`,
`FilesStay` and `StaleTempBlocks` follow from it and a look at the steps. For the refinement, a version
of a file is the call that wrote it (`Version`); `VersionOfSafe` says that under `Inv` no version is
torn, and `StepRefines` maps `Rename` to `Commit` or `Fail`, `Abort` and a failed open to
`Fail`, a flush of names to `Save`, a power failure to itself and every other step to a stutter.

`TempCleaned` and `ScrubbedOnDisk` hold only where the code's deferred function can do its work, which is their
hypothesis. After a failed rename a call has returned an error with `err` unset and its data is neither overwritten nor
removed: section 6 shows this, so both theorems exclude it. A power failure may take back the name of a file that
was never overwritten, or bring back one that was removed. `NoTempLeft` says that a call
that holds its `.tmp` is between the open and the rename, or in the deferred function with `err` set;
`Scrubbing` says how far the overwriting has come, in memory and on the disk, at each step of `secureDelete`, and that a call
whose result is an error has `err` set once it has created its file.

### CeremonyProofs

`TypeInv` adds `InHand` to `TypeOK`: a command that is in a file has that file's write before it.
Types are not obvious here, as what is in a file decides what the next command computes from it.

`Derived` and `ArtifactsAgree` compare all inputs and outputs at the end of a command, while a command reads and
writes one by one and others write in between. `InOrder` says what a
command has written so far: its outputs in the order of its paths, of which the first are in the files and
the rest still to be written. `Undisturbed` says, of a command that is not in `moved`, that what it has read is in the
files and that its outputs, written or not, follow from it; `Products` are what `Compute` will make of it. Every step is a step of `c` or an
`Aside` for `c` (`AsideStep`): a step of another command that changes a file of `c` puts `c` into
`moved`, which is what the code cannot do and the property is conditional on. `Touch` is such a change of one
path, by a rename or by a contract's first or last byte. `OwnWrite` says that a step of `c`
puts into one of its files the value that was to be written there, and touches no other. For `ArtifactsAgree`, `AgreeInv` is
the same about outputs alone, so that inputs may change at any time; then
no other command is in a file of `c` (`NobodyElse`).

`KeysSound` is about chains of files of any length. Once all commands have succeeded on unchanged files, every file follows
from the files that it was made from (`DerivedInv`), and a path that nobody writes is as given (`KeepInv`); `Settles` is both at
once. From there it is induction over the number of secrets in a file, since a contribution has one more than the file it was
made from: `Phase1Sound` says that a phase 1 file has the secrets of the contributions upstream of it and no other
command's, `Phase2Sound` the same of phase 2, and that it is for the SRS and the batch of an init upstream of it; `Phase1Step` and `Phase2Step` are the
induction steps. What is upstream of a file is the least set closed under the command lines; `UpstreamIs` unfolds it by
one command.

The proof found what the runs had not shown: a contract that is being written in place loses its path when another
command renames a file to it. The model has this as "lost", and `ceremony_completes` has a seal to which it happens.

### DeploymentProofs

Steps of nodes and of the chain leave the files alone (`DeploymentStep`), so all invariants of `Ceremony` hold. `NodeInv` says
that a node has read the files in order and holds a proof only with all three, of the keys it holds. `CalmInv` says that what a node in
calm has read is what is there; `SettledStays` that a directory which is settled after a step has the same files
before it; `SettledFiles`, from `Derived`, that its files are the artifacts of one seal, good for the nodes'
circuit.

That the contract gets the coordinates as they are (`InputsArrive`) is about bytes. `PutSet`, by induction over the bytes, says that
`SetBytes` gives back what `FillBytes` has written; `Behind` says that some bytes stand at an offset, and `JoinBehind`,
`FlatBehind` and `BehindBehind` where the pieces of `MarshalSolidity` stand. `WordIs` is one `SetBytes` of the code,
`PartsBehind` puts the three parts at the offsets that `GetContractInput` computes from the number of commitments it has read.

### NonceCounterProofs

`RepeatNeedsOverlap` does not say when a prefix does come back, and is not inductive. `TurnInv` says that without overlap
each prefix is the successor of the one before it (`Consecutive`) and at which step of a call the counter
is the latest prefix or the next (`InTurn`). `NeverAhead` is not inductive because
a call may still store an old sum: in `RoomInv` the counter, and what any call has loaded, leave
room for every call that has yet to store (`Room`).

### KeyShareLemmas, KeyShareProofs

`KeyShareLemmas` is about one entry of the arrays, whatever the caller has made of it. `Sent` is what `ECIESEncrypt` returned,
`Masked` that the body is the share under the keystream. `SentMasked`, `MaskedHolds`, `HoldsMasked` and `MaskedDecrypts`
say that what was sent is masked, that masked entries are those that satisfy the circuit, and that they
decrypt. `BlockPlace` and `KeyStreamIs` translate between the circuit's blocks and the places of `crypto/cipher`'s stream,
`ModTimes` shows that r times the recipient's key and the private key times the ephemeral point are one point.

`TypeInv` adds to `TypeOK` what the call in progress holds at each place of the code, and that every entry in an
attempt was sent. `FreshInv` says that the calls that are left fit into what is left of the counter (`Room`), that
the messages of this life had its values (`Numbered`), and that in one life nonces differ (`NoncesApart`);
`NoKeystreamTwice` is not inductive without the messages still in the loop. `WitnessInv` says
that the witness so far is that of the caller's arrays and that what there is a proof of is masked. `SolveMasks` gets the latter from the constraints, `HonestSays` the constraints from the honest arrays; that the two
hash domains are the same bytes, one by one, is `DomainIs`.

`Encodings` is about numbers: `FromBinaryIs` and `ChunkIs` say that a chunk of bits is a digit in base 2^`ByteBits`, and
`CoordinateBytes`, `ShareBytesAre` and `CounterBytesAre` that the circuit's digits, in its order, are the bytes that Go's
`FillBytes` and `Bytes` write, with the padding on the same side. `KeysApart` needs that the order is prime: `TimesBinds` says
that multiples of
one r that have one X are of points that have one X; that r is one comes from the ephemeral points, which are hashed too.

For `SumHashesBind`, `Said` says of a statement that its hash is `Summary` of its sender and its arrays, of which
every row is `Whole`: it has all its parts, each of its own length. That the public hash determines
the statement is then read from the outside in. `Sha256Binds` opens a hash; `FlattenBinds` takes the concatenated inner
hashes apart, as they have one length (`EntriesEven`); `SummaryBinds` finds the sender in front of them (`SenderBinds`) and
`InnerHashBinds` the six fields of each message (`PartsBind`), whose indices and batch size the code cuts
to a byte: the number of hashes gives the batch size, and the place of a hash its index, so nothing hangs on those bytes.
`SaidInv` adds this to `WitnessInv`; that what `Solve` proves is `Said` is `SolveSays`.

One hypothesis is left. `CounterFits`: one life makes fewer messages than the counter has values. TLC evaluates it for
the constants of `key_share`, and evaluates the theorems `KeysBind` and `BitsAgree` as well, where the instance is small
enough (the `ASSUME`s of `MCKeyShare` and `MCKeyShareWide`).

### AES256Proofs

A step of the circuit is a step of the standard, or a stutter of it (`StepIs`). `XorIs` gets from eight bits that `variableXor` is the symmetric
difference; `SubIs` comes from `SBoxTable`. `TimesIs` is that `galoisMulConst` by 2 and 3 is the
standard's product: `ByteIs` puts a byte together from its bits (`PolyIs` the other way round), so that `DoubleIs` sees what a shift, the lost bit and
its reduction do to each of them and that no value leaves the bytes; `LoopIs`, `TurnIs` and `TurnsEnd` unroll the
loop, `HornerIs` and `SmallProducts` the standard's sum. `SubBytesIs`, `ShiftRowsIs`, `MixColumnsIs` and `AddRoundKeyIs` map
each function of the code to the standard's through `MatrixOf`, cell by cell, which is where columns, rows and the transposed layout
could go wrong. `CopyWordIs` and `ExpandWordIs` are the key schedule: `WordJoined` says that bytes appended in fours are a word
appended, `RotWordIs` and `RConIs` are its rotation and its constants, `UsedIs` is what the eighth and the
fourth word of eight go through.

### Only model-checked

- `TempReleased`, `Completes`, `Repaired`, `Served`: liveness.
- `KnownAnswer`: that fourteen rounds on one given block end in one given block is a computation, which TLC does.
- `SBoxTable`: a fact about the 256 entries of the table, and an assumption of `AES256Proofs` that TLC evaluates to the end.

## 6. A disagreement between code and comment

`mpc/helper.go:103` says "Secure cleanup: overwrite and delete temp file on failure". The last
line, `return os.Rename(tempPath, finalPath)`, does not assign to `err`, and the result
is unnamed, so when the rename fails the deferred function finds `err == nil` and does
nothing: the complete data stays in the `.tmp`, and every later export to that path fails because
the file exists. `atomic_write_rename` is the trace. `Ceremony` takes the code as it is.

## 7. Not modelled

- gnark and gnark-crypto, as above: that the constraints are the computation, field by field,
  is not a question these models ask. A circuit's assertions are compared with values.
- `AESGCM256Wrapper` and `AES256Wrapper`, which tests wrap around the operators that are modelled.
- Power failures in `Ceremony` and `Deployment`: a seal may report success and its contract, which `ExportContract`
  does not sync, be incomplete afterwards. `AtomicWrite` has power failures for everything else.
- Liveness of `KeyShare`: its loops run over finite arrays, and TLC, to evaluate `ENABLED` of a step, would
  compute the nested encryptions again and again.
- The on-chain contract beyond its verdict, the DKG itself and how participants agree which file is next.
- Exit codes, logging and help texts of `mpccmd`.

## 8. Plan

Done, in this order: `AtomicFile`/`AtomicWrite` with their proofs, since everything the ceremony leaves goes
through them; `Ceremony`; `NonceCounter`; `ECIES`, `BatchCircuit` and `KeyShare`; `AES256` against `FIPS197`;
`ContractInput` and `Deployment`; restarts in `KeyShare` and forks in `Ceremony`.

The theorems of section 5: `AtomicWrite` first, then `NonceCounter`, `Ceremony`, `Deployment` and `KeyShare`; then
`SequenceLemmas`, and with it the encodings, `InputsArrive`, `SealsSound` and `SumHashesBind`; then `AES256`.

To do: `Ceremony` over `AtomicFile`, a variant whose exports are an `AtomicFile` instance, so
that the composition is checked, and proved, and not only described.
