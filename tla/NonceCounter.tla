---------------------------- MODULE NonceCounter ----------------------------
(***************************************************************************)
(* The nonces of AESGCMEncrypt (src/encryption/aes.go): four bytes of a    *)
(* process-wide counter, then eight random bytes.  The counter is a plain  *)
(* uint32 that is incremented and read again without a lock, so callers in *)
(* several goroutines race for it.  Only the four bytes are modelled: they *)
(* keep two nonces apart whatever the random bytes are.  A call that       *)
(* aes.NewCipher refuses does not reach the counter and is left out.       *)
(***************************************************************************)
EXTENDS Naturals, Sequences

CONSTANTS
  Callers,    \* the goroutines that call AESGCMEncrypt
  Modulus,    \* the number of values of the counter, 2^32 in the code
  MaxCalls    \* bound: the calls in the life of a process

ASSUME NonceAssumption == Modulus \in Nat \ {0} /\ MaxCalls \in Nat

VARIABLES
  counter,    \* the package variable
  pc,         \* pc[g]: "idle", or what the call of g does next
  loaded,     \* loaded[g]: the counter as g's increment has read it
  begun,      \* the calls that have begun
  issued,     \* the prefixes given to calls, in order; a call whose
              \* rand.Read fails has used up its own
  overlapped  \* two calls have been in progress at the same time

vars == <<counter, pc, loaded, begun, issued, overlapped>>

Init ==
  /\ counter = 0
  /\ pc = [g \in Callers |-> "idle"]
  /\ loaded = [g \in Callers |-> 0]
  /\ begun = 0
  /\ issued = <<>>
  /\ overlapped = FALSE

\* Adding one to an unsigned integer.
Successor(n) == IF n + 1 = Modulus THEN 0 ELSE n + 1

Goto(g, to) == pc' = [pc EXCEPT ![g] = to]

Call(g) ==
  /\ pc[g] = "idle" /\ begun < MaxCalls
  /\ Goto(g, "load")
  /\ begun' = begun + 1
  /\ overlapped' = (overlapped \/ \E h \in Callers : pc[h] # "idle")
  /\ UNCHANGED <<counter, loaded, issued>>

\* counter++ is a read and a write.
Load(g) ==
  /\ pc[g] = "load"
  /\ Goto(g, "store")
  /\ loaded' = [loaded EXCEPT ![g] = counter]
  /\ UNCHANGED <<counter, begun, issued, overlapped>>

\* Faulty: the counter stops at its largest value.
StoreSaturating(g) ==
  /\ pc[g] = "store"
  /\ Goto(g, "put")
  /\ counter' = IF loaded[g] + 1 = Modulus THEN loaded[g] ELSE loaded[g] + 1
  /\ UNCHANGED <<loaded, begun, issued, overlapped>>

\* Faulty: the counter is a signed or wider integer that never wraps.
StoreUnbounded(g) ==
  /\ pc[g] = "store"
  /\ Goto(g, "put")
  /\ counter' = loaded[g] + 1
  /\ UNCHANGED <<loaded, begun, issued, overlapped>>

Store(g) ==
  /\ pc[g] = "store"
  /\ Goto(g, "put")
  /\ counter' = Successor(loaded[g])
  /\ UNCHANGED <<loaded, begun, issued, overlapped>>

\* Faulty: the nonce takes the counter from before the increment.
PutLoaded(g) ==
  /\ pc[g] = "put"
  /\ Goto(g, "draw")
  /\ issued' = Append(issued, loaded[g])
  /\ UNCHANGED <<counter, loaded, begun, overlapped>>

\* PutUint32 reads the counter again; the compiler may reuse the sum it has.
Put(g) ==
  /\ pc[g] = "put"
  /\ Goto(g, "draw")
  /\ \E value \in {counter, Successor(loaded[g])} :
       issued' = Append(issued, value)
  /\ UNCHANGED <<counter, loaded, begun, overlapped>>

\* rand.Read, NewGCM and Seal: the call returns, with or without an error.
Return(g) ==
  /\ pc[g] = "draw"
  /\ Goto(g, "idle")
  /\ UNCHANGED <<counter, loaded, begun, issued, overlapped>>

\* The process starts again: the counter is not persistent, and neither is any
\* key, since ECIESEncrypt draws one for every call.
Restart ==
  /\ counter' = 0
  /\ pc' = [g \in Callers |-> "idle"]
  /\ loaded' = [g \in Callers |-> 0]
  /\ begun' = 0
  /\ issued' = <<>>
  /\ overlapped' = FALSE

Next ==
  \/ \E g \in Callers : Call(g) \/ Load(g) \/ Store(g) \/ Put(g) \/ Return(g)
  \/ Restart

Spec == Init /\ [][Next]_vars

-----------------------------------------------------------------------------
\* Type invariant of AESGCMEncrypt's counter: it stays a uint32.
TypeOK ==
  /\ counter \in 0 .. Modulus - 1
  /\ pc \in [Callers -> {"idle", "load", "store", "put", "draw"}]
  /\ loaded \in [Callers -> 0 .. Modulus - 1]
  /\ begun \in Nat
  /\ issued \in Seq(0 .. Modulus - 1)
  /\ overlapped \in BOOLEAN

\* As long as calls do not overlap, a prefix comes back only after all others
\* have been used, also around the wrap of the counter: of any Modulus calls in
\* a row no two have the same prefix, whatever rand.Read fails or returns.
RepeatNeedsOverlap ==
  ~overlapped =>
    \A i, j \in DOMAIN issued :
      i < j /\ j - i < Modulus => issued[i] # issued[j]

\* Racing calls lose increments but invent none: before the counter wraps, it
\* is not ahead of the calls that have begun, and neither is any prefix.
NeverAhead ==
  begun < Modulus =>
    /\ counter <= begun
    /\ \A i \in DOMAIN issued : 1 <= issued[i] /\ issued[i] <= begun
=============================================================================
