------------------------- MODULE NonceCounterProofs -------------------------
(***************************************************************************)
(* Theorems about NonceCounter, for any number of callers, any modulus and *)
(* any number of calls.                                                    *)
(***************************************************************************)
EXTENDS NonceCounter, FiniteSets, TLAPS, FiniteSetTheorems

\* A process starts with a counter of zero.
LEMMA TypeInit == Init => TypeOK
<1>1. 0 \in 0 .. Modulus - 1 /\ 0 \in Nat /\ <<>> \in Seq(0 .. Modulus - 1)
  BY NonceAssumption
<1> QED
  BY <1>1, Zenon DEF Init, TypeOK

\* The counter and everything made of it stay below the modulus.
LEMMA TypeStep == TypeOK /\ [Next]_vars => TypeOK'
<1> SUFFICES ASSUME TypeOK, [Next]_vars
             PROVE  TypeOK'
  OBVIOUS
<1> USE NonceAssumption DEF TypeOK, Goto, Successor
<1>1. ASSUME NEW g \in Callers, Call(g) PROVE TypeOK'
  BY <1>1 DEF Call
<1>2. ASSUME NEW g \in Callers, Load(g) PROVE TypeOK'
  BY <1>2 DEF Load
<1>3. ASSUME NEW g \in Callers, Store(g) PROVE TypeOK'
  BY <1>3 DEF Store
<1>4. ASSUME NEW g \in Callers, Put(g) PROVE TypeOK'
  BY <1>4 DEF Put
<1>5. ASSUME NEW g \in Callers, Return(g) PROVE TypeOK'
  BY <1>5 DEF Return
<1>6. CASE Restart
  <2>1. 0 \in 0 .. Modulus - 1 /\ 0 \in Nat /\ <<>> \in Seq(0 .. Modulus - 1)
    OBVIOUS
  <2> QED
    BY <1>6, <2>1, Zenon DEF Restart
<1>7. CASE UNCHANGED vars
  BY <1>7 DEF vars
<1> QED
  BY <1>1, <1>2, <1>3, <1>4, <1>5, <1>6, <1>7 DEF Next

\* The counter of AESGCMEncrypt stays a uint32 whatever callers do.
THEOREM TypeCorrect == Spec => []TypeOK
BY TypeInit, TypeStep, PTL DEF Spec

-----------------------------------------------------------------------------
(* Without overlap.                                                        *)

\* The latest prefix, or where the counter starts.
Latest == IF issued = <<>> THEN 0 ELSE issued[Len(issued)]

\* The prefix d calls after the prefix n, for d < Modulus.
Later(n, d) == IF n + d < Modulus THEN n + d ELSE n + d - Modulus

\* One call at a time, whose steps move the counter from the latest prefix to
\* the next.
InTurn ==
  /\ \A g, h \in Callers : pc[g] # "idle" /\ pc[h] # "idle" => g = h
  /\ (\A g \in Callers : pc[g] \in {"idle", "load", "store", "draw"}) => counter = Latest
  /\ \A g \in Callers :
       /\ pc[g] \in {"store", "put"} => loaded[g] = Latest
       /\ pc[g] = "put" => counter = Successor(Latest)

\* RepeatNeedsOverlap says nothing of the distance at which a prefix does come
\* back, and is not inductive; this is.
Consecutive ==
  \A i, j \in DOMAIN issued :
    i < j /\ j - i < Modulus => issued[j] = Later(issued[i], j - i)

TurnInv == TypeOK /\ (~overlapped => InTurn /\ Consecutive)

\* A call that is alone takes the prefix after the latest one.
LEMMA TurnStep == TurnInv /\ [Next]_vars => TurnInv'
<1> SUFFICES ASSUME TurnInv, [Next]_vars, ~overlapped'
             PROVE  InTurn' /\ Consecutive'
  BY TypeStep DEF TurnInv
<1> USE NonceAssumption DEF TypeOK, Goto, InTurn, Latest, Successor
<1>1. TypeOK
  BY DEF TurnInv
<1>2. ASSUME NEW g \in Callers, Call(g) PROVE InTurn' /\ Consecutive'
  BY <1>1, <1>2 DEF Call, TurnInv, Consecutive
<1>3. ASSUME NEW g \in Callers, Load(g) PROVE InTurn' /\ Consecutive'
  BY <1>1, <1>3 DEF Load, TurnInv, Consecutive
<1>4. ASSUME NEW g \in Callers, Store(g) PROVE InTurn' /\ Consecutive'
  BY <1>1, <1>4 DEF Store, TurnInv, Consecutive
<1>5. ASSUME NEW g \in Callers, Put(g) PROVE InTurn' /\ Consecutive'
  <2> DEFINE n == Len(issued)
  <2>1. InTurn /\ Consecutive
    BY <1>5 DEF Put, TurnInv
  <2>2. issued' = Append(issued, Successor(Latest)) /\ UNCHANGED <<counter, loaded>>
    BY <1>1, <1>5, <2>1 DEF Put
  <2>3. /\ n \in Nat /\ Len(issued') = n + 1 /\ issued'[n + 1] = Successor(Latest)
        /\ DOMAIN issued = 1 .. n /\ DOMAIN issued' = 1 .. n + 1
        /\ \A i \in 1 .. n : issued'[i] = issued[i] /\ issued[i] \in 0 .. Modulus - 1
    BY <1>1, <2>2
  <2>4. InTurn'
    BY <1>1, <1>5, <2>1, <2>2, <2>3 DEF Put
  <2>5. ASSUME NEW i \in 1 .. n, n + 1 - i < Modulus
        PROVE  issued'[n + 1] = Later(issued'[i], n + 1 - i)
    <3>1. CASE i = n
      BY <2>3, <2>5, <3>1 DEF Later
    <3>2. CASE i < n
      <4>1. issued[n] = Later(issued[i], n - i)
        <5>1. n \in 1 .. n /\ n - i < Modulus
          BY <2>3, <2>5, <3>2
        <5> QED
          BY <2>1, <2>3, <2>5, <3>2, <5>1 DEF Consecutive
      <4>2. Latest = issued[n] /\ issued[n] \in 0 .. Modulus - 1 /\ issued'[i] = issued[i]
        BY <2>3, <2>5, <3>2
      <4>3. Later(Later(issued[i], n - i), 1) = Later(issued[i], n + 1 - i)
        BY <2>3, <2>5, <3>2 DEF Later
      <4>4. Successor(Latest) = Later(Latest, 1)
        BY <4>2, <2>5, <3>2 DEF Later
      <4> QED
        BY <2>3, <4>1, <4>2, <4>3, <4>4
    <3>3. i < n \/ i = n
      <4>1. n \in Nat
        BY <2>3
      <4> HIDE DEF n
      <4> QED
        BY <4>1
    <3> QED
      BY <3>1, <3>2, <3>3
  <2>6. Consecutive'
    <3> HIDE DEF n
    <3> SUFFICES ASSUME NEW i \in 1 .. n + 1, NEW j \in 1 .. n + 1, i < j, j - i < Modulus
                 PROVE  issued'[j] = Later(issued'[i], j - i)
      BY <2>3 DEF Consecutive
    <3>1. CASE j = n + 1
      BY <2>3, <2>5, <3>1
    <3>2. CASE j # n + 1
      <4>1. i \in 1 .. n /\ j \in 1 .. n
        BY <2>3, <3>2
      <4> QED
        BY <2>1, <2>3, <4>1 DEF Consecutive
    <3> QED
      BY <3>1, <3>2
  <2> QED
    BY <2>4, <2>6
<1>6. ASSUME NEW g \in Callers, Return(g) PROVE InTurn' /\ Consecutive'
  BY <1>1, <1>6 DEF Return, TurnInv, Consecutive
<1>7. CASE Restart
  BY <1>7 DEF Restart, Consecutive
<1>8. CASE UNCHANGED vars
  BY <1>1, <1>8 DEF vars, TurnInv, Consecutive
<1> QED
  BY <1>2, <1>3, <1>4, <1>5, <1>6, <1>7, <1>8 DEF Next

\* As long as calls do not overlap, a prefix comes back only after all others.
THEOREM PrefixesInTurn == Spec => []RepeatNeedsOverlap
<1>1. Init => TurnInv
  <2>1. Init => TypeOK
    BY TypeInit
  <2>2. Init => InTurn /\ Consecutive
    BY DEF Init, InTurn, Latest, Consecutive
  <2> QED
    BY <2>1, <2>2 DEF TurnInv
<1>2. TurnInv => RepeatNeedsOverlap
  BY NonceAssumption DEF TurnInv, TypeOK, Consecutive, Later, RepeatNeedsOverlap
<1> QED
  BY <1>1, <1>2, TurnStep, PTL DEF Spec
-----------------------------------------------------------------------------
(* With overlap.                                                           *)

\* The calls that have yet to store what they make of the counter.
Pending == {g \in Callers : pc[g] \in {"load", "store"}}

\* A racing call may still store an old sum, so NeverAhead is not inductive: the
\* counter, and what a call has loaded, leave room for every pending call.
Room ==
  /\ counter + Cardinality(Pending) <= begun
  /\ \A g \in Callers :
       /\ pc[g] = "store" => loaded[g] + Cardinality(Pending) <= begun
       /\ pc[g] = "put" => loaded[g] < begun /\ counter >= 1
  /\ \A i \in DOMAIN issued : 1 <= issued[i] /\ issued[i] <= begun

RoomInv == TypeOK /\ IsFiniteSet(Pending) /\ (begun < Modulus => Room)

\* A call begins by making room for itself and takes it when it stores.
LEMMA RoomStep == RoomInv /\ [Next]_vars => RoomInv'
<1> SUFFICES ASSUME RoomInv, [Next]_vars
             PROVE  IsFiniteSet(Pending)' /\ (begun' < Modulus => Room')
  BY TypeStep DEF RoomInv
<1> DEFINE n == Cardinality(Pending)
<1>1. TypeOK /\ IsFiniteSet(Pending) /\ n \in Nat /\ begun \in Nat /\ counter \in Nat
      /\ Modulus \in Nat /\ \A g \in Callers : loaded[g] \in Nat
  BY FS_CardinalityType, NonceAssumption DEF RoomInv, TypeOK
<1>2. TypeOK'
  BY TypeStep DEF RoomInv
<1> USE DEF Goto
<1>3. ASSUME NEW g \in Callers, Call(g)
      PROVE  IsFiniteSet(Pending)' /\ (begun' < Modulus => Room')
  <2>1. Pending' = Pending \cup {g} /\ g \notin Pending
    BY <1>1, <1>3 DEF Call, Pending, TypeOK
  <2>2. IsFiniteSet(Pending') /\ Cardinality(Pending') = n + 1
    BY <1>1, <2>1, FS_AddElement
  <2>3. ASSUME begun' < Modulus PROVE Room'
    <3>1. begun' = begun + 1 /\ UNCHANGED <<counter, loaded, issued>> /\ Room
      BY <1>1, <1>3, <2>3 DEF Call, RoomInv
    <3>2. \A h \in Callers : pc'[h] \in {"store", "put"} => pc[h] = pc'[h]
      BY <1>1, <1>3 DEF Call, TypeOK
    <3>3. \A i \in DOMAIN issued : issued[i] \in Nat
      BY <1>1 DEF TypeOK
    <3> QED
      BY <1>1, <2>2, <3>1, <3>2, <3>3 DEF Room
  <2> QED
    BY <2>2, <2>3
<1>4. ASSUME NEW g \in Callers, Load(g)
      PROVE  IsFiniteSet(Pending)' /\ (begun' < Modulus => Room')
  <2>1. Pending' = Pending
    BY <1>1, <1>4 DEF Load, Pending, TypeOK
  <2> QED
    BY <1>1, <1>4, <2>1 DEF Load, RoomInv, Room, TypeOK
<1>5. ASSUME NEW g \in Callers, Store(g)
      PROVE  IsFiniteSet(Pending)' /\ (begun' < Modulus => Room')
  <2>1. Pending' = Pending \ {g} /\ g \in Pending
    BY <1>1, <1>5 DEF Store, Pending, TypeOK
  <2>2. IsFiniteSet(Pending') /\ Cardinality(Pending') = n - 1 /\ n - 1 \in Nat
    <3>1. IsFiniteSet(Pending') /\ Cardinality(Pending') = n - 1
      BY <1>1, <2>1, FS_RemoveElement
    <3> QED
      BY <3>1, FS_CardinalityType
  <2>3. ASSUME begun' < Modulus PROVE Room'
    <3>1. UNCHANGED <<begun, loaded, issued>> /\ Room
      BY <1>1, <1>5, <2>3 DEF Store, RoomInv
    <3>2. loaded[g] + n <= begun /\ begun < Modulus
      BY <1>5, <2>3, <3>1 DEF Store, Room
    <3>3. counter' = loaded[g] + 1
      BY <1>1, <1>5, <2>2, <3>2 DEF Store, Successor
    <3>4. \A h \in Callers : h # g => pc'[h] = pc[h]
      BY <1>1, <1>5 DEF Store, TypeOK
    <3>5. pc'[g] = "put"
      BY <1>1, <1>5 DEF Store, TypeOK
    <3> QED
      BY <1>1, <2>2, <3>1, <3>2, <3>3, <3>4, <3>5 DEF Room
  <2> QED
    BY <2>2, <2>3
<1>6. ASSUME NEW g \in Callers, Put(g)
      PROVE  IsFiniteSet(Pending)' /\ (begun' < Modulus => Room')
  <2>1. Pending' = Pending
    BY <1>1, <1>6 DEF Put, Pending, TypeOK
  <2>2. ASSUME begun < Modulus PROVE Room'
    <3>1. Room /\ UNCHANGED <<counter, loaded, begun>>
      BY <1>6, <2>2 DEF Put, RoomInv
    <3>2. PICK value \in {counter, Successor(loaded[g])} : issued' = Append(issued, value)
      BY <1>6 DEF Put
    <3>3. loaded[g] < begun /\ counter >= 1
      BY <1>6, <3>1 DEF Put, Room
    <3>4. value \in Nat /\ 1 <= value /\ value <= begun
      BY <1>1, <2>2, <3>1, <3>2, <3>3 DEF Successor, Room
    <3>5. \A i \in DOMAIN issued' : 1 <= issued'[i] /\ issued'[i] <= begun
      BY <1>1, <3>1, <3>2, <3>4 DEF Room, TypeOK
    <3>6. \A h \in Callers : pc'[h] \in {"store", "put"} => pc[h] = pc'[h]
      BY <1>1, <1>6 DEF Put, TypeOK
    <3> QED
      BY <1>1, <2>1, <3>1, <3>5, <3>6 DEF Room
  <2> QED
    BY <1>1, <1>6, <2>1, <2>2 DEF Put
<1>7. ASSUME NEW g \in Callers, Return(g)
      PROVE  IsFiniteSet(Pending)' /\ (begun' < Modulus => Room')
  <2>1. Pending' = Pending
    BY <1>1, <1>7 DEF Return, Pending, TypeOK
  <2> QED
    BY <1>1, <1>7, <2>1 DEF Return, RoomInv, Room, TypeOK
<1>8. CASE Restart
  <2>1. Pending' = {}
    BY <1>8 DEF Restart, Pending
  <2> QED
    BY <1>8, <2>1, FS_EmptySet DEF Restart, Room
<1>9. CASE UNCHANGED vars
  BY <1>9 DEF vars, RoomInv, Room, Pending
<1> QED
  BY <1>3, <1>4, <1>5, <1>6, <1>7, <1>8, <1>9 DEF Next

\* Racing calls lose increments but invent none.
THEOREM PrefixesWithinCalls == Spec => []NeverAhead
<1>1. Init => RoomInv
  <2> SUFFICES ASSUME Init
               PROVE  RoomInv
    OBVIOUS
  <2>1. Pending = {}
    BY DEF Init, Pending
  <2>2. IsFiniteSet(Pending) /\ Cardinality(Pending) = 0
    BY <2>1, FS_EmptySet
  <2>3. Room
    BY <2>2 DEF Init, Room
  <2> QED
    BY <2>2, <2>3, TypeInit DEF RoomInv
<1>2. RoomInv => NeverAhead
  <2> SUFFICES ASSUME RoomInv, begun < Modulus
               PROVE  counter <= begun
    BY DEF RoomInv, Room, NeverAhead
  <2>1. Cardinality(Pending) \in Nat
    BY FS_CardinalityType DEF RoomInv
  <2> QED
    BY <2>1 DEF RoomInv, Room, TypeOK
<1> QED
  BY <1>1, <1>2, RoomStep, PTL DEF Spec
=============================================================================
