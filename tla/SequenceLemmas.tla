--------------------------- MODULE SequenceLemmas ---------------------------
(***************************************************************************)
(* Lengths, domains and elements of sequences, whatever they hold,         *)
(* induction over the natural numbers, numbers and their digits, and       *)
(* sequences one after the other.                                          *)
(***************************************************************************)
EXTENDS AnySequence, SequencesExt, TLAPS, SequenceTheorems, WellFoundedInduction, FiniteSetTheorems

\* What is a sequence over some set is a sequence.
LEMMA SeqIs ==
  ASSUME NEW S, NEW s \in Seq(S)
  PROVE  /\ IsSeq(s) /\ Len(s) \in Nat /\ DOMAIN s = 1 .. Len(s)
         /\ \A i \in DOMAIN s : s[i] \in S
<1>1. Len(s) \in Nat /\ DOMAIN s = 1 .. Len(s) /\ s \in [1 .. Len(s) -> S]
  BY LenProperties
<1>2. s \in [1 .. Len(s) -> Elems(s)]
  BY <1>1 DEF Elems
<1>3. s \in Seq(Elems(s))
  BY <1>1, <1>2, SeqDef
<1> QED
  BY <1>1, <1>3 DEF IsSeq

\* The length and the domain of a sequence.
LEMMA LenIs ==
  ASSUME NEW s, IsSeq(s)
  PROVE  Len(s) \in Nat /\ DOMAIN s = 1 .. Len(s) /\ (s = <<>> <=> Len(s) = 0)
BY LenProperties, EmptySeq DEF IsSeq

\* The empty sequence.
LEMMA EmptyIs == IsSeq(<<>>) /\ Len(<<>>) = 0 /\ DOMAIN <<>> = {}
BY EmptySeq, LenProperties DEF IsSeq

\* What is appended comes last.
LEMMA AppendIs ==
  ASSUME NEW s, IsSeq(s), NEW e
  PROVE  /\ IsSeq(Append(s, e)) /\ Len(Append(s, e)) = Len(s) + 1
         /\ \A i \in 1 .. Len(s) : Append(s, e)[i] = s[i]
         /\ Append(s, e)[Len(s) + 1] = e
<1> DEFINE S == Elems(s) \cup {e}
<1>1. s \in Seq(S)
  BY SeqMonotonic DEF IsSeq
<1>2. Append(s, e) \in Seq(S)
  BY <1>1, AppendProperties
<1>3. IsSeq(Append(s, e))
  BY <1>2, SeqIs
<1>4. Len(s) \in Nat
  BY LenIs
<1> QED
  BY <1>1, <1>3, <1>4, AppendProperties

\* What follows a sequence does not change it.
LEMMA JoinIs ==
  ASSUME NEW s, IsSeq(s), NEW t, IsSeq(t)
  PROVE  /\ IsSeq(s \o t) /\ Len(s \o t) = Len(s) + Len(t)
         /\ \A i \in 1 .. Len(s) : (s \o t)[i] = s[i]
         /\ \A i \in 1 .. Len(t) : (s \o t)[Len(s) + i] = t[i]
<1> DEFINE S == Elems(s) \cup Elems(t)
<1>1. s \in Seq(S) /\ t \in Seq(S)
  BY SeqMonotonic DEF IsSeq
<1>2. s \o t \in Seq(S) /\ Len(s \o t) = Len(s) + Len(t)
  BY <1>1, ConcatProperties
<1>3. /\ \A i \in 1 .. Len(s) : (s \o t)[i] = s[i]
      /\ \A i \in 1 .. Len(t) : (s \o t)[Len(s) + i] = t[i]
  <2>1. Len(s) \in Nat /\ Len(t) \in Nat
    BY LenIs
  <2> QED
    BY <1>1, <2>1, ConcatProperties
<1> QED
  BY <1>2, <1>3, SeqIs

\* The tail of a sequence is the sequence from the second element.
LEMMA TailIs ==
  ASSUME NEW s, IsSeq(s), s # <<>>
  PROVE  /\ IsSeq(Tail(s)) /\ Len(Tail(s)) = Len(s) - 1
         /\ \A i \in 1 .. Len(s) - 1 : Tail(s)[i] = s[i + 1]
         /\ Head(s) = s[1] /\ Len(s) >= 1
<1>1. s \in Seq(Elems(s)) /\ Len(s) \in Nat \ {0}
  BY EmptySeq DEF IsSeq
<1>2. Tail(s) \in Seq(Elems(s)) /\ Len(Tail(s)) = Len(s) - 1
  BY <1>1, HeadTailProperties
<1>3. \A i \in 1 .. Len(s) - 1 : Tail(s)[i] = s[i + 1]
  BY <1>1, <1>2, HeadTailProperties
<1>4. IsSeq(Tail(s))
  BY <1>2, SeqIs
<1>5. Head(s) = s[1]
  BY <1>1
<1> QED
  BY <1>1, <1>2, <1>3, <1>4, <1>5

\* Sequences of one length that agree everywhere are one.
LEMMA SameSeq ==
  ASSUME NEW s, IsSeq(s), NEW t, DOMAIN t = DOMAIN s, t = [i \in DOMAIN t |-> t[i]],
         \A i \in DOMAIN s : t[i] = s[i]
  PROVE  t = s
<1>1. DOMAIN s = 1 .. Len(s) /\ s \in [1 .. Len(s) -> Elems(s)]
  BY LenProperties DEF IsSeq
<1> QED
  BY <1>1

\* A function over 1 .. n is a sequence of length n.
LEMMA FunIs ==
  ASSUME NEW n \in Nat, NEW s, s = [i \in 1 .. n |-> s[i]]
  PROVE  IsSeq(s) /\ Len(s) = n
<1>1. s \in [1 .. n -> Elems(s)]
  BY DEF Elems
<1>2. s \in Seq(Elems(s))
  BY <1>1, SeqDef
<1>3. DOMAIN s = 1 .. n /\ DOMAIN s = 1 .. Len(s) /\ Len(s) \in Nat
  BY <1>1, <1>2, LenProperties
<1> QED
  BY <1>2, <1>3 DEF IsSeq

-----------------------------------------------------------------------------
(* Induction and recursion over the natural numbers.                       *)

\* Numbers that have a property have a least one.
LEMMA Least ==
  ASSUME NEW S, S \subseteq Nat, S # {}
  PROVE  \E n \in S : \A m \in S : n <= m
<1> DEFINE R == {ss \in Nat \X Nat : ss[1] < ss[2]}
<1>1. IsWellFoundedOn(R, Nat)
  BY NatLessThanWellFounded DEF OpToRel
<1> HIDE DEF R
<1>2. \E x \in S : \A y \in S : ~ (<<y, x>> \in R)
  BY <1>1, WFMin
<1>3. PICK x \in S : \A y \in S : ~ (<<y, x>> \in R)
  BY <1>2
<1>4. \A y \in S : ~ (y < x)
  BY <1>3 DEF R
<1> QED
  BY <1>3, <1>4

\* Induction, over a set instead of a predicate.
LEMMA Induction ==
  ASSUME NEW S, 0 \in S, \A n \in Nat : n \in S => n + 1 \in S
  PROVE  Nat \subseteq S
<1> SUFFICES ASSUME Nat \ S # {} PROVE FALSE
  OBVIOUS
<1>1. PICK n \in Nat \ S : \A m \in Nat \ S : n <= m
  BY Least
<1>2. n # 0 /\ n - 1 \in Nat /\ n - 1 \in S
  BY <1>1
<1> QED
  BY <1>1, <1>2

\* f starts with b, and each of its values follows from the one before.
Recurs(f, n, b, step) == f[0] = b /\ \A i \in 1 .. n : f[i] = step[<<i, f[i - 1]>>]

\* A recursive definition over 0 .. n, whose step is a function, defines something.
LEMMA Recursion ==
  ASSUME NEW n \in Nat, NEW V, NEW b \in V, NEW step \in [(1 .. n) \X V -> V]
  PROVE  \E f \in [0 .. n -> V] : Recurs(f, n, b, step)
<1> DEFINE Up(f, k) == f[0] = b /\ \A i \in 1 .. k : f[i] = step[<<i, f[i - 1]>>]
           S == {k \in Nat : k <= n => \E f \in [0 .. n -> V] : Up(f, k)}
<1>1. 0 \in S
  <2>1. Up([i \in 0 .. n |-> b], 0)
    OBVIOUS
  <2> QED
    BY <2>1
<1>2. ASSUME NEW k \in Nat, k \in S PROVE k + 1 \in S
  <2>1. SUFFICES ASSUME k + 1 <= n PROVE \E f \in [0 .. n -> V] : Up(f, k + 1)
    OBVIOUS
  <2>2. PICK f \in [0 .. n -> V] : Up(f, k)
    BY <1>2, <2>1
  <2> DEFINE g == [f EXCEPT ![k + 1] = step[<<k + 1, f[k]>>]]
  <2>3. g \in [0 .. n -> V]
    BY <2>1
  <2>4. \A i \in 0 .. k : g[i] = f[i]
    BY <2>1
  <2>5. g[k + 1] = step[<<k + 1, f[k]>>]
    BY <2>1
  <2> HIDE DEF g
  <2>6. Up(g, k + 1)
    BY <2>2, <2>4, <2>5
  <2> QED
    BY <2>3, <2>6
<1> HIDE DEF S
<1>3. Nat \subseteq S
  BY <1>1, <1>2, Induction
<1>4. n \in S
  BY <1>3
<1>5. \E f \in [0 .. n -> V] : Up(f, n)
  BY <1>4 DEF S
<1> QED
  BY <1>5 DEF Recurs

-----------------------------------------------------------------------------
(* Powers of two, and the digits of a number.                              *)

\* The powers of two are positive, and each is twice the one before.
LEMMA TwoTo ==
  /\ 2 ^ 0 = 1
  /\ \A n \in Nat : 2 ^ n \in Nat \ {0} /\ 2 ^ (n + 1) = 2 * 2 ^ n
<1>1. ASSUME NEW n \in Nat
      PROVE  /\ IsFiniteSet(SUBSET (1 .. n)) /\ Cardinality(SUBSET (1 .. n)) = 2 ^ n
             /\ Cardinality(SUBSET (1 .. n)) \in Nat \ {0}
  <2>1. IsFiniteSet(1 .. n) /\ Cardinality(1 .. n) = n
    BY FS_Interval
  <2>2. IsFiniteSet(SUBSET (1 .. n)) /\ Cardinality(SUBSET (1 .. n)) = 2 ^ n
    BY <2>1, FS_SUBSET
  <2>3. {} \in SUBSET (1 .. n)
    OBVIOUS
  <2> QED
    BY <2>2, <2>3, FS_CardinalityType, FS_EmptySet
<1>2. ASSUME NEW n \in Nat PROVE 2 ^ (n + 1) = 2 * 2 ^ n
  <2> DEFINE A == SUBSET (1 .. n)
             f == [a \in A |-> a \cup {n + 1}]
             B == {a \cup {n + 1} : a \in A}
  <2>1. n + 1 \in Nat /\ \A a \in A : n + 1 \notin a
    OBVIOUS
  <2>2. ExistsBijection(A, B)
    <3>1. f \in [A -> B] /\ \A b \in B : \E a \in A : f[a] = b
      <4>1. \A a \in A : f[a] = a \cup {n + 1} /\ f[a] \in B
        OBVIOUS
      <4>2. \A b \in B : \E a \in A : b = a \cup {n + 1}
        OBVIOUS
      <4>3. f = [a \in A |-> f[a]]
        OBVIOUS
      <4> HIDE DEF A, B, f
      <4>4. f \in [A -> B]
        BY <4>1, <4>3
      <4>5. ASSUME NEW b \in B PROVE \E a \in A : f[a] = b
        <5>1. PICK a \in A : b = a \cup {n + 1}
          BY <4>2
        <5>2. f[a] = b
          BY <4>1, <5>1
        <5> QED
          BY <5>2
      <4> QED
        BY <4>4, <4>5
    <3>2. \A a, b \in A : f[a] = f[b] => a = b
      <4>1. \A a \in A : f[a] \ {n + 1} = a
        BY <2>1
      <4> QED
        BY <4>1
    <3> HIDE DEF f, A, B
    <3>3. f \in Bijection(A, B)
      <4>1. DOMAIN f = A
        BY <3>1
      <4>2. f \in Injection(A, B)
        BY <3>1, <3>2, <4>1 DEF Injection, IsInjective
      <4>3. f \in Surjection(A, B)
        BY <3>1 DEF Surjection
      <4> QED
        BY <4>2, <4>3 DEF Bijection
    <3> QED
      BY <3>3 DEF ExistsBijection
  <2>3. SUBSET (1 .. n + 1) = A \cup B
    <3>1. ASSUME NEW s \in SUBSET (1 .. n + 1) PROVE s \in A \cup B
      <4>1. CASE n + 1 \in s
        <5>1. s \ {n + 1} \in A /\ s = (s \ {n + 1}) \cup {n + 1}
          BY <4>1
        <5> QED
          BY <5>1
      <4>2. CASE n + 1 \notin s
        BY <4>2
      <4> QED
        BY <4>1, <4>2
    <3>2. A \cup B \subseteq SUBSET (1 .. n + 1)
      <4>1. 1 .. n \subseteq 1 .. n + 1 /\ n + 1 \in 1 .. n + 1
        OBVIOUS
      <4> QED
        BY <4>1
    <3> QED
      BY <3>1, <3>2
  <2>4. A \cap B = {}
    BY <2>1
  <2>5. IsFiniteSet(A) /\ Cardinality(A) = 2 ^ n /\ Cardinality(A) \in Nat
    BY <1>1
  <2>6. Cardinality(SUBSET (1 .. n + 1)) = 2 ^ (n + 1)
    BY <1>1, <2>1
  <2> HIDE DEF A, B
  <2>7. IsFiniteSet(B) /\ Cardinality(B) = Cardinality(A)
    BY <2>2, <2>5, FS_Bijection
  <2>8. Cardinality(A \cup B) = Cardinality(A) + Cardinality(B) - 0
    BY <2>4, <2>5, <2>7, FS_Union, FS_EmptySet
  <2> DEFINE p == 2 ^ n
             q == 2 ^ (n + 1)
  <2>9. q = Cardinality(A \cup B) /\ Cardinality(A) = p
    BY <2>3, <2>5, <2>6
  <2> HIDE DEF p, q
  <2>10. q = 2 * p
    BY <2>5, <2>7, <2>8, <2>9
  <2> QED
    BY <2>10 DEF p, q
<1>3. \A n \in Nat : 2 ^ n \in Nat \ {0}
  BY <1>1
<1> QED
  BY <1>2, <1>3

\* The power of a sum.
LEMMA TwoToSum ==
  ASSUME NEW a \in Nat, NEW b \in Nat
  PROVE  2 ^ (a + b) = 2 ^ a * 2 ^ b
<1> DEFINE S == {k \in Nat : 2 ^ (a + k) = 2 ^ a * 2 ^ k}
<1>1. 0 \in S
  <2> DEFINE p == 2 ^ a
  <2>1. p \in Nat /\ 2 ^ 0 = 1 /\ a + 0 = a
    BY TwoTo
  <2>2. 2 ^ (a + 0) = p
    BY <2>1
  <2> HIDE DEF p
  <2>3. p = p * 1
    BY <2>1
  <2> QED
    BY <2>1, <2>2, <2>3 DEF p
<1>2. ASSUME NEW k \in Nat, k \in S PROVE k + 1 \in S
  <2> DEFINE p == 2 ^ a
             q == 2 ^ k
             u == 2 ^ (a + k)
             v == 2 ^ (a + (k + 1))
             t == 2 ^ (k + 1)
  <2>1. p \in Nat /\ q \in Nat /\ t = 2 * q
    BY TwoTo
  <2>2. a + k \in Nat /\ a + (k + 1) = (a + k) + 1
    OBVIOUS
  <2>3. v = 2 * u
    BY <2>2, TwoTo
  <2>4. u = p * q
    BY <1>2
  <2> HIDE DEF p, q, u, v, t
  <2>5. v = p * t
    BY <2>1, <2>3, <2>4
  <2> QED
    BY <2>5 DEF p, t, v
<1> HIDE DEF S
<1>3. b \in S
  BY <1>1, <1>2, Induction
<1> QED
  BY <1>3 DEF S

\* Quotient and remainder.
LEMMA DivisionIs ==
  ASSUME NEW p \in Nat \ {0}, NEW q \in Nat, NEW r \in 0 .. p - 1
  PROVE  (p * q + r) \div p = q /\ (p * q + r) % p = r
OBVIOUS

\* The quotient of a quotient.
LEMMA DivDiv ==
  ASSUME NEW m \in Nat, NEW p \in Nat \ {0}, NEW q \in Nat \ {0}
  PROVE  /\ m \div p \in Nat /\ m % p \in 0 .. p - 1 /\ m = p * (m \div p) + (m % p)
         /\ (m \div p) \div q = m \div (p * q)
<1> DEFINE u == m \div p
           r == m % p
           v == u \div q
           t == u % q
<1>1. u \in Nat /\ r \in 0 .. p - 1 /\ m = p * u + r
  OBVIOUS
<1>2. v \in Nat /\ t \in 0 .. q - 1 /\ u = q * v + t
  BY <1>1
<1> HIDE DEF u, r, v, t
<1>3. m = (p * q) * v + (p * t + r)
  BY <1>1, <1>2
<1>4. p * q \in Nat \ {0} /\ p * t + r \in 0 .. p * q - 1
  <2>1. p * q \in Nat \ {0} /\ p * t \in Nat
    BY <1>2
  <2>2. p * t <= p * (q - 1) /\ p * (q - 1) = p * q - p
    BY <1>2
  <2> QED
    BY <1>1, <2>1, <2>2
<1>5. m \div (p * q) = v
  <2> DEFINE s == p * q
             z == p * t + r
  <2>1. s \in Nat \ {0} /\ z \in 0 .. s - 1 /\ m = s * v + z
    BY <1>3, <1>4
  <2> HIDE DEF s, z
  <2>2. m \div s = v
    BY <1>2, <2>1, DivisionIs
  <2> QED
    BY <2>2 DEF s
<1>6. m \div p = u /\ m % p = r
  BY DEF u, r
<1> QED
  BY <1>1, <1>5, <1>6 DEF v

\* The last digit, and the digits before it.
LEMMA DigitMore ==
  ASSUME NEW u \in Nat, NEW p \in Nat \ {0}, NEW q \in Nat \ {0}
  PROVE  u % (p * q) = (u % p) + p * ((u \div p) % q)
<1> DEFINE a == u \div p
           t == u % p
           c == a \div q
           d == a % q
<1>1. a \in Nat /\ t \in 0 .. p - 1 /\ u = p * a + t
  OBVIOUS
<1>2. c \in Nat /\ d \in 0 .. q - 1 /\ a = q * c + d
  BY <1>1
<1> HIDE DEF a, t, c, d
<1> DEFINE s == p * q
           z == p * d + t
<1>3. u = s * c + z
  BY <1>1, <1>2
<1>4. s \in Nat \ {0} /\ z \in 0 .. s - 1
  <2>1. p * q \in Nat \ {0} /\ p * d \in Nat
    BY <1>2
  <2>2. p * d <= p * (q - 1) /\ p * (q - 1) = p * q - p
    BY <1>2
  <2> QED
    BY <1>1, <2>1, <2>2
<1> HIDE DEF s, z
<1>5. u % s = z
  BY <1>2, <1>3, <1>4, DivisionIs
<1> QED
  BY <1>5 DEF s, z, a, t, d

\* Digit j of n to the base 2^b.
DigitAt(b, n, j) == (n \div 2 ^ (b * j)) % 2 ^ b

\* A number that is not too large is known by its digits.
LEMMA Digits ==
  ASSUME NEW b \in Nat, NEW length \in Nat, NEW n \in Nat, NEW m \in Nat,
         n < 2 ^ (b * length), m < 2 ^ (b * length),
         \A j \in 0 .. length - 1 : DigitAt(b, n, j) = DigitAt(b, m, j)
  PROVE  n = m
<1> DEFINE Digit(x, j) == (x \div 2 ^ (b * j)) % 2 ^ b
           Known(l) == \A x, y \in Nat :
             x < 2 ^ (b * l) /\ y < 2 ^ (b * l) /\ (\A j \in 0 .. l - 1 : Digit(x, j) = Digit(y, j))
               => x = y
           S == {l \in Nat : Known(l)}
<1>1. 0 \in S
  <2>1. b * 0 = 0 /\ 2 ^ 0 = 1
    BY TwoTo
  <2>2. 2 ^ (b * 0) = 1
    BY <2>1
  <2> DEFINE p == 2 ^ (b * 0)
  <2>3. \A x, y \in Nat : x < p /\ y < p => x = y
    <3> HIDE DEF p
    <3>1. p = 1
      BY <2>2 DEF p
    <3> QED
      BY <3>1
  <2> HIDE DEF Digit
  <2> QED
    BY <2>3
<1>2. ASSUME NEW l \in Nat, l \in S PROVE l + 1 \in S
  <2>1. SUFFICES ASSUME NEW x \in Nat, NEW y \in Nat, x < 2 ^ (b * (l + 1)), y < 2 ^ (b * (l + 1)),
                        \A j \in 0 .. l : Digit(x, j) = Digit(y, j)
                 PROVE  x = y
    <3>1. 0 .. (l + 1) - 1 = 0 .. l
      OBVIOUS
    <3> HIDE DEF Digit
    <3> QED
      BY <3>1
  <2> DEFINE p == 2 ^ b
             q == 2 ^ (b * l)
  <2>2. p \in Nat \ {0} /\ q \in Nat \ {0}
    <3>1. b * l \in Nat
      OBVIOUS
    <3> QED
      BY <3>1, TwoTo
  <2>3. \A j \in Nat : 2 ^ (b * (j + 1)) = p * 2 ^ (b * j) /\ 2 ^ (b * j) \in Nat \ {0}
    <3>1. \A j \in Nat : b * (j + 1) = b + b * j /\ b * j \in Nat
      OBVIOUS
    <3> QED
      BY <3>1, TwoTo, TwoToSum
  <2>4. x < p * q /\ y < p * q
    BY <2>1, <2>3
  <2>5. \A j \in 0 .. l - 1 : Digit(x \div p, j) = Digit(x, j + 1) /\ Digit(y \div p, j) = Digit(y, j + 1)
    <3>1. SUFFICES ASSUME NEW j \in 0 .. l - 1, NEW z \in Nat
                   PROVE  Digit(z \div p, j) = Digit(z, j + 1)
      OBVIOUS
    <3> DEFINE r == 2 ^ (b * j)
    <3>1a. j \in Nat
      OBVIOUS
    <3>2. r \in Nat \ {0} /\ 2 ^ (b * (j + 1)) = p * r
      <4> HIDE DEF p
      <4> QED
        BY <2>3, <3>1a
    <3> HIDE DEF p, r
    <3>3. (z \div p) \div r = z \div (p * r)
      BY <2>2, <3>2, DivDiv
    <3> QED
      BY <3>2, <3>3 DEF r
  <2>6. x % p = y % p
    <3>1. 0 \in 0 .. l /\ b * 0 = 0 /\ 2 ^ 0 = 1
      BY TwoTo
    <3>2. Digit(x, 0) = Digit(y, 0)
      BY <2>1, <3>1
    <3>3. x \div 1 = x /\ y \div 1 = y
      OBVIOUS
    <3> QED
      BY <3>1, <3>2, <3>3
  <2> HIDE DEF Digit
  <2>7. \A j \in 0 .. l - 1 : Digit(x \div p, j) = Digit(y \div p, j)
    BY <2>1, <2>5
  <2> DEFINE u == x \div p
             v == y \div p
  <2> HIDE DEF p, q
  <2>8. /\ u \in Nat /\ v \in Nat /\ x = p * u + (x % p) /\ y = p * v + (y % p)
        /\ x % p \in 0 .. p - 1 /\ y % p \in 0 .. p - 1
    BY <2>2, DivDiv
  <2> HIDE DEF u, v
  <2>9. u < q /\ v < q
    <3>1. ASSUME NEW w \in Nat, NEW a \in Nat, p * w + a < p * q PROVE w < q
      <4>1. SUFFICES ASSUME w >= q PROVE FALSE
        BY <2>2
      <4>2. p * w >= p * q /\ p * w \in Nat /\ p * q \in Nat
        BY <2>2, <4>1
      <4> QED
        BY <3>1, <4>2
    <3> QED
      BY <2>4, <2>8, <3>1
  <2>10. u = v
    <3>1. Known(l)
      BY <1>2
    <3> QED
      BY <2>7, <2>8, <2>9, <3>1 DEF q, u, v
  <2> QED
    BY <2>6, <2>8, <2>10
<1> HIDE DEF S
<1>3. length \in S
  BY <1>1, <1>2, Induction
<1> QED
  BY <1>3 DEF S, DigitAt

-----------------------------------------------------------------------------
(* Pieces of a sequence, and sequences one after the other.                *)

\* A piece of a sequence.
LEMMA PieceIs ==
  ASSUME NEW s, IsSeq(s), NEW m \in Nat, NEW n \in Nat, m + n <= Len(s)
  PROVE  LET piece == SubSeq(s, m + 1, m + n)
         IN /\ IsSeq(piece) /\ Len(piece) = n
            /\ \A i \in 1 .. n : piece[i] = s[m + i]
<1>1. Len(s) \in Nat /\ s \in Seq(Elems(s))
  BY LenIs DEF IsSeq
<1> DEFINE a == m + 1
           b == m + n
           piece == SubSeq(s, a, b)
<1>2. /\ a \in 1 .. Len(s) + 1 /\ b \in a - 1 .. Len(s) /\ b - a + 1 = n
      /\ \A i \in 1 .. n : a + i - 1 = m + i
  BY <1>1
<1> HIDE DEF a, b
<1>3. /\ piece \in Seq(Elems(s)) /\ Len(piece) = b - a + 1
      /\ \A i \in 1 .. b - a + 1 : piece[i] = s[a + i - 1]
  BY <1>1, <1>2, SubSeqProperties
<1>4. IsSeq(piece)
  BY <1>3, SeqIs
<1> QED
  BY <1>2, <1>3, <1>4 DEF a, b

\* What FlattenSeq is defined by: the first entry, then entry after entry.
LEMMA FlattenSteps ==
  ASSUME NEW seqs, IsSeq(seqs), Len(seqs) # 0, \A i \in 1 .. Len(seqs) : IsSeq(seqs[i])
  PROVE  \E f : /\ FlattenSeq(seqs) = f[Len(seqs)] /\ f[1] = seqs[1]
                /\ \A i \in 2 .. Len(seqs) : f[i] = f[i - 1] \o seqs[i]
<1> DEFINE n == Len(seqs)
           Flat(f) == f = [i \in 1 .. n |-> IF i = 1 THEN seqs[i] ELSE f[i - 1] \o seqs[i]]
           flatten == CHOOSE f : Flat(f)
           V == Seq(UNION {Elems(seqs[i]) : i \in 1 .. n})
           step == [p \in (1 .. n) \X V |-> IF p[1] = 1 THEN seqs[1] ELSE p[2] \o seqs[p[1]]]
<1>1. n \in Nat \ {0}
  BY LenIs
<1>2. FlattenSeq(seqs) = flatten[n]
  BY DEF FlattenSeq
<1>3. \A i \in 1 .. n : seqs[i] \in V
  <2>1. ASSUME NEW i \in 1 .. n PROVE seqs[i] \in V
    <3>1. seqs[i] \in Seq(Elems(seqs[i]))
      BY DEF IsSeq
    <3>2. Elems(seqs[i]) \subseteq UNION {Elems(seqs[j]) : j \in 1 .. n}
      OBVIOUS
    <3> QED
      BY <3>1, <3>2, SeqMonotonic
  <2> QED
    BY <2>1
<1>4. <<>> \in V /\ \A u, v \in V : u \o v \in V
  BY EmptySeq, ConcatProperties
<1> HIDE DEF V
<1>5. step \in [(1 .. n) \X V -> V]
  <2>1. 1 \in 1 .. n
    BY <1>1
  <2> QED
    BY <1>3, <1>4, <2>1
<1>6. ASSUME NEW i \in 1 .. n, NEW v \in V
      PROVE  step[<<i, v>>] = IF i = 1 THEN seqs[1] ELSE v \o seqs[i]
  OBVIOUS
<1> HIDE DEF step
<1>7. PICK g \in [0 .. n -> V] : g[0] = <<>> /\ \A i \in 1 .. n : g[i] = step[<<i, g[i - 1]>>]
  <2> DEFINE b == <<>>
  <2>1. n \in Nat /\ b \in V
    BY <1>1, <1>4
  <2> HIDE DEF n, b
  <2>2. \E g \in [0 .. n -> V] : Recurs(g, n, b, step)
    BY <1>5, <2>1, Recursion
  <2> QED
    BY <2>2 DEF b, Recurs
<1> DEFINE h == [i \in 1 .. n |-> g[i]]
<1>8. Flat(h)
  <2>1. ASSUME NEW i \in 1 .. n
        PROVE  g[i] = IF i = 1 THEN seqs[i] ELSE h[i - 1] \o seqs[i]
    <3>1. i - 1 \in 0 .. n /\ g[i - 1] \in V
      BY <1>1
    <3>2. g[i] = IF i = 1 THEN seqs[1] ELSE g[i - 1] \o seqs[i]
      BY <1>6, <1>7, <3>1
    <3>3. CASE i = 1
      BY <3>2, <3>3
    <3>4. CASE i # 1
      <4>1. i - 1 \in 1 .. n
        BY <1>1, <3>4
      <4>2. h[i - 1] = g[i - 1]
        BY <4>1
      <4> HIDE DEF h
      <4> QED
        BY <3>2, <3>4, <4>2
    <3> QED
      BY <3>3, <3>4
  <2> QED
    BY <2>1
<1> HIDE DEF h
<1>9. Flat(flatten)
  <2> HIDE DEF Flat
  <2> QED
    BY <1>8
<1> HIDE DEF flatten
<1>10. flatten[1] = seqs[1] /\ \A i \in 2 .. n : flatten[i] = flatten[i - 1] \o seqs[i]
  BY <1>1, <1>9
<1> QED
  BY <1>2, <1>10

\* Place j of entry i, when every entry has w places.
Slot(w, i, j) == (i - 1) * w + j

\* All entries have the length w; a is the entries, one after the other.
Even(seqs, w) == IsSeq(seqs) /\ \A i \in 1 .. Len(seqs) : IsSeq(seqs[i]) /\ Len(seqs[i]) = w
Laid(a, seqs, w) ==
  /\ IsSeq(a) /\ Len(a) = Len(seqs) * w
  /\ \A i \in 1 .. Len(seqs) : \A j \in 1 .. w : a[Slot(w, i, j)] = seqs[i][j]

\* Entries of one length, one after the other: where each of them is.
LEMMA FlattenIs ==
  ASSUME NEW w \in Nat, NEW seqs, Even(seqs, w)
  PROVE  Laid(FlattenSeq(seqs), seqs, w)
<1> USE DEF Even, Laid
<1> DEFINE n == Len(seqs)
<1>1. n \in Nat
  BY LenIs
<1>2. CASE n = 0
  <2>1. FlattenSeq(seqs) = seqs
    BY <1>2 DEF FlattenSeq
  <2>2. 0 * w = 0 /\ 1 .. 0 = {}
    OBVIOUS
  <2> QED
    BY <1>2, <2>1, <2>2
<1>3. CASE n # 0
  <2>1. PICK f : /\ FlattenSeq(seqs) = f[n] /\ f[1] = seqs[1]
                 /\ \A i \in 2 .. n : f[i] = f[i - 1] \o seqs[i]
    BY <1>3, FlattenSteps
  <2> DEFINE Good(k) == /\ IsSeq(f[k]) /\ Len(f[k]) = k * w
                        /\ \A i \in 1 .. k : \A j \in 1 .. w : f[k][Slot(w, i, j)] = seqs[i][j]
             S == {k \in Nat : k + 1 <= n => Good(k + 1)}
  <2>2. 0 \in S
    <3>1. 1 \in 1 .. n /\ 0 + 1 = 1 /\ 1 * w = w /\ 1 .. 1 = {1} /\ (1 - 1) * w = 0
      BY <1>1, <1>3
    <3>2. IsSeq(f[1]) /\ Len(f[1]) = 1 * w
      BY <2>1, <3>1
    <3>3. ASSUME NEW i \in 1 .. 1, NEW j \in 1 .. w PROVE f[1][Slot(w, i, j)] = seqs[i][j]
      <4>1. i = 1 /\ Slot(w, i, j) = j
        BY <3>1 DEF Slot
      <4> QED
        BY <2>1, <4>1
    <3>4. Good(1)
      BY <3>2, <3>3
    <3> HIDE DEF Good
    <3> QED
      BY <3>4
  <2>3. ASSUME NEW m \in Nat, m \in S PROVE m + 1 \in S
    <3> DEFINE k == m + 1
    <3>1. SUFFICES ASSUME k + 1 <= n PROVE Good(k + 1)
      <4> HIDE DEF Good
      <4> QED
        OBVIOUS
    <3>2. Good(k)
      <4> HIDE DEF Good
      <4> QED
        BY <1>1, <2>3, <3>1
    <3>3. k \in Nat \ {0} /\ k + 1 \in 2 .. n /\ k + 1 \in 1 .. n /\ (k + 1) - 1 = k
      BY <1>1, <3>1
    <3> HIDE DEF k
    <3> DEFINE s == f[k]
               t == seqs[k + 1]
    <3>4. f[k + 1] = s \o t
      BY <2>1, <3>3
    <3>5. /\ IsSeq(s) /\ Len(s) = k * w /\ IsSeq(t) /\ Len(t) = w
          /\ \A i \in 1 .. k : \A j \in 1 .. w : s[Slot(w, i, j)] = seqs[i][j]
      BY <3>2, <3>3
    <3> HIDE DEF s, t
    <3>6. IsSeq(s \o t) /\ Len(s \o t) = Len(s) + Len(t)
      <4>1. IsSeq(s) /\ IsSeq(t)
        BY <3>5
      <4> QED
        BY <4>1, JoinIs
    <3>7. \A i \in 1 .. Len(s) : (s \o t)[i] = s[i]
      <4>1. IsSeq(s) /\ IsSeq(t)
        BY <3>5
      <4> QED
        BY <4>1, JoinIs
    <3>8. \A i \in 1 .. Len(t) : (s \o t)[Len(s) + i] = t[i]
      <4>1. IsSeq(s) /\ IsSeq(t)
        BY <3>5
      <4> QED
        BY <4>1, JoinIs
    <3>9. k * w \in Nat /\ (k + 1) * w = k * w + w
      BY <3>3
    <3>10. ASSUME NEW i \in 1 .. k + 1, NEW j \in 1 .. w
           PROVE  (s \o t)[Slot(w, i, j)] = seqs[i][j]
      <4>1. CASE i \in 1 .. k
        <5> DEFINE a == Slot(w, i, j)
        <5>1. a \in 1 .. k * w
          <6>1. (i - 1) * w \in Nat /\ (i - 1) * w + w = i * w
            BY <3>3, <4>1
          <6>2. i * w <= k * w
            BY <3>3, <4>1
          <6> QED
            BY <3>9, <6>1, <6>2 DEF Slot
        <5>2. s[a] = seqs[i][j]
          BY <3>5, <4>1
        <5> HIDE DEF a
        <5>3. (s \o t)[a] = seqs[i][j]
          BY <3>5, <3>7, <5>1, <5>2
        <5> QED
          BY <5>3 DEF a
      <4>2. CASE i = k + 1
        <5>1. Slot(w, i, j) = k * w + j
          BY <3>3, <4>2 DEF Slot
        <5>2. (s \o t)[k * w + j] = t[j]
          BY <3>5, <3>8
        <5> QED
          BY <4>2, <5>1, <5>2 DEF t
      <4>3. i \in 1 .. k \/ i = k + 1
        BY <3>3
      <4> QED
        BY <4>1, <4>2, <4>3
    <3>11. Len(s \o t) = (k + 1) * w
      BY <3>5, <3>6, <3>9
    <3> QED
      BY <3>4, <3>6, <3>10, <3>11
  <2> HIDE DEF S
  <2>4. Nat \subseteq S
    BY <2>2, <2>3, Induction
  <2> HIDE DEF Good
  <2>5. Good(n)
    <3>1. n - 1 \in Nat /\ (n - 1) + 1 = n
      BY <1>1, <1>3
    <3>2. n - 1 \in S
      BY <2>4, <3>1
    <3> QED
      BY <1>1, <3>1, <3>2 DEF S
  <2> QED
    BY <2>1, <2>5 DEF Good
<1> QED
  BY <1>2, <1>3

\* Entries of one length are known by the sequence that they make.
LEMMA FlattenBinds ==
  ASSUME NEW w \in Nat \ {0}, NEW s, Even(s, w), NEW t, Even(t, w),
         NEW a, a = FlattenSeq(s), a = FlattenSeq(t)
  PROVE  s = t
<1> DEFINE n == Len(s)
           m == Len(t)
<1>1. n \in Nat /\ m \in Nat /\ DOMAIN s = 1 .. n /\ DOMAIN t = 1 .. m
  BY LenIs DEF Even
<1>0. Laid(a, s, w) /\ Laid(a, t, w)
  BY FlattenIs
<1>2. Len(a) = n * w /\ \A i \in 1 .. n : \A j \in 1 .. w : a[Slot(w, i, j)] = s[i][j]
  BY <1>0 DEF Laid
<1>3. Len(a) = m * w /\ \A i \in 1 .. m : \A j \in 1 .. w : a[Slot(w, i, j)] = t[i][j]
  BY <1>0 DEF Laid
<1> HIDE DEF n, m
<1>4. n = m
  <2>1. (n * w + 0) \div w = n /\ (m * w + 0) \div w = m
    <3>1. n * w = w * n /\ m * w = w * m /\ 0 \in 0 .. w - 1
      BY <1>1
    <3>2. (w * n + 0) \div w = n /\ (w * m + 0) \div w = m
      BY <1>1, <3>1, DivisionIs
    <3> QED
      BY <3>1, <3>2
  <2>2. n * w = m * w
    BY <1>2, <1>3
  <2> QED
    BY <2>1, <2>2
<1>5. ASSUME NEW i \in 1 .. n PROVE t[i] = s[i]
  <2> DEFINE x == s[i]
             y == t[i]
  <2>1. IsSeq(x) /\ Len(x) = w /\ IsSeq(y) /\ Len(y) = w
    BY <1>4 DEF n, m, Even
  <2>2. \A j \in 1 .. w : x[j] = y[j]
    BY <1>2, <1>3, <1>4
  <2> HIDE DEF x, y
  <2>3. DOMAIN x = 1 .. w /\ DOMAIN y = 1 .. w /\ y = [j \in DOMAIN y |-> y[j]]
    BY <2>1, LenIs DEF IsSeq
  <2>4. y = x
    BY <2>1, <2>2, <2>3, SameSeq
  <2> QED
    BY <2>4 DEF x, y
<1>6. t = [i \in DOMAIN t |-> t[i]]
  BY DEF IsSeq, Even
<1>7. t = s
  BY <1>1, <1>4, <1>5, <1>6, SameSeq DEF Even
<1> QED
  BY <1>7
=============================================================================
