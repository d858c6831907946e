---------------------------- MODULE AES256Proofs ----------------------------
(***************************************************************************)
(* The circuit implements FIPS 197, for every key and every block.         *)
(***************************************************************************)
EXTENDS AES256, SequenceLemmas

-----------------------------------------------------------------------------
(* Bytes.                                                                  *)

\* Eight bits are the bits of the number they add up to.
LEMMA BitsAre ==
  ASSUME NEW x0 \in 0 .. 1, NEW x1 \in 0 .. 1, NEW x2 \in 0 .. 1, NEW x3 \in 0 .. 1,
         NEW x4 \in 0 .. 1, NEW x5 \in 0 .. 1, NEW x6 \in 0 .. 1, NEW x7 \in 0 .. 1,
         NEW v, v = x0 + 2 * x1 + 4 * x2 + 8 * x3 + 16 * x4 + 32 * x5 + 64 * x6 + 128 * x7
  PROVE  /\ v \in Bytes
         /\ bit(v, 0) = x0 /\ bit(v, 1) = x1 /\ bit(v, 2) = x2 /\ bit(v, 3) = x3
         /\ bit(v, 4) = x4 /\ bit(v, 5) = x5 /\ bit(v, 6) = x6 /\ bit(v, 7) = x7
<1>1. v \in Bytes
  BY DEF Bytes
<1>2. /\ 2 ^ 0 = 1 /\ 2 ^ 1 = 2 /\ 2 ^ 2 = 4 /\ 2 ^ 3 = 8
      /\ 2 ^ 4 = 16 /\ 2 ^ 5 = 32 /\ 2 ^ 6 = 64 /\ 2 ^ 7 = 128
  OBVIOUS
<1>3. bit(v, 0) = x0
  BY <1>1, <1>2 DEF bit, Bytes
<1>4. bit(v, 1) = x1
  BY <1>1, <1>2 DEF bit, Bytes
<1>5. bit(v, 2) = x2
  BY <1>1, <1>2 DEF bit, Bytes
<1>6. bit(v, 3) = x3
  BY <1>1, <1>2 DEF bit, Bytes
<1>7. bit(v, 4) = x4
  BY <1>1, <1>2 DEF bit, Bytes
<1>8. bit(v, 5) = x5
  BY <1>1, <1>2 DEF bit, Bytes
<1>9. bit(v, 6) = x6
  BY <1>1, <1>2 DEF bit, Bytes
<1>10. bit(v, 7) = x7
  BY <1>1, <1>2 DEF bit, Bytes
<1> QED
  BY <1>1, <1>3, <1>4, <1>5, <1>6, <1>7, <1>8, <1>9, <1>10

\* variableXor adds the polynomials.
LEMMA XorIs ==
  ASSUME NEW a \in Bytes, NEW b \in Bytes
  PROVE  /\ variableXor(a, b) \in Bytes
         /\ Poly(variableXor(a, b)) = FIPS!Plus(Poly(a), Poly(b))
<1> DEFINE x(k) == (bit(a, k) + bit(b, k)) % 2
           v == variableXor(a, b)
<1>1. \A k \in 0 .. 7 : 2 ^ k \in Nat \ {0}
  <2> DEFINE N == Nat \ {0}
  <2>1. /\ 2 ^ 0 \in N /\ 2 ^ 1 \in N /\ 2 ^ 2 \in N /\ 2 ^ 3 \in N
        /\ 2 ^ 4 \in N /\ 2 ^ 5 \in N /\ 2 ^ 6 \in N /\ 2 ^ 7 \in N
    OBVIOUS
  <2>2. \A k \in 0 .. 7 : k \in {0, 1, 2, 3, 4, 5, 6, 7}
    OBVIOUS
  <2> HIDE DEF N
  <2>3. \A k \in 0 .. 7 : 2 ^ k \in N
    BY <2>1, <2>2, Zenon
  <2> QED
    BY <2>3 DEF N
<1>2. \A k \in 0 .. 7 : bit(a, k) \in 0 .. 1 /\ bit(b, k) \in 0 .. 1
  <2> SUFFICES ASSUME NEW k \in 0 .. 7
               PROVE  bit(a, k) \in 0 .. 1 /\ bit(b, k) \in 0 .. 1
    OBVIOUS
  <2> DEFINE p == 2 ^ k
  <2>1. p \in Nat \ {0}
    BY <1>1
  <2> HIDE DEF p
  <2>2. a \div p \in Nat /\ b \div p \in Nat
    BY <2>1 DEF Bytes
  <2> QED
    BY <2>2 DEF bit, p
<1>3. \A k \in 0 .. 7 : x(k) \in 0 .. 1 /\ (x(k) = 1 <=> (bit(a, k) = 1 <=> bit(b, k) # 1))
  BY <1>2
<1> HIDE DEF x
<1>4. v = x(0) + 2 * x(1) + 4 * x(2) + 8 * x(3) + 16 * x(4) + 32 * x(5) + 64 * x(6) + 128 * x(7)
  BY Zenon DEF variableXor, x
<1> HIDE DEF v
<1>5. /\ v \in Bytes
      /\ bit(v, 0) = x(0) /\ bit(v, 1) = x(1) /\ bit(v, 2) = x(2) /\ bit(v, 3) = x(3)
      /\ bit(v, 4) = x(4) /\ bit(v, 5) = x(5) /\ bit(v, 6) = x(6) /\ bit(v, 7) = x(7)
  BY <1>3, <1>4, BitsAre
<1>6. \A k \in 0 .. 7 : bit(v, k) = x(k)
  <2>1. \A k \in 0 .. 7 : k \in {0, 1, 2, 3, 4, 5, 6, 7}
    OBVIOUS
  <2> QED
    BY <1>5, <2>1
<1>7. \A k \in 0 .. 7 : k \in Poly(v) <=> k \in FIPS!Plus(Poly(a), Poly(b))
  BY <1>3, <1>6 DEF Poly, FIPS!Plus
<1> QED
  BY <1>5, <1>7 DEF Poly, FIPS!Plus, v

\* A byte of the table, looked up by subw.
LEMMA SubIs ==
  ASSUME NEW a \in Bytes
  PROVE  subw(a) \in Bytes /\ Poly(subw(a)) = FIPS!SBox[Poly(a)]
<1>1. subw(a) = sbox[a + 1]
  <2>1. a # Unsatisfiable
    BY DEF Bytes, Unsatisfiable
  <2> QED
    BY <2>1 DEF subw
<1> QED
  BY <1>1, SBoxTable

-----------------------------------------------------------------------------
(* Products.                                                               *)

\* A byte is the sum of its bits.
LEMMA ByteIs ==
  ASSUME NEW a \in Bytes
  PROVE  /\ \A k \in 0 .. 7 : bit(a, k) \in 0 .. 1
         /\ a = bit(a, 0) + 2 * bit(a, 1) + 4 * bit(a, 2) + 8 * bit(a, 3)
                + 16 * bit(a, 4) + 32 * bit(a, 5) + 64 * bit(a, 6) + 128 * bit(a, 7)
         /\ bit(a, 7) = a \div 128
<1>1. /\ 2 ^ 0 = 1 /\ 2 ^ 1 = 2 /\ 2 ^ 2 = 4 /\ 2 ^ 3 = 8
      /\ 2 ^ 4 = 16 /\ 2 ^ 5 = 32 /\ 2 ^ 6 = 64 /\ 2 ^ 7 = 128
  OBVIOUS
<1>2. /\ bit(a, 0) = a % 2 /\ bit(a, 1) = (a \div 2) % 2 /\ bit(a, 2) = (a \div 4) % 2
      /\ bit(a, 3) = (a \div 8) % 2 /\ bit(a, 4) = (a \div 16) % 2
      /\ bit(a, 5) = (a \div 32) % 2 /\ bit(a, 6) = (a \div 64) % 2
      /\ bit(a, 7) = (a \div 128) % 2
  BY <1>1 DEF bit, Bytes
<1> DEFINE q1 == a \div 2
           q2 == a \div 4
           q3 == a \div 8
           q4 == a \div 16
           q5 == a \div 32
           q6 == a \div 64
           q7 == a \div 128
<1>3. a \in Nat /\ a < 256
  BY DEF Bytes
<1>4. a = 2 * q1 + (a % 2) /\ a % 2 \in 0 .. 1 /\ q1 \in Nat
  BY <1>3
<1>5. q1 = 2 * q2 + (q1 % 2) /\ q1 % 2 \in 0 .. 1 /\ q2 \in Nat
  BY <1>3
<1>6. q2 = 2 * q3 + (q2 % 2) /\ q2 % 2 \in 0 .. 1 /\ q3 \in Nat
  BY <1>3
<1>7. q3 = 2 * q4 + (q3 % 2) /\ q3 % 2 \in 0 .. 1 /\ q4 \in Nat
  BY <1>3
<1>8. q4 = 2 * q5 + (q4 % 2) /\ q4 % 2 \in 0 .. 1 /\ q5 \in Nat
  BY <1>3
<1>9. q5 = 2 * q6 + (q5 % 2) /\ q5 % 2 \in 0 .. 1 /\ q6 \in Nat
  BY <1>3
<1>10. q6 = 2 * q7 + (q6 % 2) /\ q6 % 2 \in 0 .. 1
  BY <1>3
<1>11. q7 = q7 % 2 /\ q7 \in 0 .. 1
  BY <1>3
<1>12. bit(a, 7) = q7
  BY <1>2, <1>11
<1>13. /\ bit(a, 0) = a % 2 /\ bit(a, 1) = q1 % 2 /\ bit(a, 2) = q2 % 2 /\ bit(a, 3) = q3 % 2
       /\ bit(a, 4) = q4 % 2 /\ bit(a, 5) = q5 % 2 /\ bit(a, 6) = q6 % 2
  BY <1>2, Zenon
<1> HIDE DEF q1, q2, q3, q4, q5, q6, q7
<1>14. /\ bit(a, 0) \in 0 .. 1 /\ bit(a, 1) \in 0 .. 1 /\ bit(a, 2) \in 0 .. 1
       /\ bit(a, 3) \in 0 .. 1 /\ bit(a, 4) \in 0 .. 1 /\ bit(a, 5) \in 0 .. 1
       /\ bit(a, 6) \in 0 .. 1 /\ bit(a, 7) \in 0 .. 1
  BY <1>4, <1>5, <1>6, <1>7, <1>8, <1>9, <1>10, <1>11, <1>12, <1>13, Zenon
<1>15. \A k \in 0 .. 7 : bit(a, k) \in 0 .. 1
  <2>1. \A k \in 0 .. 7 : k \in {0, 1, 2, 3, 4, 5, 6, 7}
    OBVIOUS
  <2> QED
    BY <1>14, <2>1, Zenon
<1>16. a = bit(a, 0) + 2 * bit(a, 1) + 4 * bit(a, 2) + 8 * bit(a, 3)
             + 16 * bit(a, 4) + 32 * bit(a, 5) + 64 * bit(a, 6) + 128 * bit(a, 7)
  <2>1. /\ a = 2 * q1 + bit(a, 0) /\ q1 = 2 * q2 + bit(a, 1) /\ q2 = 2 * q3 + bit(a, 2)
        /\ q3 = 2 * q4 + bit(a, 3) /\ q4 = 2 * q5 + bit(a, 4) /\ q5 = 2 * q6 + bit(a, 5)
        /\ q6 = 2 * q7 + bit(a, 6)
    BY <1>4, <1>5, <1>6, <1>7, <1>8, <1>9, <1>10, <1>13, Zenon
  <2>2. /\ q1 \in Int /\ q2 \in Int /\ q3 \in Int /\ q4 \in Int /\ q5 \in Int
        /\ q6 \in Int /\ q7 \in Int
    BY <1>4, <1>5, <1>6, <1>7, <1>8, <1>9, <1>11
  <2>3. /\ bit(a, 0) \in Int /\ bit(a, 1) \in Int /\ bit(a, 2) \in Int /\ bit(a, 3) \in Int
        /\ bit(a, 4) \in Int /\ bit(a, 5) \in Int /\ bit(a, 6) \in Int
    BY <1>14
  <2> QED
    BY <1>3, <1>12, <2>1, <2>2, <2>3
<1> QED
  BY <1>12, <1>15, <1>16 DEF q7

\* A number with the given bits is the polynomial of their places.
LEMMA PolyIs ==
  ASSUME NEW v, NEW P \in SUBSET (0 .. 7),
         \A k \in 0 .. 7 : bit(v, k) = IF k \in P THEN 1 ELSE 0
  PROVE  Poly(v) = P
<1>1. \A k \in 0 .. 7 : k \in Poly(v) <=> k \in P
  BY DEF Poly
<1> QED
  BY <1>1 DEF Poly

\* One shift of galoisMulConst is a product with x.
LEMMA DoubleIs ==
  ASSUME NEW a \in Bytes
  PROVE  double(a) \in Bytes /\ Poly(double(a)) = FIPS!XTimes(Poly(a))
<1> DEFINE x(k) == bit(a, k)
           v == shiftLeft(a)
           tmp == variableXor(v, 27)
<1>1. \A k \in 0 .. 7 : x(k) \in 0 .. 1
  BY ByteIs
<1>2. /\ a = x(0) + 2 * x(1) + 4 * x(2) + 8 * x(3) + 16 * x(4) + 32 * x(5) + 64 * x(6) + 128 * x(7)
      /\ x(7) = a \div 128
  BY ByteIs
<1>3. v = (2 * a) % 256 /\ getBit(a) = x(7)
  BY <1>2 DEF shiftLeft, getBit
<1> HIDE DEF x
<1>4. v = 0 + 2 * x(0) + 4 * x(1) + 8 * x(2) + 16 * x(3) + 32 * x(4) + 64 * x(5) + 128 * x(6)
  <2> DEFINE w == 2 * x(0) + 4 * x(1) + 8 * x(2) + 16 * x(3) + 32 * x(4) + 64 * x(5) + 128 * x(6)
  <2>1. /\ x(0) \in 0 .. 1 /\ x(1) \in 0 .. 1 /\ x(2) \in 0 .. 1 /\ x(3) \in 0 .. 1
        /\ x(4) \in 0 .. 1 /\ x(5) \in 0 .. 1 /\ x(6) \in 0 .. 1 /\ x(7) \in 0 .. 1
    BY <1>1
  <2>2. 2 * a = 256 * x(7) + w
    <3>1. a = x(0) + 2 * x(1) + 4 * x(2) + 8 * x(3) + 16 * x(4) + 32 * x(5) + 64 * x(6) + 128 * x(7)
      BY <1>2
    <3> QED
      BY <2>1, <3>1
  <2>3. w \in Nat /\ w < 256
    BY <2>1
  <2>4. 0 + 2 * x(0) + 4 * x(1) + 8 * x(2) + 16 * x(3) + 32 * x(4) + 64 * x(5) + 128 * x(6) = w
    BY <2>1
  <2> HIDE DEF w
  <2>5. (2 * a) % 256 = w
    BY <2>1, <2>2, <2>3
  <2> QED
    BY <1>3, <2>4, <2>5
<1> HIDE DEF v
<1>5. /\ v \in Bytes
      /\ bit(v, 0) = 0 /\ bit(v, 1) = x(0) /\ bit(v, 2) = x(1) /\ bit(v, 3) = x(2)
      /\ bit(v, 4) = x(3) /\ bit(v, 5) = x(4) /\ bit(v, 6) = x(5) /\ bit(v, 7) = x(6)
  BY <1>1, <1>4, BitsAre
<1>6. \A k \in 0 .. 7 : k \in {0, 1, 2, 3, 4, 5, 6, 7}
  OBVIOUS
<1>7. Poly(v) = {k + 1 : k \in Poly(a) \ {7}}
  <2> DEFINE P == {k + 1 : k \in Poly(a) \ {7}}
  <2>1. \A k \in 0 .. 7 : k \in Poly(a) <=> x(k) = 1
    BY DEF Poly, x
  <2>2. \A k \in 0 .. 7 : k \in P <=> k # 0 /\ x(k - 1) = 1
    <3>1. \A k \in 0 .. 7 : k # 0 => k - 1 \in 0 .. 7 \ {7} /\ (k - 1) + 1 = k
      OBVIOUS
    <3> QED
      BY <2>1, <3>1 DEF Poly
  <2>3. P \in SUBSET (0 .. 7)
    BY DEF Poly
  <2> HIDE DEF P
  <2>4. \A k \in 0 .. 7 : bit(v, k) = IF k \in P THEN 1 ELSE 0
    BY <1>1, <1>5, <1>6, <2>2
  <2> QED
    BY <2>3, <2>4, PolyIs DEF P
<1>8. 27 \in Bytes /\ Poly(27) = {0, 1, 3, 4}
  <2>1. 27 = 1 + 2 * 1 + 4 * 0 + 8 * 1 + 16 * 1 + 32 * 0 + 64 * 0 + 128 * 0
    OBVIOUS
  <2>2. /\ 27 \in Bytes
        /\ bit(27, 0) = 1 /\ bit(27, 1) = 1 /\ bit(27, 2) = 0 /\ bit(27, 3) = 1
        /\ bit(27, 4) = 1 /\ bit(27, 5) = 0 /\ bit(27, 6) = 0 /\ bit(27, 7) = 0
    BY <2>1, BitsAre
  <2> DEFINE P == {0, 1, 3, 4}
  <2>3. \A k \in 0 .. 7 : bit(27, k) = IF k \in P THEN 1 ELSE 0
    BY <1>6, <2>2
  <2>4. P \in SUBSET (0 .. 7)
    OBVIOUS
  <2> QED
    BY <2>2, <2>3, <2>4, PolyIs
<1>9. tmp \in Bytes /\ Poly(tmp) = FIPS!Plus(Poly(v), {0, 1, 3, 4})
  BY <1>5, <1>8, XorIs
<1>10. double(a) = v + x(7) * (tmp - v)
  <2>1. Unsatisfiable \notin {getBit(a), v, tmp}
    BY <1>1, <1>3, <1>5, <1>9 DEF Bytes, Unsatisfiable
  <2> QED
    BY <1>3, <2>1 DEF double, v, tmp
<1> HIDE DEF tmp
<1>11. double(a) = IF 7 \in Poly(a) THEN tmp ELSE v
  <2>1. 7 \in Poly(a) <=> x(7) = 1
    BY DEF Poly, x
  <2>2. tmp \in Int /\ v \in Int
    BY <1>5, <1>9 DEF Bytes
  <2>3. CASE x(7) = 1
    BY <1>10, <2>1, <2>2, <2>3
  <2>4. CASE x(7) = 0
    BY <1>10, <2>1, <2>2, <2>4
  <2> QED
    BY <1>1, <2>3, <2>4
<1>12. \A A : FIPS!Plus(A, {}) = A
  BY DEF FIPS!Plus
<1> QED
  BY <1>5, <1>7, <1>9, <1>11, <1>12 DEF FIPS!XTimes

\* One turn of galoisMulConst's loop.
Turn(s) ==
  IF s.idx = 0 THEN s
  ELSE [p |-> IF s.idx % 2 = 1 THEN variableXor(s.p, s.a) ELSE s.p,
        a |-> IF s.idx \div 2 = 0 THEN s.a ELSE double(s.a),
        idx |-> s.idx \div 2]

LEMMA LoopIs ==
  ASSUME NEW a \in Bytes, NEW idx \in Nat
  PROVE  \E f : /\ galoisMulConst(a, idx) = f[8].p
                /\ f[0] = [p |-> 0, a |-> a, idx |-> idx]
                /\ \A n \in 1 .. 8 : f[n] = Turn(f[n - 1])
<1> DEFINE first == [p |-> 0, a |-> a, idx |-> idx]
           Is(f) == f = [counter \in 0 .. 8 |-> IF counter = 0 THEN first ELSE Turn(f[counter - 1])]
           loop == CHOOSE f : Is(f)
           R == Bytes \cup {Unsatisfiable}
           V == [p : R, a : R, idx : Nat]
           step == [q \in (1 .. 8) \X V |-> Turn(q[2])]
<1>1. galoisMulConst(a, idx) = loop[8].p
  BY DEF galoisMulConst, Turn
<1>2. \A u, v \in R : variableXor(u, v) \in R
  <2>1. \A u, v \in Bytes : variableXor(u, v) \in Bytes
    BY XorIs
  <2> QED
    BY <2>1 DEF variableXor
<1>3. \A u \in R : double(u) \in R
  <2>1. \A u \in Bytes : double(u) \in Bytes
    BY DoubleIs
  <2>2. double(Unsatisfiable) = Unsatisfiable
    BY DEF double, getBit, Bytes, Unsatisfiable
  <2> QED
    BY <2>1, <2>2
<1> HIDE DEF R
<1>4. first \in V
  BY DEF R, Bytes
<1>5. ASSUME NEW s \in V PROVE Turn(s) \in V
  BY <1>2, <1>3 DEF Turn
<1> HIDE DEF V, first
<1>6. step \in [(1 .. 8) \X V -> V]
  BY <1>5
<1>7. \A n \in 1 .. 8, s \in V : step[<<n, s>>] = Turn(s)
  OBVIOUS
<1> HIDE DEF step
<1>8. PICK g \in [0 .. 8 -> V] : g[0] = first /\ \A n \in 1 .. 8 : g[n] = step[<<n, g[n - 1]>>]
  <2>1. \E g \in [0 .. 8 -> V] : Recurs(g, 8, first, step)
    BY <1>4, <1>6, Recursion
  <2> QED
    BY <2>1 DEF Recurs
<1>9. Is(g)
  <2>1. \A n \in 0 .. 8 : g[n] = IF n = 0 THEN first ELSE Turn(g[n - 1])
    BY <1>7, <1>8
  <2> QED
    BY <2>1
<1>10. Is(loop)
  <2> HIDE DEF Is
  <2> QED
    BY <1>9
<1> HIDE DEF loop
<1>11. loop[0] = first /\ \A n \in 1 .. 8 : loop[n] = Turn(loop[n - 1])
  BY <1>10
<1> QED
  BY <1>1, <1>11 DEF first

\* The turns that the constants 2 and 3 make: two of them, and then the loop is
\* left.
LEMMA TurnIs ==
  ASSUME NEW p, NEW a
  PROVE  /\ Turn([p |-> p, a |-> a, idx |-> 3]) =
              [p |-> variableXor(p, a), a |-> double(a), idx |-> 1]
         /\ Turn([p |-> p, a |-> a, idx |-> 2]) = [p |-> p, a |-> double(a), idx |-> 1]
         /\ Turn([p |-> p, a |-> a, idx |-> 1]) = [p |-> variableXor(p, a), a |-> a, idx |-> 0]
<1>1. /\ 3 % 2 = 1 /\ 3 \div 2 = 1 /\ 2 % 2 = 0 /\ 2 \div 2 = 1 /\ 1 % 2 = 1 /\ 1 \div 2 = 0
      /\ 3 # 0 /\ 2 # 0 /\ 1 # 0
  OBVIOUS
<1> QED
  BY <1>1 DEF Turn

LEMMA TurnsEnd ==
  ASSUME NEW f, \A n \in 1 .. 8 : f[n] = Turn(f[n - 1])
  PROVE  f[1] = Turn(f[0]) /\ f[2] = Turn(f[1]) /\ (f[2].idx = 0 => f[8] = f[2])
<1>1. /\ f[1] = Turn(f[0]) /\ f[2] = Turn(f[1]) /\ f[3] = Turn(f[2]) /\ f[4] = Turn(f[3])
      /\ f[5] = Turn(f[4]) /\ f[6] = Turn(f[5]) /\ f[7] = Turn(f[6]) /\ f[8] = Turn(f[7])
  OBVIOUS
<1>2. \A s : s.idx = 0 => Turn(s) = s
  BY DEF Turn
<1> QED
  BY <1>1, <1>2

\* Horner's rule, term by term.
LEMMA HornerIs ==
  ASSUME NEW a \in SUBSET Int, NEW b
  PROVE  \E f : /\ FIPS!Times(a, b) = f[8] /\ f[0] = {}
                /\ \A n \in 1 .. 8 :
                     f[n] = FIPS!Plus(FIPS!XTimes(f[n - 1]), IF 8 - n \in b THEN a ELSE {})
<1> DEFINE next(n, c) == FIPS!Plus(FIPS!XTimes(c), IF 8 - n \in b THEN a ELSE {})
           Is(f) == f = [n \in 0 .. 8 |-> IF n = 0 THEN {} ELSE next(n, f[n - 1])]
           horner == CHOOSE f : Is(f)
           V == SUBSET Int
           step == [q \in (1 .. 8) \X V |-> next(q[1], q[2])]
<1>1. FIPS!Times(a, b) = horner[8]
  BY DEF FIPS!Times
<1>2. ASSUME NEW n \in 1 .. 8, NEW c \in V PROVE next(n, c) \in V
  <2>1. {k + 1 : k \in c \ {7}} \in V
    OBVIOUS
  <2>2. FIPS!XTimes(c) \in V
    BY <2>1 DEF FIPS!Plus, FIPS!XTimes
  <2> QED
    BY <2>2 DEF FIPS!Plus
<1>3. {} \in V
  OBVIOUS
<1> HIDE DEF next, V
<1>4. step \in [(1 .. 8) \X V -> V]
  BY <1>2
<1>5. \A n \in 1 .. 8, c \in V : step[<<n, c>>] = next(n, c)
  OBVIOUS
<1> HIDE DEF step
<1>6. PICK g \in [0 .. 8 -> V] : g[0] = {} /\ \A n \in 1 .. 8 : g[n] = step[<<n, g[n - 1]>>]
  <2>1. \E g \in [0 .. 8 -> V] : Recurs(g, 8, {}, step)
    BY <1>3, <1>4, Recursion
  <2> QED
    BY <2>1 DEF Recurs
<1>7. Is(g)
  <2>1. \A n \in 0 .. 8 : g[n] = IF n = 0 THEN {} ELSE next(n, g[n - 1])
    BY <1>5, <1>6
  <2> QED
    BY <2>1
<1>8. Is(horner)
  <2> HIDE DEF Is
  <2> QED
    BY <1>7
<1> HIDE DEF horner
<1>9. horner[0] = {} /\ \A n \in 1 .. 8 : horner[n] = next(n, horner[n - 1])
  BY <1>8
<1> QED
  BY <1>1, <1>9 DEF next

\* The products with 1, x and x + 1.
LEMMA SmallProducts ==
  ASSUME NEW a \in SUBSET Int
  PROVE  /\ FIPS!Times(a, {0}) = a /\ FIPS!Times(a, {1}) = FIPS!XTimes(a)
         /\ FIPS!Times(a, {0, 1}) = FIPS!Plus(FIPS!XTimes(a), a)
<1>1. FIPS!XTimes({}) = {} /\ \A A : FIPS!Plus(A, {}) = A /\ FIPS!Plus({}, A) = A
  BY DEF FIPS!Plus, FIPS!XTimes
<1>2. ASSUME NEW b \in SUBSET {0, 1}
      PROVE  \E c : /\ c = IF 1 \in b THEN a ELSE {}
                    /\ FIPS!Times(a, b) = FIPS!Plus(FIPS!XTimes(c), IF 0 \in b THEN a ELSE {})
  <2>1. PICK f : /\ FIPS!Times(a, b) = f[8] /\ f[0] = {}
                 /\ \A n \in 1 .. 8 :
                      f[n] = FIPS!Plus(FIPS!XTimes(f[n - 1]), IF 8 - n \in b THEN a ELSE {})
    BY HornerIs
  <2> DEFINE term(k) == IF k \in b THEN a ELSE {}
  <2>2. /\ f[1] = FIPS!Plus(FIPS!XTimes(f[0]), term(7)) /\ f[2] = FIPS!Plus(FIPS!XTimes(f[1]), term(6))
        /\ f[3] = FIPS!Plus(FIPS!XTimes(f[2]), term(5)) /\ f[4] = FIPS!Plus(FIPS!XTimes(f[3]), term(4))
        /\ f[5] = FIPS!Plus(FIPS!XTimes(f[4]), term(3)) /\ f[6] = FIPS!Plus(FIPS!XTimes(f[5]), term(2))
        /\ f[7] = FIPS!Plus(FIPS!XTimes(f[6]), term(1)) /\ f[8] = FIPS!Plus(FIPS!XTimes(f[7]), term(0))
    BY <2>1
  <2>3. term(7) = {} /\ term(6) = {} /\ term(5) = {} /\ term(4) = {} /\ term(3) = {} /\ term(2) = {}
    OBVIOUS
  <2> HIDE DEF term
  <2>4. f[1] = {} /\ f[2] = {} /\ f[3] = {} /\ f[4] = {} /\ f[5] = {} /\ f[6] = {}
    BY <1>1, <2>1, <2>2, <2>3
  <2>5. f[7] = term(1)
    BY <1>1, <2>2, <2>4
  <2> QED
    BY <2>1, <2>2, <2>5 DEF term
<1> QED
  BY <1>1, <1>2

\* What mixColumns multiplies by.
LEMMA TimesIs ==
  ASSUME NEW a \in Bytes
  PROVE  /\ galoisMulConst(a, 2) \in Bytes /\ Poly(galoisMulConst(a, 2)) = FIPS!Times(Poly(a), {1})
         /\ galoisMulConst(a, 3) \in Bytes
         /\ Poly(galoisMulConst(a, 3)) = FIPS!Times(Poly(a), {0, 1})
         /\ FIPS!Times(Poly(a), {0}) = Poly(a)
<1>1. /\ FIPS!Times(Poly(a), {0}) = Poly(a) /\ FIPS!Times(Poly(a), {1}) = FIPS!XTimes(Poly(a))
      /\ FIPS!Times(Poly(a), {0, 1}) = FIPS!Plus(FIPS!XTimes(Poly(a)), Poly(a))
  <2>1. Poly(a) \in SUBSET Int
    BY DEF Poly
  <2> QED
    BY <2>1, SmallProducts
<1>2. double(a) \in Bytes /\ Poly(double(a)) = FIPS!XTimes(Poly(a))
  BY DoubleIs
<1>3. \A b \in Bytes : variableXor(0, b) \in Bytes /\ Poly(variableXor(0, b)) = Poly(b)
  <2>1. 0 \in Bytes /\ Poly(0) = {}
    <3>1. 0 = 0 + 2 * 0 + 4 * 0 + 8 * 0 + 16 * 0 + 32 * 0 + 64 * 0 + 128 * 0
      OBVIOUS
    <3>2. /\ bit(0, 0) = 0 /\ bit(0, 1) = 0 /\ bit(0, 2) = 0 /\ bit(0, 3) = 0
          /\ bit(0, 4) = 0 /\ bit(0, 5) = 0 /\ bit(0, 6) = 0 /\ bit(0, 7) = 0
      BY <3>1, BitsAre
    <3>3. \A k \in 0 .. 7 : k \in {0, 1, 2, 3, 4, 5, 6, 7}
      OBVIOUS
    <3>4. \A k \in 0 .. 7 : bit(0, k) = IF k \in {} THEN 1 ELSE 0
      BY <3>2, <3>3
    <3>5. {} \in SUBSET (0 .. 7) /\ 0 \in Bytes
      BY DEF Bytes
    <3> QED
      BY <3>4, <3>5, PolyIs
  <2>2. \A A : FIPS!Plus({}, A) = A
    BY DEF FIPS!Plus
  <2> QED
    BY <2>1, <2>2, XorIs
<1>4. galoisMulConst(a, 2) = variableXor(0, double(a))
  <2>1. PICK f : /\ galoisMulConst(a, 2) = f[8].p
                 /\ f[0] = [p |-> 0, a |-> a, idx |-> 2]
                 /\ \A n \in 1 .. 8 : f[n] = Turn(f[n - 1])
    <3>1. 2 \in Nat
      OBVIOUS
    <3> QED
      BY <3>1, LoopIs, Zenon
  <2>2. f[1] = Turn(f[0]) /\ f[2] = Turn(f[1]) /\ (f[2].idx = 0 => f[8] = f[2])
    BY <2>1, TurnsEnd
  <2>3. f[1] = [p |-> 0, a |-> double(a), idx |-> 1]
    BY <2>1, <2>2, TurnIs
  <2>4. f[2] = [p |-> variableXor(0, double(a)), a |-> double(a), idx |-> 0]
    BY <2>2, <2>3, TurnIs
  <2> QED
    BY <2>1, <2>2, <2>4
<1>5. galoisMulConst(a, 3) = variableXor(variableXor(0, a), double(a))
  <2>1. PICK f : /\ galoisMulConst(a, 3) = f[8].p
                 /\ f[0] = [p |-> 0, a |-> a, idx |-> 3]
                 /\ \A n \in 1 .. 8 : f[n] = Turn(f[n - 1])
    <3>1. 3 \in Nat
      OBVIOUS
    <3> QED
      BY <3>1, LoopIs, Zenon
  <2>2. f[1] = Turn(f[0]) /\ f[2] = Turn(f[1]) /\ (f[2].idx = 0 => f[8] = f[2])
    BY <2>1, TurnsEnd
  <2>3. f[1] = [p |-> variableXor(0, a), a |-> double(a), idx |-> 1]
    BY <2>1, <2>2, TurnIs
  <2>4. f[2] = [p |-> variableXor(variableXor(0, a), double(a)), a |-> double(a), idx |-> 0]
    BY <2>2, <2>3, TurnIs
  <2> QED
    BY <2>1, <2>2, <2>4
<1>6. \A A, B : FIPS!Plus(A, B) = FIPS!Plus(B, A)
  BY DEF FIPS!Plus
<1> QED
  BY <1>1, <1>2, <1>3, <1>4, <1>5, <1>6, XorIs

\* The round constants that 60 words need are powers of x.
LEMMA RConIs ==
  ASSUME NEW q \in 1 .. 7
  PROVE  RCon[q] \in Bytes /\ Poly(RCon[q]) = {q - 1}
<1> DEFINE x(k) == IF k = q - 1 THEN 1 ELSE 0
           v == RCon[q]
<1>1. v = x(0) + 2 * x(1) + 4 * x(2) + 8 * x(3) + 16 * x(4) + 32 * x(5) + 64 * x(6) + 128 * x(7)
  BY DEF RCon
<1> HIDE DEF v
<1>2. /\ v \in Bytes
      /\ bit(v, 0) = x(0) /\ bit(v, 1) = x(1) /\ bit(v, 2) = x(2) /\ bit(v, 3) = x(3)
      /\ bit(v, 4) = x(4) /\ bit(v, 5) = x(5) /\ bit(v, 6) = x(6) /\ bit(v, 7) = x(7)
  <2>1. \A k \in Nat : x(k) \in 0 .. 1
    OBVIOUS
  <2> HIDE DEF x
  <2> QED
    BY <1>1, <2>1, BitsAre
<1>3. \A k \in 0 .. 7 : k \in {0, 1, 2, 3, 4, 5, 6, 7}
  OBVIOUS
<1>4. \A k \in 0 .. 7 : bit(v, k) = x(k)
  <2> HIDE DEF x
  <2> QED
    BY <1>2, <1>3
<1>5. \A k \in 0 .. 7 : bit(v, k) = 1 <=> k = q - 1
  BY <1>4
<1>6. Poly(v) = {q - 1}
  BY <1>5 DEF Poly
<1> QED
  BY <1>2, <1>6 DEF v

-----------------------------------------------------------------------------
(* Words.                                                                  *)

\* Four more bytes, one more word.
LEMMA WordJoined ==
  ASSUME NEW e \in Seq(Bytes), NEW m \in Nat, Len(e) = 4 * m, NEW t \in [1 .. 4 -> Bytes]
  PROVE  /\ e \o t \in Seq(Bytes) /\ Len(e \o t) = 4 * (m + 1)
         /\ Len(Words(e)) = m
         /\ Words(e \o t) = Append(Words(e), [k \in 1 .. 4 |-> Poly(t[k])])
<1> DEFINE j == e \o t
           word == [k \in 1 .. 4 |-> Poly(t[k])]
<1>1. t \in Seq(Bytes) /\ Len(t) = 4
  <2>1. IsSeq(t) /\ Len(t) = 4
    BY FunIs
  <2> QED
    BY <2>1 DEF IsSeq
<1>2. /\ j \in Seq(Bytes) /\ Len(j) = 4 * (m + 1)
      /\ \A n \in 1 .. 4 * m : j[n] = e[n]
      /\ \A n \in 1 .. 4 : j[4 * m + n] = t[n]
  <2>1. IsSeq(e) /\ IsSeq(t)
    BY <1>1, SeqIs
  <2>2. j \in Seq(Bytes)
    BY <1>1, ConcatProperties
  <2>3. Len(j) = Len(e) + Len(t)
    BY <2>1, JoinIs
  <2>4. \A n \in 1 .. Len(e) : j[n] = e[n]
    BY <2>1, JoinIs
  <2>5. \A n \in 1 .. Len(t) : j[Len(e) + n] = t[n]
    BY <2>1, JoinIs
  <2> HIDE DEF j
  <2> QED
    BY <1>1, <2>2, <2>3, <2>4, <2>5
<1> HIDE DEF j
<1>3. (4 * m) \div 4 = m /\ (4 * (m + 1)) \div 4 = m + 1
  OBVIOUS
<1>4. Words(e) = [n \in 1 .. m |-> [k \in 1 .. 4 |-> Poly(e[4 * (n - 1) + k])]]
  BY <1>3 DEF Words
<1>5. Words(j) = [n \in 1 .. m + 1 |-> [k \in 1 .. 4 |-> Poly(j[4 * (n - 1) + k])]]
  BY <1>2, <1>3 DEF Words
<1>6. IsSeq(Words(e)) /\ Len(Words(e)) = m
  BY <1>4, FunIs
<1>7. IsSeq(Words(j)) /\ Len(Words(j)) = m + 1
  BY <1>5, FunIs
<1>8. \A n \in 1 .. m : Words(j)[n] = Words(e)[n]
  <2>1. \A n \in 1 .. m, k \in 1 .. 4 : 4 * (n - 1) + k \in 1 .. 4 * m
    OBVIOUS
  <2>2. ASSUME NEW n \in 1 .. m PROVE Words(j)[n] = Words(e)[n]
    <3>1. \A k \in 1 .. 4 : j[4 * (n - 1) + k] = e[4 * (n - 1) + k]
      BY <1>2, <2>1
    <3>2. Words(e)[n] = [k \in 1 .. 4 |-> Poly(e[4 * (n - 1) + k])]
      BY <1>4
    <3>3. Words(j)[n] = [k \in 1 .. 4 |-> Poly(j[4 * (n - 1) + k])]
      BY <1>5
    <3>4. [k \in 1 .. 4 |-> Poly(j[4 * (n - 1) + k])] = [k \in 1 .. 4 |-> Poly(e[4 * (n - 1) + k])]
      BY <3>1
    <3> QED
      BY <3>2, <3>3, <3>4
  <2> QED
    BY <2>2
<1>9. Words(j)[m + 1] = word
  <2>1. \A k \in 1 .. 4 : 4 * ((m + 1) - 1) + k = 4 * m + k
    OBVIOUS
  <2>2. \A k \in 1 .. 4 : j[4 * ((m + 1) - 1) + k] = t[k]
    BY <1>2, <2>1
  <2>3. Words(j)[m + 1] = [k \in 1 .. 4 |-> Poly(j[4 * ((m + 1) - 1) + k])]
    BY <1>5
  <2>4. [k \in 1 .. 4 |-> Poly(j[4 * ((m + 1) - 1) + k])] = word
    BY <2>2
  <2> QED
    BY <2>3, <2>4
<1>10. /\ IsSeq(Append(Words(e), word)) /\ Len(Append(Words(e), word)) = m + 1
       /\ \A n \in 1 .. m : Append(Words(e), word)[n] = Words(e)[n]
       /\ Append(Words(e), word)[m + 1] = word
  BY <1>6, AppendIs
<1>11. Words(j) = Append(Words(e), word)
  <2> DEFINE both == Append(Words(e), word)
  <2>1. DOMAIN both = 1 .. m + 1 /\ DOMAIN Words(j) = 1 .. m + 1
    BY <1>7, <1>10, LenIs
  <2>2. \A n \in 1 .. m + 1 : Words(j)[n] = both[n]
    <3>1. \A n \in 1 .. m + 1 : n \in 1 .. m \/ n = m + 1
      OBVIOUS
    <3> QED
      BY <1>8, <1>9, <1>10, <3>1
  <2>3. Words(j) = [n \in DOMAIN Words(j) |-> Words(j)[n]]
    BY <1>5
  <2>4. IsSeq(both)
    BY <1>10
  <2> HIDE DEF both
  <2>5. Words(j) = both
    BY <2>1, <2>2, <2>3, <2>4, SameSeq
  <2> QED
    BY <2>5 DEF both
<1> QED
  BY <1>2, <1>6, <1>11 DEF j

-----------------------------------------------------------------------------
(* Rounds.                                                                 *)

Blocks == [0 .. 15 -> Bytes]

\* Where row r and column c are.
LEMMA CellIs ==
  /\ \A r, c \in 0 .. 3 :
       /\ Cell(r, c) \in 0 .. 15 /\ Row(Cell(r, c)) = r /\ Column(Cell(r, c)) = c
       /\ Transposed(Cell(r, c)) = 4 * c + r
  /\ \A n \in 0 .. 15 : Row(n) \in 0 .. 3 /\ Column(n) \in 0 .. 3 /\ Transposed(n) \in 0 .. 15
BY DEF Cell, Row, Column, Transposed

\* Matrices that agree everywhere are one.
LEMMA SameMatrix ==
  ASSUME NEW A, NEW B, A = [r \in 0 .. 3 |-> [c \in 0 .. 3 |-> A[r][c]]],
         B = [r \in 0 .. 3 |-> [c \in 0 .. 3 |-> B[r][c]]],
         \A r, c \in 0 .. 3 : A[r][c] = B[r][c]
  PROVE  A = B
<1>1. ASSUME NEW r \in 0 .. 3 PROVE A[r] = B[r]
  <2>1. A[r] = [c \in 0 .. 3 |-> A[r][c]]
    OBVIOUS
  <2>2. B[r] = [c \in 0 .. 3 |-> B[r][c]]
    OBVIOUS
  <2>3. [c \in 0 .. 3 |-> A[r][c]] = [c \in 0 .. 3 |-> B[r][c]]
    OBVIOUS
  <2> QED
    BY <2>1, <2>2, <2>3
<1>2. DOMAIN A = 0 .. 3 /\ DOMAIN B = 0 .. 3 /\ A = [r \in 0 .. 3 |-> A[r]] /\ B = [r \in 0 .. 3 |-> B[r]]
  OBVIOUS
<1> QED
  BY <1>1, <1>2

\* What is in the matrix of a block.
LEMMA MatrixAt ==
  ASSUME NEW m, NEW r \in 0 .. 3, NEW c \in 0 .. 3
  PROVE  MatrixOf(m)[r][c] = Poly(m[Cell(r, c)])
BY DEF MatrixOf

LEMMA MatrixIs ==
  ASSUME NEW m
  PROVE  MatrixOf(m) = [r \in 0 .. 3 |-> [c \in 0 .. 3 |-> MatrixOf(m)[r][c]]]
BY DEF MatrixOf

LEMMA SubBytesIs ==
  ASSUME NEW m \in Blocks
  PROVE  subBytes(m) \in Blocks /\ MatrixOf(subBytes(m)) = FIPS!SubBytes(MatrixOf(m))
<1>1. \A n \in 0 .. 15 : subw(m[n]) \in Bytes /\ Poly(subw(m[n])) = FIPS!SBox[Poly(m[n])]
  BY SubIs DEF Blocks
<1>2. subBytes(m) \in Blocks
  BY <1>1 DEF subBytes, Blocks
<1>3. \A r, c \in 0 .. 3 : MatrixOf(subBytes(m))[r][c] = FIPS!SubBytes(MatrixOf(m))[r][c]
  <2> SUFFICES ASSUME NEW r \in 0 .. 3, NEW c \in 0 .. 3
               PROVE  MatrixOf(subBytes(m))[r][c] = FIPS!SubBytes(MatrixOf(m))[r][c]
    OBVIOUS
  <2>1. FIPS!SubBytes(MatrixOf(m))[r][c] = FIPS!SBox[MatrixOf(m)[r][c]]
    BY DEF FIPS!SubBytes
  <2>2. Cell(r, c) \in 0 .. 15
    BY CellIs
  <2>3. subBytes(m)[Cell(r, c)] = subw(m[Cell(r, c)])
    BY <2>2 DEF subBytes
  <2>4. MatrixOf(subBytes(m))[r][c] = Poly(subw(m[Cell(r, c)]))
    BY <2>3, MatrixAt
  <2>5. MatrixOf(m)[r][c] = Poly(m[Cell(r, c)])
    BY MatrixAt
  <2> QED
    BY <1>1, <2>1, <2>2, <2>4, <2>5
<1>4. FIPS!SubBytes(MatrixOf(m)) =
        [r \in 0 .. 3 |-> [c \in 0 .. 3 |-> FIPS!SubBytes(MatrixOf(m))[r][c]]]
  BY DEF FIPS!SubBytes
<1> QED
  BY <1>2, <1>3, <1>4, MatrixIs, SameMatrix

LEMMA ShiftRowsIs ==
  ASSUME NEW m \in Blocks
  PROVE  shiftRows(m) \in Blocks /\ MatrixOf(shiftRows(m)) = FIPS!ShiftRows(MatrixOf(m))
<1>1. \A r, c \in 0 .. 3 : (c + r) % 4 \in 0 .. 3
  OBVIOUS
<1>2. shiftRows(m) \in Blocks
  BY <1>1, CellIs DEF shiftRows, Blocks
<1>3. \A r, c \in 0 .. 3 : MatrixOf(shiftRows(m))[r][c] = FIPS!ShiftRows(MatrixOf(m))[r][c]
  <2> SUFFICES ASSUME NEW r \in 0 .. 3, NEW c \in 0 .. 3
               PROVE  MatrixOf(shiftRows(m))[r][c] = FIPS!ShiftRows(MatrixOf(m))[r][c]
    OBVIOUS
  <2>1. FIPS!ShiftRows(MatrixOf(m))[r][c] = MatrixOf(m)[r][(c + r) % 4]
    BY DEF FIPS!ShiftRows, FIPS!Nb
  <2>2. Cell(r, c) \in 0 .. 15 /\ Row(Cell(r, c)) = r /\ Column(Cell(r, c)) = c
    BY CellIs
  <2>3. shiftRows(m)[Cell(r, c)] = m[Cell(r, (c + r) % 4)]
    BY <2>2 DEF shiftRows
  <2>4. MatrixOf(shiftRows(m))[r][c] = Poly(m[Cell(r, (c + r) % 4)])
    BY <2>3, MatrixAt
  <2>5. MatrixOf(m)[r][(c + r) % 4] = Poly(m[Cell(r, (c + r) % 4)])
    BY <1>1, MatrixAt
  <2> QED
    BY <2>1, <2>4, <2>5
<1>4. FIPS!ShiftRows(MatrixOf(m)) =
        [r \in 0 .. 3 |-> [c \in 0 .. 3 |-> FIPS!ShiftRows(MatrixOf(m))[r][c]]]
  BY DEF FIPS!ShiftRows
<1> QED
  BY <1>2, <1>3, <1>4, MatrixIs, SameMatrix

LEMMA MixColumnsIs ==
  ASSUME NEW m \in Blocks
  PROVE  mixColumns(m) \in Blocks /\ MatrixOf(mixColumns(m)) = FIPS!MixColumns(MatrixOf(m))
<1> DEFINE a(r, c, k) == m[Cell((r + k) % 4, c)]
           sum(r, c) == variableXor(variableXor(variableXor(galoisMulConst(a(r, c, 0), 2),
                                                            galoisMulConst(a(r, c, 1), 3)),
                                                a(r, c, 2)), a(r, c, 3))
           term(r, c, k) == FIPS!Times(Poly(a(r, c, k)), <<{1}, {0, 1}, {0}, {0}>>[k + 1])
           value(r, c) == FIPS!Plus(FIPS!Plus(term(r, c, 0), term(r, c, 1)),
                                    FIPS!Plus(term(r, c, 2), term(r, c, 3)))
<1>1. \A r, c \in 0 .. 3, k \in 0 .. 3 : (r + k) % 4 \in 0 .. 3 /\ a(r, c, k) \in Bytes
  <2>1. \A r, k \in 0 .. 3 : (r + k) % 4 \in 0 .. 3
    OBVIOUS
  <2> QED
    BY <2>1, CellIs DEF Blocks
<1>2. \A r, c \in 0 .. 3 : sum(r, c) \in Bytes /\ Poly(sum(r, c)) = value(r, c)
  <2> SUFFICES ASSUME NEW r \in 0 .. 3, NEW c \in 0 .. 3
               PROVE  sum(r, c) \in Bytes /\ Poly(sum(r, c)) = value(r, c)
    OBVIOUS
  <2> DEFINE a0 == a(r, c, 0)
             a1 == a(r, c, 1)
             a2 == a(r, c, 2)
             a3 == a(r, c, 3)
             p == galoisMulConst(a0, 2)
             q == galoisMulConst(a1, 3)
  <2>1. a0 \in Bytes /\ a1 \in Bytes /\ a2 \in Bytes /\ a3 \in Bytes
    BY <1>1
  <2>2. term(r, c, 0) = FIPS!Times(Poly(a0), {1}) /\ term(r, c, 1) = FIPS!Times(Poly(a1), {0, 1})
        /\ term(r, c, 2) = FIPS!Times(Poly(a2), {0}) /\ term(r, c, 3) = FIPS!Times(Poly(a3), {0})
    OBVIOUS
  <2> HIDE DEF a0, a1, a2, a3, term
  <2>3. p \in Bytes /\ q \in Bytes /\ Poly(p) = term(r, c, 0) /\ Poly(q) = term(r, c, 1)
        /\ Poly(a2) = term(r, c, 2) /\ Poly(a3) = term(r, c, 3)
    BY <2>1, <2>2, TimesIs
  <2>4. sum(r, c) = variableXor(variableXor(variableXor(p, q), a2), a3)
    BY DEF a0, a1, a2, a3
  <2> HIDE DEF p, q, sum
  <2>5. variableXor(p, q) \in Bytes
        /\ Poly(variableXor(p, q)) = FIPS!Plus(Poly(p), Poly(q))
    BY <2>3, XorIs
  <2>6. variableXor(variableXor(p, q), a2) \in Bytes
        /\ Poly(variableXor(variableXor(p, q), a2)) = FIPS!Plus(FIPS!Plus(Poly(p), Poly(q)), Poly(a2))
    BY <2>1, <2>5, XorIs
  <2>7. sum(r, c) \in Bytes
        /\ Poly(sum(r, c)) = FIPS!Plus(FIPS!Plus(FIPS!Plus(Poly(p), Poly(q)), Poly(a2)), Poly(a3))
    BY <2>1, <2>4, <2>6, XorIs
  <2>8. \A A, B, C : FIPS!Plus(FIPS!Plus(A, B), C) = FIPS!Plus(A, FIPS!Plus(B, C))
    BY DEF FIPS!Plus
  <2> QED
    BY <2>3, <2>7, <2>8
<1> HIDE DEF sum, value
<1>3. mixColumns(m) = [n \in 0 .. 15 |-> sum(Row(n), Column(n))]
  BY DEF mixColumns, sum
<1>4. mixColumns(m) \in Blocks
  BY <1>2, <1>3, CellIs DEF Blocks
<1>5. \A r, c \in 0 .. 3 : MatrixOf(mixColumns(m))[r][c] = value(r, c)
  <2> SUFFICES ASSUME NEW r \in 0 .. 3, NEW c \in 0 .. 3
               PROVE  MatrixOf(mixColumns(m))[r][c] = value(r, c)
    OBVIOUS
  <2>1. Cell(r, c) \in 0 .. 15 /\ Row(Cell(r, c)) = r /\ Column(Cell(r, c)) = c
    BY CellIs
  <2>2. mixColumns(m)[Cell(r, c)] = sum(r, c)
    BY <1>3, <2>1
  <2>3. MatrixOf(mixColumns(m))[r][c] = Poly(sum(r, c))
    BY <2>2, MatrixAt
  <2> QED
    BY <1>2, <2>3
<1>6. \A r, c \in 0 .. 3 : FIPS!MixColumns(MatrixOf(m))[r][c] = value(r, c)
  <2> SUFFICES ASSUME NEW r \in 0 .. 3, NEW c \in 0 .. 3
               PROVE  FIPS!MixColumns(MatrixOf(m))[r][c] = value(r, c)
    OBVIOUS
  <2> DEFINE M(k) == FIPS!Times(MatrixOf(m)[(r + k) % 4][c], <<{1}, {0, 1}, {0}, {0}>>[k + 1])
  <2>1. FIPS!MixColumns(MatrixOf(m))[r][c] = FIPS!Plus(FIPS!Plus(M(0), M(1)), FIPS!Plus(M(2), M(3)))
    BY DEF FIPS!MixColumns
  <2>2. \A k \in 0 .. 3 : MatrixOf(m)[(r + k) % 4][c] = Poly(a(r, c, k))
    <3> SUFFICES ASSUME NEW k \in 0 .. 3 PROVE MatrixOf(m)[(r + k) % 4][c] = Poly(a(r, c, k))
      OBVIOUS
    <3> DEFINE row == (r + k) % 4
    <3>1. row \in 0 .. 3
      BY <1>1
    <3> HIDE DEF row
    <3>2. MatrixOf(m)[row][c] = Poly(m[Cell(row, c)])
      BY <3>1, MatrixAt
    <3> QED
      BY <3>2 DEF row
  <2>3. \A k \in 0 .. 3 : M(k) = term(r, c, k)
    BY <2>2
  <2> HIDE DEF M, term
  <2> QED
    BY <2>1, <2>3 DEF value
<1>7. FIPS!MixColumns(MatrixOf(m)) =
        [r \in 0 .. 3 |-> [c \in 0 .. 3 |-> FIPS!MixColumns(MatrixOf(m))[r][c]]]
  BY DEF FIPS!MixColumns
<1> DEFINE A == FIPS!MixColumns(MatrixOf(m))
           B == MatrixOf(mixColumns(m))
<1>8. A = [r \in 0 .. 3 |-> [c \in 0 .. 3 |-> A[r][c]]] /\ \A r, c \in 0 .. 3 : B[r][c] = A[r][c]
  BY <1>5, <1>6, <1>7
<1>9. B = [r \in 0 .. 3 |-> [c \in 0 .. 3 |-> B[r][c]]]
  BY MatrixIs
<1> HIDE DEF A, B
<1>10. B = A
  BY <1>8, <1>9, SameMatrix
<1> QED
  BY <1>4, <1>10 DEF A, B

LEMMA AddRoundKeyIs ==
  ASSUME NEW m \in Blocks, expand \in [1 .. 240 -> Bytes], Len(expand) = 240, NEW n \in 0 .. 14
  PROVE  /\ addRoundKey(m, expand, 16 * n) \in Blocks
         /\ MatrixOf(addRoundKey(m, expand, 16 * n)) = FIPS!AddRoundKey(MatrixOf(m), n)
<1> DEFINE k(r, c) == expand[1 + 16 * n + 4 * c + r]
           b == addRoundKey(m, expand, 16 * n)
           A == FIPS!AddRoundKey(MatrixOf(m), n)
<1>0. \A t \in 1 .. 240 : expand[t] \in Bytes
  OBVIOUS
<1>1. \A r, c \in 0 .. 3 : k(r, c) \in Bytes
  <2> SUFFICES ASSUME NEW r \in 0 .. 3, NEW c \in 0 .. 3 PROVE k(r, c) \in Bytes
    OBVIOUS
  <2> DEFINE t == 1 + 16 * n + 4 * c + r
  <2>1. t \in 1 .. 240
    OBVIOUS
  <2> HIDE DEF t
  <2>2. expand[t] \in Bytes
    BY <1>0, <2>1
  <2> QED
    BY <2>2 DEF t
<1>2. \A r, c \in 0 .. 3 : b[Cell(r, c)] = variableXor(m[Cell(r, c)], k(r, c))
  <2> SUFFICES ASSUME NEW r \in 0 .. 3, NEW c \in 0 .. 3
               PROVE  b[Cell(r, c)] = variableXor(m[Cell(r, c)], k(r, c))
    OBVIOUS
  <2>1. Cell(r, c) \in 0 .. 15 /\ Transposed(Cell(r, c)) = 4 * c + r
    BY CellIs
  <2>2. b[Cell(r, c)] = variableXor(m[Cell(r, c)], expand[1 + 16 * n + Transposed(Cell(r, c))])
    BY <2>1 DEF addRoundKey
  <2>3. 1 + 16 * n + Transposed(Cell(r, c)) = 1 + 16 * n + 4 * c + r
    BY <2>1
  <2> QED
    BY <2>2, <2>3
<1>3. b \in Blocks
  <2>1. ASSUME NEW t \in 0 .. 15
        PROVE  variableXor(m[t], expand[1 + 16 * n + Transposed(t)]) \in Bytes
    <3> DEFINE u == 1 + 16 * n + Transposed(t)
    <3>1. Transposed(t) \in 0 .. 15
      BY CellIs
    <3>2. u \in 1 .. 240
      BY <3>1
    <3> HIDE DEF u
    <3>3. expand[u] \in Bytes /\ m[t] \in Bytes
      BY <1>0, <3>2 DEF Blocks
    <3>4. variableXor(m[t], expand[u]) \in Bytes
      BY <3>3, XorIs
    <3> QED
      BY <3>4 DEF u
  <2> QED
    BY <2>1 DEF addRoundKey, Blocks
<1>4. \A r, c \in 0 .. 3 : A[r][c] = FIPS!Plus(Poly(m[Cell(r, c)]), Poly(k(r, c)))
  <2> SUFFICES ASSUME NEW r \in 0 .. 3, NEW c \in 0 .. 3
               PROVE  A[r][c] = FIPS!Plus(Poly(m[Cell(r, c)]), Poly(k(r, c)))
    OBVIOUS
  <2>1. 4 * n + c + 1 \in 1 .. 60 /\ r + 1 \in 1 .. 4
        /\ 4 * (4 * n + c + 1 - 1) + (r + 1) = 1 + 16 * n + 4 * c + r
    OBVIOUS
  <2>2. Len(expand) \div 4 = 60
    OBVIOUS
  <2>3. Words(expand)[4 * n + c + 1] = [t \in 1 .. 4 |-> Poly(expand[4 * (4 * n + c + 1 - 1) + t])]
    <3> DEFINE word(u) == [t \in 1 .. 4 |-> Poly(expand[4 * (u - 1) + t])]
    <3>1. Words(expand) = [u \in 1 .. 60 |-> word(u)]
      BY <2>2 DEF Words
    <3> HIDE DEF word
    <3>2. Words(expand)[4 * n + c + 1] = word(4 * n + c + 1)
      BY <2>1, <3>1
    <3> QED
      BY <3>2 DEF word
  <2>4. Words(expand)[4 * n + c + 1][r + 1] = Poly(k(r, c))
    BY <2>1, <2>3
  <2>5. A[r][c] = FIPS!Plus(MatrixOf(m)[r][c], Words(expand)[4 * n + c + 1][r + 1])
    BY DEF FIPS!AddRoundKey, FIPS!Nb
  <2>6. MatrixOf(m)[r][c] = Poly(m[Cell(r, c)])
    BY MatrixAt
  <2> QED
    BY <2>4, <2>5, <2>6
<1>5. A = [r \in 0 .. 3 |-> [c \in 0 .. 3 |-> A[r][c]]]
  BY DEF FIPS!AddRoundKey
<1>6. \A r, c \in 0 .. 3 : MatrixOf(b)[r][c] = A[r][c]
  <2> SUFFICES ASSUME NEW r \in 0 .. 3, NEW c \in 0 .. 3
               PROVE  MatrixOf(b)[r][c] = A[r][c]
    OBVIOUS
  <2> HIDE DEF b, A, k
  <2>1. Cell(r, c) \in 0 .. 15
    BY CellIs
  <2>2. m[Cell(r, c)] \in Bytes /\ k(r, c) \in Bytes
    BY <1>1, <2>1 DEF Blocks
  <2>3. Poly(b[Cell(r, c)]) = FIPS!Plus(Poly(m[Cell(r, c)]), Poly(k(r, c)))
    BY <1>2, <2>2, XorIs
  <2>4. MatrixOf(b)[r][c] = Poly(b[Cell(r, c)])
    BY MatrixAt
  <2> QED
    BY <1>4, <2>3, <2>4
<1> HIDE DEF A, b
<1>7. MatrixOf(b) = A
  BY <1>5, <1>6, MatrixIs, SameMatrix
<1> QED
  BY <1>3, <1>7 DEF A, b

-----------------------------------------------------------------------------
(* The key schedule.                                                       *)

\* RotWord is what expandKey does to t0 .. t3.
LEMMA RotWordIs ==
  ASSUME NEW word, IsSeq(word), Len(word) = 4
  PROVE  FIPS!RotWord(word) = [k \in 1 .. 4 |-> word[(k % 4) + 1]]
<1> DEFINE rest == Tail(word)
           rot == Append(rest, Head(word))
           fun == [k \in 1 .. 4 |-> word[(k % 4) + 1]]
<1>1. word # <<>>
  BY EmptyIs
<1>2. /\ IsSeq(rest) /\ Len(rest) = 3 /\ \A k \in 1 .. 3 : rest[k] = word[k + 1]
      /\ Head(word) = word[1]
  <2>1. /\ IsSeq(rest) /\ Len(rest) = Len(word) - 1
        /\ \A k \in 1 .. Len(word) - 1 : rest[k] = word[k + 1]
        /\ Head(word) = word[1]
    BY <1>1, TailIs
  <2> HIDE DEF rest
  <2> QED
    BY <2>1
<1> HIDE DEF rest
<1>3. /\ IsSeq(rot) /\ Len(rot) = Len(rest) + 1
      /\ \A k \in 1 .. Len(rest) : rot[k] = rest[k]
      /\ rot[Len(rest) + 1] = Head(word)
  BY <1>2, AppendIs
<1> HIDE DEF rot
<1>4. DOMAIN rot = 1 .. 4
  BY <1>2, <1>3, LenIs
<1>5. \A k \in 1 .. 4 : fun[k] = rot[k]
  <2>1. \A k \in 1 .. 3 : rot[k] = word[k + 1] /\ (k % 4) + 1 = k + 1
    BY <1>2, <1>3
  <2>2. rot[4] = word[1] /\ (4 % 4) + 1 = 1
    BY <1>2, <1>3
  <2>3. \A k \in 1 .. 4 : k \in 1 .. 3 \/ k = 4
    OBVIOUS
  <2> QED
    BY <2>1, <2>2, <2>3
<1>6. fun = rot
  <2>1. DOMAIN fun = DOMAIN rot /\ fun = [k \in DOMAIN fun |-> fun[k]]
    BY <1>4
  <2> HIDE DEF fun
  <2> QED
    BY <1>3, <1>4, <1>5, <2>1, SameSeq
<1> QED
  BY <1>6 DEF FIPS!RotWord, rot, rest

\* What the last word t contributes to the next one, when there are n bytes, and what
\* it contributes in the standard when there are m words.
Rotated(t) == [k \in 0 .. 3 |-> subw(t[(k + 1) % 4])]
Used(t, n) ==
  IF n % 32 = 0 THEN [Rotated(t) EXCEPT ![0] = variableXor(@, RCon[n \div 32])]
  ELSE IF n % 32 = 16 THEN [k \in 0 .. 3 |-> subw(t[k])]
  ELSE t
Temp(last, m) ==
  IF m % 8 = 0 THEN FIPS!PlusWord(FIPS!SubWord(FIPS!RotWord(last)), FIPS!Rcon(m \div 8))
  ELSE IF m % 8 = 4 THEN FIPS!SubWord(last)
  ELSE last

\* The polynomials of a word.
Polys(t) == [k \in 1 .. 4 |-> Poly(t[k - 1])]

LEMMA UsedIs ==
  ASSUME NEW m \in 8 .. 59, NEW t \in [0 .. 3 -> Bytes]
  PROVE  Used(t, 4 * m) \in [0 .. 3 -> Bytes] /\ Temp(Polys(t), m) = Polys(Used(t, 4 * m))
<1>1. /\ ((4 * m) % 32 = 0) <=> (m % 8 = 0)
      /\ ((4 * m) % 32 = 16) <=> (m % 8 = 4)
      /\ (4 * m) \div 32 = m \div 8 /\ m \div 8 \in 1 .. 7
  OBVIOUS
<1>2. \A k \in 0 .. 3 : t[k] \in Bytes /\ subw(t[k]) \in Bytes /\ Poly(subw(t[k])) = FIPS!SBox[Poly(t[k])]
  BY SubIs
<1>3. IsSeq(Polys(t)) /\ Len(Polys(t)) = 4 /\ DOMAIN Polys(t) = 1 .. 4
  <2>1. Polys(t) = [k \in 1 .. 4 |-> Polys(t)[k]] /\ DOMAIN Polys(t) = 1 .. 4
    BY DEF Polys
  <2> QED
    BY <2>1, FunIs
<1>4. CASE m % 8 = 0
  <2> DEFINE q == m \div 8
             rot == FIPS!RotWord(Polys(t))
             sub == FIPS!SubWord(rot)
             first == variableXor(Rotated(t)[0], RCon[q])
             used == Used(t, 4 * m)
  <2>1. rot = [k \in 1 .. 4 |-> Polys(t)[(k % 4) + 1]]
    BY <1>3, RotWordIs
  <2>2. \A k \in 1 .. 4 : rot[k] = Poly(t[k % 4])
    <3>1. \A k \in 1 .. 4 : (k % 4) + 1 \in 1 .. 4 /\ ((k % 4) + 1) - 1 = k % 4
      OBVIOUS
    <3> QED
      BY <2>1, <3>1 DEF Polys
  <2>3. sub = [k \in 1 .. 4 |-> FIPS!SBox[rot[k]]]
    BY <2>1 DEF FIPS!SubWord
  <2> HIDE DEF rot
  <2>4. /\ \A k \in 0 .. 3 : Rotated(t)[k] = subw(t[(k + 1) % 4]) /\ Rotated(t)[k] \in Bytes
        /\ DOMAIN Rotated(t) = 0 .. 3
    <3>1. \A k \in 0 .. 3 : (k + 1) % 4 \in 0 .. 3
      OBVIOUS
    <3> QED
      BY <1>2, <3>1 DEF Rotated
  <2>5. \A k \in 1 .. 4 : sub[k] = Poly(Rotated(t)[k - 1])
    <3>1. \A k \in 1 .. 4 : k % 4 \in 0 .. 3 /\ k - 1 \in 0 .. 3 /\ ((k - 1) + 1) % 4 = k % 4
      OBVIOUS
    <3> QED
      BY <1>2, <2>2, <2>3, <2>4, <3>1
  <2>6. used = [Rotated(t) EXCEPT ![0] = first]
    BY <1>1, <1>4 DEF Used
  <2>7. first \in Bytes /\ Poly(first) = FIPS!Plus(Poly(Rotated(t)[0]), {q - 1})
    <3>1. RCon[q] \in Bytes /\ Poly(RCon[q]) = {q - 1}
      BY <1>1, RConIs
    <3>2. Rotated(t)[0] \in Bytes
      BY <2>4
    <3> QED
      BY <3>1, <3>2, XorIs
  <2> HIDE DEF first
  <2>8. used \in [0 .. 3 -> Bytes] /\ used[0] = first
        /\ \A k \in 1 .. 3 : used[k] = Rotated(t)[k]
    <3>1. Rotated(t) = [k \in 0 .. 3 |-> Rotated(t)[k]]
      BY DEF Rotated
    <3> QED
      BY <2>4, <2>6, <2>7, <3>1
  <2>9. Temp(Polys(t), m) = FIPS!PlusWord(sub, FIPS!Rcon(q))
    BY <1>4 DEF Temp, rot
  <2>10. FIPS!PlusWord(sub, FIPS!Rcon(q)) = [k \in 1 .. 4 |-> FIPS!Plus(sub[k], <<{q - 1}, {}, {}, {}>>[k])]
    BY <2>3 DEF FIPS!PlusWord, FIPS!Rcon
  <2> HIDE DEF sub, used
  <2>11. \A k \in 1 .. 4 : FIPS!Plus(sub[k], <<{q - 1}, {}, {}, {}>>[k]) = Poly(used[k - 1])
    <3>1. FIPS!Plus(sub[1], {q - 1}) = Poly(used[0])
      BY <2>5, <2>7, <2>8
    <3>2. \A k \in 2 .. 4 : sub[k] = Poly(used[k - 1])
      BY <2>5, <2>8
    <3>3. \A S \in SUBSET Nat : FIPS!Plus(S, {}) = S
      BY DEF FIPS!Plus
    <3>4. \A k \in 2 .. 4 : sub[k] \in SUBSET Nat
      BY <3>2 DEF Poly
    <3>5. \A k \in 2 .. 4 : FIPS!Plus(sub[k], {}) = Poly(used[k - 1])
      BY <3>2, <3>3, <3>4
    <3> QED
      BY <3>1, <3>5
  <2>12. Temp(Polys(t), m) = Polys(used)
    BY <2>9, <2>10, <2>11 DEF Polys
  <2> QED
    BY <2>8, <2>12 DEF used
<1>5. CASE m % 8 = 4
  <2> DEFINE used == [k \in 0 .. 3 |-> subw(t[k])]
  <2>1. Used(t, 4 * m) = used /\ Temp(Polys(t), m) = FIPS!SubWord(Polys(t))
    BY <1>1, <1>5 DEF Used, Temp
  <2>2. FIPS!SubWord(Polys(t)) = [k \in 1 .. 4 |-> FIPS!SBox[Polys(t)[k]]]
    BY <1>3 DEF FIPS!SubWord
  <2>3. \A k \in 1 .. 4 : FIPS!SBox[Polys(t)[k]] = Poly(used[k - 1])
    BY <1>2 DEF Polys
  <2>4. used \in [0 .. 3 -> Bytes]
    BY <1>2
  <2> HIDE DEF used
  <2> QED
    BY <2>1, <2>2, <2>3, <2>4 DEF Polys
<1>6. CASE m % 8 # 0 /\ m % 8 # 4
  BY <1>1, <1>6 DEF Used, Temp
<1> QED
  BY <1>4, <1>5, <1>6

\* The first eight words are the key.
LEMMA CopyWordIs ==
  ASSUME TypeOK, CopyWord
  PROVE  expand' \in Seq(Bytes) /\ (\E m \in 0 .. 60 : Len(expand') = 4 * m) /\ FIPS!KeyExpansion
<1>1. PICK m \in 0 .. 60 : Len(expand) = 4 * m
  BY DEF TypeOK
<1>2. m \in 0 .. 7
  BY <1>1 DEF CopyWord
<1>3. in.key \in [0 .. 31 -> Bytes]
  BY AES256Assumption DEF TypeOK
<1> DEFINE t == [k \in 1 .. 4 |-> in.key[4 * m + k - 1]]
           key == [n \in 1 .. 32 |-> Poly(in.key[n - 1])]
           word == [k \in 1 .. 4 |-> Poly(t[k])]
<1>4. t \in [1 .. 4 -> Bytes]
  BY <1>2, <1>3
<1>5. expand' = expand \o t
  BY <1>1 DEF CopyWord
<1>6. SubSeq(key, 4 * m + 1, 4 * m + 4) = word
  <2>1. IsSeq(key) /\ Len(key) = 32
    BY FunIs
  <2> DEFINE sub == SubSeq(key, 4 * m + 1, 4 * m + 4)
  <2>2. key \in Seq(Elems(key)) /\ 4 * m + 1 \in 1 .. 32 + 1 /\ 4 * m + 4 \in 4 * m .. 32
    BY <1>2, <2>1 DEF IsSeq
  <2> HIDE DEF key
  <2>3. sub \in Seq(Elems(key)) /\ Len(sub) = 4 /\ \A k \in 1 .. 4 : sub[k] = key[4 * m + k]
    <3> DEFINE a == 4 * m + 1
               b == 4 * m + 4
    <3>1. a \in 1 .. Len(key) + 1 /\ b \in a - 1 .. Len(key) /\ b - a + 1 = 4
      BY <1>2, <2>1
    <3>2. \A k \in 1 .. 4 : a + k - 1 = 4 * m + k
      BY <1>2
    <3> HIDE DEF a, b
    <3>3. /\ SubSeq(key, a, b) \in Seq(Elems(key)) /\ Len(SubSeq(key, a, b)) = b - a + 1
          /\ \A k \in 1 .. b - a + 1 : SubSeq(key, a, b)[k] = key[a + k - 1]
      BY <2>2, <3>1, SubSeqProperties
    <3>4. sub = SubSeq(key, a, b)
      BY DEF a, b
    <3> HIDE DEF sub
    <3> QED
      BY <3>1, <3>2, <3>3, <3>4
  <2> HIDE DEF sub
  <2>4. \A k \in 1 .. 4 : key[4 * m + k] = word[k]
    BY <1>2 DEF key
  <2>5. IsSeq(sub) /\ DOMAIN sub = 1 .. 4
    BY <2>3, SeqIs
  <2>6. word = sub
    <3>1. DOMAIN word = DOMAIN sub /\ word = [k \in DOMAIN word |-> word[k]]
          /\ \A k \in DOMAIN sub : word[k] = sub[k]
      BY <2>3, <2>4, <2>5
    <3> HIDE DEF word
    <3> QED
      BY <2>5, <3>1, SameSeq
  <2> QED
    BY <2>6 DEF sub
<1> HIDE DEF t, key
<1>7. /\ expand' \in Seq(Bytes) /\ Len(expand') = 4 * (m + 1)
      /\ Len(Words(expand)) = m
      /\ Words(expand') = Append(Words(expand), word)
  <2>1. expand \in Seq(Bytes)
    BY DEF TypeOK
  <2> QED
    <3>1. m \in Nat
      OBVIOUS
    <3>2. expand \o t \in Seq(Bytes) /\ Len(expand \o t) = 4 * (m + 1)
      BY <1>1, <1>4, <2>1, <3>1, WordJoined
    <3>3. Len(Words(expand)) = m
      BY <1>1, <1>4, <2>1, <3>1, WordJoined
    <3>4. Words(expand \o t) = Append(Words(expand), word)
      BY <1>1, <1>4, <2>1, <3>1, WordJoined, Zenon
    <3> HIDE DEF word
    <3> QED
      BY <1>5, <3>2, <3>3, <3>4
<1> HIDE DEF word
<1>8. UNCHANGED <<in, i, state, out>>
  BY DEF CopyWord
<1>9. /\ Len(Words(expand)) < FIPS!Nb * (FIPS!Nr + 1)
      /\ Words(expand') =
           Append(Words(expand), SubSeq(key, 4 * Len(Words(expand)) + 1, 4 * Len(Words(expand)) + 4))
      /\ Len(Words(expand)) < FIPS!Nk
  BY <1>2, <1>6, <1>7 DEF FIPS!Nb, FIPS!Nr, FIPS!Nk
<1>10. FIPS!KeyExpansion
  <2>1. BlockOf(in).key = key
    BY DEF BlockOf, key
  <2> QED
    BY <1>8, <1>9, <2>1 DEF FIPS!KeyExpansion
<1> QED
  BY <1>2, <1>7, <1>10

\* Every later word is the word eight places back plus what the last one contributes.
LEMMA ExpandWordIs ==
  ASSUME TypeOK, ExpandWord
  PROVE  expand' \in Seq(Bytes) /\ (\E m \in 0 .. 60 : Len(expand') = 4 * m) /\ FIPS!KeyExpansion
<1>1. PICK m \in 0 .. 60 : Len(expand) = 4 * m
  BY DEF TypeOK
<1>2. m \in 8 .. 59
  BY <1>1 DEF ExpandWord
<1>3. expand \in Seq(Bytes)
  BY DEF TypeOK
<1>4. \A n \in 1 .. 4 * m : expand[n] \in Bytes
  <2>1. DOMAIN expand = 1 .. Len(expand) /\ \A n \in DOMAIN expand : expand[n] \in Bytes
    BY <1>3, SeqIs
  <2> QED
    BY <1>1, <2>1
<1> DEFINE t == [k \in 0 .. 3 |-> At(4 * m - 4 + k)]
           old == [k \in 0 .. 3 |-> At(4 * m - 32 + k)]
           used == Used(t, 4 * m)
           sum == [k \in 1 .. 4 |-> variableXor(old[k - 1], used[k - 1])]
           word == [k \in 1 .. 4 |-> Poly(sum[k])]
           temp == Temp(Polys(t), m)
<1>5. t \in [0 .. 3 -> Bytes] /\ old \in [0 .. 3 -> Bytes]
  <2>1. \A k \in 0 .. 3 : /\ (4 * m - 4 + k) + 1 \in 1 .. 4 * m
                          /\ (4 * m - 32 + k) + 1 \in 1 .. 4 * m
    BY <1>2
  <2>2. \A k \in 0 .. 3 : At(4 * m - 4 + k) \in Bytes /\ At(4 * m - 32 + k) \in Bytes
    BY <1>4, <2>1 DEF At
  <2> QED
    BY <2>2
<1>6. expand' = expand \o sum /\ UNCHANGED <<in, i, state, out>>
  <2>1. expand' = expand \o [k \in 1 .. 4 |-> variableXor(At(4 * m - 32 + k - 1), used[k - 1])]
    BY <1>1 DEF ExpandWord, Used, Rotated
  <2>2. \A k \in 1 .. 4 : old[k - 1] = At(4 * m - 32 + k - 1)
    <3>1. \A k \in 1 .. 4 : k - 1 \in 0 .. 3 /\ 4 * m - 32 + (k - 1) = 4 * m - 32 + k - 1
      OBVIOUS
    <3> QED
      BY <3>1
  <2>3. sum = [k \in 1 .. 4 |-> variableXor(At(4 * m - 32 + k - 1), used[k - 1])]
    <3> HIDE DEF old, used
    <3> QED
      BY <2>2
  <2> QED
    BY <2>1, <2>3 DEF ExpandWord
<1>7. Words(expand)[m] = Polys(t) /\ Words(expand)[m + 1 - 8] = Polys(old)
  <2> DEFINE w(n) == [k \in 1 .. 4 |-> Poly(expand[4 * (n - 1) + k])]
  <2>1. Words(expand) = [n \in 1 .. m |-> w(n)]
    <3>1. (4 * m) \div 4 = m
      OBVIOUS
    <3> QED
      BY <1>1, <3>1 DEF Words
  <2>2. w(m) = Polys(t)
    <3>1. \A k \in 1 .. 4 : t[k - 1] = expand[4 * (m - 1) + k]
      <4>1. \A k \in 1 .. 4 : k - 1 \in 0 .. 3 /\ (4 * m - 4 + (k - 1)) + 1 = 4 * (m - 1) + k
        OBVIOUS
      <4> QED
        BY <4>1 DEF At
    <3> HIDE DEF t
    <3> QED
      BY <3>1 DEF Polys
  <2>3. w(m + 1 - 8) = Polys(old)
    <3>1. \A k \in 1 .. 4 : old[k - 1] = expand[4 * (m + 1 - 8 - 1) + k]
      <4>1. \A k \in 1 .. 4 : /\ k - 1 \in 0 .. 3
                              /\ (4 * m - 32 + (k - 1)) + 1 = 4 * (m + 1 - 8 - 1) + k
        OBVIOUS
      <4> QED
        BY <4>1 DEF At
    <3> HIDE DEF old
    <3> QED
      BY <3>1 DEF Polys
  <2> HIDE DEF w, t, old
  <2>4. m \in 1 .. m /\ m + 1 - 8 \in 1 .. m
    BY <1>2
  <2> QED
    BY <2>1, <2>2, <2>3, <2>4
<1> HIDE DEF t, old
<1>8. used \in [0 .. 3 -> Bytes] /\ temp = Polys(used)
  BY <1>2, <1>5, UsedIs
<1> HIDE DEF used, temp
<1>9. /\ \A k \in 1 .. 4 : sum[k] \in Bytes
                         /\ Poly(sum[k]) = FIPS!Plus(Polys(old)[k], Polys(used)[k])
      /\ sum \in [1 .. 4 -> Bytes]
  <2>1. \A k \in 1 .. 4 : old[k - 1] \in Bytes /\ used[k - 1] \in Bytes
    BY <1>5, <1>8
  <2>2. \A k \in 1 .. 4 : /\ variableXor(old[k - 1], used[k - 1]) \in Bytes
                          /\ Poly(variableXor(old[k - 1], used[k - 1])) =
                               FIPS!Plus(Poly(old[k - 1]), Poly(used[k - 1]))
    BY <2>1, XorIs
  <2> QED
    BY <2>2 DEF Polys
<1>10. word = FIPS!PlusWord(Polys(old), Polys(used))
  <2>1. FIPS!PlusWord(Polys(old), Polys(used)) = [k \in 1 .. 4 |-> FIPS!Plus(Polys(old)[k], Polys(used)[k])]
    BY DEF FIPS!PlusWord, Polys
  <2> HIDE DEF sum
  <2> QED
    BY <1>9, <2>1
<1> HIDE DEF sum
<1>11. /\ expand' \in Seq(Bytes) /\ Len(expand') = 4 * (m + 1)
       /\ Len(Words(expand)) = m
       /\ Words(expand') = Append(Words(expand), word)
  <2>1. m \in Nat
    OBVIOUS
  <2>2. expand \o sum \in Seq(Bytes) /\ Len(expand \o sum) = 4 * (m + 1)
    BY <1>1, <1>3, <1>9, <2>1, WordJoined
  <2>3. Len(Words(expand)) = m
    BY <1>1, <1>3, <1>9, <2>1, WordJoined
  <2>4. Words(expand \o sum) = Append(Words(expand), word)
    BY <1>1, <1>3, <1>9, <2>1, WordJoined, Zenon
  <2> HIDE DEF word
  <2> QED
    BY <1>6, <2>2, <2>3, <2>4
<1> HIDE DEF word
<1>12. FIPS!KeyExpansion
  <2> DEFINE n == Len(Words(expand))
             last == Words(expand)[n]
             step == IF n % FIPS!Nk = 0
                       THEN FIPS!PlusWord(FIPS!SubWord(FIPS!RotWord(last)), FIPS!Rcon(n \div FIPS!Nk))
                     ELSE IF n % FIPS!Nk = 4 THEN FIPS!SubWord(last)
                     ELSE last
  <2>1. step = temp
    BY <1>7, <1>11 DEF temp, Temp, FIPS!Nk
  <2> HIDE DEF step
  <2>2. /\ n < FIPS!Nb * (FIPS!Nr + 1) /\ ~ (n < FIPS!Nk)
        /\ Words(expand') = Append(Words(expand), FIPS!PlusWord(Words(expand)[n + 1 - FIPS!Nk], step))
    BY <1>2, <1>7, <1>8, <1>10, <1>11, <2>1 DEF FIPS!Nb, FIPS!Nr, FIPS!Nk
  <2> QED
    BY <1>6, <2>2 DEF FIPS!KeyExpansion, step
<1> QED
  BY <1>2, <1>11, <1>12

-----------------------------------------------------------------------------
(* The theorems.                                                           *)

\* The empty state is no block, and a complete key schedule is a function.
LEMMA BlocksAre ==
  /\ \A m \in Blocks : m # Nothing
  /\ TypeOK /\ Len(expand) = 240 => expand \in [1 .. 240 -> Bytes]
<1>1. ASSUME NEW m \in Blocks, m = Nothing PROVE FALSE
  <2>1. DOMAIN m = {}
    BY <1>1, EmptyIs DEF Nothing
  <2>2. 0 \in DOMAIN m
    BY DEF Blocks
  <2> QED
    BY <2>1, <2>2
<1>2. ASSUME expand \in Seq(Bytes), Len(expand) = 240 PROVE expand \in [1 .. 240 -> Bytes]
  BY <1>2, LenProperties
<1> QED
  BY <1>1, <1>2 DEF TypeOK

\* Each step between the key schedule and the end, on bytes and on matrices.
LEMMA LoadStateIs ==
  ASSUME TypeOK, LoadState
  PROVE  state' \in Blocks /\ FIPS!Begin
<1> DEFINE m == [n \in 0 .. 15 |-> in.pt[Transposed(n)]]
           A == [r \in 0 .. 3 |-> [c \in 0 .. 3 |-> BlockOf(in).in[r + 4 * c + 1]]]
<1>1. in.pt \in [0 .. 15 -> Bytes]
  BY AES256Assumption DEF TypeOK
<1>2. m \in Blocks
  BY <1>1, CellIs DEF Blocks
<1>3. MatrixOf(m) = A
  <2>1. ASSUME NEW r \in 0 .. 3, NEW c \in 0 .. 3 PROVE MatrixOf(m)[r][c] = A[r][c]
    <3>1. Cell(r, c) \in 0 .. 15 /\ Transposed(Cell(r, c)) = 4 * c + r
      BY CellIs
    <3>2. m[Cell(r, c)] = in.pt[4 * c + r]
      BY <3>1
    <3> HIDE DEF m
    <3>3. MatrixOf(m)[r][c] = Poly(in.pt[4 * c + r])
      BY <3>2, MatrixAt
    <3>4. r + 4 * c + 1 \in 1 .. 16 /\ (r + 4 * c + 1) - 1 = 4 * c + r
      OBVIOUS
    <3>5. BlockOf(in).in[r + 4 * c + 1] = Poly(in.pt[4 * c + r])
      BY <3>4 DEF BlockOf
    <3> QED
      BY <3>3, <3>5
  <2>2. A = [r \in 0 .. 3 |-> [c \in 0 .. 3 |-> A[r][c]]]
    OBVIOUS
  <2>3. MatrixOf(m) = [r \in 0 .. 3 |-> [c \in 0 .. 3 |-> MatrixOf(m)[r][c]]]
    BY MatrixIs
  <2> HIDE DEF m, A
  <2> QED
    BY <2>1, <2>2, <2>3, SameMatrix
<1> HIDE DEF m, A
<1>4. /\ Len(expand) = 240 /\ i = 0 /\ i' = 1 /\ UNCHANGED <<in, expand, out>>
      /\ state' = addRoundKey(m, expand, 16 * 0)
  BY DEF LoadState, m
<1>5. expand \in [1 .. 240 -> Bytes]
  BY <1>4, BlocksAre
<1>6. state' \in Blocks /\ MatrixOf(state') = FIPS!AddRoundKey(A, 0)
  BY <1>2, <1>3, <1>4, <1>5, AddRoundKeyIs
<1>7. Len(Words(expand)) = FIPS!Nb * (FIPS!Nr + 1)
  <2> DEFINE w(n) == [k \in 1 .. 4 |-> Poly(expand[4 * (n - 1) + k])]
  <2>1. Words(expand) = [n \in 1 .. 60 |-> w(n)]
    BY <1>4 DEF Words
  <2> HIDE DEF w
  <2>2. Len(Words(expand)) = 60
    BY <2>1, FunIs
  <2> QED
    BY <2>2 DEF FIPS!Nb, FIPS!Nr
<1>8. state' # Nothing
  BY <1>6, BlocksAre
<1> QED
  BY <1>4, <1>6, <1>7, <1>8 DEF FIPS!Begin, FIPS!Ready, A

LEMMA RoundIs ==
  ASSUME TypeOK, Round
  PROVE  state' \in Blocks /\ FIPS!Middle
<1>1. /\ i \in 1 .. 13 /\ i' = i + 1 /\ UNCHANGED <<in, expand, out>>
      /\ state' = addRoundKey(mixColumns(shiftRows(subBytes(state))), expand, 16 * i)
  <2>1. i \in 1 .. 13 => i * 4 * 4 = 16 * i
    OBVIOUS
  <2> QED
    BY <2>1 DEF Round
<1>2. state \in Blocks /\ Len(expand) = 240
  BY <1>1 DEF TypeOK, Blocks
<1>3. expand \in [1 .. 240 -> Bytes]
  BY <1>2, BlocksAre
<1> DEFINE a == subBytes(state)
           b == shiftRows(a)
           c == mixColumns(b)
<1>4. a \in Blocks /\ MatrixOf(a) = FIPS!SubBytes(MatrixOf(state))
  BY <1>2, SubBytesIs
<1> HIDE DEF a
<1>5. b \in Blocks /\ MatrixOf(b) = FIPS!ShiftRows(MatrixOf(a))
  BY <1>4, ShiftRowsIs
<1> HIDE DEF b
<1>6. c \in Blocks /\ MatrixOf(c) = FIPS!MixColumns(MatrixOf(b))
  BY <1>5, MixColumnsIs
<1>7. state' = addRoundKey(c, expand, 16 * i)
  BY <1>1 DEF a, b
<1> HIDE DEF c
<1>8. state' \in Blocks /\ MatrixOf(state') = FIPS!AddRoundKey(MatrixOf(c), i)
  <2>1. i \in 0 .. 14
    BY <1>1
  <2> QED
    BY <1>2, <1>3, <1>6, <1>7, <2>1, AddRoundKeyIs
<1>9. state # Nothing /\ state' # Nothing
  BY <1>2, <1>8, BlocksAre
<1> QED
  BY <1>1, <1>4, <1>5, <1>6, <1>8, <1>9 DEF FIPS!Middle, FIPS!Nr

LEMMA FinalRoundIs ==
  ASSUME TypeOK, FinalRound
  PROVE  state' \in Blocks /\ out' \in Blocks /\ FIPS!Finish
<1>1. /\ i = 14 /\ i' = 15 /\ UNCHANGED <<in, expand>>
      /\ state' = addRoundKey(shiftRows(subBytes(state)), expand, 16 * 14)
      /\ out' = [n \in 0 .. 15 |-> state'[Transposed(n)]]
  BY DEF FinalRound
<1>2. state \in Blocks /\ Len(expand) = 240
  BY <1>1 DEF TypeOK, Blocks
<1>3. expand \in [1 .. 240 -> Bytes]
  BY <1>2, BlocksAre
<1> DEFINE a == subBytes(state)
           b == shiftRows(a)
<1>4. a \in Blocks /\ MatrixOf(a) = FIPS!SubBytes(MatrixOf(state))
  BY <1>2, SubBytesIs
<1> HIDE DEF a
<1>5. b \in Blocks /\ MatrixOf(b) = FIPS!ShiftRows(MatrixOf(a))
  BY <1>4, ShiftRowsIs
<1>6. state' = addRoundKey(b, expand, 16 * 14)
  BY <1>1 DEF a
<1> HIDE DEF b
<1>7. state' \in Blocks /\ MatrixOf(state') = FIPS!AddRoundKey(MatrixOf(b), 14)
  BY <1>2, <1>3, <1>5, <1>6, AddRoundKeyIs
<1>8. out' \in Blocks
  BY <1>1, <1>7, CellIs DEF Blocks
<1>9. state # Nothing /\ state' # Nothing /\ out' # Nothing
  BY <1>2, <1>7, <1>8, BlocksAre
<1>10. ResultOf(out') = [n \in 1 .. 16 |-> MatrixOf(state')[(n - 1) % 4][(n - 1) \div 4]]
  <2>1. ASSUME NEW n \in 1 .. 16
        PROVE  Poly(out'[n - 1]) = MatrixOf(state')[(n - 1) % 4][(n - 1) \div 4]
    <3> DEFINE r == (n - 1) % 4
               c == (n - 1) \div 4
    <3>1. r \in 0 .. 3 /\ c \in 0 .. 3 /\ Transposed(n - 1) = Cell(r, c) /\ n - 1 \in 0 .. 15
      BY DEF Transposed, Cell, Row, Column
    <3> HIDE DEF r, c
    <3>2. MatrixOf(state')[r][c] = Poly(state'[Cell(r, c)])
      BY <3>1, MatrixAt
    <3>3. out'[n - 1] = state'[Cell(r, c)]
      BY <1>1, <3>1
    <3> QED
      BY <3>2, <3>3 DEF r, c
  <2> QED
    BY <2>1 DEF ResultOf
<1> QED
  BY <1>1, <1>4, <1>5, <1>7, <1>8, <1>9, <1>10 DEF FIPS!Finish, FIPS!Nr, FIPS!Nb

\* What a step keeps, and what it is in the standard.
LEMMA StepIs ==
  ASSUME TypeOK, [Next]_vars
  PROVE  TypeOK' /\ [FIPS!Next]_(FIPS!vars)
<1> USE DEF FIPS!Next
<1>1. CASE CopyWord
  <2>1. i = 0 /\ UNCHANGED <<in, i, state, out>>
    BY <1>1 DEF CopyWord, TypeOK
  <2>2. expand' \in Seq(Bytes) /\ (\E m \in 0 .. 60 : Len(expand') = 4 * m) /\ FIPS!KeyExpansion
    BY <1>1, CopyWordIs
  <2> QED
    BY <2>1, <2>2 DEF TypeOK
<1>2. CASE ExpandWord
  <2>1. i = 0 /\ UNCHANGED <<in, i, state, out>>
    BY <1>2 DEF ExpandWord, TypeOK
  <2>2. expand' \in Seq(Bytes) /\ (\E m \in 0 .. 60 : Len(expand') = 4 * m) /\ FIPS!KeyExpansion
    BY <1>2, ExpandWordIs
  <2> QED
    BY <2>1, <2>2 DEF TypeOK
<1>3. ASSUME UNCHANGED expand
      PROVE  expand' \in Seq(Bytes) /\ \E m \in 0 .. 60 : Len(expand') = 4 * m
  BY <1>3 DEF TypeOK
<1>4. CASE LoadState
  <2>1. Len(expand) = 240 /\ i = 0 /\ i' = 1 /\ UNCHANGED <<in, expand, out>>
    BY <1>4 DEF LoadState
  <2>2. state' \in Blocks /\ FIPS!Begin
    BY <1>4, LoadStateIs
  <2>3. expand' \in Seq(Bytes) /\ \E m \in 0 .. 60 : Len(expand') = 4 * m
    BY <1>3, <2>1
  <2>4. i # 0 => Len(expand) = 240
    BY DEF TypeOK
  <2>5. in' \in Inputs
    BY <2>1 DEF TypeOK
  <2>6. Len(expand') = 240
    BY <2>1, <2>4
  <2>7. i' \in 0 .. 15 /\ i' # 0
    BY <2>1
  <2>8. out' \in IF i' = 15 THEN Blocks ELSE {Nothing}
    BY <2>1, <2>2 DEF TypeOK
  <2>9. state' \in IF i' = 0 THEN {Nothing} ELSE Blocks
    BY <2>2, <2>7
  <2>10. TypeOK'
    BY <2>3, <2>6, <2>7, <2>8, <2>9, <2>5, Zenon DEF TypeOK, Blocks
  <2> QED
    BY <2>2, <2>10
<1>5. CASE Round
  <2>1. i \in 1 .. 13 /\ i' = i + 1 /\ UNCHANGED <<in, expand, out>>
    BY <1>5 DEF Round
  <2>2. state' \in Blocks /\ FIPS!Middle
    BY <1>5, RoundIs
  <2>3. expand' \in Seq(Bytes) /\ \E m \in 0 .. 60 : Len(expand') = 4 * m
    BY <1>3, <2>1
  <2>4. i # 0 => Len(expand) = 240
    BY DEF TypeOK
  <2>5. in' \in Inputs
    BY <2>1 DEF TypeOK
  <2>6. Len(expand') = 240
    BY <2>1, <2>4
  <2>7. i' \in 0 .. 15 /\ i' # 0
    BY <2>1
  <2>8. out' \in IF i' = 15 THEN Blocks ELSE {Nothing}
    BY <2>1, <2>2 DEF TypeOK
  <2>9. state' \in IF i' = 0 THEN {Nothing} ELSE Blocks
    BY <2>2, <2>7
  <2>10. TypeOK'
    BY <2>3, <2>6, <2>7, <2>8, <2>9, <2>5, Zenon DEF TypeOK, Blocks
  <2> QED
    BY <2>2, <2>10
<1>6. CASE FinalRound
  <2>1. i = 14 /\ i' = 15 /\ UNCHANGED <<in, expand>>
    BY <1>6 DEF FinalRound
  <2>2. state' \in Blocks /\ out' \in Blocks /\ FIPS!Finish
    BY <1>6, FinalRoundIs
  <2>3. expand' \in Seq(Bytes) /\ \E m \in 0 .. 60 : Len(expand') = 4 * m
    BY <1>3, <2>1
  <2>4. i # 0 => Len(expand) = 240
    BY DEF TypeOK
  <2>5. in' \in Inputs
    BY <2>1 DEF TypeOK
  <2>6. Len(expand') = 240
    BY <2>1, <2>4
  <2>7. i' \in 0 .. 15 /\ i' # 0
    BY <2>1
  <2>8. out' \in IF i' = 15 THEN Blocks ELSE {Nothing}
    BY <2>1, <2>2 DEF TypeOK
  <2>9. state' \in IF i' = 0 THEN {Nothing} ELSE Blocks
    BY <2>2, <2>7
  <2>10. TypeOK'
    BY <2>3, <2>6, <2>7, <2>8, <2>9, <2>5, Zenon DEF TypeOK, Blocks
  <2> QED
    BY <2>2, <2>10
<1>7. CASE Terminated \/ UNCHANGED vars
  <2>1. UNCHANGED <<in, expand, i, state, out>>
    BY <1>7 DEF Terminated, vars
  <2>2. TypeOK'
    BY <1>3, <2>1 DEF TypeOK
  <2> QED
    BY <2>1, <2>2 DEF FIPS!vars
<1> QED
  BY <1>1, <1>2, <1>4, <1>5, <1>6, <1>7 DEF Next

\* Nothing is there at first.
LEMMA InitIs == Init => TypeOK /\ FIPS!Init
<1> SUFFICES ASSUME Init PROVE TypeOK /\ FIPS!Init
  OBVIOUS
<1>1. expand \in Seq(Bytes) /\ Len(expand) = 4 * 0
  BY EmptySeq DEF Init
<1>2. TypeOK
  BY <1>1 DEF Init, TypeOK
<1>3. Words(expand) = <<>>
  <2>1. DOMAIN Words(expand) = 1 .. 0
    BY <1>1 DEF Words
  <2>2. IsSeq(Words(expand)) /\ Len(Words(expand)) = 0
    <3>1. Words(expand) = [n \in 1 .. 0 |-> Words(expand)[n]]
      BY <1>1 DEF Words
    <3> QED
      BY <3>1, FunIs
  <2> QED
    BY <2>2, LenIs
<1>4. BlockOf(in) \in {BlockOf(x) : x \in Inputs}
  BY DEF Init
<1> QED
  BY <1>2, <1>3, <1>4 DEF Init, FIPS!Init, Nothing

\* Every api.ToBinary(v, 8) of expandKey and of the rounds of Encrypt is given a
\* number below 256, so that the circuit has a solution for every key and block:
\* a value that is none is Unsatisfiable, and so is all that comes of it.
THEOREM TypeCorrect == Spec => []TypeOK
<1>1. TypeOK /\ [Next]_vars => TypeOK'
  BY StepIs
<1> QED
  BY <1>1, InitIs, PTL DEF Spec

\* The circuit's AES256.Encrypt is the cipher of FIPS 197, for every key and block.
THEOREM Refinement == Spec => ImplementsFIPS197
<1>1. TypeOK /\ [Next]_vars => [FIPS!Next]_(FIPS!vars)
  BY StepIs
<1> QED
  BY <1>1, InitIs, TypeCorrect, PTL DEF Spec, ImplementsFIPS197, FIPS!Spec
=============================================================================
