------------------------------- MODULE AES256 -------------------------------
(***************************************************************************)
(* AES256.Encrypt (src/circuit/aes256.go) as the solver of the circuit     *)
(* computes it: a step per word of expandKey and per round.  A byte is its *)
(* value in the field, a number: api.ToBinary(v, 8) takes it apart where it *)
(* is below 256, and is a constraint nothing satisfies where it is not.    *)
(* The arrays begin at 0 as they do in Go.  state[4 * r + c] is in row r   *)
(* and column c.                                                           *)
(***************************************************************************)
EXTENDS Integers, Sequences

CONSTANT Inputs  \* the arguments of Encrypt: records of a key and a pt

Bytes == 0 .. 255

\* "The constraints have no solution": what the value becomes that was given to
\* ToBinary(v, 8) and is no byte, and whatever is computed from it.
Unsatisfiable == -1

\* The places of the matrix; the bytes of a block and of a round key run down the
\* columns.
Cell(row, column) == 4 * row + column
Row(n) == n \div 4
Column(n) == n % 4
Transposed(n) == Cell(Column(n), Row(n))

ASSUME AES256Assumption ==
  \A in \in Inputs : in.key \in [0 .. 31 -> Bytes] /\ in.pt \in [0 .. 15 -> Bytes]

sbox ==
  << 99, 124, 119, 123, 242, 107, 111, 197, 48, 1, 103, 43, 254, 215, 171, 118,
     202, 130, 201, 125, 250, 89, 71, 240, 173, 212, 162, 175, 156, 164, 114, 192,
     183, 253, 147, 38, 54, 63, 247, 204, 52, 165, 229, 241, 113, 216, 49, 21,
     4, 199, 35, 195, 24, 150, 5, 154, 7, 18, 128, 226, 235, 39, 178, 117,
     9, 131, 44, 26, 27, 110, 90, 160, 82, 59, 214, 179, 41, 227, 47, 132,
     83, 209, 0, 237, 32, 252, 177, 91, 106, 203, 190, 57, 74, 76, 88, 207,
     208, 239, 170, 251, 67, 77, 51, 133, 69, 249, 2, 127, 80, 60, 159, 168,
     81, 163, 64, 143, 146, 157, 56, 245, 188, 182, 218, 33, 16, 255, 243, 210,
     205, 12, 19, 236, 95, 151, 68, 23, 196, 167, 126, 61, 100, 93, 25, 115,
     96, 129, 79, 220, 34, 42, 144, 136, 70, 238, 184, 20, 222, 94, 11, 219,
     224, 50, 58, 10, 73, 6, 36, 92, 194, 211, 172, 98, 145, 149, 228, 121,
     231, 200, 55, 109, 141, 213, 78, 169, 108, 86, 244, 234, 101, 122, 174, 8,
     186, 120, 37, 46, 28, 166, 180, 198, 232, 221, 116, 31, 75, 189, 139, 138,
     112, 62, 181, 102, 72, 3, 246, 14, 97, 53, 87, 185, 134, 193, 29, 158,
     225, 248, 152, 17, 105, 217, 142, 148, 155, 30, 135, 233, 206, 85, 40, 223,
     140, 161, 137, 13, 191, 230, 66, 104, 65, 153, 45, 15, 176, 84, 187, 22 >>

RCon == <<1, 2, 4, 8, 16, 32, 64, 128, 27, 54>>

\* The lookup compares with each of the 256 bytes, and has no range check.
subw(a) ==
  CASE a \in Bytes -> sbox[a + 1]
    [] a = Unsatisfiable -> Unsatisfiable
    [] OTHER -> 0

\* ToBinary: the bits of a byte, the lowest first.
bit(a, k) == (a \div 2 ^ k) % 2

variableXor(a, b) ==
  LET x(k) == (bit(a, k) + bit(b, k)) % 2
  IN IF a \in Bytes /\ b \in Bytes
       THEN x(0) + 2 * x(1) + 4 * x(2) + 8 * x(3) + 16 * x(4) + 32 * x(5) + 64 * x(6) + 128 * x(7)
     ELSE Unsatisfiable

getBit(a) == IF a \in Bytes THEN a \div 128 ELSE Unsatisfiable

\* Faulty: the bit that is shifted out stays.
shiftLeftWide(a) == IF a \in Bytes THEN 2 * a ELSE Unsatisfiable

shiftLeft(a) == IF a \in Bytes THEN (2 * a) % 256 ELSE Unsatisfiable

\* One more shift of galoisMulConst; the choice is a product in the field.
double(a) ==
  LET hiBitSet == getBit(a)
      shifted == shiftLeft(a)
      tmp == variableXor(shifted, 27)
  IN IF Unsatisfiable \in {hiBitSet, shifted, tmp} THEN Unsatisfiable
     ELSE shifted + hiBitSet * (tmp - shifted)

\* a times the constant idx, bit by bit until idx has no more.
galoisMulConst(a, idx) ==
  LET loop[counter \in 0 .. 8] ==
        IF counter = 0 THEN [p |-> 0, a |-> a, idx |-> idx]
        ELSE LET s == loop[counter - 1] IN
             IF s.idx = 0 THEN s
             ELSE [p |-> IF s.idx % 2 = 1 THEN variableXor(s.p, s.a) ELSE s.p,
                   a |-> IF s.idx \div 2 = 0 THEN s.a ELSE double(s.a),
                   idx |-> s.idx \div 2]
  IN loop[8].p

subBytes(state) == [n \in 0 .. 15 |-> subw(state[n])]

\* Faulty: the rows are shifted to the right.
shiftRowsRight(state) ==
  [n \in 0 .. 15 |-> state[Cell(Row(n), (Column(n) + 4 - Row(n)) % 4)]]

shiftRows(state) ==
  [n \in 0 .. 15 |-> state[Cell(Row(n), (Column(n) + Row(n)) % 4)]]

mixColumns(state) ==
  [n \in 0 .. 15 |->
     LET a(k) == state[Cell((Row(n) + k) % 4, Column(n))]
     IN variableXor(variableXor(variableXor(galoisMulConst(a(0), 2), galoisMulConst(a(1), 3)),
                                a(2)), a(3))]

\* addRoundKey and addRoundKey2 are the same.
addRoundKey(state, expandedKey, from) ==
  [n \in 0 .. 15 |-> variableXor(state[n], expandedKey[1 + from + Transposed(n)])]

-----------------------------------------------------------------------------
VARIABLES
  in,     \* the arguments
  expand, \* the part of the expanded key that there is, as a sequence
  i,      \* the round, or 0 before them and 15 after
  state,  \* the state matrix
  out     \* the result

vars == <<in, expand, i, state, out>>

Nothing == <<>>

Init ==
  /\ in \in Inputs
  /\ expand = <<>>
  /\ i = 0
  /\ state = Nothing
  /\ out = Nothing

\* expand[n] of the code
At(n) == expand[n + 1]

CopyWord ==
  LET n == Len(expand) IN
  /\ n < 32
  /\ expand' = expand \o [k \in 1 .. 4 |-> in.key[n + k - 1]]
  /\ UNCHANGED <<in, i, state, out>>

\* Faulty: the schedule of AES-128, that substitutes one word of eight only.
ExpandWordPlain ==
  LET n == Len(expand)
      t == [k \in 0 .. 3 |-> At(n - 4 + k)]
      rotated == [k \in 0 .. 3 |-> subw(t[(k + 1) % 4])]
      used == IF n % 32 = 0
                THEN [rotated EXCEPT ![0] = variableXor(@, RCon[n \div 32])]
              ELSE t
  IN
  /\ n \in 32 .. 239
  /\ expand' = expand \o [k \in 1 .. 4 |-> variableXor(At(n - 32 + k - 1), used[k - 1])]
  /\ UNCHANGED <<in, i, state, out>>

ExpandWord ==
  LET n == Len(expand)
      t == [k \in 0 .. 3 |-> At(n - 4 + k)]
      rotated == [k \in 0 .. 3 |-> subw(t[(k + 1) % 4])]
      used == IF n % 32 = 0
                THEN [rotated EXCEPT ![0] = variableXor(@, RCon[n \div 32])]
              ELSE IF n % 32 = 16 THEN [k \in 0 .. 3 |-> subw(t[k])]
              ELSE t
  IN
  /\ n \in 32 .. 239
  /\ expand' = expand \o [k \in 1 .. 4 |-> variableXor(At(n - 32 + k - 1), used[k - 1])]
  /\ UNCHANGED <<in, i, state, out>>

\* The block goes into the columns.
LoadState ==
  /\ Len(expand) = 240 /\ i = 0
  /\ state' = addRoundKey([n \in 0 .. 15 |-> in.pt[Transposed(n)]], expand, 0)
  /\ i' = 1
  /\ UNCHANGED <<in, expand, out>>

Round ==
  /\ i \in 1 .. 13
  /\ state' = addRoundKey(mixColumns(shiftRows(subBytes(state))), expand, i * 4 * 4)
  /\ i' = i + 1
  /\ UNCHANGED <<in, expand, out>>

FinalRound ==
  /\ i = 14
  /\ state' = addRoundKey(shiftRows(subBytes(state)), expand, 14 * 4 * 4)
  /\ out' = [n \in 0 .. 15 |-> state'[Transposed(n)]]
  /\ i' = 15
  /\ UNCHANGED <<in, expand>>

Terminated == i = 15 /\ UNCHANGED vars

Next == CopyWord \/ ExpandWord \/ LoadState \/ Round \/ FinalRound \/ Terminated

Spec == Init /\ [][Next]_vars

-----------------------------------------------------------------------------
(* Properties.                                                             *)

\* Type invariant: every ToBinary(v, 8) of expandKey and of the rounds has a
\* solution, those inside galoisMulConst included, for Unsatisfiable is no byte and
\* stays what it is; the rounds begin when the key schedule is complete.
TypeOK ==
  /\ in \in Inputs
  /\ expand \in Seq(Bytes) /\ \E m \in 0 .. 60 : Len(expand) = 4 * m
  /\ i \in 0 .. 15 /\ (i # 0 => Len(expand) = 240)
  /\ state \in IF i = 0 THEN {Nothing} ELSE [0 .. 15 -> Bytes]
  /\ out \in IF i = 15 THEN [0 .. 15 -> Bytes] ELSE {Nothing}

\* A byte as the polynomial of its bits.
Poly(b) == {k \in 0 .. 7 : bit(b, k) = 1}

\* The arguments, the bytes of the key schedule by words, the block as a matrix of
\* rows, and the result.
BlockOf(x) == [key |-> [n \in 1 .. 32 |-> Poly(x.key[n - 1])],
               in |-> [n \in 1 .. 16 |-> Poly(x.pt[n - 1])]]
Words(e) == [n \in 1 .. Len(e) \div 4 |-> [k \in 1 .. 4 |-> Poly(e[4 * (n - 1) + k])]]
MatrixOf(m) == [r \in 0 .. 3 |-> [c \in 0 .. 3 |-> Poly(m[Cell(r, c)])]]
ResultOf(o) == [n \in 1 .. 16 |-> Poly(o[n - 1])]

FIPS == INSTANCE FIPS197 WITH
  Blocks <- {BlockOf(x) : x \in Inputs},
  block <- BlockOf(in),
  w <- Words(expand),
  round <- i,
  s <- IF state = Nothing THEN Nothing ELSE MatrixOf(state),
  out <- IF out = Nothing THEN Nothing ELSE ResultOf(out)

\* The table holds the S-box, for each of the 256 bytes: a fact without parameters,
\* that a run evaluates as it stands.
ASSUME SBoxTable ==
  \A a \in Bytes : sbox[a + 1] \in Bytes /\ Poly(sbox[a + 1]) = FIPS!SBox[Poly(a)]

\* Word by word and round by round, the byte arrays of the circuit hold what the
\* standard says: the table is the S-box, and columns, rows and round keys are
\* where they should be.
ImplementsFIPS197 == FIPS!Spec
=============================================================================
