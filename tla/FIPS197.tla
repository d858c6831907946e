------------------------------ MODULE FIPS197 -------------------------------
(***************************************************************************)
(* The cipher of FIPS 197 for keys of 256 bits, from its mathematics: what *)
(* the AES-256 circuit promises.  A byte is a polynomial over GF(2), as    *)
(* the set of the exponents it has; a word is four bytes; the state is a   *)
(* matrix s[r][c].                                                         *)
(***************************************************************************)
EXTENDS Naturals, Sequences, FiniteSets

CONSTANT Blocks  \* records of a key of 32 bytes and an input block of 16

Nb == 4
Nk == 8
Nr == 14

Polynomials == SUBSET (0 .. 7)

Plus(a, b) == (a \ b) \cup (b \ a)

\* x times a, modulo x^8 + x^4 + x^3 + x + 1.
XTimes(a) ==
  Plus({k + 1 : k \in a \ {7}}, IF 7 \in a THEN {0, 1, 3, 4} ELSE {})

\* a times b: by Horner's rule, from the highest exponent of b to the lowest.
Times(a, b) ==
  LET horner[n \in 0 .. 8] ==
        IF n = 0 THEN {}
        ELSE Plus(XTimes(horner[n - 1]), IF 8 - n \in b THEN a ELSE {})
  IN horner[8]

InverseOf(a) ==
  IF a = {} THEN {} ELSE CHOOSE b \in Polynomials : Times(a, b) = {0}

\* The inverse, and the affine transformation of its bits.
SBox ==
  [a \in Polynomials |->
     LET b == InverseOf(a)
         mixed == {k \in 0 .. 7 : Cardinality({d \in {0, 4, 5, 6, 7} : (k + d) % 8 \in b}) % 2 = 1}
     IN Plus(mixed, {0, 1, 5, 6})]

-----------------------------------------------------------------------------
VARIABLES
  block, \* the key and the input
  w,     \* the key schedule so far
  round, \* the next round
  s,     \* the state
  out    \* the output

vars == <<block, w, round, s, out>>

Init ==
  /\ block \in Blocks
  /\ w = <<>>
  /\ round = 0
  /\ s = <<>>
  /\ out = <<>>

RotWord(word) == Append(Tail(word), Head(word))
SubWord(word) == [k \in DOMAIN word |-> SBox[word[k]]]
PlusWord(a, b) == [k \in DOMAIN a |-> Plus(a[k], b[k])]
Rcon(n) == <<{n - 1}, {}, {}, {}>>

KeyExpansion ==
  LET n == Len(w)
      last == w[n]
      temp == IF n % Nk = 0 THEN PlusWord(SubWord(RotWord(last)), Rcon(n \div Nk))
              ELSE IF n % Nk = 4 THEN SubWord(last)
              ELSE last
  IN /\ n < Nb * (Nr + 1)
     /\ w' = Append(w, IF n < Nk THEN SubSeq(block.key, 4 * n + 1, 4 * n + 4)
                       ELSE PlusWord(w[n + 1 - Nk], temp))
     /\ UNCHANGED <<block, round, s, out>>

SubBytes(m) == [r \in 0 .. 3 |-> [c \in 0 .. 3 |-> SBox[m[r][c]]]]
ShiftRows(m) == [r \in 0 .. 3 |-> [c \in 0 .. 3 |-> m[r][(c + r) % Nb]]]

\* Each column times {03}y^3 + {01}y^2 + {01}y + {02}, modulo y^4 + 1.
MixColumns(m) ==
  LET term(k, r, c) == Times(m[(r + k) % 4][c], <<{1}, {0, 1}, {0}, {0}>>[k + 1])
  IN [r \in 0 .. 3 |-> [c \in 0 .. 3 |->
        Plus(Plus(term(0, r, c), term(1, r, c)), Plus(term(2, r, c), term(3, r, c)))]]

AddRoundKey(m, n) ==
  [r \in 0 .. 3 |-> [c \in 0 .. 3 |-> Plus(m[r][c], w[Nb * n + c + 1][r + 1])]]

Ready == Len(w) = Nb * (Nr + 1)

Begin ==
  /\ Ready /\ round = 0
  /\ s' = AddRoundKey([r \in 0 .. 3 |-> [c \in 0 .. 3 |-> block.in[r + 4 * c + 1]]], 0)
  /\ round' = 1
  /\ UNCHANGED <<block, w, out>>

Middle ==
  /\ round \in 1 .. Nr - 1
  /\ s' = AddRoundKey(MixColumns(ShiftRows(SubBytes(s))), round)
  /\ round' = round + 1
  /\ UNCHANGED <<block, w, out>>

Finish ==
  /\ round = Nr
  /\ s' = AddRoundKey(ShiftRows(SubBytes(s)), Nr)
  /\ out' = [n \in 1 .. 4 * Nb |-> s'[(n - 1) % 4][(n - 1) \div 4]]
  /\ round' = Nr + 1
  /\ UNCHANGED <<block, w>>

Next == KeyExpansion \/ Begin \/ Middle \/ Finish

Spec == Init /\ [][Next]_vars
=============================================================================
