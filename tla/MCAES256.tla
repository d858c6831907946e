------------------------------ MODULE MCAES256 ------------------------------
(***************************************************************************)
(* Keys and blocks for TLC: the example vector of FIPS 197, appendix C.3,  *)
(* the constant ones, and keys and blocks of an arithmetic progression,    *)
(* whose schedules and states run through the whole table.                 *)
(***************************************************************************)
EXTENDS AES256, FiniteSets

Input(key0, keyStep, pt0, ptStep) ==
  [key |-> [n \in 0 .. 31 |-> (key0 + keyStep * n) % 256],
   pt |-> [n \in 0 .. 15 |-> (pt0 + ptStep * n) % 256]]

Example == Input(0, 1, 0, 17)

MCInputs ==
  {Example, Input(0, 0, 0, 0), Input(255, 0, 255, 0), Input(0, 0, 128, 0),
   Input(99, 7, 1, 0), Input(200, 91, 45, 111)}

ExampleCipher ==
  <<142, 162, 183, 202, 81, 103, 69, 191, 234, 252, 73, 144, 75, 73, 96, 137>>

\* The circuit encrypts the example of the standard to what the standard prints.
KnownAnswer ==
  in = Example /\ i = 15 => \A n \in 1 .. 16 : out[n - 1] = ExampleCipher[n]
=============================================================================
