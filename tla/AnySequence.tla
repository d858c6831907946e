---------------------------- MODULE AnySequence ----------------------------
(***************************************************************************)
(* Sequences whose elements have no set of their own: Seq needs one, and   *)
(* the set of what a sequence holds always serves.                         *)
(***************************************************************************)
EXTENDS Naturals, Sequences

Elems(s) == {s[i] : i \in DOMAIN s}
IsSeq(s) == s \in Seq(Elems(s))
=============================================================================
