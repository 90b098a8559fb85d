------------------------------ MODULE Sublists ------------------------------
(***************************************************************************)
(* What a loop over a list passes on when it takes only the elements that  *)
(* meet a test, given by the set I of their positions.                     *)
(***************************************************************************)
EXTENDS Naturals, FiniteSets

(* The k-th smallest of a finite set of numbers. *)
Nth(I, k) == CHOOSE i \in I : Cardinality({x \in I : x <= i}) = k

Kept(s, I) == [k \in 1 .. Cardinality(I) |-> s[Nth(I, k)]]
=============================================================================
