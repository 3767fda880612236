---------------------------- MODULE Subsequences ----------------------------
(***************************************************************************)
(* What is left of a sequence when only some of its positions are kept, as *)
(* by remove_if: those elements, in their order.  SelectSeq is recursive,  *)
(* which rules it out in the modules that proofs are about.                *)
(***************************************************************************)
EXTENDS Integers, FiniteSets

(* How many of the positions come no later than k. *)
Rank(positions, k) == Cardinality({m \in positions : m <= k})

(* The n-th of the positions from the left. *)
Nth(positions, n) == CHOOSE k \in positions : Rank(positions, k) = n

Chosen(seq, positions) ==
    [n \in 1 .. Cardinality(positions) |-> seq[Nth(positions, n)]]
=============================================================================
