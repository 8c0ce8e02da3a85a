---------------------------- MODULE IntervalSet ----------------------------
(***************************************************************************)
(* What NodeRanges promises (spec.md 4.2): a set of text offsets that only *)
(* grows, by the closed interval [start, end] given to each insertion.      *)
(* The comment filter and the jsl:ignore suppression only ever insert and  *)
(* ask for membership, so this is the whole contract.                      *)
(***************************************************************************)
EXTENDS Integers

CONSTANT MaxOffset          \* offsets passed to an insertion lie in 0..MaxOffset

VARIABLE covered            \* the set of offsets inserted so far

Init == covered = {}

Insert(start, end) == covered' = covered \cup (start .. end)

Next == \E start \in 0 .. MaxOffset, end \in 0 .. MaxOffset :
          /\ start <= end
          /\ Insert(start, end)

Spec == Init /\ [][Next]_covered
=============================================================================
