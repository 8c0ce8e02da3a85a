----------------------------- MODULE NodeRanges -----------------------------
(***************************************************************************)
(* jsparse.py, class NodeRanges: the interval set used by filtercomments   *)
(* to drop comment-like text inside string and regexp literals, and to     *)
(* drop candidate comments that start inside an accepted comment.          *)
(*                                                                         *)
(* State: _offsets, a flat list of boundaries [s1, e1, s2, e2, ...] where  *)
(* each pair is a half-open interval [s, e).  add(start, end) inserts the  *)
(* closed interval [start, end]; has(pos) is a single bisect.              *)
(***************************************************************************)
EXTENDS Integers, Sequences, Bisect

CONSTANT MaxOffset          \* the largest offset passed to add

ASSUME MaxOffset \in Nat

VARIABLE offsets            \* NodeRanges._offsets

vars == <<offsets>>

\* The offsets a boundary list denotes: the union of its [s, e) pairs.
Covered(offs) ==
    UNION { offs[2 * k - 1] .. (offs[2 * k] - 1) : k \in 1 .. (Len(offs) \div 2) }

(***************************************************************************)
(* Plausible faults in add/has, used as mutants of the definitions below.  *)
(***************************************************************************)
\* has() written with bisect_left: a point equal to an interval start is
\* reported outside.
has_bisect_left(offs, pos) == bisect_left(offs, pos) % 2 = 1

\* add() that forgets "j += 1" after absorbing the interval the end falls in.
add_keep_j(offs, start, end) ==
    LET i0 == bisect_left(offs, start)
        i  == IF i0 % 2 = 1 THEN i0 - 1 ELSE i0
        s  == IF i0 % 2 = 1 THEN offs[i0] ELSE start
        j0 == bisect_left(offs, end + 1)
        e  == IF j0 % 2 = 1 THEN offs[j0 + 1] ELSE end + 1
    IN  SubSeq(offs, 1, i) \o <<s, e>> \o SubSeq(offs, j0 + 1, Len(offs))

\* add() that steps i back to the interval start falls in but keeps the
\* caller's start, cutting off the front of that interval.
add_keep_start(offs, start, end) ==
    LET i0 == bisect_left(offs, start)
        i  == IF i0 % 2 = 1 THEN i0 - 1 ELSE i0
        j0 == bisect_left(offs, end + 1)
        e  == IF j0 % 2 = 1 THEN offs[j0 + 1] ELSE end + 1
        j  == IF j0 % 2 = 1 THEN j0 + 1 ELSE j0
    IN  SubSeq(offs, 1, i) \o <<start, e>> \o SubSeq(offs, j + 1, Len(offs))

has(offs, pos) == bisect_right(offs, pos) % 2 = 1

\* The list NodeRanges.add leaves: widen start to the interval it falls in
\* (i odd), turn the closed end into an exclusive one, widen it to the end
\* of the interval it falls in (j odd), then splice [start, end] over i:j.
add(offs, start, end) ==
    LET i0 == bisect_left(offs, start)
        i  == IF i0 % 2 = 1 THEN i0 - 1 ELSE i0
        s  == IF i0 % 2 = 1 THEN offs[i0] ELSE start
        j0 == bisect_left(offs, end + 1)
        e  == IF j0 % 2 = 1 THEN offs[j0 + 1] ELSE end + 1
        j  == IF j0 % 2 = 1 THEN j0 + 1 ELSE j0
    IN  SubSeq(offs, 1, i) \o <<s, e>> \o SubSeq(offs, j + 1, Len(offs))

Init == offsets = <<>>

\* One call NodeRanges.add(start, end), start <= end: filtercomments passes
\* a literal's [first, last] offsets and an accepted comment's [first, last].
Add(start, end) ==
    /\ start <= end
    /\ offsets' = add(offsets, start, end)

Next == \E start, end \in 0 .. MaxOffset : Add(start, end)

Spec == Init /\ [][Next]_vars

(***************************************************************************)
(* Properties.                                                             *)
(***************************************************************************)
TypeOK ==
    /\ offsets \in Seq(0 .. MaxOffset + 1)
    /\ Len(offsets) % 2 = 0

HasMatchesCovered ==
    \A p \in 0 .. MaxOffset + 1 : has(offsets, p) <=> p \in Covered(offsets)

\* spec.md 4.2 / 8: "no two stored intervals may touch or overlap after
\* insertion": touching intervals are coalesced into one.
Coalesced ==
    \A k \in 1 .. Len(offsets) - 1 : offsets[k] < offsets[k + 1]

\* NodeRanges implements IntervalSet: under the mapping covered <- Covered,
\* every add(start, end) is a step of IntervalSet's Insert(start, end).
Abstract == INSTANCE IntervalSet WITH covered <- Covered(offsets)

IntervalSetRefined == Abstract!Spec
=============================================================================
