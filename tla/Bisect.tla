------------------------------- MODULE Bisect -------------------------------
(***************************************************************************)
(* Python's bisect.bisect_left and bisect.bisect_right, as the binary      *)
(* searches they are (not as "count of smaller elements"), so that a list  *)
(* that is not sorted is searched the way the program would search it.    *)
(* Indices are Python's 0-based insertion points; a[k] in Python is        *)
(* a[k+1] here.                                                            *)
(***************************************************************************)
EXTENDS Integers, Sequences

RECURSIVE BisectLeftIn(_, _, _, _)
BisectLeftIn(a, x, lo, hi) ==
    IF lo >= hi THEN lo
    ELSE LET mid == (lo + hi) \div 2
         IN  IF a[mid + 1] < x THEN BisectLeftIn(a, x, mid + 1, hi)
                               ELSE BisectLeftIn(a, x, lo, mid)

RECURSIVE BisectRightIn(_, _, _, _)
BisectRightIn(a, x, lo, hi) ==
    IF lo >= hi THEN lo
    ELSE LET mid == (lo + hi) \div 2
         IN  IF x < a[mid + 1] THEN BisectRightIn(a, x, lo, mid)
                               ELSE BisectRightIn(a, x, mid + 1, hi)

bisect_left(a, x)  == BisectLeftIn(a, x, 0, Len(a))
bisect_right(a, x) == BisectRightIn(a, x, 0, Len(a))
=============================================================================
