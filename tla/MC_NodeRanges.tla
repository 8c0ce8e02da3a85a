--------------------------- MODULE MC_NodeRanges ---------------------------
(* Model-checking instance of NodeRanges: offsets 0..6 are enough for four *)
(* disjoint one-offset intervals, so every overlap/abut case arises.        *)
EXTENDS NodeRanges

MC_MaxOffset == 6
=============================================================================
