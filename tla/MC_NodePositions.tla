------------------------- MODULE MC_NodePositions -------------------------
(***************************************************************************)
(* Every text of at most five symbols, read from the top of the file or   *)
(* as an HTML part starting at line 1, column 2.                          *)
(***************************************************************************)
EXTENDS NodePositions

MC_Texts == UNION { [1 .. n -> {"a", "n", "r", "f"}] : n \in 0 .. 5 }
MC_StartPositions == { [set |-> FALSE, line |-> 0, col |-> 0], [set |-> TRUE, line |-> 1, col |-> 2] }
=============================================================================
