---------------------- MODULE MC_ControlCommentParse ----------------------
(***************************************************************************)
(* Every comment text of at most four symbols.                            *)
(***************************************************************************)
EXTENDS ControlCommentParse

Symbols == {" ", "J", "@", "i", "I", "d", "o", "e", "x"}

MC_Comments == UNION { [1 .. n -> Symbols] : n \in 0 .. 4 }
=============================================================================
