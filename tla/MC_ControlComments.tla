------------------------- MODULE MC_ControlComments -------------------------
(***************************************************************************)
(* Parts laid out on positions 0..6: the control comments sit at the odd   *)
(* positions 1, 3, 5 (at most one each), the nodes' boundaries at the even *)
(* ones, so every window and every ignore range can hold 0 to 3 comments. *)
(***************************************************************************)
EXTENDS ControlComments

MC_MaxPos == 6

CommentSlots == {1, 3, 5}
NodeSlots    == {0, 2, 4, 6}
Kinds        == {"ignore", "end", "fallthru", "pass", "bad"}

\* The comments kept by filtercomments, in position order.
Layouts ==
    { [k \in 1 .. 0 |-> 0] }
      \cup { <<[kind |-> a, at |-> x]>> : a \in Kinds, x \in CommentSlots }
      \cup { <<[kind |-> a, at |-> x], [kind |-> b, at |-> y]>> :
               a, b \in Kinds, x, y \in CommentSlots }
      \cup { <<[kind |-> a, at |-> 1], [kind |-> b, at |-> 3], [kind |-> c, at |-> 5]>> :
               a, b, c \in Kinds }

SortedLayouts == { l \in Layouts : \A k \in 1 .. Len(l) - 1 : l[k].at < l[k + 1].at }

W(errname, lc, at, lo, hi) == [errname |-> errname, lc |-> lc, at |-> at, lo |-> lo, hi |-> hi]

\* What the visitors raise: missing_break at the next case (window from the
\* previous case's end), missing_break_for_last_case at the case (window
\* from its end to the switch's end), empty_statement on an empty block
\* (window its span) and on an empty statement ';' (no marker applies).
Raisable ==
    { W("missing_break", FALSE, hi, lo, hi) : lo, hi \in NodeSlots }
      \cup { W("missing_break_for_last_case", FALSE, at, lo, hi) : at, lo, hi \in NodeSlots }
      \cup { W("empty_statement", TRUE, lo, lo, hi) : lo, hi \in NodeSlots }
      \cup { W("empty_statement", FALSE, at, at, at) : at \in NodeSlots }

Wellformed(r) ==
    CASE r.errname = "missing_break_for_last_case" -> r.at < r.lo /\ r.lo < r.hi
      [] r.lc \/ r.errname = "missing_break"      -> r.lo < r.hi
      [] OTHER                                    -> TRUE

\* Two windows searched for the same marker never share a comment: in the
\* code they are the gaps between different cases of a switch (a nested
\* switch lies inside a case, before that case's end), or the spans of
\* different empty blocks, which cannot nest.
Apart(r1, r2) ==
    MarkerFor(r1) \cap MarkerFor(r2) # {}
      => r1.hi <= r2.lo \/ r2.hi <= r1.lo

Raises ==
    LET R == { r \in Raisable : Wellformed(r) }
    IN  { [k \in 1 .. 0 |-> 0] } \cup { <<r>> : r \in R }
          \cup { <<r1, r2>> \in R \X R : r1 # r2 /\ Apart(r1, r2) }

AllWarnings == {"missing_break", "missing_break_for_last_case", "empty_statement",
                "mismatch_ctrl_comments", "jsl_cc_not_understood",
                "invalid_fallthru", "invalid_pass"}

\* The default conf, and one with -missing_break.
MC_Confs == {AllWarnings, AllWarnings \ {"missing_break"}}

\* Parts that parse, with no parse error or one held back at position 4.
MC_Scripts ==
    { [comments |-> l, raises |-> r, fatal |-> FALSE, errors |-> e] :
        l \in SortedLayouts, r \in Raises, e \in {{}, {4}} }

\* Parts whose parse fails with an error at position 4, no warning raised.
MC_FatalScripts ==
    { [comments |-> l, raises |-> <<>>, fatal |-> TRUE, errors |-> {4}] : l \in SortedLayouts }
MC_AllScripts == MC_Scripts \cup MC_FatalScripts
=============================================================================
