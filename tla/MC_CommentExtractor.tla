------------------------- MODULE MC_CommentExtractor -------------------------
(***************************************************************************)
(* Every text the parser accepts of at most six symbols over an identifier *)
(* character, a line feed, a quote, "/" and "*", and every text of at most *)
(* five over an identifier character and the three kinds of line break;    *)
(* read from the top of a file or as an HTML part at line 1, column 2.     *)
(***************************************************************************)
EXTENDS CommentExtractor

TextsOver(S, n) == UNION { [1 .. m -> S] : m \in 0 .. n }

MC_Texts ==
    { t \in TextsOver({"a", "n", "q", "/", "*"}, 6) : Parsable(t) }
      \cup TextsOver({"a", "n", "r", "f"}, 5)

\* Texts with a form feed before a literal or a comment.
MC_FormFeedTexts == { t \in TextsOver({"a", "f", "n", "q", "/"}, 5) : Parsable(t) }

MC_StartPositions == { [set |-> FALSE, line |-> 0, col |-> 0], [set |-> TRUE, line |-> 1, col |-> 2] }

\* Texts of up to three pieces: content-type comments of every kind, as
\* line or block comments, alone or inside a string, and separators.
MC_Pieces ==
    { <<"/", "/", "v">>, <<"/", "*", "d", "*", "/">>, <<"/", "/", "u">>, <<"/", "*", "w", "*", "/">>,
      <<"q", "/", "*", "d", "*", "/", "q">>, <<"q", "/", "/", "v", "q">>,
      <<"a">>, <<"n">> }

MC_VersionTexts ==
    { t \in { <<>> } \cup { p1 \o p2 \o p3 : p1, p2, p3 \in MC_Pieces \cup {<<>>} } : Parsable(t) }

\* Texts with a content-type comment inside a string.
MC_LiteralPragmaTexts ==
    { <<"q", "/", "/", "u", "q">>, <<"q", "/", "*", "w", "*", "/", "q">> }

MC_AllTexts == MC_Texts \cup MC_VersionTexts
====
