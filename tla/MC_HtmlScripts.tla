---------------------------- MODULE MC_HtmlScripts ----------------------------
(***************************************************************************)
(* The HTML texts: every text of up to five symbols of start tags, end    *)
(* tags, quotes, code and "\n" (so that scripts close late, hold nested   *)
(* and stray tags, stay open to the end, and sit on later lines); and one *)
(* script of each start-tag kind with short bodies (blank, code, an       *)
(* unterminated quote, a "\r\n" line) followed by a second script or a    *)
(* stray part.                                                            *)
(***************************************************************************)
EXTENDS HtmlScripts

Core == {"S", "E", "q", "a", "n"}
Short == UNION { [1 .. n -> Core] : n \in 0 .. 5 }
Bodies == { <<>>, <<"w">>, <<"a">>, <<"q">>, <<"r", "n", "a">>, <<"n", "w">> }
Rests == { <<>>, <<"q", "E">>, <<"S", "a", "E">>, <<"n", "X", "E">> }

MC_Texts == Short \cup { <<t>> \o b \o <<"E">> \o r : t \in StartSyms, b \in Bodies, r \in Rests }

\* Lone "\r" and form feed before and between the tags.
MC_BreakTexts == { <<"a", x, "S", "a", "E">> : x \in {"r", "f"} }
                   \cup { <<x, "a", "n", "S", "a", "E">> : x \in {"r", "f"} }
====
