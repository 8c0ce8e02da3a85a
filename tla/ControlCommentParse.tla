------------------------- MODULE ControlCommentParse -------------------------
(***************************************************************************)
(* lint.py _parse_control_comment (lines 48-79): the text of a comment     *)
(* read as a control comment, and util.isidentifier, which the directive  *)
(* loop applies to a jsl:declare / jsl:unused argument.                    *)
(*                                                                         *)
(* The text is a sequence of symbols: " " is whitespace, "J" the 4         *)
(* characters "jsl:", "@" itself, "i" / "I" the keyword "ignore" in lower / *)
(* upper case, "d" the keyword "declare", "o" " " "e" the keyword "option  *)
(* explicit", and "x", "e", "o", "d", "i" are also identifier characters.  *)
(* A slice by the length of a keyword drops that many symbols, so a slice *)
(* that is off by some characters in the code is off by some symbols      *)
(* here.  Python's .split()[0] on a text without a word raises IndexError. *)
(***************************************************************************)
EXTENDS Integers, SequencesExt

CONSTANT Comments                 \* the comment texts (comment.atom)

VARIABLES comment, result

vars == <<comment, result>>

Keywords       == { <<"i">>, <<"d">>, <<"o", " ", "e">> }
Letters        == {"i", "I", "d", "o", "e", "x"}

Lower(s)       == [k \in DOMAIN s |-> IF s[k] = "I" THEN "i" ELSE s[k]]

\* str.strip(): drop leading and trailing whitespace.
Strip(s) ==
    LET words == { k \in DOMAIN s : s[k] # " " }
    IN  IF words = {} THEN <<>> ELSE SubSeq(s, Min(words), Max(words))

\* str.split()[0]: the first maximal run of non-whitespace.
FirstWord(s) ==
    LET a == Strip(s)
        ends == { k \in DOMAIN a : a[k] = " " }
    IN  IF ends = {} THEN a ELSE SubSeq(a, 1, Min(ends) - 1)

Outcome(status, keyword, parms) == [status |-> status, keyword |-> keyword, parms |-> parms]
None == Outcome("none", <<>>, <<>>)

\* A fault: the keyword looked up without lowering the text.
_parse_control_comment_case_sensitive(atom) ==
    LET a  == Strip(atom)
        jsl    == a # <<>> /\ Lower(a)[1] = "J"
        legacy == a # <<>> /\ a[1] = "@" /\ a[Len(a)] = "@"
        cc == IF jsl THEN Tail(a) ELSE SubSeq(a, 2, Len(a) - 1)
        keyword == IF cc \in Keywords THEN cc ELSE FirstWord(cc)
    IN  IF ~jsl /\ ~legacy THEN None
        ELSE IF Strip(cc) = <<>> THEN Outcome("IndexError", <<>>, <<>>)
        ELSE IF keyword \notin Keywords THEN None
        ELSE Outcome("ok", keyword, Strip(SubSeq(cc, Len(keyword) + 1, Len(cc))))

\* A fault: the first word taken as the keyword without checking it is one.
_parse_control_comment_any_word(atom) ==
    LET a  == Strip(atom)
        jsl    == a # <<>> /\ Lower(a)[1] = "J"
        legacy == a # <<>> /\ a[1] = "@" /\ a[Len(a)] = "@"
        cc == IF jsl THEN Tail(a) ELSE SubSeq(a, 2, Len(a) - 1)
        keyword == IF Lower(cc) \in Keywords THEN Lower(cc) ELSE FirstWord(Lower(cc))
    IN  IF ~jsl /\ ~legacy THEN None
        ELSE IF Strip(cc) = <<>> THEN Outcome("IndexError", <<>>, <<>>)
        ELSE Outcome("ok", keyword, Strip(SubSeq(cc, Len(keyword) + 1, Len(cc))))

\* _parse_control_comment: None, the raised IndexError, or (keyword, parms).
\* The prefix test is on the lowered text, the '@' test on the text; the
\* keyword is the whole lowered text if that is a keyword, else its first
\* word; parms is the text after as many characters as the keyword has.
_parse_control_comment(atom) ==
    LET a  == Strip(atom)
        jsl    == a # <<>> /\ Lower(a)[1] = "J"
        legacy == a # <<>> /\ a[1] = "@" /\ a[Len(a)] = "@"
        cc == IF jsl THEN Tail(a) ELSE SubSeq(a, 2, Len(a) - 1)
        keyword == IF Lower(cc) \in Keywords THEN Lower(cc) ELSE FirstWord(Lower(cc))
    IN  IF ~jsl /\ ~legacy THEN None
        ELSE IF Strip(cc) = <<>> THEN Outcome("IndexError", <<>>, <<>>)
        ELSE IF keyword \notin Keywords THEN None
        ELSE Outcome("ok", keyword, Strip(SubSeq(cc, Len(keyword) + 1, Len(cc))))

\* util.isidentifier: ^[A-Za-z_$][A-Za-z0-9_$]*$
isidentifier(s) == s # <<>> /\ \A k \in DOMAIN s : s[k] \in Letters

Init ==
    /\ comment \in Comments
    /\ result = Outcome("unparsed", <<>>, <<>>)

\* The directive loop parses the comment once.
Parse ==
    /\ result.status = "unparsed"
    /\ result' = _parse_control_comment(comment)
    /\ UNCHANGED comment

Next == Parse

Spec == Init /\ [][Next]_vars

Done == result.status # "unparsed"

(***************************************************************************)
(* Reference: spec.md 4.4's grammar, jsl:keyword[ args] and @keyword@ on   *)
(* the stripped text, the keyword matched without regard to case.          *)
(***************************************************************************)
SpecParse(atom) ==
    LET a    == Strip(atom)
        jsl    == a # <<>> /\ Lower(a)[1] = "J"
        legacy == Len(a) >= 2 /\ a[1] = "@" /\ a[Len(a)] = "@"
        body   == IF jsl THEN Tail(a) ELSE SubSeq(a, 2, Len(a) - 1)
        forms == { kw \in Keywords : \/ Lower(body) = kw
                                     \/ /\ Len(body) > Len(kw)
                                        /\ Lower(SubSeq(body, 1, Len(kw))) = kw
                                        /\ body[Len(kw) + 1] = " " }
        kw == CHOOSE kw \in forms : \A k2 \in forms : Len(k2) <= Len(kw)
    IN  IF (~jsl /\ ~legacy) \/ forms = {} THEN None
        ELSE Outcome("ok", kw, Strip(SubSeq(body, Len(kw) + 1, Len(body))))

TypeOK ==
    /\ result.status \in {"unparsed", "none", "IndexError", "ok"}
    /\ result.status = "ok" => result.keyword \in Keywords

\* Every comment written in the spec's grammar is read as the keyword and
\* arguments it spells, whatever the case of the keyword and the spacing
\* around the text.
GrammarRecognized ==
    Done /\ SpecParse(comment).status = "ok" => result = SpecParse(comment)

\* Parsing a comment never raises: an empty jsl: or @@ comment is not a
\* control comment.
NeverRaises ==
    result.status # "IndexError"

\* A jsl:declare takes as its name only the identifier written after the
\* keyword (spec.md 4.4).
DeclaresWrittenName ==
    Done /\ result.status = "ok" /\ result.keyword = <<"d">> /\ isidentifier(result.parms)
      => SpecParse(comment) = result
====
