--------------------------- MODULE CommentExtractor ---------------------------
(***************************************************************************)
(* jsparse.py findcomments (lines 244-247) as _lint_script_part runs it:   *)
(* NodePositions of the part, findpossiblecomments (154-200), the parse,   *)
(* and filtercomments (218-242), which masks the string literals of the    *)
(* tree and every accepted comment in a NodeRanges set; around the parse,  *)
(* the content-type version pass (lint.py 392-411) over the possible       *)
(* comments and its check against the filtered ones (422-424).             *)
(*                                                                         *)
(* The text's symbols are those of NodePositions plus "q", a quote, "/"    *)
(* and "*".  The parse tree enters only through the spans of its string    *)
(* literals, which the parser reports in its own line counting            *)
(* (ScannerPos); its end position is the closing quote, as for the NUMBER *)
(* nodes whose text() filtercomments takes.  Regexp literals take the same *)
(* branch of process() and are not separately modelled.                    *)
(***************************************************************************)
EXTENDS NodePositions

VARIABLES possible_comments, comments, raised, stage,
          jsversion,      \* the version the part is parsed under
          jsversionnode,  \* the content-type comment that set it
          reports         \* what the part hands to report / report_lint, in order

fvars == <<script, _start_pos, _lines, _line_offsets, possible_comments, comments, raised, stage,
           jsversion, jsversionnode, reports>>

Ranges == INSTANCE NodeRanges WITH offsets <- <<>>, MaxOffset <- 0

\* The character at 0-based offset k.
C(t, k) == t[k + 1]

(***************************************************************************)
(* findpossiblecomments: the regexp of a line comment (// up to a line    *)
(* break) or of a block comment (slash-star up to the first star-slash,   *)
(* DOTALL), searched from pos and restarted one past each match's start.   *)
(***************************************************************************)
SingleAt(t, s) == s + 1 < Len(t) /\ C(t, s) = "/" /\ C(t, s + 1) = "/"

SingleEnd(t, s) ==
    LET stops == { j \in s + 2 .. Len(t) - 1 : C(t, j) \in {"n", "r"} }
    IN  IF stops = {} THEN Len(t) ELSE Min(stops)

Closers(t, s) == { j \in s + 2 .. Len(t) - 2 : C(t, j) = "*" /\ C(t, j + 1) = "/" }

MultiAt(t, s) == s + 1 < Len(t) /\ C(t, s) = "/" /\ C(t, s + 1) = "*" /\ Closers(t, s) # {}

\* match.end(), exclusive.
MatchEnd(s) == IF SingleAt(script, s) THEN SingleEnd(script, s) ELSE Min(Closers(script, s)) + 2

CommentNode(s) ==
    [opcode |-> IF SingleAt(script, s) THEN "cpp_comment" ELSE "c_comment",
     atom   |-> IF SingleAt(script, s) THEN SubSeq(script, s + 3, MatchEnd(s))
                                       ELSE SubSeq(script, s + 3, MatchEnd(s) - 2),
     start  |-> from_offset(s),
     end    |-> from_offset(MatchEnd(s) - 1)]

RECURSIVE findpossible(_)
findpossible(pos) ==
    LET starts == { s \in pos .. Len(script) - 1 : SingleAt(script, s) \/ MultiAt(script, s) }
    IN  IF starts = {} THEN <<>>
        ELSE <<CommentNode(Min(starts))>> \o findpossible(Min(starts) + 1)

findpossiblecomments == findpossible(0)

(***************************************************************************)
(* Reference: the JavaScript lexer over these symbols (spec.md 4.3: the    *)
(* real comments are those outside literals).  A string runs from a quote  *)
(* to the next quote on its line; "a" runs are identifiers; "f" is         *)
(* whitespace.  An "error" token ends a text the parser rejects.           *)
(***************************************************************************)
Tok(kind, first, last) == [kind |-> kind, first |-> first, last |-> last]

RECURSIVE Lex(_, _)
Lex(t, k) ==
    IF k >= Len(t) THEN <<>>
    ELSE LET c == C(t, k)
             qend == { j \in k + 1 .. Len(t) - 1 : C(t, j) \in {"q", "n", "r"} }
             idend == { j \in k .. Len(t) - 1 : \A i \in k .. j : C(t, i) = "a" }
         IN  CASE c = "q" -> IF qend = {} \/ C(t, Min(qend)) # "q" THEN <<Tok("error", k, k)>>
                             ELSE <<Tok("string", k, Min(qend))>> \o Lex(t, Min(qend) + 1)
               [] SingleAt(t, k) -> <<Tok("cpp_comment", k, SingleEnd(t, k) - 1)>> \o Lex(t, SingleEnd(t, k))
               [] c = "/" /\ k + 1 < Len(t) /\ C(t, k + 1) = "*" ->
                      IF Closers(t, k) = {} THEN <<Tok("error", k, k)>>
                      ELSE <<Tok("c_comment", k, Min(Closers(t, k)) + 1)>> \o Lex(t, Min(Closers(t, k)) + 2)
               [] c = "a" -> <<Tok("id", k, Max(idend))>> \o Lex(t, Max(idend) + 1)
               [] OTHER -> <<Tok(c, k, k)>> \o Lex(t, k + 1)

\* The parser accepts the text: every token is closed, operands and the
\* operators "/" and "*" alternate, and two operands are separated by a line
\* break (automatic semicolon insertion).  A "/" after an operand is
\* division, so no regexp literal arises.
Parsable(t) ==
    LET toks == Lex(t, 0)
        breaks == { k \in DOMAIN toks :
                      toks[k].kind \in {"n", "r"}
                      \/ (toks[k].kind = "c_comment"
                          /\ \E j \in toks[k].first .. toks[k].last : C(t, j) \in {"n", "r"}) }
        sig == { k \in DOMAIN toks : toks[k].kind \in {"id", "string", "/", "*"} }
        operand(k) == toks[k].kind \in {"id", "string"}
        next(k) == Min({ j \in sig : j > k })
    IN  /\ \A k \in DOMAIN toks : toks[k].kind # "error"
        /\ sig # {} => operand(Min(sig)) /\ operand(Max(sig))
        /\ \A k \in sig : k # Max(sig) =>
            /\ ~operand(k) => operand(next(k))
            /\ operand(k) /\ operand(next(k)) => \E b \in breaks : k < b /\ b < next(k)

LexedComments(t) == SelectSeq(Lex(t, 0), LAMBDA tok : tok.kind \in {"cpp_comment", "c_comment"})

\* The text of a lexed comment, as the parser's comment atom has it.
LexAtom(tok) ==
    IF tok.kind = "cpp_comment" THEN SubSeq(script, tok.first + 3, tok.last + 1)
    ELSE SubSeq(script, tok.first + 3, tok.last - 1)

\* The STRING nodes of the tree, in document order.
Literals == SelectSeq(Lex(script, 0), LAMBDA tok : tok.kind = "string")

(***************************************************************************)
(* filtercomments.  process() adds each literal's [start, end - 1]; the    *)
(* loop drops a comment whose start is masked and masks each one it keeps. *)
(* An assertion of to_offset ends the call: the result is then raised.     *)
(***************************************************************************)
Filtered(ok, cs) == [raised |-> ~ok, comments |-> cs]

RECURSIVE process(_, _)
process(offs, lits) ==
    IF lits = <<>> \/ offs = <<Raised>> THEN offs
    ELSE LET s == to_offset(ScannerPos(Head(lits).first))
             e == to_offset(ScannerPos(Head(lits).last))
         IN  IF s = Raised \/ e = Raised THEN <<Raised>>
             ELSE process(Ranges!add(offs, s, e - 1), Tail(lits))

\* A fault: accepted comments are not added to the ranges.
RECURSIVE accept_no_add(_, _, _)
accept_no_add(offs, cs, out) ==
    IF cs = <<>> THEN Filtered(TRUE, out)
    ELSE LET s == to_offset(Head(cs).start)
             e == to_offset(Head(cs).end)
         IN  IF s = Raised \/ e = Raised THEN Filtered(FALSE, out)
             ELSE IF Ranges!has(offs, s) THEN accept_no_add(offs, Tail(cs), out)
             ELSE accept_no_add(offs, Tail(cs), Append(out, Head(cs)))

RECURSIVE accept(_, _, _)
accept(offs, cs, out) ==
    IF cs = <<>> THEN Filtered(TRUE, out)
    ELSE LET s == to_offset(Head(cs).start)
             e == to_offset(Head(cs).end)
         IN  IF s = Raised \/ e = Raised THEN Filtered(FALSE, out)
             ELSE IF Ranges!has(offs, s) THEN accept(offs, Tail(cs), out)
             ELSE accept(Ranges!add(offs, s, e), Tail(cs), Append(out, Head(cs)))

filtercomments_no_add(possible) ==
    LET offs == process(<<>>, Literals)
    IN  IF offs = <<Raised>> THEN Filtered(FALSE, <<>>) ELSE accept_no_add(offs, possible, <<>>)

filtercomments(possible) ==
    LET offs == process(<<>>, Literals)
    IN  IF offs = <<Raised>> THEN Filtered(FALSE, <<>>) ELSE accept(offs, possible, <<>>)

(***************************************************************************)
(* The content-type pass.  A comment whose text is one symbol "v", "d",    *)
(* "w" or "u" stands for /*jsl:content-type T*/ as _parse_control_comment *)
(* reads it, with T a type JSVersion.fromtype maps to version 1.5, to the  *)
(* default version, to a version SpiderMonkey does not know (9.9), or to   *)
(* None.  The part starts with conf's default version.                     *)
(***************************************************************************)
NoNode == [opcode |-> "none", atom |-> <<>>, start |-> Pos(-1, -1), end |-> Pos(-1, -1)]

ContentType(comment) ==
    IF comment.atom \in {<<"v">>, <<"d">>, <<"w">>, <<"u">>} THEN comment.atom[1] ELSE "none"

ccversion(t) == CASE t = "v" -> "1.5" [] t = "d" -> "default" [] t = "w" -> "9.9" [] OTHER -> "none"

\* jsparse.isvalidversion: spidermonkey.is_valid_version.
isvalidversion(v) == v \in {"default", "1.5"}

Report(errname, at) == [errname |-> errname, at |-> at]

\* A fault: the node of the first supported content-type kept, the version
\* of the last one used.
VersionStep_first_node(acc, comment) ==
    LET t == ContentType(comment)
    IN  IF t = "none" THEN acc
        ELSE IF ccversion(t) # "none"
        THEN [acc EXCEPT !.jsversion = ccversion(t),
                         !.node = IF @ = NoNode THEN comment ELSE @]
        ELSE [acc EXCEPT !.reports = Append(@, Report("unsupported_version", comment.start))]

\* One turn of the loop over possible_comments.
VersionStep(acc, comment) ==
    LET t == ContentType(comment)
    IN  IF t = "none" THEN acc
        ELSE IF ccversion(t) # "none"
        THEN [acc EXCEPT !.jsversion = ccversion(t), !.node = comment]
        ELSE [acc EXCEPT !.reports = Append(@, Report("unsupported_version", comment.start))]

VersionPass(cs) == FoldLeft(VersionStep, [jsversion |-> "default", node |-> NoNode, reports |-> <<>>], cs)

(***************************************************************************)
(* _lint_script_part's calls, in order.                                    *)
(***************************************************************************)
FindInit ==
    /\ Init
    /\ possible_comments = <<>>
    /\ comments = <<>>
    /\ raised = FALSE
    /\ stage = "start"
    /\ jsversion = "default"
    /\ jsversionnode = NoNode
    /\ reports = <<>>

\* node_positions = jsparse.NodePositions(script, scriptpos)
Positions ==
    /\ __init__
    /\ UNCHANGED <<possible_comments, comments, raised, stage, jsversion, jsversionnode, reports>>

\* possible_comments = jsparse.findpossiblecomments(script, node_positions)
FindPossible ==
    /\ Built
    /\ stage = "start"
    /\ possible_comments' = findpossiblecomments
    /\ stage' = "found"
    /\ UNCHANGED <<script, _start_pos, _lines, _line_offsets, comments, raised,
                   jsversion, jsversionnode, reports>>

\* report_lint(jsversionnode, 'unsupported_version', scriptpos): the report
\* is at "pos or node.start_pos()", the part's start for an HTML part and
\* the comment's start when scriptpos is None.
ScriptPosOr(node) ==
    IF _start_pos.set THEN Pos(_start_pos.line, _start_pos.col) ELSE node.start

\* The loop over possible_comments (395-406), then the version test: an
\* unknown version is reported and the part returns (408-411).
\* A fault: unsupported_version reported, the "return" after it missing.
ContentTypes_no_return ==
    /\ stage = "found"
    /\ LET r == VersionPass(possible_comments)
       IN  /\ jsversion' = r.jsversion
           /\ jsversionnode' = r.node
           /\ reports' = IF isvalidversion(r.jsversion) THEN r.reports
                         ELSE Append(r.reports, Report("unsupported_version", ScriptPosOr(r.node)))
           /\ stage' = "versioned"
    /\ UNCHANGED <<script, _start_pos, _lines, _line_offsets, possible_comments, comments, raised>>

ContentTypes ==
    /\ stage = "found"
    /\ LET r == VersionPass(possible_comments)
       IN  /\ jsversion' = r.jsversion
           /\ jsversionnode' = r.node
           /\ IF isvalidversion(r.jsversion)
              THEN /\ reports' = r.reports
                   /\ stage' = "versioned"
              ELSE /\ reports' = Append(r.reports, Report("unsupported_version", ScriptPosOr(r.node)))
                   /\ stage' = "unsupported"
    /\ UNCHANGED <<script, _start_pos, _lines, _line_offsets, possible_comments, comments, raised>>

\* comments = jsparse.filtercomments(possible_comments, node_positions, root)
Filter ==
    /\ stage = "versioned"
    /\ LET r == filtercomments(possible_comments)
       IN  /\ comments' = r.comments
           /\ raised' = r.raised
    /\ stage' = "filtered"
    /\ UNCHANGED <<script, _start_pos, _lines, _line_offsets, possible_comments,
                   jsversion, jsversionnode, reports>>

\* A content-type comment that filtercomments dropped is reported (422-424).
CheckVersion ==
    /\ stage = "filtered"
    /\ ~raised
    /\ reports' = IF jsversionnode # NoNode /\ \A k \in DOMAIN comments : comments[k] # jsversionnode
                  THEN Append(reports, Report("incorrect_version", jsversionnode.start))
                  ELSE reports
    /\ stage' = "done"
    /\ UNCHANGED <<script, _start_pos, _lines, _line_offsets, possible_comments, comments, raised,
                   jsversion, jsversionnode>>

FindNext == Positions \/ FindPossible \/ ContentTypes \/ Filter \/ CheckVersion

FindSpec == FindInit /\ [][FindNext]_fvars

(***************************************************************************)
(* Properties.                                                             *)
(***************************************************************************)
\* The comments the directive loop gets are exactly the comments of the
\* text, in order, with their kind, text and position: nothing that starts
\* inside a string or inside an earlier comment, and no real comment lost
\* behind a match that started inside a literal; and no assertion ends the
\* lint of the part.
CommentsFound ==
    stage \in {"filtered", "done"} =>
        /\ ~raised
        /\ comments = [k \in DOMAIN LexedComments(script) |->
                         LET tok == LexedComments(script)[k]
                         IN  [opcode |-> tok.kind,
                              atom   |-> LexAtom(tok),
                              start  |-> from_offset(tok.first),
                              end    |-> from_offset(tok.last)]]

\* The positions of the real comments, and spec.md 4.4's version: that of
\* the last real content-type comment with a supported type, else the
\* default.
RealStarts == { from_offset(tok.first) : tok \in Range(LexedComments(script)) }

SpecVersion ==
    LET real == SelectSeq(LexedComments(script),
                          LAMBDA tok : ccversion(ContentType([atom |-> LexAtom(tok)])) # "none")
    IN  IF real = <<>> THEN "default"
        ELSE ccversion(ContentType([atom |-> LexAtom(real[Len(real)])]))

\* spec.md 4.4: a part parsed under a version that no real content-type
\* comment gives is reported incorrect_version, and incorrect_version is
\* reported only at a content-type comment that is not a real comment
\* (the version is taken from the possible comments, lint.py 396-404, and
\* checked against the filtered ones, 422-424).
VersionChecked ==
    stage = "done" =>
        /\ \A k \in DOMAIN reports :
               reports[k].errname = "incorrect_version" => reports[k].at \notin RealStarts
        /\ jsversion # SpecVersion => \E k \in DOMAIN reports : reports[k].errname = "incorrect_version"

\* A content-type comment inside a string or another comment changes only
\* the version, which the check after the parse then reports (the comment
\* at lint.py 392-394): unsupported_version is never reported at it.
PragmaInLiteralInert ==
    \A k \in DOMAIN reports :
        reports[k].errname = "unsupported_version" => reports[k].at \in RealStarts
\* lint.py 408-411: the part is dropped before it is parsed exactly when
\* the last possible content-type comment with a known type, real or inside
\* a literal, names a version SpiderMonkey rejects; its last report is then
\* unsupported_version, at the part's start in an HTML file and at that
\* comment in a script file, and nothing is checked after it.
SkippedAtLastVersion ==
    stage \in {"versioned", "filtered", "done", "unsupported"} =>
      LET known == SelectSeq(possible_comments,
                             LAMBDA c : ccversion(ContentType(c)) # "none")
          last == known[Len(known)]
          rejected == known # <<>> /\ ~isvalidversion(ccversion(ContentType(last)))
      IN  /\ (stage = "unsupported") = rejected
          /\ rejected => /\ reports # <<>>
                         /\ reports[Len(reports)] =
                              Report("unsupported_version",
                                     IF _start_pos.set THEN Pos(_start_pos.line, _start_pos.col)
                                     ELSE last.start)
                         /\ \A k \in DOMAIN reports : reports[k].errname # "incorrect_version"
====
