---------------------------- MODULE HtmlScripts -----------------------------
(***************************************************************************)
(* lint.py _findhtmlscripts (lines 247-288) over the tags htmlparse.py     *)
(* findscripttags collects, and the html branch of lint_file (lines        *)
(* 312-327) that consumes what the generator yields.                       *)
(*                                                                         *)
(* The HTML text is a sequence of symbols: a script start tag "S" (no      *)
(* type or language), "X" (with a src attribute), "V" (a type whose       *)
(* version SpiderMonkey does not know) or "L" (a language that is not      *)
(* JavaScript); "E" a script end tag; "q" a quote; "w" a blank; "n", "r", *)
(* "f" line breaks as in NodePositions; "a" any other character.  A tag   *)
(* is one symbol, so len(get_starttag_text()) is 1.                       *)
(*                                                                         *)
(* The positions of the tags come from HTMLParser, which counts lines by  *)
(* "\n" alone; they are turned back into offsets by the NodePositions of  *)
(* the same text, which breaks lines where unicode.splitlines does.       *)
(***************************************************************************)
EXTENDS Integers, SequencesExt

CONSTANT Texts                \* the contents of the HTML file

VARIABLES html,               \* contents
          _start_pos, _lines, _line_offsets,  \* nodepos = NodePositions(contents)
          tags,               \* htmlparse.findscripttags(contents)
          i,                  \* the next tag of the loop
          starttag,           \* the open start tag, or NoTag
          parts,              \* lint_file's script_parts
          imports,            \* the jsversions import_script is called with
          stage               \* "new", "scanning", "done" or "raised"

vars == <<html, _start_pos, _lines, _line_offsets, tags, i, starttag, parts, imports, stage>>

NoStart == [set |-> FALSE]
NP == INSTANCE NodePositions WITH script <- html, StartPositions <- {NoStart}

StartSyms == {"S", "X", "V", "L"}
Blanks    == {"w", "n", "r", "f"}
NoVersion == "none"           \* Python's None as a jsversion
NoTag     == [type |-> "none", lineno |-> 0, offset |-> 0, len |-> 0, sym |-> "none",
              k |-> 0, jsversion |-> NoVersion]

(***************************************************************************)
(* HTMLParser, as the standard library behaves: a script start tag puts    *)
(* it in CDATA mode, where everything up to the next end tag is data; the *)
(* position of a tag is lineno (1-based, counting "\n") and offset (the   *)
(* characters since the last "\n").  k is the tag's index in the text,    *)
(* kept for the reference only: the code never sees it.                   *)
(***************************************************************************)
Tag(type, h, k) ==
    LET nls == { j \in 1 .. k - 1 : h[j] = "n" }
    IN  [type |-> type, lineno |-> 1 + Cardinality(nls),
         offset |-> IF nls = {} THEN k - 1 ELSE k - 1 - Max(nls),
         len |-> 1, sym |-> h[k], k |-> k, jsversion |-> NoVersion]

\* handle_starttag and handle_endtag keep the script tags of the stream.
RECURSIVE TagsFrom(_, _, _)
TagsFrom(h, k, cdata) ==
    IF k > Len(h) THEN <<>>
    ELSE IF h[k] = "E" THEN <<Tag("end", h, k)>> \o TagsFrom(h, k + 1, FALSE)
    ELSE IF h[k] \in StartSyms /\ ~cdata THEN <<Tag("start", h, k)>> \o TagsFrom(h, k + 1, TRUE)
    ELSE TagsFrom(h, k + 1, cdata)

findscripttags(h) == TagsFrom(h, 1, FALSE)

\* JSVersion.fromattr(attr, conf['default-version']).
fromattr(sym) ==
    CASE sym \in {"S", "X"} -> "default"
      [] sym = "V"          -> "9.9"
      [] sym = "L"          -> NoVersion

isvalidversion(v) == v \in {NoVersion, "default"}

\* is_compilable_unit: SpiderMonkey's JS_BufferIsCompilableUnit is false
\* for a text that ends inside an unterminated string.
is_compilable_unit(s) == Cardinality({ j \in DOMAIN s : s[j] = "q" }) % 2 = 0

\* script.strip() is not empty.
NonBlank(s) == \E j \in DOMAIN s : s[j] \notin Blanks

Init ==
    /\ html \in Texts
    /\ _start_pos = NoStart
    /\ _lines = <<>>
    /\ _line_offsets = <<>>
    /\ tags = <<>>
    /\ i = 0
    /\ starttag = NoTag
    /\ parts = <<>>
    /\ imports = <<>>
    /\ stage = "new"

(***************************************************************************)
(* The generator's first step: nodepos and the tag list.                   *)
(***************************************************************************)
Begin ==
    /\ stage = "new"
    /\ NP!__init__
    /\ tags' = findscripttags(html)
    /\ i' = 1
    /\ stage' = "scanning"
    /\ UNCHANGED <<starttag, parts, imports>>

(***************************************************************************)
(* One turn of "for tag in htmlparse.findscripttags(contents)", with what  *)
(* lint_file does with a yielded script before the generator resumes:    *)
(* skip it if its jsversion is None, import an external one, append an    *)
(* inline one to script_parts.                                            *)
(***************************************************************************)
Scanning == stage = "scanning" /\ i <= Len(tags)

\* A fault: a script whose jsversion is None appended all the same.
TakeInline_keep_none(p) == Append(parts, p)

\* lint_file's body of the loop: a script whose jsversion is None is
\* skipped, an external one imported, an inline one appended.
TakeExternal(v) == IF v # NoVersion THEN Append(imports, v) ELSE imports
TakeInline(p) == IF p.jsversion # NoVersion THEN Append(parts, p) ELSE parts

\* A start tag with no open one: it opens the script; one with a src is
\* yielded as external at once.
StartTag ==
    /\ Scanning
    /\ tags[i].type = "start"
    /\ starttag = NoTag
    /\ LET v == fromattr(tags[i].sym)
       IN  /\ starttag' = [tags[i] EXCEPT !.jsversion = v]
           /\ imports' = IF tags[i].sym = "X" THEN TakeExternal(v) ELSE imports
    /\ i' = i + 1
    /\ UNCHANGED <<html, _start_pos, _lines, _line_offsets, tags, parts, stage>>

\* "Ignore nested start tags."
NestedStartTag ==
    /\ Scanning
    /\ tags[i].type = "start"
    /\ starttag # NoTag
    /\ i' = i + 1
    /\ UNCHANGED <<html, _start_pos, _lines, _line_offsets, tags, starttag, parts, imports, stage>>

\* An end tag with no open start tag is passed over.
StrayEndTag ==
    /\ Scanning
    /\ tags[i].type = "end"
    /\ starttag = NoTag
    /\ i' = i + 1
    /\ UNCHANGED <<html, _start_pos, _lines, _line_offsets, tags, starttag, parts, imports, stage>>

\* The offsets of a tag's position; NP!Raised if to_offset fails its
\* assertion or indexes past the table.
TagOffset(t) == NP!to_offset(NP!Pos(t.lineno - 1, t.offset))

\* A fault: the script kept open after it is yielded.
EndTag_keep_open ==
    /\ Scanning
    /\ tags[i].type = "end"
    /\ starttag # NoTag
    /\ LET startoffset == TagOffset(starttag) + starttag.len
           endoffset   == TagOffset(tags[i])
           script      == NP!Slice(html, startoffset, endoffset)
       IN  IF TagOffset(starttag) = NP!Raised \/ endoffset = NP!Raised
           THEN /\ stage' = "raised"
                /\ UNCHANGED <<starttag, parts, i>>
           ELSE /\ parts' = IF (~isvalidversion(starttag.jsversion) \/ is_compilable_unit(script))
                               /\ NonBlank(script)
                            THEN TakeInline([pos |-> NP!from_offset(startoffset),
                                             jsversion |-> starttag.jsversion,
                                             contents |-> script])
                            ELSE parts
                /\ i' = i + 1
                /\ UNCHANGED <<starttag, stage>>
    /\ UNCHANGED <<html, _start_pos, _lines, _line_offsets, tags, imports>>

\* An end tag closing the open script: its contents run from after the
\* start tag to the end tag, both found through nodepos.to_offset.  It is
\* closed if its version is not one SpiderMonkey knows or it is a
\* compilable unit, and yielded if it is not blank; otherwise the script
\* stays open and a later end tag is tried.  An assertion raised by
\* to_offset ends lint_files.
EndTag ==
    /\ Scanning
    /\ tags[i].type = "end"
    /\ starttag # NoTag
    /\ LET startoffset == TagOffset(starttag) + starttag.len
           endoffset   == TagOffset(tags[i])
           script      == NP!Slice(html, startoffset, endoffset)
           closes      == ~isvalidversion(starttag.jsversion) \/ is_compilable_unit(script)
       IN  IF TagOffset(starttag) = NP!Raised \/ endoffset = NP!Raised
           THEN /\ stage' = "raised"
                /\ UNCHANGED <<starttag, parts, i>>
           ELSE /\ parts' = IF closes /\ NonBlank(script)
                            THEN TakeInline([pos |-> NP!from_offset(startoffset),
                                             jsversion |-> starttag.jsversion,
                                             contents |-> script])
                            ELSE parts
                /\ starttag' = IF closes THEN NoTag ELSE starttag
                /\ i' = i + 1
                /\ stage' = stage
    /\ UNCHANGED <<html, _start_pos, _lines, _line_offsets, tags, imports>>

\* The generator is exhausted; a start tag still open is dropped.
Exhausted ==
    /\ stage = "scanning"
    /\ i > Len(tags)
    /\ stage' = "done"
    /\ UNCHANGED <<html, _start_pos, _lines, _line_offsets, tags, i, starttag, parts, imports>>

Next == Begin \/ StartTag \/ NestedStartTag \/ StrayEndTag \/ EndTag \/ Exhausted

Spec == Init /\ [][Next]_vars
Finished == stage \in {"done", "raised"}

(***************************************************************************)
(* Reference: the scripts of the document found on the tags' own indices,  *)
(* without the round trip through HTMLParser's (line, column) and          *)
(* nodepos.  A script opens at the first start tag after the last one     *)
(* closed, and closes at the first later end tag before which its         *)
(* contents are compilable (or at once if its version is unknown).        *)
(***************************************************************************)
Contents(h, o, c) == SubSeq(h, o.k + 1, c.k - 1)
Closes(h, o, c) == ~isvalidversion(fromattr(o.sym)) \/ is_compilable_unit(Contents(h, o, c))

RECURSIVE Regions(_, _, _)
Regions(h, T, j) ==
    LET opens == { k \in j .. Len(T) : T[k].type = "start" }
        o == Min(opens)
        closes == { k \in o + 1 .. Len(T) : T[k].type = "end" /\ Closes(h, T[o], T[k]) }
    IN  IF opens = {} THEN <<>>
        ELSE IF closes = {} THEN <<[open |-> T[o], close |-> NoTag]>>
        ELSE <<[open |-> T[o], close |-> T[Min(closes)]]>> \o Regions(h, T, Min(closes) + 1)

DocRegions(h) == Regions(h, findscripttags(h), 1)

RefImports(h) ==
    LET ext == SelectSeq(DocRegions(h), LAMBDA r : r.open.sym = "X" /\ fromattr(r.open.sym) # NoVersion)
    IN  [n \in DOMAIN ext |-> fromattr(ext[n].open.sym)]

\* The content's 0-based offset is the tag's 1-based index.
RefParts(h) ==
    LET inl == SelectSeq(DocRegions(h),
                 LAMBDA r : /\ r.close # NoTag
                            /\ NonBlank(Contents(h, r.open, r.close))
                            /\ fromattr(r.open.sym) # NoVersion)
    IN  [n \in DOMAIN inl |-> [pos |-> NP!from_offset(inl[n].open.k),
                               jsversion |-> fromattr(inl[n].open.sym),
                               contents |-> Contents(h, inl[n].open, inl[n].close)]]

(***************************************************************************)
(* Properties.                                                             *)
(***************************************************************************)
TypeOK ==
    /\ stage \in {"new", "scanning", "done", "raised"}
    /\ i \in 0 .. Len(tags) + 1
    /\ \A n \in DOMAIN parts : parts[n].jsversion \in {"default", "9.9"}

\* The file's scripts reach lint_file exactly: every tag position
\* HTMLParser reports resolves through nodepos.to_offset, the inline parts
\* are the closed, non-blank scripts in document order with their contents,
\* version and start position, and the external ones are imported.  A
\* script that a later end tag closes after an uncompilable prefix, and the
\* start tags inside it, are where the loop and the reference can part.
ExtractedAsReference ==
    Finished =>
      /\ stage = "done"
      /\ parts = RefParts(html)
      /\ imports = RefImports(html)
====
