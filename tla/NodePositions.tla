---------------------------- MODULE NodePositions ----------------------------
(***************************************************************************)
(* jsparse.py NodePositions (lines 23-64): the table of line offsets built *)
(* from a script's text with unicode.splitlines(True), and the maps        *)
(* between offsets and NodePos(line, col) it serves, optionally shifted by *)
(* the start position of an HTML script part.                             *)
(*                                                                         *)
(* The text is a sequence of symbols: "a" any character that ends no line, *)
(* "n" a line feed, "r" a carriage return, "f" a character that            *)
(* unicode.splitlines breaks at but the JavaScript scanner does not (form  *)
(* feed, vertical tab, \x1c-\x1e, \x85).  Python's 0-based list index k is *)
(* index k+1 here; a raised AssertionError or IndexError is Raised.        *)
(***************************************************************************)
EXTENDS Integers, SequencesExt, Bisect

CONSTANTS Texts,          \* the script texts
          StartPositions  \* start_pos: [set |-> FALSE] for None, or a NodePos

VARIABLES script, _start_pos, _lines, _line_offsets

vars == <<script, _start_pos, _lines, _line_offsets>>

Pos(line, col) == [line |-> line, col |-> col]
Raised == -1

\* The ends of the lines unicode.splitlines(True) returns: after each line
\* break ("r" "n" is one), and at the end of a last unterminated line.
LineEnds(t) ==
    LET breaks == { e \in DOMAIN t : t[e] \in {"n", "f"}
                                     \/ (t[e] = "r" /\ ~(e < Len(t) /\ t[e + 1] = "n")) }
    IN  breaks \cup (IF Len(t) > 0 THEN {Len(t)} ELSE {})

splitlines(t) ==
    LET ends == SetToSortSeq(LineEnds(t), <)
        from(k) == IF k = 1 THEN 1 ELSE ends[k - 1] + 1
    IN  [k \in DOMAIN ends |-> SubSeq(t, from(k), ends[k])]

Init ==
    /\ script \in Texts
    /\ _start_pos \in StartPositions
    /\ _lines = <<>>
    /\ _line_offsets = <<>>

\* A fault: the line lengths left as they are, not summed.
__init___no_sum ==
    /\ _line_offsets = <<>>
    /\ _lines' = splitlines(script)
    /\ _line_offsets' = <<0>> \o [k \in DOMAIN splitlines(script) |-> Len(splitlines(script)[k])]
    /\ UNCHANGED <<script, _start_pos>>

\* __init__: _lines, and _line_offsets = [0] + the running sums of their lengths.
__init__ ==
    /\ _line_offsets = <<>>
    /\ _lines' = splitlines(script)
    /\ _line_offsets' = <<0>> \o [k \in DOMAIN _lines' |-> Len(FlattenSeq(SubSeq(_lines', 1, k)))]
    /\ UNCHANGED <<script, _start_pos>>

Next == __init__

Spec == Init /\ [][Next]_vars

Built == _line_offsets # <<>>

\* A fault: the start column added on every line, not only the first.
from_offset_col_every_line(offset) ==
    LET line == bisect_right(_line_offsets, offset) - 1
        col  == offset - _line_offsets[line + 1]
    IN  IF _start_pos.set THEN Pos(line + _start_pos.line, col + _start_pos.col)
        ELSE Pos(line, col)

from_offset(offset) ==
    LET line == bisect_right(_line_offsets, offset) - 1
        col  == offset - _line_offsets[line + 1]
    IN  IF _start_pos.set
        THEN Pos(line + _start_pos.line, IF line = 0 THEN col + _start_pos.col ELSE col)
        ELSE Pos(line, col)

\* _to_rel_pos: the position relative to _start_pos; Raised if before it.
_to_rel_pos(pos) ==
    IF ~_start_pos.set THEN pos
    ELSE LET line == pos.line - _start_pos.line
             col  == IF line = 0 THEN pos.col - _start_pos.col ELSE pos.col
         IN  IF line >= 0 /\ col >= 0 THEN Pos(line, col) ELSE Pos(Raised, Raised)

\* to_offset, asserting that the column lies within the line.
to_offset(pos) ==
    LET rel == _to_rel_pos(pos)
    IN  IF rel.line = Raised \/ rel.line + 2 > Len(_line_offsets) THEN Raised
        ELSE LET offset == _line_offsets[rel.line + 1] + rel.col
             IN  IF offset <= _line_offsets[rel.line + 2] THEN offset ELSE Raised

\* Python's s[a:b] for 0 <= a, b.
Slice(s, a, b) == SubSeq(s, a + 1, IF b < Len(s) THEN b ELSE Len(s))

\* A fault: the first line trimmed before the last.
text_start_first(start, end) ==
    LET s == _to_rel_pos(start)
        e == _to_rel_pos(end)
        ls == SubSeq(_lines, s.line + 1, e.line + 1)
        trimmed == [ls EXCEPT ![1] = Slice(@, s.col, Len(@))]
    IN  FlattenSeq([trimmed EXCEPT ![Len(trimmed)] = Slice(@, 0, e.col + 1)])

\* text(start, end): the characters from start to end inclusive.  The last
\* line is trimmed first, in case it is also the first.
text(start, end) ==
    LET s == _to_rel_pos(start)
        e == _to_rel_pos(end)
        ls == SubSeq(_lines, s.line + 1, e.line + 1)
        trimmed == [ls EXCEPT ![Len(ls)] = Slice(@, 0, e.col + 1)]
    IN  FlattenSeq([trimmed EXCEPT ![1] = Slice(@, s.col, Len(@))])

(***************************************************************************)
(* Reference: the position the JavaScript scanner gives the character at   *)
(* an offset.  Its lines end at "n", "r" and "r" "n" only; the parse is    *)
(* handed the same start position.                                        *)
(***************************************************************************)
ScannerPos(offset) ==
    LET starts == {0} \cup { e \in DOMAIN script : e <= offset /\ (script[e] = "n"
                               \/ (script[e] = "r" /\ ~(e < Len(script) /\ script[e + 1] = "n"))) }
        line == Cardinality(starts) - 1
        col  == offset - Max(starts)
    IN  IF _start_pos.set
        THEN Pos(line + _start_pos.line, IF line = 0 THEN col + _start_pos.col ELSE col)
        ELSE Pos(line, col)

Offsets == 0 .. Len(script) - 1

(***************************************************************************)
(* Properties.                                                             *)
(***************************************************************************)
\* The table is the running sum of the line lengths: it starts at 0, grows,
\* and ends at the length of the text.
TypeOK ==
    Built => /\ _line_offsets[1] = 0
             /\ _line_offsets[Len(_line_offsets)] = Len(script)
             /\ \A k \in 1 .. Len(_line_offsets) - 1 : _line_offsets[k] < _line_offsets[k + 1]

\* from_offset and to_offset are inverse on every character of the text,
\* with and without the start position of an HTML part.
RoundTrip ==
    Built => \A o \in Offsets : to_offset(from_offset(o)) = o

\* text() between the positions of two characters is exactly the text
\* between them, across any number of lines and line-break kinds.
TextMatches ==
    Built => \A a, b \in Offsets :
               a <= b => text(from_offset(a), from_offset(b)) = SubSeq(script, a + 1, b + 1)

\* Every position the parser gives a character (a node's _start_pos, which
\* filtercomments hands to to_offset) maps back to that character.
ScannerPositionsResolve ==
    Built => \A o \in Offsets : to_offset(ScannerPos(o)) = o
====
