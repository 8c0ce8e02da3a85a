--------------------------- MODULE ControlComments ---------------------------
(***************************************************************************)
(* lint.py _lint_script_part for one script part, from the parse onwards: *)
(* the directive loop over the control comments that survived             *)
(* filtercomments (jsl:ignore / jsl:end / jsl:fallthru / jsl:pass and     *)
(* malformed directives), the deferred parse errors, report()'s           *)
(* withdrawal of warnings against fallthru and pass markers during the    *)
(* traversal, and the leftover markers reported after it.  _report (in     *)
(* _lint_script_parts) filters every diagnostic through the conf and the   *)
(* ignore ranges of the part.                                              *)
(*                                                                         *)
(* Positions are naturals ordered as NodePos is.  A comment is [kind, at]. *)
(* A warning the traversal raises is [errname, lc, at, lo, hi]: at is the  *)
(* position report_lint uses, lc says the node is a block (tok.LC), and    *)
(* (lo, hi) is the window report() searches for a marker: the block's span *)
(* for empty_statement, prevnode.end..node.start for missing_break and     *)
(* node.end..parent.end for missing_break_for_last_case.                   *)
(***************************************************************************)
EXTENDS Integers, Sequences, FiniteSets

CONSTANTS
    Scripts,        \* the parsed parts: [comments, raises, fatal, errors]
    Confs,          \* the possible sets of enabled warning names
    MaxPos          \* positions are 0 .. MaxPos

VARIABLES
    script,         \* this part (fixed for the run)
    enabled,        \* conf[errname] is true exactly for these names
    pc,             \* where _lint_script_part is
    i,              \* the next comment of the directive loop
    start_ignore,   \* start_ignore: the open jsl:ignore's position, 0 = None
    ignores,        \* ignores: the closed (start, end) ranges, in order
    fallthrus,      \* fallthrus: the unconsumed jsl:fallthru positions
    passes,         \* passes: the unconsumed jsl:pass positions
    w,              \* the next warning of the traversal
    raised,         \* history: every diagnostic handed to _report
    emitted,        \* the diagnostics passed on to lint_error
    consumed        \* history: <<marker position, warning index>> withdrawals

vars == <<script, enabled, pc, i, start_ignore, ignores, fallthrus, passes,
          w, raised, emitted, consumed>>

Diag(errname, at, phase) == [errname |-> errname, at |-> at, phase |-> phase]

(***************************************************************************)
(* Plausible faults, used as mutants of the definitions below.             *)
(***************************************************************************)
\* _report without the conf test: a disabled warning is still printed.
Emit_no_conf(d, ign, en) ==
    IF \E k \in DOMAIN ign : ign[k][1] <= d.at /\ d.at <= ign[k][2]
    THEN {} ELSE {d}

\* report() that asks the conf first and searches for a marker only for an
\* enabled warning: a disabled warning leaves its marker in the list.
Markers_conf_first(r) ==
    IF r.errname \notin enabled THEN "none"
    ELSE IF r.errname = "empty_statement" /\ r.lc THEN "pass"
    ELSE IF r.errname \in {"missing_break", "missing_break_for_last_case"} THEN "fallthru"
    ELSE "none"

(***************************************************************************)
(* _report: a disabled warning (conf[errname] false) is dropped, then one  *)
(* lying in an ignore range start <= pos <= end.  Parse errors go through  *)
(* report_native: a name the conf does not know is not dropped by it.      *)
(***************************************************************************)
Emit(d, ign, en) ==
    IF \/ d.errname # "parse_error" /\ d.errname \notin en
       \/ \E k \in DOMAIN ign : ign[k][1] <= d.at /\ d.at <= ign[k][2]
    THEN {} ELSE {d}

\* report_lint / report_native of a set of diagnostics.
Report(ds) ==
    /\ raised' = raised \cup ds
    /\ emitted' = emitted \cup UNION { Emit(d, ignores, enabled) : d \in ds }

\* Which marker list report() searches for a warning.
Markers(r) ==
    IF r.errname = "empty_statement" /\ r.lc THEN "pass"
    ELSE IF r.errname \in {"missing_break", "missing_break_for_last_case"} THEN "fallthru"
    ELSE "none"

\* The first marker of a list strictly inside the warning's window, 0 if none.
FirstInside(list, r) ==
    LET ks == { k \in DOMAIN list : r.lo < list[k] /\ list[k] < r.hi }
    IN  IF ks = {} THEN 0 ELSE CHOOSE k \in ks : \A j \in ks : k <= j

\* report() that forgets to remove the marker it used (a mutant of Remove).
Remove_keep(list, k) == list

Remove(list, k) == SubSeq(list, 1, k - 1) \o SubSeq(list, k + 1, Len(list))

(***************************************************************************)
(* The part.                                                               *)
(***************************************************************************)
Init ==
    /\ script \in Scripts
    /\ enabled \in Confs
    /\ pc = "parse"
    /\ i = 1
    /\ start_ignore = 0
    /\ ignores = <<>>
    /\ fallthrus = <<>>
    /\ passes = <<>>
    /\ w = 1
    /\ raised = {}
    /\ emitted = {}
    /\ consumed = {}

Kept == <<script, enabled>>

\* jsparse.parse returned no tree: the errors collected so far are reported
\* and the part is abandoned, before the directive loop has run.
ParseFails ==
    /\ pc = "parse"
    /\ script.fatal
    /\ Report({ Diag("parse_error", e, "parse") : e \in script.errors })
    /\ pc' = "done"
    /\ UNCHANGED <<Kept, i, start_ignore, ignores, fallthrus, passes, w, consumed>>

\* The parse succeeded; filtercomments left script.comments.
Parsed ==
    /\ pc = "parse"
    /\ ~script.fatal
    /\ pc' = "scan"
    /\ UNCHANGED <<Kept, i, start_ignore, ignores, fallthrus, passes, w, raised, emitted, consumed>>

Comment == script.comments[i]

ScanStep(kind) == pc = "scan" /\ i <= Len(script.comments) /\ Comment.kind = kind

\* Faults in the loop, used as mutants of Ignore and End: a nested ignore
\* that silently restarts the range, and an end without the start_ignore
\* test.
Ignore_overwrite ==
    /\ ScanStep("ignore")
    /\ start_ignore' = Comment.at
    /\ i' = i + 1
    /\ UNCHANGED <<Kept, pc, ignores, fallthrus, passes, w, raised, emitted, consumed>>

End_no_guard ==
    /\ ScanStep("end")
    /\ ignores' = Append(ignores, <<start_ignore, Comment.at>>)
    /\ start_ignore' = 0
    /\ i' = i + 1
    /\ UNCHANGED <<Kept, pc, fallthrus, passes, w, raised, emitted, consumed>>

\* keyword == 'ignore': a second ignore before an end is a mismatch.
Ignore ==
    /\ ScanStep("ignore")
    /\ IF start_ignore # 0
       THEN Report({Diag("mismatch_ctrl_comments", Comment.at, "scan")}) /\ UNCHANGED start_ignore
       ELSE start_ignore' = Comment.at /\ UNCHANGED <<raised, emitted>>
    /\ i' = i + 1
    /\ UNCHANGED <<Kept, pc, ignores, fallthrus, passes, w, consumed>>

\* keyword == 'end': closes the open ignore into a range, else a mismatch.
End ==
    /\ ScanStep("end")
    /\ IF start_ignore # 0
       THEN /\ ignores' = Append(ignores, <<start_ignore, Comment.at>>)
            /\ start_ignore' = 0
            /\ UNCHANGED <<raised, emitted>>
       ELSE Report({Diag("mismatch_ctrl_comments", Comment.at, "scan")})
              /\ UNCHANGED <<ignores, start_ignore>>
    /\ i' = i + 1
    /\ UNCHANGED <<Kept, pc, fallthrus, passes, w, consumed>>

\* keyword == 'fallthru' / 'pass': remember the marker.
Fallthru ==
    /\ ScanStep("fallthru")
    /\ fallthrus' = Append(fallthrus, Comment.at)
    /\ i' = i + 1
    /\ UNCHANGED <<Kept, pc, start_ignore, ignores, passes, w, raised, emitted, consumed>>

Pass ==
    /\ ScanStep("pass")
    /\ passes' = Append(passes, Comment.at)
    /\ i' = i + 1
    /\ UNCHANGED <<Kept, pc, start_ignore, ignores, fallthrus, w, raised, emitted, consumed>>

\* A directive that is not understood (jsl:declare or jsl:unused with a
\* non-identifier, or a jsl: comment with no known keyword).
NotUnderstood ==
    /\ ScanStep("bad")
    /\ Report({Diag("jsl_cc_not_understood", Comment.at, "scan")})
    /\ i' = i + 1
    /\ UNCHANGED <<Kept, pc, start_ignore, ignores, fallthrus, passes, w, consumed>>

\* The loop's epilogue forgetting the ignore still open (a mutant of EndScan).
EndScan_forget_unclosed ==
    /\ pc = "scan"
    /\ i > Len(script.comments)
    /\ Report({ Diag("parse_error", e, "errors") : e \in script.errors })
    /\ pc' = "traverse"
    /\ UNCHANGED <<Kept, i, start_ignore, ignores, fallthrus, passes, w, consumed>>

\* After the loop: an unclosed ignore is a mismatch, then the parse errors
\* held back "until loading jsl:ignore directives" are reported.
EndScan ==
    /\ pc = "scan"
    /\ i > Len(script.comments)
    /\ Report((IF start_ignore # 0 THEN {Diag("mismatch_ctrl_comments", start_ignore, "scan")} ELSE {})
                 \cup { Diag("parse_error", e, "errors") : e \in script.errors })
    /\ pc' = "traverse"
    /\ UNCHANGED <<Kept, i, start_ignore, ignores, fallthrus, passes, w, consumed>>

Warning == script.raises[w]

\* A visitor raised a warning and report() found a marker in its window:
\* the marker is removed and nothing is reported.
Withdraw ==
    /\ pc = "traverse"
    /\ w <= Len(script.raises)
    /\ \/ /\ Markers(Warning) = "pass"
          /\ FirstInside(passes, Warning) # 0
          /\ passes' = Remove(passes, FirstInside(passes, Warning))
          /\ consumed' = consumed \cup {<<passes[FirstInside(passes, Warning)], w>>}
          /\ UNCHANGED fallthrus
       \/ /\ Markers(Warning) = "fallthru"
          /\ FirstInside(fallthrus, Warning) # 0
          /\ fallthrus' = Remove(fallthrus, FirstInside(fallthrus, Warning))
          /\ consumed' = consumed \cup {<<fallthrus[FirstInside(fallthrus, Warning)], w>>}
          /\ UNCHANGED passes
    /\ w' = w + 1
    /\ UNCHANGED <<Kept, pc, i, start_ignore, ignores, raised, emitted>>

\* A visitor raised a warning and no marker withdraws it: report_lint.
Raise ==
    /\ pc = "traverse"
    /\ w <= Len(script.raises)
    /\ \/ Markers(Warning) = "none"
       \/ Markers(Warning) = "pass" /\ FirstInside(passes, Warning) = 0
       \/ Markers(Warning) = "fallthru" /\ FirstInside(fallthrus, Warning) = 0
    /\ Report({Diag(Warning.errname, Warning.at, "traverse")})
    /\ w' = w + 1
    /\ UNCHANGED <<Kept, pc, i, start_ignore, ignores, fallthrus, passes, consumed>>

\* After _lint_node: every marker left is reported where it stands.
EndTraverse ==
    /\ pc = "traverse"
    /\ w > Len(script.raises)
    /\ Report({ Diag("invalid_fallthru", fallthrus[k], "leftover") : k \in DOMAIN fallthrus }
                 \cup { Diag("invalid_pass", passes[k], "leftover") : k \in DOMAIN passes })
    /\ pc' = "done"
    /\ UNCHANGED <<Kept, i, start_ignore, ignores, fallthrus, passes, w, consumed>>

Next ==
    \/ ParseFails \/ Parsed
    \/ Ignore \/ End \/ Fallthru \/ Pass \/ NotUnderstood \/ EndScan
    \/ Withdraw \/ Raise \/ EndTraverse

Spec == Init /\ [][Next]_vars
(***************************************************************************)
(* Reference: what spec.md 4.4 says the directives mean, stated over the  *)
(* whole comment sequence rather than the loop.                            *)
(***************************************************************************)
\* An ignore opens a range when every earlier ignore was closed before it.
Opens(cs, a) ==
    /\ cs[a].kind = "ignore"
    /\ \A c \in 1 .. a - 1 :
         cs[c].kind = "ignore" => \E e \in c + 1 .. a - 1 : cs[e].kind = "end"

\* The range an opening ignore forms with the first end after it.
Pairs(cs) ==
    { <<a, b>> \in (DOMAIN cs) \X (DOMAIN cs) :
        /\ a < b /\ Opens(cs, a) /\ cs[b].kind = "end"
        /\ \A e \in a + 1 .. b - 1 : cs[e].kind # "end" }

PairedRanges(cs) == { <<cs[p[1]].at, cs[p[2]].at>> : p \in Pairs(cs) }

\* ignore and end comments that belong to no pair.
Unpaired(cs) ==
    { cs[k].at : k \in { k \in DOMAIN cs : /\ cs[k].kind \in {"ignore", "end"}
                                           /\ \A p \in Pairs(cs) : k \notin {p[1], p[2]} } }

InRanges(at, R) == \E r \in R : r[1] <= at /\ at <= r[2]

\* The markers that may withdraw a warning (spec.md 4.7): a jsl:pass inside
\* an empty block, a jsl:fallthru between the case boundaries.
MarkerFor(r) ==
    { m \in {"pass", "fallthru"} :
        \/ m = "pass" /\ r.errname = "empty_statement" /\ r.lc
        \/ m = "fallthru" /\ r.errname \in {"missing_break", "missing_break_for_last_case"} }

MarkerComments == { c \in { script.comments[k] : k \in DOMAIN script.comments } :
                      c.kind \in {"fallthru", "pass"} }

Warned(at, names) == \E d \in raised : d.at = at /\ d.errname \in names

(***************************************************************************)
(* Properties.                                                             *)
(***************************************************************************)
TypeOK ==
    /\ pc \in {"parse", "scan", "traverse", "done"}
    /\ start_ignore \in 0 .. MaxPos
    /\ ignores \in Seq({ r \in (1 .. MaxPos) \X (1 .. MaxPos) : r[1] < r[2] })
    /\ fallthrus \in Seq(1 .. MaxPos)
    /\ passes \in Seq(1 .. MaxPos)
    /\ emitted \subseteq raised

\* The ranges the directive loop builds, one jsl:ignore at a time with
\* start_ignore carried between iterations, are exactly the
\* one-to-one ignore/end pairs of the part.
IgnoresMatchPairing ==
    (pc \in {"traverse", "done"} /\ ~script.fatal)
      => { ignores[k] : k \in DOMAIN ignores } = PairedRanges(script.comments)

\* Every ignore or end left out of a pair gets exactly one
\* mismatch_ctrl_comments, whether it is a nested ignore, a stray end or
\* an ignore still open when the loop ends; paired ones get none.
MismatchAccounting ==
    (pc = "done" /\ ~script.fatal)
      => { d.at : d \in { d \in raised : d.errname = "mismatch_ctrl_comments" } }
           = Unpaired(script.comments)

\* report() withdraws a missing_break, missing_break_for_last_case or
\* empty-block warning against its marker (lint.py 349-377) before
\* _report asks the conf (523-526): the first marker of the right kind
\* strictly inside the window of a warning the traversal raised is used
\* up and never reported invalid_fallthru / invalid_pass, whether or not
\* that warning is enabled.
MarkerUsedWhateverConf ==
    (pc = "done" /\ ~script.fatal)
      => \A k \in DOMAIN script.raises :
           LET r == script.raises[k]
               inside == { c \in MarkerComments :
                             c.kind \in MarkerFor(r) /\ r.lo < c.at /\ c.at < r.hi }
           IN  inside # {} =>
                 LET first == CHOOSE c \in inside : \A d \in inside : c.at <= d.at
                 IN  ~Warned(first.at, {"invalid_fallthru", "invalid_pass"})

\* Each fallthru or pass marker is used once: it withdraws exactly one
\* warning, or it is reported invalid_fallthru / invalid_pass, never both.
MarkerFateUnique ==
    (pc = "done" /\ ~script.fatal)
      => \A c \in MarkerComments :
           Cardinality({ k \in DOMAIN script.raises : <<c.at, k>> \in consumed })
             + (IF Warned(c.at, {"invalid_fallthru", "invalid_pass"}) THEN 1 ELSE 0) = 1

\* Every diagnostic reported once the directive loop is over (the held
\* back parse errors, the traversal's warnings, the leftover markers) is
\* printed exactly when its kind is enabled and it lies in no ignore range.
PostScanSuppressed ==
    \A d \in raised :
      d.phase \in {"errors", "traverse", "leftover"}
        => (d \in emitted <=> /\ (d.errname \in enabled \/ d.errname = "parse_error")
                              /\ ~InRanges(d.at, PairedRanges(script.comments)))

\* spec.md 4.4 / 7 / 8: no diagnostic inside a jsl:ignore ... jsl:end range
\* is ever printed (including a fatal parse error: "ignore ranges captured
\* before failure still suppress them").
IgnoreRangesSuppress ==
    \A d \in emitted : ~InRanges(d.at, PairedRanges(script.comments))
=============================================================================
