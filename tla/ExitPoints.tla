----------------------------- MODULE ExitPoints -----------------------------
(***************************************************************************)
(* warnings.py _get_exit_points: the set of ways control can leave a       *)
(* statement subtree, and a reference completion semantics it is checked   *)
(* against.                                                                *)
(*                                                                         *)
(* A syntax tree is a nested record [kind, kids, flag]; an absent child    *)
(* (a None kid in the parse tree) is NONE.  A node is named by its path,   *)
(* the sequence of kid indices from the root, which is unique, so a set of *)
(* exit-point nodes is a set of paths.  Shapes follow the parse tree:      *)
(*   LC      kids = statements                                             *)
(*   IF      kids = <<then, else or NONE>>   (the condition is abstracted) *)
(*   SWITCH  kids = <<LC of CASE/DEFAULT>>   (the discriminant abstracted) *)
(*   CASE, DEFAULT  kids = <<LC body>>       (the case value abstracted)   *)
(*   TRY     kids = <<LC, catch LC or NONE, finally LC or NONE>>           *)
(*           (the RESERVED/LEXICALSCOPE/CATCH wrapper of the catch block   *)
(*           that the code unwraps is abstracted to the block itself)      *)
(*   WITH    kids = <<body>>                                               *)
(*   DO      kids = <<body, EXPR condition>>                               *)
(*   FOR     kids = <<preamble, body>>; the preamble of for(;;) is         *)
(*           RESERVED with kids <<init, condition, update>> (each EXPR or  *)
(*           NONE), that of for-in is IN with kids <<EXPR, EXPR>>          *)
(*   RETURN  kids = <<EXPR or NONE>>         (return with/without a value) *)
(*   VAR     kids = <<EXPR initialiser or NONE>>                           *)
(*   FUNCTION kids = <<LC body>>, flag = it has a name                     *)
(*   BREAK, CONTINUE, THROW, SEMI (expression statement), EXPR: no kids    *)
(***************************************************************************)
EXTENDS Integers, Sequences

Mk(kind, kids, flag) == [kind |-> kind, kids |-> kids, flag |-> flag]
NONE == Mk("NONE", <<>>, FALSE)
EXPR == Mk("EXPR", <<>>, FALSE)

RECURSIVE NodeAt(_, _)
NodeAt(t, p) == IF p = <<>> THEN t ELSE NodeAt(t.kids[Head(p)], Tail(p))

Kid(p, k) == Append(p, k)

\* Python's None exit point ("falls through"): a path no node has.
None == <<0>>

IsKind(t, e, kinds) == e # None /\ NodeAt(t, e).kind \in kinds

(***************************************************************************)
(* _get_exit_points, one branch per node kind.                             *)
(***************************************************************************)
RECURSIVE ExitPoints(_, _), BlockExits(_, _, _, _), SwitchExits(_, _), TryExits(_, _)

\* A fault a switch could plausibly have: forgetting that with no default
\* case no case may match, so the switch may complete normally.
SwitchExits_ignore_default(t, p) ==
    LET cases == NodeAt(t, Kid(p, 1)).kids
        casePath(k) == Kid(Kid(Kid(p, 1), k), 1)
        caseExits == UNION { ExitPoints(t, casePath(k)) : k \in DOMAIN cases }
        finalFallthru == cases = <<>> \/ None \in ExitPoints(t, casePath(Len(cases)))
    IN  { IF IsKind(t, e, {"BREAK"}) THEN None ELSE e : e \in caseExits \ {None} }
          \cup (IF finalFallthru THEN {None} ELSE {})

\* tok.LC: fold the kids' exit points in order; stop at the first kid that
\* always exits, dropping None.
BlockExits(t, p, k, acc) ==
    IF k > Len(NodeAt(t, p).kids) THEN acc
    ELSE IF NodeAt(t, Kid(p, k)).kind = "NONE" THEN BlockExits(t, p, k + 1, acc)
    ELSE LET e == ExitPoints(t, Kid(p, k))
         IN  IF None \notin e THEN (acc \cup e) \ {None}
                              ELSE BlockExits(t, p, k + 1, acc \cup e)

\* tok.SWITCH: the union of the case bodies' exits without None, every
\* break turned into None; None again if there is no default case or the
\* last case body falls through.
SwitchExits(t, p) ==
    LET cases == NodeAt(t, Kid(p, 1)).kids
        casePath(k) == Kid(Kid(Kid(p, 1), k), 1)
        caseExits == UNION { ExitPoints(t, casePath(k)) : k \in DOMAIN cases }
        hasDefault == \E k \in DOMAIN cases : cases[k].kind = "DEFAULT"
        finalFallthru == cases = <<>> \/ None \in ExitPoints(t, casePath(Len(cases)))
    IN  { IF IsKind(t, e, {"BREAK"}) THEN None ELSE e : e \in caseExits \ {None} }
          \cup (IF ~hasDefault \/ finalFallthru THEN {None} ELSE {})

\* tok.TRY: try and catch exits; a finally that can complete adds its other
\* exits, a finally that cannot replaces their None.
TryExits(t, p) ==
    LET n == NodeAt(t, p)
        tryCatch == ExitPoints(t, Kid(p, 1))
                      \cup (IF n.kids[2].kind # "NONE" THEN ExitPoints(t, Kid(p, 2)) ELSE {})
        fin == ExitPoints(t, Kid(p, 3))
    IN  IF n.kids[3].kind = "NONE" THEN tryCatch
        ELSE IF None \in fin THEN tryCatch \cup (fin \ {None})
        ELSE (tryCatch \ {None}) \cup fin

\* _get_exit_points, one branch per node kind.
ExitPoints(t, p) ==
  LET n == NodeAt(t, p)
  IN CASE n.kind = "LC"     -> BlockExits(t, p, 1, {None})
       [] n.kind = "IF"     -> ExitPoints(t, Kid(p, 1))
                                 \cup (IF n.kids[2].kind # "NONE"
                                       THEN ExitPoints(t, Kid(p, 2)) ELSE {None})
       [] n.kind = "SWITCH" -> SwitchExits(t, p)
       [] n.kind \in {"BREAK", "RETURN", "THROW"} -> {p}
       [] n.kind = "WITH"   -> ExitPoints(t, Kid(p, Len(n.kids)))
       [] n.kind = "TRY"    -> TryExits(t, p)
       [] OTHER             -> {None}

(***************************************************************************)
(* Reference: the completions a statement can really have, in the          *)
(* ECMAScript sense, when any expression statement may throw.  A           *)
(* completion is None (normal), the path of the BREAK, CONTINUE, RETURN or *)
(* THROW that ends it, or the path of a SEMI that threw implicitly.        *)
(***************************************************************************)
RECURSIVE Completions(_, _), RunFrom(_, _, _), CaseRun(_, _, _)

\* Statements k.. of a block run in order while each completes normally.
RunFrom(t, p, k) ==
    IF k > Len(NodeAt(t, p).kids) THEN {None}
    ELSE IF NodeAt(t, Kid(p, k)).kind = "NONE" THEN RunFrom(t, p, k + 1)
    ELSE LET c == Completions(t, Kid(p, k))
         IN  (c \ {None}) \cup (IF None \in c THEN RunFrom(t, p, k + 1) ELSE {})

\* Entering a switch at case k runs the case bodies k.. in order.
CaseRun(t, p, k) ==
    LET cases == NodeAt(t, Kid(p, 1)).kids
    IN  IF k > Len(cases) THEN {None}
        ELSE LET c == Completions(t, Kid(Kid(Kid(p, 1), k), 1))
             IN  (c \ {None}) \cup (IF None \in c THEN CaseRun(t, p, k + 1) ELSE {})

Completions(t, p) ==
  LET n == NodeAt(t, p)
      cases == NodeAt(t, Kid(p, 1)).kids
      entered == UNION { CaseRun(t, p, k) : k \in DOMAIN cases }
                   \cup (IF \E k \in DOMAIN cases : cases[k].kind = "DEFAULT"
                         THEN {} ELSE {None})
      body == Completions(t, Kid(p, 1))
      thrown == { e \in body : IsKind(t, e, {"THROW", "SEMI"}) }
      caught == IF n.kids[2].kind = "NONE" THEN body
                ELSE (body \ thrown)
                       \cup (IF thrown # {} THEN Completions(t, Kid(p, 2)) ELSE {})
      fin == Completions(t, Kid(p, 3))
  IN CASE n.kind = "LC"     -> RunFrom(t, p, 1)
       [] n.kind = "IF"     -> Completions(t, Kid(p, 1))
                                 \cup (IF n.kids[2].kind # "NONE"
                                       THEN Completions(t, Kid(p, 2)) ELSE {None})
       [] n.kind = "SWITCH" ->
            { IF IsKind(t, e, {"BREAK"}) THEN None ELSE e : e \in entered }
       [] n.kind \in {"BREAK", "CONTINUE", "RETURN", "THROW"} -> {p}
       [] n.kind = "SEMI"   -> {None, p}
       [] n.kind = "WITH"   -> Completions(t, Kid(p, 1))
       [] n.kind = "DO"     ->
            { e \in body : IsKind(t, e, {"RETURN", "THROW", "SEMI"}) }
              \cup (IF \E e \in body : e = None \/ IsKind(t, e, {"BREAK", "CONTINUE"})
                    THEN {None} ELSE {})
       [] n.kind = "FOR"    ->
            LET loop == Completions(t, Kid(p, 2))
                pre  == n.kids[1]
            IN  { e \in loop : IsKind(t, e, {"RETURN", "THROW", "SEMI"}) }
                  \cup (IF \/ pre.kind = "IN" \/ pre.kids[2].kind # "NONE"
                           \/ \E e \in loop : IsKind(t, e, {"BREAK"})
                        THEN {None} ELSE {})
       [] n.kind = "TRY"    ->
            IF n.kids[3].kind = "NONE" THEN caught
            ELSE (IF None \in fin THEN caught ELSE {}) \cup (fin \ {None})
       [] OTHER             -> {None}

\* A completion as an exit point can name it: a continue leaves a case
\* body the way falling through does, and an implicit throw has no node.
AsExitPoint(t, c) ==
    { IF IsKind(t, e, {"CONTINUE"}) THEN None ELSE e :
        e \in { e \in c : ~IsKind(t, e, {"SEMI"}) } }

\* Statement completions that can reach the statement after it.
CanFallThrough(t, p) == None \in Completions(t, p)

(***************************************************************************)
(* Reachability of a node in the reference semantics (function bodies are *)
(* taken as reachable: the function may be called).                       *)
(***************************************************************************)
RECURSIVE Reach(_, _)
Reach(t, p) ==
  IF p = <<>> THEN TRUE
  ELSE LET q == SubSeq(p, 1, Len(p) - 1)
           k == p[Len(p)]
           parent == NodeAt(t, q)
       IN  CASE parent.kind = "FUNCTION" -> TRUE
             [] parent.kind = "LC" ->
                  /\ Reach(t, q)
                  /\ \A j \in 1 .. k - 1 :
                       parent.kids[j].kind = "NONE" \/ CanFallThrough(t, Kid(q, j))
             [] parent.kind = "DO" /\ k = 2 ->
                  /\ Reach(t, q)
                  /\ \E e \in Completions(t, Kid(q, 1)) :
                       e = None \/ IsKind(t, e, {"CONTINUE"})
             [] parent.kind = "RESERVED" /\ k = 3 ->
                  /\ Reach(t, q)
                  /\ \E e \in Completions(t, Kid(SubSeq(p, 1, Len(p) - 2), 2)) :
                       e = None \/ IsKind(t, e, {"CONTINUE"})
             [] parent.kind = "TRY" /\ k = 2 ->
                  /\ Reach(t, q)
                  /\ \E e \in Completions(t, Kid(q, 1)) : IsKind(t, e, {"THROW", "SEMI"})
             [] OTHER -> Reach(t, q)
=============================================================================
