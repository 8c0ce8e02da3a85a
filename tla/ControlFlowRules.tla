-------------------------- MODULE ControlFlowRules --------------------------
(***************************************************************************)
(* lint.py _lint_node driving the warnings.py rules that use exit points: *)
(* missing_break, missing_break_for_last_case, unreachable_code (after a   *)
(* jump, the do-while condition, the for update), no_return_value and      *)
(* anon_no_return_value.                                                   *)
(*                                                                         *)
(* _lint_node is a depth-first recursion: the 'push' visitors of a node    *)
(* run, then its non-None kids are linted in order, then its 'pop'         *)
(* visitors.  The recursion is kept as an explicit stack of frames         *)
(* [path, kid] (kid = index of the last kid descended into).  Each rule    *)
(* that raises LintWarning adds a diagnostic [warning, node] to reported;  *)
(* 'at' records which node's visitor raised it.                            *)
(***************************************************************************)
EXTENDS Integers, Sequences, ExitPoints

CONSTANT Trees              \* the parse trees the engine may be handed

VARIABLES tree, stack, reported

vars == <<tree, stack, reported>>

Diag(w, node, at) == [warning |-> w, node |-> node, at |-> at]

Parent(p) == SubSeq(p, 1, Len(p) - 1)
Index(p)  == p[Len(p)]

(***************************************************************************)
(* The rules, each the set of diagnostics its visitor raises at node p.    *)
(***************************************************************************)
(***************************************************************************)
(* Plausible faults in the rules, used as mutants of the definitions below.*)
(***************************************************************************)
\* missing_break raised at the case itself rather than at the next one.
missing_break_at_self(t, p) ==
    IF /\ Index(p) # Len(NodeAt(t, Parent(p)).kids)
       /\ NodeAt(t, Kid(p, 1)).kids # <<>>
       /\ None \in ExitPoints(t, Kid(p, 1))
    THEN {Diag("missing_break", p, p)} ELSE {}

\* missing_break without its "the last item is handled separately" return.
missing_break_no_last_guard(t, p) ==
    IF NodeAt(t, Kid(p, 1)).kids # <<>> /\ None \in ExitPoints(t, Kid(p, 1))
    THEN {Diag("missing_break", Kid(Parent(p), Index(p) + 1), p)} ELSE {}

\* unreachable_code without the "parent is a block" test.
unreachable_code_any_parent(t, p) ==
    LET q == Parent(p)
        siblings == NodeAt(t, q).kids
        later == { j \in Index(p) + 1 .. Len(siblings) :
                     ~ (siblings[j].kind = "FUNCTION"
                        \/ (siblings[j].kind = "VAR" /\ siblings[j].kids[1].kind = "NONE")) }
        first == CHOOSE j \in later : \A i \in later : j <= i
    IN  IF p # <<>> /\ later # {}
        THEN {Diag("unreachable_code", Kid(q, first), p)}
        ELSE {}

\* The do-while rule firing whenever the body has any jump out of it.
unreachable_code_do_any_jump(t, p) ==
    IF ExitPoints(t, Kid(p, 1)) # {None}
    THEN {Diag("unreachable_code", Kid(p, 2), p)} ELSE {}

\* The for rule reading the preamble's kids in the wrong order (pre, post,
\* condition), so it warns at the condition.
unreachable_code_for_swapped(t, p) ==
    LET preamble == NodeAt(t, Kid(p, 1))
    IN  IF /\ preamble.kind = "RESERVED"
           /\ preamble.kids[2].kind # "NONE"
           /\ None \notin ExitPoints(t, Kid(p, 2))
        THEN {Diag("unreachable_code", Kid(Kid(p, 1), 2), p)} ELSE {}

\* missing_break, on CASE/DEFAULT: not the last case, body not empty, body
\* may fall through: warn at the *next* case.
missing_break(t, p) ==
    LET siblings == NodeAt(t, Parent(p)).kids
        body == Kid(p, 1)
    IN  IF /\ Index(p) # Len(siblings)
           /\ NodeAt(t, body).kids # <<>>
           /\ None \in ExitPoints(t, body)
        THEN {Diag("missing_break", Kid(Parent(p), Index(p) + 1), p)}
        ELSE {}

\* missing_break_for_last_case: the last case may fall out of the switch.
missing_break_for_last_case(t, p) ==
    LET siblings == NodeAt(t, Parent(p)).kids
    IN  IF Index(p) = Len(siblings) /\ None \in ExitPoints(t, Kid(p, 1))
        THEN {Diag("missing_break_for_last_case", p, p)}
        ELSE {}

\* unreachable_code on BREAK/CONTINUE/RETURN/THROW whose parent is a block:
\* the first later sibling that is neither a function nor a var without an
\* initialiser (a var with one is reported at the initialiser).
unreachable_code(t, p) ==
    LET q == Parent(p)
        siblings == NodeAt(t, q).kids
        later == { j \in Index(p) + 1 .. Len(siblings) :
                     ~ (siblings[j].kind = "FUNCTION"
                        \/ (siblings[j].kind = "VAR" /\ siblings[j].kids[1].kind = "NONE")) }
        first == CHOOSE j \in later : \A i \in later : j <= i
    IN  IF p # <<>> /\ NodeAt(t, q).kind = "LC" /\ later # {}
        THEN {Diag("unreachable_code",
                   IF siblings[first].kind = "VAR" THEN Kid(Kid(q, first), 1)
                                                    ELSE Kid(q, first), p)}
        ELSE {}

\* unreachable_code__ on DO: the loop body always exits, so the condition
\* is never evaluated.
unreachable_code_do(t, p) ==
    IF None \notin ExitPoints(t, Kid(p, 1))
    THEN {Diag("unreachable_code", Kid(p, 2), p)} ELSE {}

\* unreachable_code_ on FOR: a for(;;) loop with an update expression whose
\* body always exits, so the update never runs.  for-in has no update.
unreachable_code_for(t, p) ==
    LET preamble == NodeAt(t, Kid(p, 1))
    IN  IF /\ preamble.kind = "RESERVED"
           /\ preamble.kids[3].kind # "NONE"
           /\ None \notin ExitPoints(t, Kid(p, 2))
        THEN {Diag("unreachable_code", Kid(Kid(p, 1), 3), p)} ELSE {}

\* Node order of start positions: a parent precedes its kids, kids in order.
RECURSIVE Before(_, _)
Before(a, b) ==
    \/ a = <<>> /\ b # <<>>
    \/ /\ a # <<>> /\ b # <<>>
       /\ \/ Head(a) < Head(b)
          \/ Head(a) = Head(b) /\ Before(Tail(a), Tail(b))

\* _check_return_value without its "sometimes exits naturally" branch.
check_return_value_no_fallout(t, p, w) ==
    LET exits == ExitPoints(t, Kid(p, 1))
        withVal == { e \in exits : IsKind(t, e, {"RETURN"}) /\ NodeAt(t, e).kids[1].kind # "NONE" }
        without == { e \in exits : IsKind(t, e, {"RETURN"}) /\ NodeAt(t, e).kids[1].kind = "NONE" }
    IN  IF withVal # {} /\ without # {}
        THEN {Diag(w, CHOOSE e \in without : TRUE, p)} ELSE {}

\* _check_return_value: if some exit returns a value, warn at the earliest
\* return without one, else at the body if the body can fall off its end.
check_return_value(t, p, w) ==
    LET body == Kid(p, 1)
        exits == ExitPoints(t, body)
        withVal == { e \in exits : IsKind(t, e, {"RETURN"}) /\ NodeAt(t, e).kids[1].kind # "NONE" }
        without == { e \in exits : IsKind(t, e, {"RETURN"}) /\ NodeAt(t, e).kids[1].kind = "NONE" }
        first == CHOOSE e \in without : \A f \in without \ {e} : Before(e, f)
    IN  IF withVal = {} THEN {}
        ELSE IF without # {} THEN {Diag(w, first, p)}
        ELSE IF None \in exits THEN {Diag(w, body, p)}
        ELSE {}

\* All push visitors of the node at p, as registered for its kind.
PushVisitors(t, p) ==
    LET kind == NodeAt(t, p).kind
    IN  CASE kind \in {"CASE", "DEFAULT"} ->
               missing_break(t, p) \cup missing_break_for_last_case(t, p)
          [] kind \in {"BREAK", "CONTINUE", "RETURN", "THROW"} -> unreachable_code(t, p)
          [] kind = "DO" -> unreachable_code_do(t, p)
          [] kind = "FOR" -> unreachable_code_for(t, p)
          [] kind = "FUNCTION" /\ NodeAt(t, p).flag -> check_return_value(t, p, "no_return_value")
          [] kind = "FUNCTION" -> check_return_value(t, p, "anon_no_return_value")
          [] OTHER -> {}

(***************************************************************************)
(* The traversal.                                                          *)
(***************************************************************************)
Frame(p) == [path |-> p, kid |-> 0]

\* _lint_node(root): the root's push visitors have run.
Init ==
    /\ tree \in Trees
    /\ stack = <<Frame(<<>>)>>
    /\ reported = PushVisitors(tree, <<>>)

\* The next non-None kid of the top frame's node, 0 if there is none.
NextKid(f) ==
    LET kids == NodeAt(tree, f.path).kids
        rest == { k \in f.kid + 1 .. Len(kids) : kids[k].kind # "NONE" }
    IN  IF rest = {} THEN 0 ELSE CHOOSE k \in rest : \A i \in rest : k <= i

\* for child in node.kids: if child: _lint_node(child) -- descend into the
\* next child and run its push visitors.
Descend ==
    /\ stack # <<>>
    /\ LET f == stack[Len(stack)]
           k == NextKid(f)
       IN  /\ k # 0
           /\ stack' = Append([stack EXCEPT ![Len(stack)].kid = k], Frame(Kid(f.path, k)))
           /\ reported' = reported \cup PushVisitors(tree, Kid(f.path, k))
    /\ UNCHANGED tree

\* All kids linted: the node's pop visitors run (none of these rules has
\* one) and _lint_node returns.
Ascend ==
    /\ stack # <<>>
    /\ NextKid(stack[Len(stack)]) = 0
    /\ stack' = SubSeq(stack, 1, Len(stack) - 1)
    /\ UNCHANGED <<tree, reported>>

Next == Descend \/ Ascend

Spec == Init /\ [][Next]_vars

Done == stack = <<>>

(***************************************************************************)
(* Properties.                                                             *)
(***************************************************************************)
RECURSIVE PathsOf(_, _)
PathsOf(n, p) ==
    IF n.kind = "NONE" THEN {}
    ELSE {p} \cup UNION { PathsOf(n.kids[k], Kid(p, k)) : k \in DOMAIN n.kids }

Nodes == PathsOf(tree, <<>>)
Statements == { p \in Nodes : p # <<>> /\ NodeAt(tree, Parent(p)).kind = "LC" }

TypeOK ==
    /\ stack \in Seq([path : Seq(Nat), kid : Nat])
    /\ \A d \in reported : d.node \in Nodes /\ d.at \in Nodes

\* _get_exit_points never misses a way out: every completion a statement
\* can really have (other than an implicit throw) is one of its exit
\* points.  Missing one would silence missing_break and no_return_value.
ExitPointsSound ==
    Done => \A p \in Statements : AsExitPoint(tree, Completions(tree, p)) \subseteq ExitPoints(tree, p)

\* When the traversal is over, every case whose non-empty body can really
\* run into the next case has a missing_break at that next case, and a
\* last case that can fall out of the switch has missing_break_for_last_case.
FallthroughReported ==
    Done =>
      \A p \in Nodes :
        NodeAt(tree, p).kind \in {"CASE", "DEFAULT"} =>
          LET n == Len(NodeAt(tree, Parent(p)).kids)
          IN  /\ (Index(p) < n /\ NodeAt(tree, Kid(p, 1)).kids # <<>>
                  /\ CanFallThrough(tree, Kid(p, 1)))
                   => Diag("missing_break", Kid(Parent(p), Index(p) + 1), p) \in reported
              /\ (Index(p) = n /\ CanFallThrough(tree, Kid(p, 1)))
                   => Diag("missing_break_for_last_case", p, p) \in reported

\* spec.md 4.6: a function "whose body both returns a value on some path and
\* completes/returns void on another" gets (anon_)no_return_value.
ReturnValueReported ==
    Done =>
      \A p \in Nodes :
        NodeAt(tree, p).kind = "FUNCTION" =>
          LET c == Completions(tree, Kid(p, 1))
              ret(v) == \E e \in c : IsKind(tree, e, {"RETURN"})
                                     /\ (NodeAt(tree, e).kids[1].kind # "NONE") = v
          IN  (ret(TRUE) /\ (ret(FALSE) \/ None \in c))
                => \E d \in reported : d.at = p
                                       /\ d.warning \in {"no_return_value", "anon_no_return_value"}

\* Every unreachable_code diagnostic points at code that really can never
\* run, whichever visitor (jump or do-while) raised it.
UnreachableIsUnreachable ==
    Done => \A d \in reported : d.warning = "unreachable_code" => ~Reach(tree, d.node)

\* spec.md 4.6: "unreachable-code-after-exit (a statement following one
\* whose exit-point set excludes null)" is reported.
UnreachableAfterExitReported ==
    Done =>
      \A p \in Statements :
        (/\ Index(p) > 1
         /\ None \notin ExitPoints(tree, Kid(Parent(p), Index(p) - 1))
         /\ NodeAt(tree, p).kind \notin {"FUNCTION", "VAR"})
          => \E d \in reported : d.warning = "unreachable_code" /\ d.node = p
=============================================================================
