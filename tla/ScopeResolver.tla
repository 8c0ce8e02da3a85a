---------------------------- MODULE ScopeResolver ----------------------------
(***************************************************************************)
(* lint.py's scope resolver for one script: the Scope class (add_scope,    *)
(* add_declaration, add_reference, set_unused, resolve_identifier,         *)
(* find_scope, _find_warnings), the scope_checks visitors that build the   *)
(* scope tree during _lint_node, _warn_or_declare, the jsl:declare and     *)
(* jsl:unused directives applied after the traversal, and the scope        *)
(* warnings _lint_script_parts reports afterwards.                         *)
(*                                                                         *)
(* A node is a record [kind, kids, atom, args]; atom is a NAME's name or a *)
(* FUNCTION's fn_name ("" if anonymous), args a FUNCTION's fn_args.  A     *)
(* node is named by its path of kid indices.  A scope is named by the path *)
(* of the node that owns it; the outer scope, which has no node, by <<>>   *)
(* (the script's root is an LC, never a scope node).  A jsl:declare or     *)
(* jsl:unused comment is a leaf of kind DECLARE or UNUSED at the place it  *)
(* sits; no visitor looks at it.                                           *)
(***************************************************************************)
EXTENDS Integers, SequencesExt

CONSTANTS Trees,          \* the parse trees of the script
          Builtins,       \* lint.py _globals
          Declarations    \* conf['declarations']

VARIABLES tree, stack, scopes, parent, idents, refs, unused, i, pc,
          reported, emitted

vars == <<tree, stack, scopes, parent, idents, refs, unused, i, pc,
          reported, emitted>>

Root == <<>>
ScopeKinds == {"FUNCTION", "LEXICALSCOPE", "WITH"}

RECURSIVE NodeAt(_, _)
NodeAt(t, p) == IF p = <<>> THEN t ELSE NodeAt(t.kids[Head(p)], Tail(p))

Kid(p, k) == Append(p, k)
Parent(p) == SubSeq(p, 1, Len(p) - 1)
Index(p)  == p[Len(p)]
Kind(p)   == NodeAt(tree, p).kind

Diag(errname, name, node) == [errname |-> errname, name |-> name, node |-> node]
Info(node, type) == [node |-> node, type |-> type]
NoScope == [scope |-> <<0>>, node |-> <<0>>]

RECURSIVE PathsOf(_, _)
PathsOf(n, p) ==
    IF n.kind = "NONE" THEN {}
    ELSE {p} \cup UNION { PathsOf(n.kids[k], Kid(p, k)) : k \in DOMAIN n.kids }

Nodes == PathsOf(tree, <<>>)

\* Document order of nodes: a node precedes its kids, kids are in order.
PathLess(p, q) ==
    \/ IsStrictPrefix(p, q)
    \/ \E k \in 1 .. Len(p) : k <= Len(q) /\ SubSeq(p, 1, k - 1) = SubSeq(q, 1, k - 1)
                                          /\ p[k] < q[k]

\* The directive loop's declares / unused_identifiers lists, in document order.
CommentsOf(kind) ==
    LET S == { p \in Nodes : Kind(p) = kind }
    IN  SetToSortSeq(S, PathLess)

(***************************************************************************)
(* Scope (lint.py 81-220).                                                 *)
(***************************************************************************)
\* A fault: resolve_identifier that forgets to ask the parent scope.
resolve_identifier_self_only(s, name) ==
    IF name \in DOMAIN idents[s] THEN [scope |-> s, node |-> idents[s][name].node]
    ELSE NoScope

\* resolve_identifier: the scope on the parent chain that declares name.
RECURSIVE resolve_identifier(_, _)
resolve_identifier(s, name) ==
    IF name \in DOMAIN idents[s] THEN [scope |-> s, node |-> idents[s][name].node]
    ELSE IF s = Root THEN NoScope
    ELSE resolve_identifier(parent[s], name)

\* add_declaration: (re)binds name in scope s.
add_declaration(idn, s, name, node, type) ==
    [idn EXCEPT ![s] = (name :> Info(node, type)) @@ @]

\* find_scope: the innermost scope whose node's span holds the node.
find_scope(node) ==
    CHOOSE s \in DOMAIN idents :
        /\ IsPrefix(s, node)
        /\ \A u \in DOMAIN idents : IsPrefix(u, node) => IsPrefix(u, s)

\* A fault: a conflict with a binding of any enclosing scope.
Conflict_any_scope(s, name) == resolve_identifier(s, name) # NoScope

\* _warn_or_declare (lint.py 581-591): a name already bound in this very
\* scope is a redeclaration, var_hides_arg if the binding node is a
\* function that has the name among its fn_args.
Conflict(s, name) == LET r == resolve_identifier(s, name) IN r # NoScope /\ r.scope = s

warn_or_declare_reports(s, name, node) ==
    IF ~Conflict(s, name) THEN {}
    ELSE LET other == NodeAt(tree, resolve_identifier(s, name).node)
         IN  IF other.kind = "FUNCTION" /\ name \in Range(other.args)
             THEN {Diag("var_hides_arg", name, node)}
             ELSE {Diag("redeclared_var", name, node)}

warn_or_declare_idents(s, name, type, node) ==
    IF Conflict(s, name) THEN idents ELSE add_declaration(idents, s, name, node, type)

(***************************************************************************)
(* _find_warnings (lint.py 151-204) and the reports of _lint_script_parts *)
(* (lint.py 542-560), on the finished scope tree.                         *)
(***************************************************************************)
RECURSIVE is_in_with_scope(_)
is_in_with_scope(s) == s # Root /\ (Kind(s) = "WITH" \/ is_in_with_scope(parent[s]))

\* A fault: any assignment target, not only a whole statement's.
is_assignment_any_parent(node) ==
    /\ Index(node) = 1
    /\ Kind(Parent(node)) = "ASSIGN"

\* An identifier on the left of =, ++ or -- that is a whole statement.
is_assignment(node) ==
    /\ Index(node) = 1
    /\ Kind(Parent(node)) = "ASSIGN"
    /\ Kind(Parent(Parent(node))) = "SEMI"

Bound == UNION { { <<s, name>> : name \in DOMAIN idents[s] } : s \in DOMAIN idents }
Resolved(r) == resolve_identifier(r.scope, r.name)

undeclared ==
    { r \in refs : Resolved(r) = NoScope /\ ~is_in_with_scope(r.scope) }
      \cup { u \in unused : Resolved(u) = NoScope }

unreferenced ==
    Bound \ { <<Resolved(r).scope, r.name>> :
                r \in { r \in refs \cup unused : Resolved(r) # NoScope
                                                 /\ (r \in refs => ~is_assignment(r.node)) } }

\* A fault: the hiding test asks the declaring scope itself.
obstructive_self ==
    { b \in Bound : b[1] # Root /\ resolve_identifier(b[1], b[2]) # NoScope }

obstructive ==
    { b \in Bound : b[1] # Root /\ resolve_identifier(parent[b[1]], b[2]) # NoScope }

\* _Script.hasglobal for a script without imports.
hasglobal(name) == name \in DOMAIN idents[Root]

UnreferencedErr == [arg |-> "unreferenced_argument", function |-> "unreferenced_function",
                    var |-> "unreferenced_variable"]

ScopeWarnings ==
    { Diag("undeclared_identifier", r.name, r.node) :
        r \in { r \in undeclared : r.name \notin Declarations \cup Builtins
                                   /\ ~hasglobal(r.name) } }
      \cup { Diag(UnreferencedErr[idents[b[1]][b[2]].type], b[2], idents[b[1]][b[2]].node) :
               b \in { b \in unreferenced : b[1] # Root } }
      \cup { Diag("identifier_hides_another", b[2], idents[b[1]][b[2]].node) : b \in obstructive }

(***************************************************************************)
(* The traversal: _lint_node as an explicit stack of frames [path, kid],   *)
(* running the scope_checks visitors (lint.py 593-628).                    *)
(***************************************************************************)
Frame(p) == [path |-> p, kid |-> 0]
Top == stack[Len(stack)]
CurrentScope == scopes[Len(scopes)]

declares == CommentsOf("DECLARE")
unused_identifiers == CommentsOf("UNUSED")

Init ==
    /\ tree \in Trees
    /\ stack = <<Frame(Root)>>
    /\ scopes = <<Root>>
    /\ parent = <<>>
    /\ idents = (Root :> <<>>)
    /\ refs = {}
    /\ unused = {}
    /\ i = 1
    /\ pc = "run"
    /\ reported = {}
    /\ emitted = {}

NextKid(f) ==
    LET kids == NodeAt(tree, f.path).kids
        rest == { k \in f.kid + 1 .. Len(kids) : kids[k].kind # "NONE" }
    IN  IF rest = {} THEN 0 ELSE CHOOSE k \in rest : \A j \in rest : k <= j

NextNode == Kid(Top.path, NextKid(Top))

\* for child in node.kids: if child: _lint_node(child), up to its push visitors.
Descend ==
    /\ stack # <<>>
    /\ NextKid(Top) # 0
    /\ stack' = Append([stack EXCEPT ![Len(stack)].kid = NextKid(Top)], Frame(NextNode))

\* scope_checks._name on a NAME node.
VisitName ==
    /\ Descend
    /\ LET p == NextNode
           name == NodeAt(tree, p).atom
       IN  /\ Kind(p) = "NAME"
           /\ \/ /\ Index(p) = 1 /\ Kind(Parent(p)) = "COLON"
                 /\ Kind(Parent(Parent(p))) = "RC"
                 /\ UNCHANGED <<idents, refs, reported>>
              \/ /\ Kind(Parent(p)) = "VAR"
                 /\ idents' = warn_or_declare_idents(CurrentScope, name, "var", p)
                 /\ reported' = reported \cup warn_or_declare_reports(CurrentScope, name, p)
                 /\ UNCHANGED refs
              \/ /\ ~(Index(p) = 1 /\ Kind(Parent(p)) = "COLON"
                      /\ Kind(Parent(Parent(p))) = "RC")
                 /\ Kind(Parent(p)) # "VAR"
                 /\ idents' = IF Kind(Parent(p)) = "CATCH"
                              THEN add_declaration(idents, CurrentScope, name, p, "var")
                              ELSE idents
                 /\ refs' = refs \cup {[scope |-> CurrentScope, name |-> name, node |-> p]}
                 /\ UNCHANGED reported
    /\ UNCHANGED <<tree, scopes, parent, unused, i, pc, emitted>>

\* scope_checks._push_func: declare the name in the enclosing scope, push a
\* scope for the function, bind its arguments there.
VisitFunction ==
    /\ Descend
    /\ LET p == NextNode
           n == NodeAt(tree, p)
           declared == IF n.atom # "" THEN warn_or_declare_idents(CurrentScope, n.atom, "function", p)
                       ELSE idents
       IN  /\ n.kind = "FUNCTION"
           /\ reported' = reported \cup (IF n.atom # "" THEN warn_or_declare_reports(CurrentScope, n.atom, p)
                                         ELSE {})
           /\ idents' = (p :> [a \in Range(n.args) |-> Info(p, "arg")]) @@ declared
           /\ parent' = (p :> CurrentScope) @@ parent
           /\ scopes' = Append(scopes, p)
    /\ UNCHANGED <<tree, refs, unused, i, pc, emitted>>

\* scope_checks._push_scope on LEXICALSCOPE and WITH.
VisitScope ==
    /\ Descend
    /\ Kind(NextNode) \in {"LEXICALSCOPE", "WITH"}
    /\ idents' = (NextNode :> <<>>) @@ idents
    /\ parent' = (NextNode :> CurrentScope) @@ parent
    /\ scopes' = Append(scopes, NextNode)
    /\ UNCHANGED <<tree, refs, unused, i, pc, reported, emitted>>

\* Any other node: no scope visitor.
VisitOther ==
    /\ Descend
    /\ Kind(NextNode) \notin {"NAME"} \cup ScopeKinds
    /\ UNCHANGED <<tree, scopes, parent, idents, refs, unused, i, pc, reported, emitted>>

\* A fault: popping the scope stack after every node.
Ascend_pop_any ==
    /\ stack # <<>>
    /\ NextKid(Top) = 0
    /\ scopes' = SubSeq(scopes, 1, Len(scopes) - 1)
    /\ stack' = SubSeq(stack, 1, Len(stack) - 1)
    /\ UNCHANGED <<tree, parent, idents, refs, unused, i, pc, reported, emitted>>

\* All kids done: the pop visitors run (_pop_scope on scope nodes) and
\* _lint_node returns.
Ascend ==
    /\ stack # <<>>
    /\ NextKid(Top) = 0
    /\ scopes' = IF Kind(Top.path) \in ScopeKinds THEN SubSeq(scopes, 1, Len(scopes) - 1)
                 ELSE scopes
    /\ stack' = SubSeq(stack, 1, Len(stack) - 1)
    /\ UNCHANGED <<tree, parent, idents, refs, unused, i, pc, reported, emitted>>

\* for name, node in declares: _warn_or_declare(find_scope(node), ...)
Declare ==
    /\ stack = <<>>
    /\ i <= Len(declares)
    /\ LET node == declares[i]
           name == NodeAt(tree, node).atom
       IN  /\ idents' = warn_or_declare_idents(find_scope(node), name, "var", node)
           /\ reported' = reported \cup warn_or_declare_reports(find_scope(node), name, node)
    /\ i' = i + 1
    /\ UNCHANGED <<tree, stack, scopes, parent, refs, unused, pc, emitted>>

\* for name, node in unused_identifiers: find_scope(node).set_unused(...)
Unused ==
    /\ stack = <<>>
    /\ i > Len(declares)
    /\ i <= Len(declares) + Len(unused_identifiers)
    /\ LET node == unused_identifiers[i - Len(declares)]
       IN  unused' = unused \cup {[scope |-> find_scope(node), name |-> NodeAt(tree, node).atom,
                                   node |-> node]}
    /\ i' = i + 1
    /\ UNCHANGED <<tree, stack, scopes, parent, idents, refs, pc, reported, emitted>>

\* After the parts: get_identifier_warnings and the reports.
Warn ==
    /\ stack = <<>>
    /\ pc = "run"
    /\ i = Len(declares) + Len(unused_identifiers) + 1
    /\ emitted' = ScopeWarnings
    /\ pc' = "done"
    /\ UNCHANGED <<tree, stack, scopes, parent, idents, refs, unused, i, reported>>

Next == VisitName \/ VisitFunction \/ VisitScope \/ VisitOther \/ Ascend
          \/ Declare \/ Unused \/ Warn

Spec == Init /\ [][Next]_vars

Done == pc = "done"

(***************************************************************************)
(* Reference: what spec.md 4.5 says the resolver computes, read off the    *)
(* tree.  A declaration binds in the innermost function, lexical-scope or  *)
(* with node around it (a function's arguments in the function itself);   *)
(* the first binding of a name in a scope is kept and every later one is a *)
(* redeclaration; a reference resolves to the innermost scope around it    *)
(* that binds the name, all bindings of the script counted (hoisting).     *)
(***************************************************************************)
ScopeNodes == {Root} \cup { p \in Nodes : Kind(p) \in ScopeKinds }

Owner(p) ==
    LET around == { q \in ScopeNodes : IsStrictPrefix(q, p) }
    IN  CHOOSE q \in around : \A u \in around : IsPrefix(u, q)

RECURSIVE Chain(_)
Chain(s) == IF s = Root THEN <<Root>> ELSE <<s>> \o Chain(Owner(s))

IsObjectKey(p) == Index(p) = 1 /\ Kind(Parent(p)) = "COLON" /\ Kind(Parent(Parent(p))) = "RC"

Site(scope, name, node, type, direct) ==
    [scope |-> scope, name |-> name, node |-> node, type |-> type, direct |-> direct]

\* direct: the binding goes through _warn_or_declare (var, function name,
\* jsl:declare), not straight to add_declaration (argument, catch name).
DeclSites ==
    { Site(Owner(p), NodeAt(tree, p).atom, p, "var", TRUE) :
        p \in { p \in Nodes : Kind(p) = "NAME" /\ p # Root /\ Kind(Parent(p)) = "VAR" } }
      \cup { Site(Owner(p), NodeAt(tree, p).atom, p, "function", TRUE) :
               p \in { p \in Nodes : Kind(p) = "FUNCTION" /\ NodeAt(tree, p).atom # "" } }
      \cup UNION { { Site(p, a, p, "arg", FALSE) : a \in Range(NodeAt(tree, p).args) } :
                     p \in { p \in Nodes : Kind(p) = "FUNCTION" } }
      \cup { Site(Owner(p), NodeAt(tree, p).atom, p, "var", FALSE) :
               p \in { p \in Nodes : Kind(p) = "NAME" /\ p # Root /\ Kind(Parent(p)) = "CATCH" } }
      \cup { Site(Owner(p), NodeAt(tree, p).atom, p, "var", TRUE) :
               p \in { p \in Nodes : Kind(p) = "DECLARE" } }

\* Tree declarations in document order, then the jsl:declare comments.
Earlier(d, e) ==
    \/ Kind(d.node) # "DECLARE" /\ Kind(e.node) = "DECLARE"
    \/ (Kind(d.node) = "DECLARE") = (Kind(e.node) = "DECLARE") /\ PathLess(d.node, e.node)

SpecBound == { <<d.scope, d.name>> : d \in DeclSites }

Binding(s, name) ==
    CHOOSE d \in DeclSites : d.scope = s /\ d.name = name
                             /\ ~\E e \in DeclSites : e.scope = s /\ e.name = name /\ Earlier(e, d)

\* The scope a name resolves to from scope s, <<0>> if none.
SpecResolve(s, name) ==
    LET c == Chain(s)
        hits == { k \in DOMAIN c : <<c[k], name>> \in SpecBound }
    IN  IF hits = {} THEN <<0>> ELSE c[CHOOSE k \in hits : \A j \in hits : k <= j]

RefSites ==
    { [scope |-> Owner(p), name |-> NodeAt(tree, p).atom, node |-> p] :
        p \in { p \in Nodes : Kind(p) = "NAME" /\ p # Root /\ Kind(Parent(p)) # "VAR"
                              /\ ~IsObjectKey(p) } }
UnusedSites ==
    { [scope |-> Owner(p), name |-> NodeAt(tree, p).atom, node |-> p] :
        p \in { p \in Nodes : Kind(p) = "UNUSED" } }

\* An identifier that is only written: the target of an assignment statement.
WrittenOnly(p) ==
    Index(p) = 1 /\ Kind(Parent(p)) = "ASSIGN" /\ Kind(Parent(Parent(p))) = "SEMI"

InWith(p) == \E w \in ScopeNodes : w # Root /\ Kind(w) = "WITH" /\ IsStrictPrefix(w, p)
Reported(name) == name \notin Declarations \cup Builtins

Of(errname, S) == { d \in S : d.errname = errname }

(***************************************************************************)
(* Properties.                                                             *)
(***************************************************************************)
TypeOK ==
    /\ stack \in Seq([path : Seq(Nat), kid : Nat])
    /\ scopes \in Seq(DOMAIN idents) /\ scopes # <<>> /\ scopes[1] = Root
    /\ DOMAIN parent = DOMAIN idents \ {Root}
    /\ \A s \in DOMAIN parent : parent[s] \in DOMAIN idents
    /\ i \in 1 .. Len(declares) + Len(unused_identifiers) + 1
    /\ pc \in {"run", "done"}

\* Hoisting (spec.md 4.5, 8): after the scope tree is built incrementally by
\* the push/pop visitors and the directives are added through find_scope,
\* undeclared_identifier is reported exactly at the references (and
\* jsl:unused names) that no binding of the script resolves, outside with.
UndeclaredExact ==
    Done =>
      Of("undeclared_identifier", emitted) =
        { Diag("undeclared_identifier", r.name, r.node) :
            r \in { r \in RefSites : SpecResolve(r.scope, r.name) = <<0>>
                                     /\ ~InWith(r.node) /\ Reported(r.name) }
                  \cup { u \in UnusedSites : SpecResolve(u.scope, u.name) = <<0>>
                                             /\ Reported(u.name) } }

\* Every binding of an inner scope that no read (an assignment statement's
\* target is not one) and no jsl:unused resolves to is reported once, with
\* the kind of its first binding.
UnreferencedExact ==
    Done =>
      { d \in emitted : d.errname \in Range(UnreferencedErr) } =
        { Diag(UnreferencedErr[Binding(b[1], b[2]).type], b[2], Binding(b[1], b[2]).node) :
            b \in { b \in SpecBound :
                      /\ b[1] # Root
                      /\ ~\E r \in RefSites : r.name = b[2] /\ SpecResolve(r.scope, r.name) = b[1]
                                              /\ ~WrittenOnly(r.node)
                      /\ ~\E u \in UnusedSites : u.name = b[2] /\ SpecResolve(u.scope, u.name) = b[1] } }

\* A binding of an inner scope whose name an enclosing scope binds is
\* reported as hiding it, once.
HidesExact ==
    Done =>
      Of("identifier_hides_another", emitted) =
        { Diag("identifier_hides_another", b[2], Binding(b[1], b[2]).node) :
            b \in { b \in SpecBound : b[1] # Root /\ SpecResolve(Owner(b[1]), b[2]) # <<0>> } }

\* _warn_or_declare reports a var, function or jsl:declare binding exactly
\* when an earlier binding of the name is in the same scope, whatever the
\* order of traversal and directives.
RedeclaredExact ==
    Done =>
      { [name |-> d.name, node |-> d.node] : d \in reported } =
        { [name |-> d.name, node |-> d.node] :
            d \in { d \in DeclSites : d.direct /\ Binding(d.scope, d.name) # d } }

\* spec.md 4.5: "hides argument" only when the earlier binding in that scope
\* is a function parameter.
RedeclaredKind ==
    Done =>
      \A d \in reported :
        (d.errname = "var_hides_arg") <=> Binding(Owner(d.node), d.name).type = "arg"

\* ECMAScript hoists a var to its function: a name some var of the same
\* function (or of global code) declares is never undeclared there.
FunctionOf(p) ==
    LET around == { q \in Nodes : IsStrictPrefix(q, p) /\ (q = Root \/ Kind(q) = "FUNCTION") }
    IN  CHOOSE q \in around : \A u \in around : IsPrefix(u, q)

UndeclaredHoisted ==
    Done =>
      \A d \in Of("undeclared_identifier", emitted) :
        ~\E v \in DeclSites : /\ v.name = d.name /\ Kind(v.node) = "NAME"
                              /\ Kind(Parent(v.node)) = "VAR"
                              /\ IsPrefix(FunctionOf(v.node), d.node)

\* spec.md 4.5: only a reference in a with *body* escapes undeclared_identifier.
UndeclaredOutsideWithBody ==
    Done =>
      \A r \in RefSites :
        /\ SpecResolve(r.scope, r.name) = <<0>> /\ Reported(r.name)
        /\ ~\E w \in ScopeNodes : w # Root /\ Kind(w) = "WITH" /\ IsPrefix(Kid(w, 2), r.node)
        => Diag("undeclared_identifier", r.name, r.node) \in emitted
====
