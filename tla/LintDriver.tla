----------------------------- MODULE LintDriver -----------------------------
(***************************************************************************)
(* lint.py lint_files / lint_file / _lint_script_parts with the global    *)
(* scope of each _Script: files linted in the order given, lint_cache      *)
(* filled before a file is linted, jsl:import linting the imported file    *)
(* recursively from inside the importing part, jsl:declare applied after   *)
(* the imports, and the undeclared_identifier check run once all parts of  *)
(* a file are done, through hasglobal over the imports.                   *)
(*                                                                         *)
(* Scope is abstracted to the global scope of each file: a part declares   *)
(* var names, references names (a reference may lie inside one of the     *)
(* part's jsl:ignore ranges: flag ignored), and carries its jsl:declare    *)
(* names and jsl:import paths.  The recursion of lint_file through         *)
(* import_callback is an explicit stack of frames.                         *)
(***************************************************************************)
EXTENDS Integers, Sequences, FiniteSets

CONSTANTS
    Files,          \* the paths
    Names,          \* the identifiers
    Programs,       \* possible contents: [Files -> Seq(part)]
    PathOrders,     \* possible argument lists of lint_files
    MaxDepth        \* bound on the depth of nested lint_file calls

VARIABLES
    contents,       \* each file's script parts (fixed)
    paths,          \* the paths given to lint_files (fixed)
    todo,           \* the next index of paths
    cached,         \* the keys of lint_cache
    scripts,        \* lint_cache[path]: its global scope and its _imports
    stack,          \* the active lint_file calls, innermost last
    emitted,        \* the diagnostics passed to lint_error
    linted          \* history: how many times each file's parts were linted

vars == <<contents, paths, todo, cached, scripts, stack, emitted, linted>>

Part == [vars : SUBSET Names, declares : SUBSET Names,
         refs : SUBSET [name : Names, ignored : BOOLEAN], imports : Seq(Files)]

\* _Script(): an empty global scope and no imports.
EmptyScript == [globals |-> {}, imports |-> {}, refs |-> {}]

Frame(f) == [file |-> f, part |-> 1, stage |-> "traverse", k |-> 1]

Diag(errname, f, name) == [errname |-> errname, file |-> f, name |-> name]

(***************************************************************************)
(* _Script._findglobal, as hasglobal calls it: the name is in this        *)
(* script's global scope or, depth first, in an imported script's, each    *)
(* script searched once.                                                   *)
(***************************************************************************)
RECURSIVE findglobal_cycle_found(_, _, _, _)
\* A fault: "if self in searched: return self", a cycle counting as found.
findglobal_cycle_found(sc, s, name, searched) ==
    \/ s \in searched
    \/ name \in sc[s].globals
    \/ \E t \in sc[s].imports : findglobal_cycle_found(sc, t, name, searched \cup {s})

RECURSIVE findglobal(_, _, _, _)
findglobal(sc, s, name, searched) ==
    /\ s \notin searched
    /\ \/ name \in sc[s].globals
       \/ \E t \in sc[s].imports : findglobal(sc, t, name, searched \cup {s})

hasglobal(sc, s, name) == findglobal(sc, s, name, {})

(***************************************************************************)
(* lint_file(path): a cached path returns its _Script at once; otherwise  *)
(* an empty _Script is cached first and the parts are linted.              *)
(***************************************************************************)
Top == stack[Len(stack)]
TopPart == contents[Top.file][Top.part]

Init ==
    /\ contents \in Programs
    /\ paths \in PathOrders
    /\ todo = 1
    /\ cached = {}
    /\ scripts = [f \in Files |-> EmptyScript]
    /\ stack = <<>>
    /\ emitted = {}
    /\ linted = [f \in Files |-> 0]

\* for path in paths: lint_file(path, ...) -- the path is already cached.
LintCached ==
    /\ stack = <<>>
    /\ todo <= Len(paths)
    /\ paths[todo] \in cached
    /\ todo' = todo + 1
    /\ UNCHANGED <<contents, paths, cached, scripts, stack, emitted, linted>>

\* lint_file of a path not cached: lint_cache[path] = _Script(), then lint.
LintNew ==
    /\ stack = <<>>
    /\ todo <= Len(paths)
    /\ paths[todo] \notin cached
    /\ cached' = cached \cup {paths[todo]}
    /\ scripts' = [scripts EXCEPT ![paths[todo]] = EmptyScript]
    /\ stack' = <<Frame(paths[todo])>>
    /\ linted' = [linted EXCEPT ![paths[todo]] = @ + 1]
    /\ todo' = todo + 1
    /\ UNCHANGED <<contents, paths, emitted>>

\* _warn_or_declare in the global scope: a name already declared there is
\* redeclared_var, any other is added.
Declare(sc, names) == [sc EXCEPT !.globals = @ \cup names]
Redeclared(f, sc, names) == { Diag("redeclared_var", f, n) : n \in names \cap sc.globals }

\* _lint_script_part up to its imports: the traversal declares the part's
\* vars and records its references (with the part they belong to).
Traverse ==
    /\ stack # <<>>
    /\ Top.stage = "traverse"
    /\ LET f == Top.file IN
       /\ scripts' = [scripts EXCEPT ![f] =
                        [Declare(@, TopPart.vars) EXCEPT !.refs =
                           @ \cup { [name |-> r.name, ignored |-> r.ignored, part |-> Top.part] :
                                    r \in TopPart.refs }]]
       /\ emitted' = emitted \cup Redeclared(f, scripts[f], TopPart.vars)
    /\ stack' = [stack EXCEPT ![Len(stack)].stage = "import", ![Len(stack)].k = 1]
    /\ UNCHANGED <<contents, paths, todo, cached, linted>>

\* for path in import_paths: importscript(import_callback(path)) where
\* lint_file finds the path cached and returns its _Script at once.
ImportCached ==
    /\ stack # <<>>
    /\ Top.stage = "import"
    /\ Top.k <= Len(TopPart.imports)
    /\ TopPart.imports[Top.k] \in cached
    /\ scripts' = [scripts EXCEPT ![Top.file].imports = @ \cup {TopPart.imports[Top.k]}]
    /\ stack' = [stack EXCEPT ![Len(stack)].k = @ + 1]
    /\ UNCHANGED <<contents, paths, todo, cached, emitted, linted>>

\* A fault: lint_file caching the _Script only once the file is linted.
ImportNew_cache_after ==
    /\ stack # <<>>
    /\ Top.stage = "import"
    /\ Top.k <= Len(TopPart.imports)
    /\ TopPart.imports[Top.k] \notin cached
    /\ Len(stack) < MaxDepth
    /\ scripts' = [scripts EXCEPT ![TopPart.imports[Top.k]] = EmptyScript]
    /\ stack' = Append(stack, Frame(TopPart.imports[Top.k]))
    /\ linted' = [linted EXCEPT ![TopPart.imports[Top.k]] = @ + 1]
    /\ UNCHANGED <<contents, paths, todo, cached, emitted>>

\* The imported path is not cached: lint_cache[path] = _Script() and its
\* (single, 'js') part is linted in a nested lint_file call.
ImportNew ==
    /\ stack # <<>>
    /\ Top.stage = "import"
    /\ Top.k <= Len(TopPart.imports)
    /\ TopPart.imports[Top.k] \notin cached
    /\ Len(stack) < MaxDepth
    /\ cached' = cached \cup {TopPart.imports[Top.k]}
    /\ scripts' = [scripts EXCEPT ![TopPart.imports[Top.k]] = EmptyScript]
    /\ stack' = Append(stack, Frame(TopPart.imports[Top.k]))
    /\ linted' = [linted EXCEPT ![TopPart.imports[Top.k]] = @ + 1]
    /\ UNCHANGED <<contents, paths, todo, emitted>>

\* A fault: moving on while part <= len(parts), one part too far.
Declares_past_last ==
    /\ stack # <<>>
    /\ Top.stage = "import"
    /\ Top.k > Len(TopPart.imports)
    /\ scripts' = [scripts EXCEPT ![Top.file] = Declare(@, TopPart.declares)]
    /\ emitted' = emitted \cup Redeclared(Top.file, scripts[Top.file], TopPart.declares)
    /\ stack' = [stack EXCEPT ![Len(stack)] =
                   IF Top.part <= Len(contents[Top.file])
                   THEN [@ EXCEPT !.part = @ + 1, !.stage = "traverse"]
                   ELSE [@ EXCEPT !.stage = "check"]]
    /\ UNCHANGED <<contents, paths, todo, cached, linted>>

\* After the imports: the part's jsl:declare names are declared (or
\* reported redeclared), and _lint_script_parts moves to the next part.
Declares ==
    /\ stack # <<>>
    /\ Top.stage = "import"
    /\ Top.k > Len(TopPart.imports)
    /\ scripts' = [scripts EXCEPT ![Top.file] = Declare(@, TopPart.declares)]
    /\ emitted' = emitted \cup Redeclared(Top.file, scripts[Top.file], TopPart.declares)
    /\ stack' = [stack EXCEPT ![Len(stack)] =
                   IF Top.part < Len(contents[Top.file])
                   THEN [@ EXCEPT !.part = @ + 1, !.stage = "traverse"]
                   ELSE [@ EXCEPT !.stage = "check"]]
    /\ UNCHANGED <<contents, paths, todo, cached, linted>>

\* All parts done: every reference that resolves neither in the global
\* scope nor through hasglobal is undeclared_identifier, filtered through
\* the ignore ranges the report closure sees -- those of the last part.
\* lint_file returns; the importing call records the import.
Finish ==
    /\ stack # <<>>
    /\ Top.stage = "check"
    /\ LET f == Top.file
           last == Len(contents[f])
           undeclared == { r \in scripts[f].refs : r.name \notin scripts[f].globals
                                                  /\ ~hasglobal(scripts, f, r.name) }
       IN  /\ emitted' = emitted \cup { Diag("undeclared_identifier", f, r.name) :
                                         r \in { r \in undeclared : ~(r.ignored /\ r.part = last) } }
           /\ stack' = IF Len(stack) = 1 THEN <<>>
                        ELSE [SubSeq(stack, 1, Len(stack) - 1) EXCEPT ![Len(stack) - 1].k = @ + 1]
           /\ scripts' = IF Len(stack) = 1 THEN scripts
                          ELSE LET caller == stack[Len(stack) - 1].file
                               IN  [scripts EXCEPT ![caller].imports = @ \cup {f}]
    /\ UNCHANGED <<contents, paths, todo, cached, linted>>

Next ==
    \/ LintCached \/ LintNew
    \/ Traverse \/ ImportCached \/ ImportNew \/ Declares \/ Finish

\* The linter is one sequential process that keeps running while it has
\* work: weak fairness of its next step.
Spec == Init /\ [][Next]_vars /\ WF_vars(Next)

Done == stack = <<>> /\ todo > Len(paths)

(***************************************************************************)
(* Reference (spec.md 4.5): the import graph of the files' contents, and  *)
(* the names a file may use: its own declarations and those of every file  *)
(* it reaches by imports.                                                  *)
(***************************************************************************)
Gr == INSTANCE Graphs

ImportGraph ==
    [node |-> Files,
     edge |-> { <<f, g>> \in Files \X Files :
                  \E p \in DOMAIN contents[f] : \E k \in DOMAIN contents[f][p].imports :
                    contents[f][p].imports[k] = g }]

DeclaredIn(f) == UNION { contents[f][p].vars \cup contents[f][p].declares : p \in DOMAIN contents[f] }

Visible(f) == UNION { DeclaredIn(g) : g \in {f} \cup Gr!Descendants(ImportGraph, f) }

Given == { paths[k] : k \in DOMAIN paths }

UndeclaredAt(f) == { d.name : d \in { d \in emitted : d.file = f /\ d.errname = "undeclared_identifier" } }

(***************************************************************************)
(* Properties.                                                             *)
(***************************************************************************)
TypeOK ==
    /\ todo \in 1 .. Len(paths) + 1
    /\ cached \subseteq Files
    /\ stack \in Seq([file : Files, part : Nat, stage : {"traverse", "import", "check"}, k : Nat])
    /\ linted \in [Files -> Nat]
    /\ \A k \in DOMAIN stack : stack[k].part \in DOMAIN contents[stack[k].file]

\* lint_cache is filled before a file's parts are linted, so however the
\* files import one another (cycles included) no file is linted twice.
LintedOnce == \A f \in Files : linted[f] <= 1

\* Linting terminates, and by then exactly the files given and the files
\* they import, directly or not, have been linted.
Terminates ==
    <>(Done /\ cached = Given \cup UNION { Gr!Descendants(ImportGraph, g) : g \in Given })

\* No reference is left unreported: a name declared nowhere its file can
\* see, used outside every jsl:ignore range, is undeclared_identifier.
UndeclaredComplete ==
    Done =>
      \A f \in cached : \A p \in DOMAIN contents[f] : \A r \in contents[f][p].refs :
        (~r.ignored /\ r.name \notin Visible(f)) => r.name \in UndeclaredAt(f)

\* spec.md 4.5: a reference is undeclared only if its name is declared
\* neither in its file nor in a file reachable through the import graph.
UndeclaredSound ==
    Done => \A f \in cached : UndeclaredAt(f) \cap Visible(f) = {}

\* spec.md 8: "/*jsl:ignore*/ undeclaredVar; /*jsl:end*/ emits zero
\* diagnostics": a name used only inside ignore ranges is not reported.
IgnoredRefsSuppressed ==
    Done =>
      \A f \in cached : \A n \in UndeclaredAt(f) :
        \E p \in DOMAIN contents[f] : \E r \in contents[f][p].refs : r.name = n /\ ~r.ignored
====
