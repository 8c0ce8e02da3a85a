------------------------ MODULE MC_ControlFlowRules ------------------------
(***************************************************************************)
(* The parse trees handed to the rule traversal: a script holding one     *)
(* function whose body is one or two statements built from the grammar   *)
(* below, two levels deep: a jump or an if of jumps inside a case or a    *)
(* with, and jumps inside try, catch and finally blocks.  No switch or    *)
(* try nests inside another.                                               *)
(***************************************************************************)
EXTENDS ControlFlowRules, FiniteSets

LC(s)           == Mk("LC", s, FALSE)
RET(v)          == Mk("RETURN", <<IF v THEN EXPR ELSE NONE>>, FALSE)
Simple          == { Mk("SEMI", <<>>, FALSE), Mk("BREAK", <<>>, FALSE),
                     Mk("THROW", <<>>, FALSE), RET(TRUE), RET(FALSE) }
\* Blocks of at most one statement of S.
Blocks(S)       == {LC(<<>>)} \cup { LC(<<s>>) : s \in S }
Ifs(S)          == { Mk("IF", <<a, b>>, FALSE) : a \in S, b \in S \cup {NONE} }
Case(kind, S)   == { Mk(kind, <<b>>, FALSE) : b \in Blocks(S) }
\* Switches of one or two cases, at most one default.
Switches(S)     ==
    { Mk("SWITCH", <<LC(<<c>>)>>, FALSE) : c \in Case("CASE", S) \cup Case("DEFAULT", S) }
      \cup { Mk("SWITCH", <<LC(<<c, d>>)>>, FALSE) :
               <<c, d>> \in (Case("CASE", S) \X (Case("CASE", S) \cup Case("DEFAULT", S)))
                              \cup (Case("DEFAULT", S) \X Case("CASE", S)) }
Tries(S)        ==
    { Mk("TRY", <<a, b, c>>, FALSE) :
        <<a, b, c>> \in { x \in Blocks(S) \X (Blocks(S) \cup {NONE}) \X (Blocks(S) \cup {NONE}) :
                            x[2] # NONE \/ x[3] # NONE } }
Withs(S)        == { Mk("WITH", <<b>>, FALSE) : b \in Blocks(S) \ {LC(<<>>)} }

Level1          == Simple \cup Ifs(Simple)
Level2          == Simple \cup Ifs(Simple) \cup Switches(Level1) \cup Tries(Simple) \cup Withs(Level1)

Script(body, named) == LC(<<Mk("FUNCTION", <<LC(body)>>, named)>>)

\* The parser rejects a break outside a switch or loop and a continue
\* outside a loop, so no tree it returns has one.
RECURSIVE StrayJump(_, _)
StrayJump(n, jumps) ==
    \/ n.kind \in jumps
    \/ LET inner == CASE n.kind = "SWITCH" -> jumps \ {"BREAK"}
                      [] n.kind \in {"DO", "FOR"} -> {}
                      [] OTHER             -> jumps
       IN  \E k \in DOMAIN n.kids : StrayJump(n.kids[k], inner)

Parsable(T) == { t \in T : ~StrayJump(t, {"BREAK", "CONTINUE"}) }

MC_Trees == Parsable(
    { Script(<<s>>, named) : s \in Level2, named \in BOOLEAN }
      \cup { Script(<<s, u>>, TRUE) : s \in Level1, u \in Simple })

(***************************************************************************)
(* Loops and declarations after jumps: a do-while or for loop whose body  *)
(* is a block of at most one statement with break/continue/return/throw   *)
(* (possibly under an if), followed by up to two statements among         *)
(* expression statements, jumps, vars with and without an initialiser    *)
(* and function declarations.                                              *)
(***************************************************************************)
Continue        == Mk("CONTINUE", <<>>, FALSE)
LoopBody        == Simple \cup {Continue}
Dos             == { Mk("DO", <<b, EXPR>>, FALSE) : b \in Blocks(LoopBody \cup Ifs(LoopBody)) }
\* for(;c;u) with each of c and u present or not, and for-in.
Preambles       == { Mk("RESERVED", <<NONE, c, u>>, FALSE) : c, u \in {NONE, EXPR} }
                     \cup { Mk("IN", <<EXPR, EXPR>>, FALSE) }
Fors            == { Mk("FOR", <<pre, b>>, FALSE) :
                       pre \in Preambles, b \in Blocks(LoopBody \cup Ifs(LoopBody)) }
Decls           == { Mk("VAR", <<EXPR>>, FALSE), Mk("VAR", <<NONE>>, FALSE),
                     Mk("FUNCTION", <<LC(<<>>)>>, TRUE) }
Firsts          == Simple \cup Ifs(Simple) \cup Dos \cup Fors
Followers       == Simple \cup Decls

MC_LoopTrees == Parsable(
    { Script(<<s>>, TRUE) : s \in Firsts }
      \cup { Script(<<s, u>>, TRUE) : s \in Firsts, u \in Followers }
      \cup { Script(<<s, u, v>>, TRUE) : s \in Simple \cup Dos \cup Fors, u \in Decls, v \in Followers })

(***************************************************************************)
(* Loop bodies of two statements, an if with a jump and then a jump:      *)
(* "if (c) continue; return;" and the like.                               *)
(***************************************************************************)
TwoJumps        == { LC(<<a, b>>) : a \in Ifs(LoopBody), b \in LoopBody }
MC_ContinueTrees == Parsable(
    { Script(<<Mk("DO", <<b, EXPR>>, FALSE)>>, TRUE) : b \in TwoJumps }
      \cup { Script(<<Mk("FOR", <<pre, b>>, FALSE)>>, TRUE) : pre \in Preambles, b \in TwoJumps })

(***************************************************************************)
(* Functions whose body is a loop that returns, then a statement: "do {   *)
(* return 1; } while (c); return;" and the like.                          *)
(***************************************************************************)
Loops(S)        == { Mk("DO", <<b, EXPR>>, FALSE) : b \in Blocks(S) }
                     \cup { Mk("FOR", <<pre, b>>, FALSE) : pre \in Preambles, b \in Blocks(S) }
MC_LoopReturnTrees ==
    { Script(<<l, u>>, named) : l \in Loops({RET(TRUE), RET(FALSE)}),
                                u \in {RET(TRUE), RET(FALSE), Mk("SEMI", <<>>, FALSE)},
                                named \in BOOLEAN }
=============================================================================
