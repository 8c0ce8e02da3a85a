--------------------------- MODULE MC_LintDriver ---------------------------
(***************************************************************************)
(* Two files a and b and one name x.  A part declares x with var or       *)
(* jsl:declare or not, uses x (inside an ignore range or not) or not, and *)
(* imports nothing, a or b.  File a may also be an HTML file of two parts; *)
(* an HTML file is then not imported (it would be linted as 'js').         *)
(***************************************************************************)
EXTENDS LintDriver

MC_Files == {"a", "b"}
MC_Names == {"x"}
MC_MaxDepth == 3

Parts(imports) ==
    [vars : {{}, {"x"}}, declares : {{}, {"x"}},
     refs : {{}, {[name |-> "x", ignored |-> FALSE]}, {[name |-> "x", ignored |-> TRUE]}},
     imports : imports]

AnyImport == {<<>>, <<"a">>, <<"b">>}

Program(pa, pb) == [f \in MC_Files |-> IF f = "a" THEN pa ELSE pb]

MC_Programs ==
    { Program(<<pa>>, <<pb>>) : pa \in Parts(AnyImport), pb \in Parts(AnyImport) }
      \cup { Program(<<pa1, pa2>>, <<pb>>) :
               pa1 \in Parts(AnyImport), pa2 \in Parts({<<>>}), pb \in Parts({<<>>, <<"b">>}) }

MC_PathOrders == {<<"a">>, <<"b">>, <<"a", "b">>, <<"b", "a">>}
=============================================================================
