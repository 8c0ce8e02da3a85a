------------------------- MODULE MC_ScopeResolver -------------------------
(***************************************************************************)
(* Scripts of one or two statements over the names x and y ("y" stands    *)
(* for a name of lint.py's _globals).  A statement is a leaf (var with or *)
(* without an initialiser, a use, an assignment statement, an object      *)
(* literal, a jsl:declare or jsl:unused comment) or one scope node around *)
(* at most one leaf: a function declaration or expression with zero or    *)
(* one argument, a with statement, a try/catch.  The second statement is *)
(* a leaf.  A function body may also hold a with or try around a leaf.   *)
(***************************************************************************)
EXTENDS ScopeResolver, FiniteSets

N(kind, kids)   == [kind |-> kind, kids |-> kids, atom |-> "", args |-> <<>>]
NONE            == N("NONE", <<>>)
EXPR            == N("EXPR", <<>>)
Name(n, init)   == [kind |-> "NAME", kids |-> init, atom |-> n, args |-> <<>>]
Ref(n)          == Name(n, <<>>)
Assign(n)       == N("ASSIGN", <<Ref(n), EXPR>>)
Comment(kind, n) == [kind |-> kind, kids |-> <<>>, atom |-> n, args |-> <<>>]
LC(s)           == N("LC", s)

MC_Names == {"x", "y"}

Leaves ==
    { N("VAR", <<Name(n, <<>>)>>) : n \in MC_Names }
      \cup { N("VAR", <<Name(n, <<e>>)>>) : n \in MC_Names, e \in { Ref(m) : m \in MC_Names } \cup { Assign(m) : m \in MC_Names } }
      \cup { N("SEMI", <<Ref(n)>>) : n \in MC_Names }
      \cup { N("SEMI", <<Assign(n)>>) : n \in MC_Names }
      \cup { N("SEMI", <<N("RC", <<N("COLON", <<Ref("x"), Ref(n)>>)>>)>>) : n \in MC_Names }
      \cup { Comment(k, n) : k \in {"DECLARE", "UNUSED"}, n \in MC_Names }

Bodies == {LC(<<>>)} \cup { LC(<<l>>) : l \in Leaves }

Functions ==
    { [kind |-> "FUNCTION", kids |-> <<b>>, atom |-> f, args |-> a] :
        f \in {""} \cup MC_Names, a \in {<<>>} \cup { <<n>> : n \in MC_Names }, b \in Bodies }
Withs == { N("WITH", <<Ref(n), b>>) : n \in MC_Names, b \in Bodies }
Catch(n, b) == N("RESERVED", <<N("LEXICALSCOPE", <<N("CATCH", <<Name(n, <<>>), NONE, b>>)>>)>>)
Tries == { N("TRY", <<LC(<<>>), Catch(n, b), NONE>>) : n \in MC_Names, b \in Bodies }

\* A function whose body holds a with or catch around a use or a var, so
\* that resolution climbs two scopes.
Small  == {LC(<<>>)} \cup { LC(<<l>>) : l \in { N("SEMI", <<Ref(n)>>) : n \in MC_Names }
                                            \cup { N("VAR", <<Name(n, <<>>)>>) : n \in MC_Names } }
Nested == { N("WITH", <<Ref(n), b>>) : n \in MC_Names, b \in Small }
            \cup { N("TRY", <<LC(<<>>), Catch(n, b), NONE>>) : n \in MC_Names, b \in Small }
Outer  == { [kind |-> "FUNCTION", kids |-> <<LC(<<w>>)>>, atom |-> f, args |-> a] :
              f \in {"", "x"}, a \in {<<>>} \cup { <<n>> : n \in MC_Names }, w \in Nested }

Statements == Leaves \cup Functions \cup Withs \cup Tries \cup Outer

MC_Trees == { LC(<<s>>) : s \in Statements } \cup { LC(<<s, l>>) : s \in Statements, l \in Leaves }

MC_Builtins == {"y"}
MC_Declarations == {}
=============================================================================
