------------------------------ MODULE MC_Conf ------------------------------
(***************************************************************************)
(* Conf for TLC: two warnings, and files of up to two lines from lines in *)
(* the documented format, lines Conf rejects and lines it accepts outside *)
(* the format, files of three lines that mix                              *)
(* recurse, process and define, and DEFAULT_CONF itself.                  *)
(***************************************************************************)
EXTENDS Conf

MC_WarningNames == {"block_without_braces", "missing_semicolon"}

MC_Dir == "d"

\* Lines of the documented format, with a comment, trailing blanks and an
\* upper-case name.
MC_DocumentedLines ==
    { <<"+", "recurse">>, <<"-", "RECURSE", " ", "#", "x">>, <<"-", "missing_semicolon">>,
      <<"+", "process", " ", "x">>, <<"+", "define", " ", "x", " ">>,
      <<"+", "output-format", " ", "x">>, <<"+", "default-type", " ", "T", "V">>,
      <<" ", "#", "x">> }

\* Lines Conf rejects: no sign, no name, an unknown name, a name run on,
\* a parameter to a boolean, "-" to a parameter setting, a deprecated
\* setting, an unknown content type.
MC_RejectedLines ==
    { <<"recurse">>, <<"+">>, <<"+", "bogus">>, <<"+", "recurse", "x">>,
      <<"-", "context", " ", "x">>, <<"-", "define", " ", "x">>,
      <<"+", "jscript_function_extensions">>, <<"+", "default-version", " ", "x">> }

\* Lines the code accepts that the format does not: a disabled process
\* line, a blank between the sign and the name, a define without a name,
\* and the version setting under Conf's own key.
MC_AcceptedLines == { <<"-", "process", " ", "x">>, <<"+", " ", "define", " ", "x">>, <<"+", "define">>,
                      <<"+", "default-version", " ", "T", "V">> }

MC_Lines == MC_DocumentedLines \cup MC_RejectedLines \cup MC_AcceptedLines

MC_OrderLines == { <<"+", "recurse">>, <<"-", "RECURSE">>, <<"+", "process", " ", "x">>, <<"+", "define", " ", "x">> }

MC_Texts ==
    { <<>>, DefaultConf } \cup { <<a>> : a \in MC_Lines } \cup { <<a, b>> : a, b \in MC_Lines }
    \cup { <<a, b, c>> : a, b, c \in MC_OrderLines }
MC_AcceptedTexts == { <<a>> : a \in MC_AcceptedLines }
====
