-------------------------------- MODULE Conf --------------------------------
(***************************************************************************)
(* conf.py: the settings of Conf.__init__ (lines 166-186), the Setting     *)
(* classes (108-163), and loadfile / loadtext / loadline (188-241), which  *)
(* jsl.py main runs on the --conf file right after Conf().                 *)
(*                                                                         *)
(* A line of the file is a sequence of symbols: "+", "-", " ", "#", a      *)
(* setting name as one symbol ("RECURSE" an upper-case spelling of         *)
(* "recurse", "bogus" a name Conf does not know), "x" a word of a          *)
(* parameter, "T" a content type of util._contenttypes and "V" the         *)
(* parameter ";version=1.5".  The len(name) of a one-symbol name is 1.     *)
(***************************************************************************)
EXTENDS Integers, SequencesExt

CONSTANTS WarningNames,  \* the keys of warnings.warnings
          Texts,         \* the lines of the configuration files
          Dir,           \* os.path.dirname of the file's absolute path
          None           \* Python's None

ASSUME "block_without_braces" \in WarningNames

VARIABLES conf_text, settings, lineno, error, stage

vars == <<conf_text, settings, lineno, error, stage>>

BooleanNames == {"recurse", "legacy_control_comments", "always_use_option_explicit", "context",
                 "no_return_value", "equal_as_assign", "anon_no_return_value"} \cup WarningNames
DeprecatedNames == {"lambda_assign_requires_semicolon", "jscript_function_extensions"}
ParmNames == {"output-format", "define", "process", "default-version"}
SettingNames == BooleanNames \cup DeprecatedNames \cup ParmNames

Lower(sym) == IF sym = "RECURSE" THEN "recurse" ELSE sym

LStrip(s) == LET i == SelectInSeq(s, LAMBDA c : c # " ")
             IN  IF i = 0 THEN <<>> ELSE SubSeq(s, i, Len(s))
RStrip(s) == SubSeq(s, 1, SelectLastInSeq(s, LAMBDA c : c # " "))

JSVersion(version, e4x) == [version |-> version, e4x |-> e4x]

\* A fault: the version taken as the parameter's text, not its value.
fromtype_raw(parm) ==
    LET v == SelectInSeq(parm, LAMBDA c : c = "V")
        typestr == RStrip(LStrip(IF v = 0 THEN parm ELSE SubSeq(parm, 1, v - 1)))
    IN  IF typestr = <<"T">> THEN JSVersion(IF v = 0 THEN "default" ELSE "V", FALSE) ELSE None

\* JSVersion.fromtype: cgi.parse_header's type is the stripped text before
\* the first ";"; a version parameter gives the version.
fromtype(parm) ==
    LET v == SelectInSeq(parm, LAMBDA c : c = "V")
        typestr == RStrip(LStrip(IF v = 0 THEN parm ELSE SubSeq(parm, 1, v - 1)))
    IN  IF typestr = <<"T">> THEN JSVersion(IF v = 0 THEN "default" ELSE "1.5", FALSE) ELSE None

\* os.path.join(dir, parm), or parm when loadtext has no dir.
Join(dir, parm) == IF dir = None THEN parm ELSE <<dir, "/">> \o parm

\* The dictionary Conf.__init__ builds: a BooleanSetting(True) for every
\* warning replaces an entry of the same name.
Defaults ==
    [n \in WarningNames |-> TRUE]
    @@ [n \in {"recurse", "legacy_control_comments"} |-> FALSE]
    @@ [n \in {"always_use_option_explicit", "context", "no_return_value",
               "equal_as_assign", "anon_no_return_value"} |-> TRUE]
    @@ [n \in DeprecatedNames |-> None]
    @@ ("output-format" :> <<"x", " ", "x">>)
    @@ ("define" :> <<>>) @@ ("process" :> <<>>)
    @@ ("default-version" :> JSVersion("default", FALSE))

Result(s, raised) == [settings |-> s, raised |-> raised]

(***************************************************************************)
(* The load() of each Setting class.                                      *)
(***************************************************************************)
BooleanSetting_load(s, name, enabled) == Result([s EXCEPT ![name] = enabled], "none")

StringSetting_load(s, name, enabled, parm) ==
    IF ~enabled THEN Result(s, "ConfError") ELSE Result([s EXCEPT ![name] = parm], "none")

DeclareSetting_load(s, name, enabled, parm) ==
    IF ~enabled THEN Result(s, "ConfError") ELSE Result([s EXCEPT ![name] = Append(@, parm)], "none")

\* A fault: process given a recurse setting of its own, not Conf's.
ProcessSetting_load_unshared(s, enabled, parm, dir) ==
    Result([s EXCEPT !["process"] = Append(@, [recurse |-> FALSE, path |-> Join(dir, parm)])], "none")

\* The recurse value is read now, when the process line loads; enabled is
\* not looked at.
ProcessSetting_load(s, enabled, parm, dir) ==
    Result([s EXCEPT !["process"] = Append(@, [recurse |-> s["recurse"], path |-> Join(dir, parm)])], "none")

\* The value is replaced before it is tested.
JSVersionSetting_load(s, name, enabled, parm) ==
    IF ~enabled THEN Result(s, "ConfError")
    ELSE Result([s EXCEPT ![name] = fromtype(parm)], IF fromtype(parm) = None THEN "ConfError" ELSE "none")

(***************************************************************************)
(* loadline.  The parameter is sliced len(name) past the sign, not past   *)
(* the name.                                                               *)
(***************************************************************************)
loadline(s, line, dir) ==
    LET h       == SelectInSeq(line, LAMBDA c : c = "#")
        l       == RStrip(IF h = 0 THEN line ELSE SubSeq(line, 1, h - 1))
        enabled == l[1] = "+"
        rest    == Tail(l)
        b       == SelectInSeq(rest, LAMBDA c : c # " ")
        e       == SelectInSubSeq(rest, b, Len(rest), LAMBDA c : c = " ")
        word    == SubSeq(rest, b, IF e = 0 THEN Len(rest) ELSE e - 1)
        name    == Lower(word[1])
        parm    == LStrip(SubSeq(rest, Len(word) + 1, Len(rest)))
    IN  CASE l = <<>>                                  -> Result(s, "none")
          [] l[1] \notin {"+", "-"}                    -> Result(s, "ConfError")
          [] b = 0                                     -> Result(s, "IndexError")
          [] Len(word) # 1 \/ name \notin SettingNames -> Result(s, "KeyError")
          [] name \notin ParmNames /\ parm # <<>>      -> Result(s, "ConfError")
          [] name \in DeprecatedNames                  -> Result(s, "ConfError")
          [] name \in BooleanNames      -> BooleanSetting_load(s, name, enabled)
          [] name = "output-format"     -> StringSetting_load(s, name, enabled, parm)
          [] name = "define"            -> DeclareSetting_load(s, name, enabled, parm)
          [] name = "process"           -> ProcessSetting_load(s, enabled, parm, dir)
          [] name = "default-version"   -> JSVersionSetting_load(s, name, enabled, parm)

(***************************************************************************)
(* jsl.py main: conf_ = conf.Conf(), then conf_.loadfile(options.conf).   *)
(***************************************************************************)
Init ==
    /\ conf_text \in Texts
    /\ settings = <<>>
    /\ lineno = 0
    /\ error = [kind |-> "none", lineno |-> -1, path |-> None]
    /\ stage = "new"

\* Conf(): the settings, then self.loadline('-block_without_braces').
__init__ ==
    /\ stage = "new"
    /\ settings' = loadline(Defaults, <<"-", "block_without_braces">>, None).settings
    /\ stage' = "conf"
    /\ UNCHANGED <<conf_text, lineno, error>>

\* loadfile reads the file and hands loadtext its lines and directory.
loadfile ==
    /\ stage = "conf"
    /\ lineno' = 0
    /\ stage' = IF conf_text = <<>> THEN "loaded" ELSE "loading"
    /\ UNCHANGED <<conf_text, settings, error>>

\* One turn of loadtext's loop; a ConfError gets the 0-based line number
\* (loadtext) and the path (loadfile) and ends the load, as does any other
\* exception.
loadtext ==
    /\ stage = "loading"
    /\ LET r == loadline(settings, conf_text[lineno + 1], Dir)
       IN  /\ settings' = r.settings
           /\ IF r.raised = "none"
              THEN /\ lineno' = lineno + 1
                   /\ stage' = IF lineno + 1 = Len(conf_text) THEN "loaded" ELSE "loading"
                   /\ UNCHANGED error
              ELSE /\ error' = IF r.raised = "ConfError"
                               THEN [kind |-> r.raised, lineno |-> lineno, path |-> "conf"]
                               ELSE [kind |-> r.raised, lineno |-> -1, path |-> None]
                   /\ stage' = "failed"
                   /\ UNCHANGED lineno
    /\ UNCHANGED conf_text

Next == __init__ \/ loadfile \/ loadtext

Spec == Init /\ [][Next]_vars

(***************************************************************************)
(* DEFAULT_CONF (lines 9-99), what jsl --help:conf prints: a line          *)
(* "+name  # message" for each warning, "-" for block_without_braces       *)
(* (in an order of the set), and the documented settings; "#" lines are    *)
(* comments.                                                               *)
(***************************************************************************)
DefaultConf ==
    LET ws == SetToSeq(WarningNames)
        warning(n) == <<IF n = "block_without_braces" THEN "-" ELSE "+", n, " ", "#", " ", "x">>
    IN  <<<<"#", "x">>>> \o [k \in DOMAIN ws |-> warning(ws[k])]
        \o << <<>>, <<"#", "x">>, <<"+", "output-format", " ", "x", " ", "x">>,
              <<"+", "context">>, <<"-", "legacy_control_comments">>,
              <<"+", "always_use_option_explicit">>, <<"#", "+", "define", " ", "x">> >>

(***************************************************************************)
(* Reference: the file format DEFAULT_CONF documents.  A line, up to a     *)
(* "#", is blank, or "+name" / "-name" for a boolean setting, or "+name    *)
(* parameter" for output-format, define, process or default-type (with a   *)
(* content type JSVersion knows): the "JavaScript Version" section spells  *)
(* the version setting "+default-type text/javascript;version=1.5", while  *)
(* Conf's key is "default-version".  Conf() starts from DEFAULT_CONF       *)
(* (testDefaultConf), so loading a file means loading DEFAULT_CONF and     *)
(* then the file: the last line naming a setting gives its value, define   *)
(* and process lines accumulate in order, and a process line recurses as   *)
(* the recurse lines above it say.                                         *)
(***************************************************************************)
Content(line) ==
    LET h == SelectInSeq(line, LAMBDA c : c = "#")
    IN  RStrip(IF h = 0 THEN line ELSE SubSeq(line, 1, h - 1))

DocParm(l) == LStrip(SubSeq(l, 3, Len(l)))

\* The names DEFAULT_CONF gives the settings.
DocName(n) == IF n = "default-version" THEN "default-type" ELSE n
DocNames == { DocName(n) : n \in SettingNames \ DeprecatedNames }
DocParmNames == { DocName(n) : n \in ParmNames }

Documented(line) ==
    LET l == Content(line)
    IN  \/ l = <<>>
        \/ /\ Len(l) >= 2
           /\ l[1] \in {"+", "-"}
           /\ Lower(l[2]) \in DocNames
           /\ IF Lower(l[2]) \in DocParmNames
              THEN /\ l[1] = "+" /\ Len(l) >= 4 /\ l[3] = " "
                   /\ Lower(l[2]) = "default-type" => fromtype(DocParm(l)) # None
              ELSE Len(l) = 2

\* The values of the settings DEFAULT_CONF does not set ("recurse" is
\* "disabled by default").
Base == [n \in BooleanNames |-> n # "recurse"] @@ ("default-version" :> JSVersion("default", FALSE))

Reference(text) ==
    LET dt == DefaultConf \o text
        naming(n) == { i \in DOMAIN dt : Content(dt[i]) # <<>> /\ Lower(Content(dt[i])[2]) = DocName(n) }
        flag(n, lines) == IF lines = {} THEN Base[n] ELSE Content(dt[Max(lines)])[1] = "+"
        parm(i) == DocParm(Content(dt[i]))
        inorder(n) == SetToSortSeq(naming(n), <)
    IN  [n \in SettingNames |->
           CASE n \in BooleanNames -> flag(n, naming(n))
             [] n \in DeprecatedNames -> None
             [] n = "output-format" -> parm(Max(naming(n)))
             [] n = "default-version" ->
                    IF naming(n) = {} THEN Base[n] ELSE fromtype(parm(Max(naming(n))))
             [] n = "define" -> [k \in DOMAIN inorder(n) |-> parm(inorder(n)[k])]
             [] n = "process" ->
                    [k \in DOMAIN inorder(n) |->
                       [recurse |-> flag("recurse", { i \in naming("recurse") : i < inorder(n)[k] }),
                        path    |-> Join(Dir, parm(inorder(n)[k]))]]]

AllDocumented(text) == \A k \in DOMAIN text : Documented(text[k])

(***************************************************************************)
(* Properties.                                                             *)
(***************************************************************************)
\* Every setting holds a value of its kind; the load fails exactly when an
\* exception was raised, and a ConfError names a line of the file.
TypeOK ==
    /\ stage \in {"new", "conf", "loading", "loaded", "failed"}
    /\ stage = "failed" <=> error.kind # "none"
    /\ error.kind = "ConfError" => error.lineno \in 0 .. Len(conf_text) - 1
    /\ stage # "new" =>
         /\ DOMAIN settings = SettingNames
         /\ \A n \in BooleanNames : settings[n] \in BOOLEAN
         /\ settings["default-version"] \in [version : {"default", "1.5"}, e4x : BOOLEAN] \cup {None}

\* A file in the documented format that loads leaves Conf's settings as
\* DEFAULT_CONF followed by the file: a later line overrides an earlier
\* one, define and process lines accumulate in order, and every process
\* path keeps the recurse flag of the recurse lines above it (conf.py 152
\* reads recurse when the process line loads).
LoadedAsDocumented ==
    (stage = "loaded" /\ AllDocumented(conf_text)) => settings = Reference(conf_text)

\* Conf accepts only files in the documented format.
LoadsOnlyDocumented ==
    stage = "loaded" => AllDocumented(conf_text)

\* A file in the documented format never fails to load (jsl.py 115 lets
\* any exception of loadfile end the program).
DocumentedLoads ==
    AllDocumented(conf_text) => stage # "failed"
====
