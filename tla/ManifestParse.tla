---------------------------- MODULE ManifestParse ----------------------------
(***************************************************************************)
(* The text functions of src/tools/manifest/generate_manifest.py.  Text   *)
(* is abstracted to tokens: each token stands for a run of characters the *)
(* code's loops and regular expressions treat alike, separated by one      *)
(* space (none before a comma).  A token is a record [k |-> kind,          *)
(* v |-> text]; kinds are "type", "name", "eq", "default", "comma",       *)
(* "doc" (the comment marker ///<), "word" (a comment word) and "nl".     *)
(***************************************************************************)
EXTENDS Integers, Sequences, SequencesExt

Tok(k, v) == [k |-> k, v |-> v]
NL == Tok("nl", "\n")
COMMA == Tok("comma", ",")

(***************************************************************************)
(* The net count of '<' minus '>' in a token's text, for the split loop.  *)
(* "///<" opens one; a default such as a>b closes one; a template type    *)
(* such as std::complex<float> opens and closes one and has no comma in   *)
(* between, so the loop treats it as one unit.                            *)
(***************************************************************************)
Unbalanced == ("///<" :> 1) @@ ("a>b" :> -1)
Delta(t) == IF t.v \in DOMAIN Unbalanced THEN Unbalanced[t.v] ELSE 0

\* What \w+ matches at the start of a token's text ("" if nothing).
WordPrefixes == ("std::complex<float>" :> "std") @@ ("0.5f" :> "0") @@ ("a>b" :> "a")
WordPrefix(t) ==
    IF t.k \in {"doc", "eq", "comma", "nl"} THEN ""
    ELSE IF t.v \in DOMAIN WordPrefixes THEN WordPrefixes[t.v] ELSE t.v

\* str.strip(): whitespace (here the newlines) at both ends is removed.
RECURSIVE Strip(_)
Strip(s) ==
    IF s # <<>> /\ Head(s).k = "nl" THEN Strip(Tail(s))
    ELSE IF s # <<>> /\ Last(s).k = "nl" THEN Strip(Front(s))
    ELSE s

\* The manifest type of each C++ type of the library, as the manifest's
\* readers expect it.
ManifestType == ("uint16_t" :> "uint16_t") @@ ("float" :> "float") @@ ("bool" :> "bool")
                @@ ("std::complex<float>" :> "complex")

(***************************************************************************)
(* The text of a declared parameter list, one parameter per line, in the *)
(* docstring style: "T name[ = d]," with the comma after all but the last *)
(* parameter, then "///< Doc name" when the parameter is documented.  A  *)
(* parameter is [type, name, default, doc]; doc is "none", "text"       *)
(* ("///< Doc name") or "range", a comment that ends in a parenthesised  *)
(* range ("///< Doc name (2-8)").  Declared is what the manifest should  *)
(* say of it.                                                             *)
(***************************************************************************)
DocWords(p) == IF p.doc = "range" THEN <<"Doc", p.name, "(2-8)">> ELSE <<"Doc", p.name>>

Layout(ps) ==
    FlattenSeq([i \in DOMAIN ps |->
        <<Tok("type", ps[i].type), Tok("name", ps[i].name)>>
        \o (IF ps[i].default = "none" THEN <<>> ELSE <<Tok("eq", "="), Tok("default", ps[i].default)>>)
        \o (IF i < Len(ps) THEN <<COMMA>> ELSE <<>>)
        \o (IF ps[i].doc = "none" THEN <<>>
            ELSE <<Tok("doc", "///<")>> \o [j \in DOMAIN DocWords(ps[i]) |-> Tok("word", DocWords(ps[i])[j])])
        \o <<NL>>])

Declared(ps) ==
    [i \in DOMAIN ps |-> [name |-> ps[i].name, type |-> ManifestType[ps[i].type],
                          description |-> IF ps[i].doc = "none" THEN <<>> ELSE DocWords(ps[i])]]

\* A type table without the template entries.
simplify_typeNoComplex(cpp) == IF cpp \in {"bool", "float"} THEN cpp ELSE cpp

\* simplify_type: the table lookup, the argument itself when it has no entry.
TypeMap == ("bool" :> "bool") @@ ("float" :> "float")
           @@ ("std::complex<float>" :> "complex") @@ ("std::complex<float> " :> "complex")
simplify_type(cpp) == IF cpp \in DOMAIN TypeMap THEN TypeMap[cpp] ELSE cpp

(***************************************************************************)
(* The split loop of parse_constructor_arguments: a comma at template     *)
(* depth 0 ends an argument (stripped, empty or not); every other token is *)
(* appended and moves the depth.  The rest is kept when not empty.        *)
(***************************************************************************)
RECURSIVE SplitArgs(_, _, _, _)
SplitArgs(ts, parts, cur, depth) ==
    IF ts = <<>> THEN IF Strip(cur) # <<>> THEN Append(parts, Strip(cur)) ELSE parts
    ELSE IF Head(ts).k = "comma" /\ depth = 0
         THEN SplitArgs(Tail(ts), Append(parts, Strip(cur)), <<>>, depth)
         ELSE SplitArgs(Tail(ts), parts, Append(cur, Head(ts)), depth + Delta(Head(ts)))

(***************************************************************************)
(* One argument.  ///<\s*(.+)$ and ///<.*$ match only on the last line,   *)
(* at its first marker: '.' stops at a newline and '$' is the end of the  *)
(* stripped text.  The description is what follows that marker; the rest  *)
(* before it must start with a type run and a \w name.                    *)
(***************************************************************************)
ParseArg(part) ==
    LET p == Strip(part)
        lineStart == 1 + Max({0} \cup {i \in DOMAIN p : p[i].k = "nl"})
        docs == {i \in lineStart .. Len(p) : p[i].k = "doc"}
        doc == IF docs = {} THEN 0 ELSE Min(docs)
        description == IF doc = 0 THEN <<>>
                       ELSE [i \in 1 .. Len(p) - doc |-> p[doc + i].v]
        body == Strip(IF doc = 0 THEN p ELSE SubSeq(p, 1, doc - 1))
        nameTok == SelectSeq(Tail(body), LAMBDA t : t.k # "nl")
    IN  IF p = <<>> \/ Len(body) < 2 \/ body[1].k = "eq" \/ WordPrefix(nameTok[1]) = ""
        THEN <<>>
        ELSE << [name |-> WordPrefix(nameTok[1]), type |-> simplify_type(body[1].v),
                 description |-> description] >>

parse_constructor_arguments(argsText) ==
    FlattenSeq([i \in DOMAIN SplitArgs(argsText, <<>>, <<>>, 0) |->
                    ParseArg(SplitArgs(argsText, <<>>, <<>>, 0)[i])])

----------------------------------------------------------------------------
\* deduplicate_ports: keep the first port of each (name, type).
RECURSIVE Dedup(_, _)
Dedup(ports, seen) ==
    IF ports = <<>> THEN <<>>
    ELSE LET key == <<Head(ports).name, Head(ports).type>>
         IN  IF key \in seen THEN Dedup(Tail(ports), seen)
             ELSE <<Head(ports)>> \o Dedup(Tail(ports), seen \cup {key})

\* The port lists without the deduplication step.
deduplicate_portsKeepAll(ports) == ports

deduplicate_ports(ports) == Dedup(ports, {})

\* categorize_element: the ranges are tested in order and the first wins.
categorize_element(id) ==
    IF id = 0 \/ id \in {50, 51} THEN "node"
    ELSE IF id \in 10 .. 19 THEN "digital"
    ELSE IF id \in 30 .. 49 THEN "digital"
    ELSE IF id \in 60 .. 68 THEN "conversions"
    ELSE IF id \in 69 .. 79 \/ id = 84 THEN "arithmetic"
    ELSE IF id \in 80 .. 83 THEN "control"
    ELSE IF id \in 62 .. 62 THEN "power"
    ELSE IF id \in 81 .. 82 THEN "power"
    ELSE IF id \in 100 .. 119 THEN "protection"
    ELSE "other"

----------------------------------------------------------------------------
(***************************************************************************)
(* parse_element_ports.  A file's content is abstracted to its port       *)
(* declarations [dir, form, ctype, arg] in text order and its constructor *)
(* heads [name, kind, args]; readable is FALSE for a file that cannot be *)
(* read as UTF-8.  form "literal" is AddXPort<T>("arg"),       *)
(* "indexed" LE_PORT_INPUT_NAME(arg) / LE_PORT_OUTPUT_NAME(arg), "math"   *)
(* LE_PORT_MATH_VAR_NAME(arg), "prefix" LE_PORT_INPUT_PREFIX /            *)
(* LE_PORT_OUTPUT_PREFIX, and "loop" a call inside a for body whose name  *)
(* is computed from the loop variable.  A constructor head is of kind     *)
(* "decl" (ends in ';'), "impl" (ends in '{') or "init" (': Element(..)   *)
(* {').                                                                   *)
(***************************************************************************)
InputPatterns == <<"literal", "indexed", "math", "prefix">>
OutputPatterns == <<"literal", "indexed", "prefix">>
CtorPatterns == <<"decl", "impl", "init">>

\* AddXPort<([^>]+)>\s*\( cannot match a port type that itself contains '>'.
HasGt(ctype) == ctype \in {"std::complex<float>"}

PortName(dir, form, arg) ==
    IF form = "indexed" THEN (IF dir = "in" THEN "input_" ELSE "output_") \o arg
    ELSE IF form = "math" THEN "x" \o arg
    ELSE IF form = "prefix" THEN (IF dir = "in" THEN "input" ELSE "output")
    ELSE arg

\* The matches of one pattern, in text order, as port records.
PortsOf(decls, dir, form) ==
    LET m == SelectSeq(decls, LAMBDA d : d.dir = dir /\ d.form = form /\ ~HasGt(d.ctype))
    IN  [i \in DOMAIN m |-> [name |-> PortName(dir, form, m[i].arg),
                             type |-> simplify_type(m[i].ctype),
                             indexed |-> form \in {"indexed", "math"}]]

ExtractPorts(decls, dir) ==
    LET pats == IF dir = "in" THEN InputPatterns ELSE OutputPatterns
    IN  FlattenSeq([j \in DOMAIN pats |-> PortsOf(decls, dir, pats[j])])

\* for\s*\([^)]*\)\s*\{[^}]*AddXPort
Dynamic(decls, dir) == \E i \in DOMAIN decls : decls[i].dir = dir /\ decls[i].form = "loop"

\* (\w+)\s*\(\s*([^)]*)\s*\)\s*; and the other two heads: the argument text
\* ends at its first ')', so a head whose arguments contain one (a comment
\* "(2-8)" is followed by a newline, not by ';', '{' or ':') does not match.
HasParen(ts) == \E j \in DOMAIN ts : ts[j].v = "(2-8)"

\* The constructor search: the first pattern with a head named after the
\* element, and the first such head in text order; its arguments if any.
ConstructorArgs(ctors, name) ==
    LET named(k) == SelectSeq(ctors, LAMBDA c : c.kind = k /\ c.name = name /\ ~HasParen(c.args))
        kinds == {j \in DOMAIN CtorPatterns : named(CtorPatterns[j]) # <<>>}
    IN  IF kinds = {} THEN <<>>
        ELSE LET c == named(CtorPatterns[Min(kinds)])[1]
             IN  IF Strip(c.args) = <<>> THEN <<>> ELSE parse_constructor_arguments(c.args)

\* The files whose text is read into content; a file open() or read() fails
\* on is skipped with a warning, and the element keeps the others' text.
Readable(files) == SelectSeq(files, LAMBDA f : f.readable)

parse_element_ports(files, name) ==
    LET read == Readable(files)
        decls == FlattenSeq([i \in DOMAIN read |-> read[i].decls])
        ctors == FlattenSeq([i \in DOMAIN read |-> read[i].ctors])
        inputs == deduplicate_ports(ExtractPorts(decls, "in"))
        outputs == deduplicate_ports(ExtractPorts(decls, "out"))
    IN  [inputs |-> inputs, outputs |-> outputs,
         inputs_note |-> Dynamic(decls, "in") /\ inputs = <<>>,
         outputs_note |-> Dynamic(decls, "out") /\ outputs = <<>>,
         constructor_args |-> ConstructorArgs(ctors, name)]

(***************************************************************************)
(* find_element_files.  The tree is the os.walk order of its directories, *)
(* each the listing order of its files [stem, ext, decls, ctors]; the     *)
(* stem is the file name without le_ and extension, up to case.  The four *)
(* patterns are le_S.hpp, le_S.cpp, le_s.hpp, le_s.cpp compared without   *)
(* case, so the last two find the same files as the first two again.     *)
(***************************************************************************)
FilesNamed(dir, stem, ext) == SelectSeq(dir, LAMBDA f : f.stem = stem /\ f.ext = ext)

find_element_files(tree, searchName) ==
    FlattenSeq([d \in DOMAIN tree |->
        FlattenSeq(<<FilesNamed(tree[d], searchName, "hpp"), FilesNamed(tree[d], searchName, "cpp"),
                     FilesNamed(tree[d], searchName, "hpp"), FilesNamed(tree[d], searchName, "cpp")>>)])

(***************************************************************************)
(* parse_element_enum, after the regular expressions: a description is a *)
(* sequence of symbols, "H" standing for the word HETEROGENEOUS, "w" for  *)
(* any other word, and " ", "[", "]", "!" for themselves.                 *)
(***************************************************************************)
HasInfix(s, pat) == \E i \in 0 .. Len(s) - Len(pat) : SubSeq(s, i + 1, i + Len(pat)) = pat

\* str.replace(pat, ""): left to right, non-overlapping.
RECURSIVE RemoveAll(_, _)
RemoveAll(s, pat) ==
    IF Len(s) < Len(pat) THEN s
    ELSE IF SubSeq(s, 1, Len(pat)) = pat THEN RemoveAll(SubSeq(s, Len(pat) + 1, Len(s)), pat)
    ELSE <<Head(s)>> \o RemoveAll(Tail(s), pat)

RECURSIVE StripSpaces(_)
StripSpaces(s) ==
    IF s # <<>> /\ Head(s) = " " THEN StripSpaces(Tail(s))
    ELSE IF s # <<>> /\ Last(s) = " " THEN StripSpaces(Front(s))
    ELSE s

CleanDescription(desc) ==
    StripSpaces(RemoveAll(RemoveAll(RemoveAll(desc, <<"[", "H", "]">>), <<"H", "!">>), <<"[", "H", "!">>))

\* (\w+)\s*=\s*(-?\d+),?\s*///< (.+?): an enumerator matches only with an
\* explicit value and a comment on its own line.
Matches(e) == e.valued /\ e.documented

parse_element_enum(enum) ==
    LET m == SelectSeq(enum, Matches)
    IN  [i \in DOMAIN m |->
            [name |-> m[i].name, id |-> m[i].id,
             description |-> CleanDescription(m[i].desc),
             heterogeneous |-> HasInfix(m[i].desc, <<"[", "H", "]">>) \/ HasInfix(m[i].desc, <<"H", "!">>)]]

----------------------------------------------------------------------------
\* find_element_files: the Mux specializations share le_Mux.hpp/.cpp;
\* muxPrefixed is the set of names that start with "Mux".
SearchName(name, muxPrefixed) == IF name \in muxPrefixed THEN "Mux" ELSE name

NoPorts == [inputs |-> <<>>, outputs |-> <<>>, inputs_note |-> FALSE, outputs_note |-> FALSE]

\* The body of generate_manifest's loop for one element of element_info: its
\* files, their ports and constructor arguments (none, with a warning, when
\* no file is found), and its category.
ElementEntry(tree, muxPrefixed, info) ==
    LET files == find_element_files(tree, SearchName(info.name, muxPrefixed))
        data == parse_element_ports(files, info.name)
    IN  [type |-> info.name, id |-> info.id, description |-> info.description,
         category |-> categorize_element(info.id),
         heterogeneous |-> info.heterogeneous,
         ports |-> IF files # <<>> THEN [f \in DOMAIN NoPorts |-> data[f]] ELSE NoPorts,
         constructor_args |-> IF files # <<>> THEN data.constructor_args ELSE <<>>]
=============================================================================
