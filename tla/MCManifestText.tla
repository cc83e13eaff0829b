--------------------------- MODULE MCManifestText ---------------------------
EXTENDS ManifestText

\* Up to three parameters named by position; the types, defaults and
\* comments a constructor of the library uses.
MaxParams == 3
ParamNames == <<"a", "b", "c">>
CppTypes == {"uint16_t", "float", "bool", "std::complex<float>"}

Lists(defaults, docs) ==
    UNION {[1 .. n -> [type : CppTypes, default : defaults, doc : docs]] : n \in 1 .. MaxParams}

Named(l) == [i \in DOMAIN l |-> [type |-> l[i].type, name |-> ParamNames[i],
                                   default |-> l[i].default, doc |-> l[i].doc]]

\* Every parameter commented, as the docstring's example.
DocLists == {Named(l) : l \in Lists({"none"}, {"text"})}

\* A comparison in a default value.
GtLists == {Named(l) : l \in Lists({"none", "a>b"}, {"none"})}

\* Every parameter commented, or a comparison in a default.
BracketLists == DocLists \cup GtLists
=============================================================================
