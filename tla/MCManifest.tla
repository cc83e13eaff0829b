----------------------------- MODULE MCManifest -----------------------------
EXTENDS Manifest

P(dir, form, ctype, arg) == [dir |-> dir, form |-> form, ctype |-> ctype, arg |-> arg]
File(stem, ext, decls, ctors) ==
    [stem |-> stem, ext |-> ext, decls |-> decls, ctors |-> ctors, readable |-> TRUE]
Unreadable(f) == [f EXCEPT !.readable = FALSE]
Ctor(name, kind, decl) == [name |-> name, kind |-> kind, decl |-> decl, args |-> Layout(decl)]
\* An enumerator "name = id, ///< desc"; EntLine(name, id, valued, documented)
\* one written without "= id" or without its comment.
EntLine(name, id, valued, documented) ==
    [name |-> name, id |-> id, desc |-> <<"w">>, valued |-> valued, documented |-> documented]
Ent(name, id, desc) == [name |-> name, id |-> id, desc |-> desc, valued |-> TRUE, documented |-> TRUE]

Param(type, name, default, doc) == [type |-> type, name |-> name, default |-> default, doc |-> doc]

\* Constructor parameter lists of up to two parameters of the library's
\* types, with or without a default, and a comment on the last one at most.
CppTypes == {"uint16_t", "float", "bool", "std::complex<float>"}
Params(name, docs) == {Param(t, name, d, c) : t \in CppTypes, d \in {"none", "3"}, c \in docs}
ANDDecls == {<<>>} \cup {<<p>> : p \in Params("a", {"none", "text"})}
            \cup {<<p, q>> : p \in Params("a", {"none"}), q \in Params("b", {"none", "text"})}

\* AND: inputs added in a loop or by index; a header declaring the
\* constructor under the element's name or the class name, or no header.
ANDHeaders == {<<>>, <<File("AND", "hpp", <<>>, <<Ctor("le_AND", "decl", <<Param("uint16_t", "n", "none", "text")>>)>>)>>}
              \cup {<<File("AND", "hpp", <<>>, <<Ctor("AND", "decl", l)>>)>> : l \in ANDDecls}
ANDSources == {<<P("in", "loop", "bool", "i"), P("out", "prefix", "bool", "")>>,
               <<P("in", "indexed", "bool", "0"), P("in", "indexed", "bool", "1"),
                 P("out", "prefix", "bool", "")>>}

\* Gain: literal names of a plain or a complex type, or a math variable.
GainSources == {<<P("in", "literal", "float", "input"), P("out", "literal", "float", "output")>>,
                <<P("in", "literal", "std::complex<float>", "input"),
                  P("out", "literal", "std::complex<float>", "output")>>,
                <<P("in", "math", "float", "0"), P("out", "prefix", "float", "")>>}
GainCtor == <<Ctor("Gain", "init", <<Param("float", "gain", "none", "none")>>)>>

\* Mux: data inputs added in a loop, with or without a selector input.
MuxHeaders == {<<P("in", "literal", "uint16_t", "selector"), P("in", "loop", "bool", "i"),
                 P("out", "prefix", "bool", "")>>,
               <<P("in", "loop", "bool", "i"), P("out", "prefix", "bool", "")>>}

\* Two directories in walk order; Node has no file.
MCTrees == {<<h \o <<File("AND", "cpp", a, <<>>), File("Mux", "hpp", m, <<>>)>>,
              <<File("Gain", "cpp", g, GainCtor)>>>> :
            h \in ANDHeaders, a \in ANDSources, m \in MuxHeaders, g \in GainSources}

\* Enums out of id order, with either marker form, one with two elements of
\* the same id (an alias, Node = 70 after Gain = 70), and an empty one.
MCEnums == {<<Ent("Invalid", -1, <<"w">>), Ent("Node", 0, <<"w">>), Ent("Gain", 70, <<"w">>),
              Ent("MuxDigital", 62, <<"w", " ", "[", "H", "]">>), Ent("AND", 10, <<"w">>)>>,
            <<Ent("AND", 10, <<"w">>), Ent("MuxDigital", 62, <<"H", "!", " ", "w">>),
              Ent("Invalid", -1, <<"w">>), Ent("Gain", 70, <<"w">>), Ent("Node", 70, <<"w">>)>>,
            <<>>}

\* The trees above, those whose AND header comments its parameter with a
\* range "(2-8)", and those whose le_Gain.cpp cannot be read.
RangeHeader == <<File("AND", "hpp", <<>>, <<Ctor("AND", "decl", <<Param("uint16_t", "n", "none", "range")>>)>>)>>
MCTreesWide == MCTrees \cup
    {<<RangeHeader \o <<File("AND", "cpp", a, <<>>), File("Mux", "hpp", m, <<>>)>>,
       <<File("Gain", "cpp", g, GainCtor)>>>> : a \in ANDSources, m \in MuxHeaders, g \in GainSources}
    \cup {<<<<File("AND", "cpp", a, <<>>)>>, <<Unreadable(File("Gain", "cpp", g, GainCtor))>>>> :
          a \in ANDSources, g \in GainSources}

\* The enums above, and one with an enumerator without a comment and one
\* without an explicit value.
MCEnumsWide == MCEnums \cup
    {<<Ent("Invalid", -1, <<"w">>), Ent("AND", 10, <<"w">>), EntLine("OR", 11, TRUE, FALSE),
       EntLine("NOT", 12, FALSE, TRUE), Ent("Gain", 70, <<"w">>)>>}
=============================================================================
