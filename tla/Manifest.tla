------------------------------ MODULE Manifest ------------------------------
(***************************************************************************)
(* generate_manifest and main of src/tools/manifest/generate_manifest.py *)
(* as a state machine: the enum is parsed, each element is visited in    *)
(* enum order (one step per loop iteration), then the list is sorted by  *)
(* id and the statistics are computed; main then writes the manifest.    *)
(* The enum and the source tree are chosen in Init and do not change.    *)
(***************************************************************************)
EXTENDS ManifestParse, FiniteSets

CONSTANTS
    Enums,        \* ElementType enums: sequences of [name, id, desc]
    Trees,        \* source trees, as find_element_files walks them
    MuxPrefixed   \* the element names that start with "Mux"

VARIABLES
    enum, tree,     \* the inputs
    pc,             \* "start", "loop", "done", "written" (main returns 0)
                    \* or "failed" (main returns 1)
    element_info,   \* the result of parse_element_enum
    i,              \* the loop's position in element_info
    elements,       \* the element list built so far
    manifest        \* the manifest, "none" until it is built
vars == <<enum, tree, pc, element_info, i, elements, manifest>>

Init ==
    /\ enum \in Enums
    /\ tree \in Trees
    /\ pc = "start"
    /\ element_info = <<>>
    /\ i = 1
    /\ elements = <<>>
    /\ manifest = "none"

\* parse_element_enum; with no element the run ends in the error path.
ParseEnum ==
    /\ pc = "start"
    /\ element_info' = parse_element_enum(enum)
    /\ pc' = IF element_info' = <<>> THEN "failed" ELSE "loop"
    /\ UNCHANGED <<enum, tree, i, elements, manifest>>

SkipInvalid ==
    /\ pc = "loop"
    /\ i <= Len(element_info)
    /\ element_info[i].name = "Invalid"
    /\ i' = i + 1
    /\ UNCHANGED <<enum, tree, pc, element_info, elements, manifest>>

\* The loop without its "Invalid" test.
ProcessElementNoSkip ==
    /\ pc = "loop"
    /\ i <= Len(element_info)
    /\ elements' = Append(elements, ElementEntry(tree, MuxPrefixed, element_info[i]))
    /\ i' = i + 1
    /\ UNCHANGED <<enum, tree, pc, element_info, manifest>>

\* One iteration of the loop for an element other than Invalid.
ProcessElement ==
    /\ pc = "loop"
    /\ i <= Len(element_info)
    /\ element_info[i].name # "Invalid"
    /\ elements' = Append(elements, ElementEntry(tree, MuxPrefixed, element_info[i]))
    /\ i' = i + 1
    /\ UNCHANGED <<enum, tree, pc, element_info, manifest>>

\* list.sort is stable: an element goes after those with an id not above its own.
RECURSIVE InsertById(_, _)
InsertById(e, s) ==
    IF s = <<>> \/ e.id < Head(s).id THEN <<e>> \o s
    ELSE <<Head(s)>> \o InsertById(e, Tail(s))

RECURSIVE SortById(_, _)
SortById(sorted, rest) ==
    IF rest = <<>> THEN sorted ELSE SortById(InsertById(Head(rest), sorted), Tail(rest))

\* sum(1 for e in s if e[field] == value)
CountOf(s, field, value) == Cardinality({k \in DOMAIN s : s[k][field] = value})

\* After the loop: sort by id, build the manifest and its statistics.
\* The library, features and configuration sections copy the arguments.
Finish ==
    /\ pc = "loop"
    /\ i > Len(element_info)
    /\ elements' = SortById(<<>>, elements)
    /\ manifest' =
         [elements |-> elements',
          statistics |->
            [totalElements |-> Len(elements'),
             heterogeneousElements |-> CountOf(elements', "heterogeneous", TRUE),
             digitalElements |-> CountOf(elements', "category", "digital"),
             arithmeticElements |-> CountOf(elements', "category", "arithmetic")]]
    /\ pc' = "done"
    /\ UNCHANGED <<enum, tree, element_info, i>>

\* main: json.dump of the manifest to args.output, then exit status 0.
Write ==
    /\ pc = "done"
    /\ pc' = "written"
    /\ UNCHANGED <<enum, tree, element_info, i, elements, manifest>>

\* main has returned; only this state may have no other step.
Terminating == pc \in {"written", "failed"} /\ UNCHANGED vars

Next == ParseEnum \/ SkipInvalid \/ ProcessElement \/ Finish \/ Write \/ Terminating

Spec == Init /\ [][Next]_vars

\* The manifest has been built (and possibly written).
Built == pc \in {"done", "written"}

----------------------------------------------------------------------------
\* configuration.portNaming: how the manifest tells its readers ports are named.
PortNaming == [inputPrefix |-> "input", outputPrefix |-> "output", separator |-> "_",
               mathVarPrefix |-> "x", selectorName |-> "selector"]

(***************************************************************************)
(* The refinement mapping: a run is "running" until the enum is parsed   *)
(* and the loop and the sort are over, and its result is the manifest    *)
(* once Finish has built it.                                              *)
(***************************************************************************)
Abstract == INSTANCE ManifestSpec WITH
    status <- IF pc \in {"start", "loop"} THEN "running"
              ELSE IF pc = "done" THEN "built" ELSE pc,
    result <- IF Built THEN <<manifest>> ELSE <<>>

(***************************************************************************)
(* generate_manifest and main implement ManifestSpec: a run that does not *)
(* fail writes the manifest listing every parsed element except Invalid, *)
(* each once, ordered by id with equal ids in enum order, with its        *)
(* entry, and with statistics that count that list.                     *)
(* The loop skips Invalid and appends the others in dict order, list.sort *)
(* orders them afterwards and the statistics are taken of the sorted list.*)
(***************************************************************************)
ImplementsManifestSpec == Abstract!Spec

\* The files of an element (le_Mux.* for Mux*), and what they declare.
TreeFiles == UNION {{tree[d][j] : j \in DOMAIN tree[d]} : d \in DOMAIN tree}
ElementFiles(name) == {f \in TreeFiles : f.stem = SearchName(name, MuxPrefixed)}
ElementDecls(name) == UNION {{f.decls[k] : k \in DOMAIN f.decls} : f \in ElementFiles(name)}
ElementCtors(name) ==
    {c \in UNION {{f.ctors[k] : k \in DOMAIN f.ctors} : f \in ElementFiles(name)} : c.name = name}

\* The name a declared port has under configuration.portNaming.
NamedBy(d) ==
    LET prefix == IF d.dir = "in" THEN PortNaming.inputPrefix ELSE PortNaming.outputPrefix
    IN  CASE d.form = "literal" -> d.arg
          [] d.form = "indexed" -> prefix \o PortNaming.separator \o d.arg
          [] d.form = "math"    -> PortNaming.mathVarPrefix \o d.arg
          [] d.form = "prefix"  -> prefix

PortsOfDir(e, dir) == IF dir = "in" THEN e.ports.inputs ELSE e.ports.outputs

\* Every declared port of a type in Kinds is listed once by name and type.
ListsPorts(Kinds) ==
    Built =>
      \A k \in DOMAIN manifest.elements, dir \in {"in", "out"} :
        LET e == manifest.elements[k]
            ps == PortsOfDir(e, dir)
        IN  /\ \A a, b \in DOMAIN ps : a # b => <<ps[a].name, ps[a].type>> # <<ps[b].name, ps[b].type>>
            /\ \A d \in ElementDecls(e.type) :
                 d.dir = dir /\ d.form # "loop" /\ ManifestType[d.ctype] \in Kinds =>
                   \E a \in DOMAIN ps : ps[a].name = NamedBy(d) /\ ps[a].type = ManifestType[d.ctype]

(***************************************************************************)
(* Every port an element's files declare with a literal, indexed, math   *)
(* or prefix name and a plain (non-template) type is in the manifest      *)
(* once, under the name configuration.portNaming gives it.               *)
(* find_element_files returns every file twice (its patterns le_S.* and  *)
(* le_s.* are compared without case), so each port is found twice and   *)
(* only deduplicate_ports keeps it single.                               *)
(***************************************************************************)
PortsListedOnce == ListsPorts({"bool", "float", "uint16_t"})

\* A direction whose ports are added in a for loop carries the note.
LoopPortsNoted ==
    \A k \in DOMAIN manifest.elements :
      LET e == manifest.elements[k]
      IN  /\ (\E d \in ElementDecls(e.type) : d.dir = "in" /\ d.form = "loop") => e.ports.inputs_note
          /\ (\E d \in ElementDecls(e.type) : d.dir = "out" /\ d.form = "loop") => e.ports.outputs_note

(***************************************************************************)
(* An element's constructor_args are the parameters declared by the       *)
(* constructor head named after it, with their names, manifest types and *)
(* comments, and are empty when there is no such head.  The file text    *)
(* reaches parse_constructor_arguments through the constructor patterns  *)
(* of parse_element_ports; a parameter list is laid out in the            *)
(* docstring's style with a comment on its last parameter at most.       *)
(***************************************************************************)
ConstructorArgsAsDeclared ==
    Built =>
      \A k \in DOMAIN manifest.elements :
        LET e == manifest.elements[k]
        IN  IF ElementCtors(e.type) = {} THEN e.constructor_args = <<>>
            ELSE \E c \in ElementCtors(e.type) : e.constructor_args = Declared(c.decl)

(***************************************************************************)
(* The manifest describes its sources: every enumerator of ElementType   *)
(* other than Invalid is an element of it; every port its files add with *)
(* a name in the text is listed, whatever its type; a direction whose     *)
(* ports are added in a for loop is noted; and constructor_args are the *)
(* parameters of the constructor named after the element.  The enum       *)
(* pattern needs "= N" and "///< " on each enumerator, the port patterns  *)
(* stop the type at its first '>', the note is set only when no other     *)
(* port of that direction was found, and the constructor patterns stop    *)
(* the arguments at their first ')'.                                      *)
(***************************************************************************)
ManifestDescribesSources ==
    /\ Built => \A k \in DOMAIN enum :
                  enum[k].name # "Invalid" =>
                    \E j \in DOMAIN manifest.elements : manifest.elements[j].type = enum[k].name
    /\ ListsPorts({"bool", "float", "uint16_t", "complex"})
    /\ Built => LoopPortsNoted
    /\ ConstructorArgsAsDeclared
=============================================================================
