---------------------------- MODULE ManifestSpec ----------------------------
(***************************************************************************)
(* What generate_manifest and main promise, in one step: a run either    *)
(* fails (no element in the enum, exit status 1) or produces the manifest *)
(* whose element list is every element_info entry except Invalid, each    *)
(* described by its files, ordered by id with equal ids in enum order,    *)
(* and whose statistics count that list; the manifest is then written    *)
(* (exit status 0).  Manifest.tla shows the loop and the sort implement   *)
(* it.                                                                    *)
(***************************************************************************)
EXTENDS ManifestParse, FiniteSets

CONSTANTS Enums, Trees, MuxPrefixed

VARIABLES
    enum, tree,   \* the inputs
    status,       \* "running", "failed", "built" or "written"
    result        \* <<>>, or <<m>> once the manifest m is built
absvars == <<enum, tree, status, result>>

Info == parse_element_enum(enum)
Listed == {k \in DOMAIN Info : Info[k].name # "Invalid"}
Rank(k) == Cardinality({j \in Listed : \/ Info[j].id < Info[k].id
                                       \/ Info[j].id = Info[k].id /\ j < k}) + 1
ListedIn(category) == {k \in Listed : categorize_element(Info[k].id) = category}

Expected ==
    [elements |-> [r \in 1 .. Cardinality(Listed) |->
                     ElementEntry(tree, MuxPrefixed, Info[CHOOSE k \in Listed : Rank(k) = r])],
     statistics |->
       [totalElements |-> Cardinality(Listed),
        heterogeneousElements |-> Cardinality({k \in Listed : Info[k].heterogeneous}),
        digitalElements |-> Cardinality(ListedIn("digital")),
        arithmeticElements |-> Cardinality(ListedIn("arithmetic"))]]

Init ==
    /\ enum \in Enums
    /\ tree \in Trees
    /\ status = "running"
    /\ result = <<>>

Generate ==
    /\ status = "running"
    /\ IF Info = <<>> THEN status' = "failed" /\ result' = <<>>
                      ELSE status' = "built" /\ result' = <<Expected>>
    /\ UNCHANGED <<enum, tree>>

Write ==
    /\ status = "built"
    /\ status' = "written"
    /\ UNCHANGED <<enum, tree, result>>

\* The script has ended: the manifest is written or the run failed.
Terminating == status \in {"written", "failed"} /\ UNCHANGED absvars

Next == Generate \/ Write \/ Terminating

Spec == Init /\ [][Next]_absvars
=============================================================================
