---------------------------- MODULE ManifestText ----------------------------
(***************************************************************************)
(* parse_constructor_arguments applied to every parameter list of a small *)
(* grammar, laid out in the style of its docstring ("uint16_t arg1, ///<  *)
(* Description").  The list is chosen in Init and never changes.          *)
(***************************************************************************)
EXTENDS ManifestParse

CONSTANT ParamLists   \* parameter lists: sequences of [type, name, default, doc]

VARIABLE params

Init == params \in ParamLists
Next == UNCHANGED params
Spec == Init /\ [][Next]_params

(***************************************************************************)
(* parse_constructor_arguments returns one entry per declared parameter, *)
(* in order, with its name, its manifest type and the words of its ///<  *)
(* comment.  Its split loop counts '<' and '>' to keep template          *)
(* arguments whole, and so also counts the '<' of every ///< marker and  *)
(* the '>' of a default such as a>b.                                     *)
(***************************************************************************)
ArgsMatchDeclaration == parse_constructor_arguments(Layout(params)) = Declared(params)
=============================================================================
