CONSTANTS
    ParamLists <- BracketLists
SPECIFICATION Spec
INVARIANTS ArgsMatchDeclaration
