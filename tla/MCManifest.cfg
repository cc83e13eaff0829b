CONSTANTS
    Enums <- MCEnums
    Trees <- MCTrees
    MuxPrefixed = {"MuxDigital"}
SPECIFICATION Spec
INVARIANTS
    PortsListedOnce
    ConstructorArgsAsDeclared
PROPERTIES
    ImplementsManifestSpec
