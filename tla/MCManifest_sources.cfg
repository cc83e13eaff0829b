CONSTANTS
    Enums <- MCEnumsWide
    Trees <- MCTreesWide
    MuxPrefixed = {"MuxDigital"}
SPECIFICATION Spec
INVARIANTS
    ManifestDescribesSources
