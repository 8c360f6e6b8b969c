CONSTANTS
    BaseStrings <- RfcBases
    RefStrings <- RfcReferences
SPECIFICATION Spec
INVARIANT ResolveMatchesRfc
CHECK_DEADLOCK FALSE
