SPECIFICATION Spec
CONSTANTS
    Units <- IgnoringUnits
INVARIANTS
    ReadsCovered
CHECK_DEADLOCK FALSE
