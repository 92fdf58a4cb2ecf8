SPECIFICATION Spec
CONSTANTS
    Units <- MutualUnits
INVARIANTS
    ConvergedOrClosed
CHECK_DEADLOCK FALSE
