SPECIFICATION Spec
CONSTANTS
    Units <- SummarizedUnits
INVARIANTS
    TypeOK
    BodiesWin
    ConvergedOrClosed
    DestructionCovered
    ReturnOriginsCovered
    ContractsAgree
PROPERTIES
    ConflictsStay
    EarlyEndSolves
CHECK_DEADLOCK FALSE
