SPECIFICATION CheckedSpec
CONSTANTS
    Cand1 = TRUE
    Strict = TRUE
    kUnknownObjectId = 100
    kGenerationStride = 10
    kParameterObjectIdBase = 60
    MaxHeap = 3
    Summaries <- SmallSummaries
    OutOwners <- SmallOutOwners
    Results <- SmallResults
    Storages <- Two
    Blocks <- SmallBlocks
    Programs <- MaybeNullPrograms
INVARIANTS
    NoUseAfterMove
CHECK_DEADLOCK FALSE
