SPECIFICATION CheckedSpec
CONSTANTS
    Cand1 = FALSE
    Strict = FALSE
    kUnknownObjectId = 100
    kGenerationStride = 10
    kParameterObjectIdBase = 60
    MaxHeap = 3
    Summaries <- SmallSummaries
    OutOwners <- NoOutOwners
    Results <- SmallResults
    Storages <- Two
    Blocks <- SmallBlocks
    Programs <- ConsumedAliasPrograms
INVARIANTS
    TrustworthyPass
CHECK_DEADLOCK FALSE
