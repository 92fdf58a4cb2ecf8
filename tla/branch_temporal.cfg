SPECIFICATION CheckedSpec
CONSTANTS
    Cand1 = FALSE
    Strict = FALSE
    kUnknownObjectId = 100
    kGenerationStride = 10
    kParameterObjectIdBase = 60
    MaxHeap = 4
    Summaries <- SmallSummaries
    OutOwners <- NoOutOwners
    Results <- SmallResults
    Storages <- Two
    Blocks <- SmallBlocks
    Programs <- BranchingPrograms
INVARIANTS
    TrustworthyPass
    EntryStateCovers
CHECK_DEADLOCK FALSE
