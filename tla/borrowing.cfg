SPECIFICATION CheckedSpec
CONSTANTS
    Cand1 = TRUE
    Strict = TRUE
    kUnknownObjectId = 100
    kGenerationStride = 10
    kParameterObjectIdBase = 60
    MaxHeap = 4
    Summaries <- SmallSummaries
    OutOwners <- SmallOutOwners
    Results <- SmallResults
    Storages <- Three
    Blocks <- SmallBlocks
    Programs <- BorrowPrograms
INVARIANTS
    TrustworthyPass
    EntryStateCovers
    NoUseAfterMove
    ExclusiveBorrows
    ObjectsToldApart
    OwnersExist
    GuardsTestify
CHECK_DEADLOCK FALSE
