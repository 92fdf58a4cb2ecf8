SPECIFICATION FairSpec
CONSTANTS
    Cand1 = TRUE
    Strict = TRUE
    kUnknownObjectId = 50
    kGenerationStride = 10
    kParameterObjectIdBase = 40
    Summaries <- SmallSummaries
    OutOwners <- SmallOutOwners
    Results <- SmallResults
    Storages <- Three
    Blocks <- SmallBlocks
    Programs <- LoopingPrograms
INVARIANTS
    TypeOK
    WorklistCovers
    PostFixpoint
    UniqueOwner
    LivenessIsReachableUse
PROPERTIES
    EntryStatesAscend
    EmissionFollowsConvergence
    RefinesChaoticIteration
    Termination
CHECK_DEADLOCK FALSE
