SPECIFICATION Spec
CONSTANTS
    MaxUnsigned = 3
    Json <- JsonOf
    Absent = "absent"
    Paths <- SmallPaths
    PolicyPaths <- SmallPolicyPaths
    Missing <- NoFile
    NotGiven = NotGiven
    Includes <- IncludesOf
    IsUnsafe <- UnsafeIn
    IsSuppressed <- SuppressedIn
    Analysis <- AnalysisOf
    Invocations <- BothLevels
    Sessions <- SmallSessions
    Start <- BothStart
    Edits <- SmallEdits
    Texts <- SmallTexts
    Forgeries <- SmallForgeries
    MaxChanges <- NoChanges
INVARIANTS
    ReplayRepeats
