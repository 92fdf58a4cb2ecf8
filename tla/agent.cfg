SPECIFICATION Spec
CONSTANTS
    MaxUnsigned = 3
    Json <- JsonOf
    Absent = "absent"
    Paths <- SmallPaths
    PolicyPaths <- SmallPolicyPaths
    Missing <- NoFile
    NotGiven = NotGiven
    Includes <- IncludesOf
    IsUnsafe <- UnsafeIn
    IsSuppressed <- SuppressedIn
    Analysis <- AnalysisOf
    Invocations <- AllInvocations
    Sessions <- SmallSessions
    Start <- SmallStart
    Edits <- SmallEdits
    Texts <- SmallTexts
    Forgeries <- SmallForgeries
    MaxChanges <- TwoChanges
INVARIANTS
    TypeOK
    ExitCodeTellsResult
    PassRestsOnBase
    ValidPassHoldsNow
    HonestEvidenceVerifies
PROPERTIES
    RefinesPolicyRatchet
CONSTRAINT
    Bounded
