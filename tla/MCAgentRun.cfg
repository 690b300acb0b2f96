SPECIFICATION Spec
CONSTANTS
    r1 = r1
    r2 = r2
    r3 = r3
    s1 = s1
    s2 = s2
    Request = {r1, r2, r3}
    Server = {s1, s2}
    Process = {s1, s2}
    ServerOf <- MCServerOf
    Demand <- MCDemand
    Inputs <- MCInputs
    Configured = {"goals", "texts", "plans", "caching", "journals"}
    ModelText <- MCModelText
    Key <- MCKey
    Body <- MCBody
    MaxCrashes = 1
INVARIANTS
    TypeOK
    EntryWholeUnlessOverlapped
    BuiltPlansRun
    VerifiedPlansAreAccepted
    ListingOrderIsIrrelevant
    RecordingReplays
    CacheAnswersTheQuestion
    PlannerStoryKept
PROPERTIES
    EveryRequestAnswered
CHECK_DEADLOCK FALSE
