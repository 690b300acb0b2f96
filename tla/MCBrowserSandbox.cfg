CONSTANTS
    Execution = {p1, p2}
    SessionId = {s1, s2}
    MaxSteps = 2
    None = None
SPECIFICATION Spec
CHECK_DEADLOCK FALSE
INVARIANTS
    TypeOK
    SharedStateIsOwned
    AloneIsUndisturbed
    LeakOnlyByOverlap
PROPERTY
    EveryExecutionEnds
