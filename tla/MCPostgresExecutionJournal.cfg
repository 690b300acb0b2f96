SPECIFICATION Spec
CONSTANTS
    Session = {s1, s2}
    EventId = {e1, e2}
    Body = {b1, b2}
    Caller = {c1, c2, c3}
    Number = {0, 3}
    Digest = {h1}
SYMMETRY Symmetry
INVARIANTS
    ChainVerifies
    ChangeIsDetected
PROPERTY ImplementsEventLog
