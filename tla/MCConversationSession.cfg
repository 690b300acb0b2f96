SPECIFICATION Spec
CONSTANTS
    Context = {"core", "payment"}
    Pack <- MCPack
    Messages <- MCMessages
    Session = {"customer-session:CUS-101", "customer-session:CUS-202"}
    Customer = {"CUS-101", "CUS-202"}
    Value <- MCValue
    OwnSession <- MCOwnSession
    MaxTurns = 4
INVARIANTS
    WaitingMeansMissing
    HandoffIffAsked
    SharedOnlyByMention
    NoTurnThrows
PROPERTY
    ReplyKeepsTheTopic
