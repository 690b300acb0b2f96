SPECIFICATION Spec
CONSTANTS
    hello = hello
    human = human
    ana = ana
    Message <- MCMessage
    Customer = {ana}
    CustomerOf <- MCCustomerOf
    HandoffMessage = {human}
    Batch <- MCBatch
    Request = {r1, r2}
    Mode <- AllModes
    MaxFaults = 2
INVARIANTS
    AnsweredMeansProcessed
    ProcessedIsRecorded
    JournalTellsTheStory
    AtMostOneAnswerOnPostgres
    TurnsLostOnlyByOverlap
PROPERTIES
    DeliveredIsProcessed
    EveryDeliveryFinishes
    ReplayIsStable
    ReplayHashTellsOverrides
CHECK_DEADLOCK FALSE
