CONSTANTS
  hello = hello
  human = human
  ana = ana
  Message <- MCMessage
  Customer = {ana}
  CustomerOf <- MCCustomerOf
  TimeOf <- MCTimeOf
  HandoffMessage = {human}
  Arrival <- MCArrival
  Delivery = {d1, d2}
  Mode <- MCMode
  MaxFaults = 2
SPECIFICATION Spec
INVARIANTS ProcessedIsRecorded TurnsLostOnlyByOverlap AnsweredAgainOnlyByRework TranscriptInTurns
PROPERTIES ReopenedOnlyByRework EveryPayloadAnswered
CHECK_DEADLOCK FALSE
