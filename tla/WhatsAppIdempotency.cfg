SPECIFICATION Spec
CONSTANTS
    hello = hello
    human = human
    ana = ana
    Message <- MCMessage
    Customer = {ana}
    CustomerOf <- MCCustomerOf
    HandoffMessage = {human}
    Batch <- OnlyHuman
    Request = {r1, r2}
    Mode <- SqliteMode
    MaxFaults = 0
INVARIANT IdempotentByMessageId
CHECK_DEADLOCK FALSE
