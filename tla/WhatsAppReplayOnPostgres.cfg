SPECIFICATION Spec
CONSTANTS
    hello = hello
    human = human
    ana = ana
    Message <- MCMessage
    Customer = {ana}
    CustomerOf <- MCCustomerOf
    HandoffMessage = {human}
    Batch <- OnlyHuman
    Request = {r1, r2}
    Mode <- PostgresMode
    MaxFaults = 0
INVARIANT ReplayIsAnsweredAsDuplicate
CHECK_DEADLOCK FALSE
