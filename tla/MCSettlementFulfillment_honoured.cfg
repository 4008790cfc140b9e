SPECIFICATION FairSpec
PROPERTY PaymentHonoured
CHECK_DEADLOCK FALSE
CONSTANTS
    w1 = w1
    w2 = w2
    None = None
    Workers = {w1}
    Orders <- Two
    Total <- TotalTwo
    Items = 2
    Attempts <- TwoCheckouts
    Payloads <- TwoPayments
    Instants = {1}
    Discounted = {}
    AttemptsFail = FALSE
    MaxFaults = 2
