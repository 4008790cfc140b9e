SPECIFICATION FairSpec
PROPERTY ZeroTotalHonoured
CHECK_DEADLOCK FALSE
CONSTANTS
    w1 = w1
    w2 = w2
    None = None
    Workers = {w1, w2}
    Orders <- Zero
    Total <- TotalZero
    Items = 2
    Attempts <- NoAttempts
    Payloads = {}
    Instants = {1, 2}
    Discounted = {}
    AttemptsFail = FALSE
    MaxFaults = 1
