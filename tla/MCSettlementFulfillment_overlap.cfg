SPECIFICATION Spec
INVARIANTS Consistent RightsArePaidFor
PROPERTY NothingComesBack
SYMMETRY Symmetry
CHECK_DEADLOCK FALSE
CONSTANTS
    w1 = w1
    w2 = w2
    None = None
    Workers = {w1, w2}
    Orders <- One
    Total <- TotalOne
    Items = 2
    Attempts <- CheckoutAndIntent
    Payloads <- Overlapping
    Instants = {1, 2}
    Discounted = {"o"}
    AttemptsFail = TRUE
    MaxFaults = 1
