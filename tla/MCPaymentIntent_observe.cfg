SPECIFICATION Spec

PROPERTIES ObservationOrder KeepsPromise
SYMMETRY SymmetryOfNames
CHECK_DEADLOCK FALSE
CONSTANTS
    None = None
    Calls = {c1, c2}
    Hosts = {h1, h2}
    EnabledHosts = {h1}
    Operations = {"create", "method", "attach"}
    ProviderMoves = {"AWAITING_PAYMENT_METHOD", "AWAITING_NEXT_ACTION", "SUCCEEDED"}
    Fingerprints = {f1}
    Tokens = {t1, t2, t3}
    Intents = {i1}
    Lease = 1
    Window = 3
    KeyRetention = 4
    MaxTime = 1
    MaxStamp = 5
    MaxFaults = 0
