SPECIFICATION FairSpec
INVARIANTS Consistent HandedOutIsBound
PROPERTY Recovers
CHECK_DEADLOCK FALSE
CONSTANTS
    NoBody = NoBody
    Calls = {c1, c2, c3}
    Bodies = {b1, b2}
    MaxFaults = 3
