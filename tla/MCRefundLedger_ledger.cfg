SPECIFICATION FairSpec
INVARIANTS Consistent MoneyWithinSettlement
PROPERTIES KeepsPromise Resolves
CHECK_DEADLOCK FALSE
CONSTANTS
    Calls = {c1, c2}
    Sources = {x1, x2}
    Settled <- SettledTwice
    Amounts = {1, 2}
    ConflictAnswers = {2}
    MaxFaults = 1
