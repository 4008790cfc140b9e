SPECIFICATION FairSpec
INVARIANTS TypeOK ReadyAgrees LeaseExclusion OneIntent
 
CHECK_DEADLOCK FALSE
CONSTANTS
    None = None
    Calls = {c1, c2}
    Hosts = {h1}
    EnabledHosts = {h1}
    Operations = {"create"}
    ProviderMoves = {}
    Fingerprints = {f1, f2}
    Tokens = {t1, t2, t3}
    Intents = {i1, i2}
    Lease = 1
    Window = 3
    KeyRetention = 4
    MaxTime = 2
    MaxStamp = 4
    MaxFaults = 1
