SPECIFICATION Spec
INVARIANTS OfferWithinLimits  FreeOnlyIfAllowed  PaidTimeKept
SYMMETRY Symmetry
CHECK_DEADLOCK FALSE
CONSTANTS
    c1 = c1
    c2 = c2
    o1 = o1
    o2 = o2
    o3 = o3
    o4 = o4
    o5 = o5
    f1 = f1
    f2 = f2
    s1 = s1
    s2 = s2
    s3 = s3
    None = None
    Calls = {c1, c2}
    Orders = {o1, o2, o3, o4, o5}
    Input <- Inputs
    Accounts = {"a", "b"}
    Offers = {f1, f2}
    Offer <- Configured
    Sources = {s1, s2, s3}
    Horizon = 1
    MaxFaults = 1
