SPECIFICATION Spec
INVARIANTS Consistent SeatsRespected OneLeasePerOperation
SYMMETRY Symmetry
CHECK_DEADLOCK FALSE
CONSTANTS
    c1 = c1
    c2 = c2
    d1 = d1
    d2 = d2
    o1 = o1
    o2 = o2
    o3 = o3
    k1 = k1
    k2 = k2
    Nobody = Nobody
    Calls = {c1, c2}
    Devices = {d1, d2}
    Operations = {o1, o2, o3}
    SigningKeys = {k1, k2}
    Plan <- Plans
    Facts = {"valid"}
    Bootstrap = k1
    Seats = 1
    Naming = {o3}
    MaxFaults = 1
