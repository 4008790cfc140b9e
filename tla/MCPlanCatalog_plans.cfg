SPECIFICATION CatalogSpec
INVARIANTS PlansAreTheLastSelection NeverDeletedInUse CodeNamesOneProduct
PROPERTY QuotesAreSelections
SYMMETRY Symmetry
CHECK_DEADLOCK FALSE
CONSTANTS
    a1 = a1
    a2 = a2
    p1 = p1
    p2 = p2
    e1 = e1
    e2 = e2
    None = None
    Administrators = {a1, a2}
    Products = {p1, p2}
    Editions = {e1, e2}
    Inputs <- Typed
    Clean <- Cleaned
    Selections <- SelectionsAsked
    Hosts <- HostsMet
    MaxDeaths = 1
