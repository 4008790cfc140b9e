SPECIFICATION Spec
INVARIANTS PasswordEndsSessions LinksWorkOnce AssuranceIsTrue AttemptsRespected FactorsWorkOnce ChallengeIsBound
SYMMETRY Symmetry
CHECK_DEADLOCK FALSE
CONSTANTS
    Null = Null
    Calls = {c1, c2}
    Sessions = {s1, s2}
    Links = {l1, l2}
    Challenges = {k1, k2}
    MaxPassword = 3
    MaxAttempts = 1
    MaxSets = 2
    Compositions <- Hosts
    Principals <- PrincipalsOf
    Serialised = TRUE
