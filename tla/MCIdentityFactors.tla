-------------------------- MODULE MCIdentityFactors --------------------------
(* Small instances of IdentityFactors for TLC. *)
EXTENDS IdentityFactors, TLC

\* What the host composes and meets.  Each set is an initial state of one run:
\* operations that share rows are together in at least one of them.
Hosts ==
    {{"login", "change", "RESET"},
     {"RESET", "time"},
     {"login", "MAGIC", "RESET"},
     {"login", "administration"},
     {"login", "review"},
     {"MAGIC", "VERIFY", "administration", "review", "time"},
     {"login", "enroll", "disable"},
     {"login", "regenerate", "disable"},
     {"login", "recent", "disable"},
     {"login", "recent", "enroll"},
     {"login", "recent", "emergency"},
     {"login", "recent", "time"}}

\* Active principals: both roles, verified and not, where an operation asks.
PrincipalsOf(host) ==
    [role : IF host \cap {"MAGIC", "administration", "review", "recent", "emergency"} = {}
            THEN {"CUSTOMER"} ELSE {"CUSTOMER", "ADMIN"},
     status : {"active"},
     verified : IF host \cap {"VERIFY", "recent"} = {} THEN {TRUE} ELSE BOOLEAN]

\* A host that leaves it to the library to order concurrent enrollments.
EnrollmentHosts == {{"login", "enroll"}}

Symmetry ==
    UNION {Permutations(S) : S \in {Calls, Sessions, Links, Challenges}}
=============================================================================
