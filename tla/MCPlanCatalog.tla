---------------------------- MODULE MCPlanCatalog ----------------------------
(* Small instances of PlanCatalog for TLC. *)
EXTENDS PlanCatalog, TLC

CONSTANTS a1, a2, p1, p2, e1, e2

Cleaned == "x" :> "x" @@ " X " :> "x" @@ "y" :> "y" @@ "--" :> None

Typed == DOMAIN Cleaned

Selected(enabled, perpetual, monthly, discount) ==
    [enabled |-> enabled, perpetual |-> perpetual, monthly |-> monthly, discount |-> discount]

Lifetime == Selected({"PERPETUAL"}, 100, 0, None)
Monthly == Selected({"MONTHLY"}, 250, 101, None)
Yearly == Selected({"MONTHLY", "ANNUAL"}, 0, 103, 333)
Cheap == Selected({"MONTHLY", "ANNUAL"}, 0, 101, 1000)

\* Refused: no monthly plan to follow, more than a tenth off.
Refused == {Selected({"PERPETUAL", "ANNUAL"}, 100, 0, 0),
            Selected({"MONTHLY", "ANNUAL"}, 0, 101, 1001)}

SelectionsAsked == {Lifetime, Monthly, Yearly, Cheap} \cup Refused

Host(duties, administrators, products, editions, inputs, selections) ==
    {[duties |-> duties, administrators |-> A, products |-> P, editions |-> E,
      inputs |-> inputs, selections |-> selections] :
        A \in administrators, P \in products, E \in editions}

One(S) == {{x} : x \in S}
Both(S) == {S}

\* Plans set by calls that overlap and die, with and without a deletion under way; codes
\* of products that may be deleted, of which one or two are sold.
HostsMet ==
    Host({"plans"}, Both(Administrators), One(Products), One(Editions), {"x"}, {Lifetime, Monthly, Yearly} \cup Refused)
    \cup Host({"plans"}, Both(Administrators), One(Products), One(Editions), {"x"}, {Lifetime, Yearly, Cheap})
    \cup Host({"plans", "deletion"}, Both(Administrators), One(Products), One(Editions), {"x"}, {Yearly})
    \cup Host({"codes", "deletion"}, Both(Administrators), One(Products), One(Editions), Typed, {Lifetime})
    \cup Host({"codes", "deletion"}, One(Administrators), Both(Products), One(Editions), {"x", "y"}, {Lifetime})
    \cup Host({"codes"}, Both(Administrators), Both(Products), One(Editions), {"x", "y"}, {Lifetime})
    \cup Host({"codes"}, One(Administrators), Both(Products), Both(Editions), {"x", "y"}, {Lifetime})

Symmetry ==
    UNION {Permutations(S) : S \in {Administrators, Products, Editions}}
=============================================================================
