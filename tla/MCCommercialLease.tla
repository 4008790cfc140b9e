-------------------------- MODULE MCCommercialLease --------------------------
EXTENDS CommercialLease, TLC

CONSTANTS c1, c2, d1, d2, o1, o2, o3, k1, k2

Planned(a, d, k) == [action |-> a, device |-> d, known |-> k]

\* d1 activates and renews; both know the last operation, with which
\* d2 may take the lease over.
Plans == o1 :> Planned("ACTIVATION", d1, {d1}) @@ o2 :> Planned("RENEWAL", d1, {d1})
         @@ o3 :> Planned("TRANSFER", d2, {d1, d2})

Symmetry == Permutations({c1, c2})
=============================================================================
