---------------------------- MODULE MCOrderCheckout ----------------------------
EXTENDS OrderCheckout, TLC

CONSTANTS c1, c2, o1, o2, o3, o4, o5, f1, f2, s1, s2, s3

Ordered(account, source, unit, wish, renews) ==
    [account |-> account, source |-> source, unit |-> unit, quantity |-> 1, tax |-> 0,
     monthly |-> TRUE, renews |-> renews, wish |-> wish, direct |-> FALSE, hosted |-> TRUE]

\* Two orders compete for the one place of f1, one of them reserved by the host; the first
\* starts a subscription with two discounted cycles, renewed twice; the last is a perpetual licence for which the
\* public promotion is too generous.
Inputs ==
    o1 :> Ordered("a", s1, 3, f1, None)
    @@ o2 :> Ordered("a", s2, 3, None, o1)
    @@ o3 :> Ordered("a", s3, 3, None, o1)
    @@ o4 :> [Ordered("b", s2, 4, f1, None) EXCEPT !.direct = TRUE, !.tax = 1]
    @@ o5 :> [Ordered("b", s2, 1, None, None) EXCEPT !.monthly = FALSE, !.hosted = FALSE]

Configured ==
    f1 :> [general |-> FALSE, coded |-> TRUE, account |-> None, bps |-> 5000, cycles |-> 2, maximum |-> 1,
           perAccount |-> 1, zero |-> FALSE]
    @@ f2 :> [general |-> TRUE, coded |-> FALSE, account |-> None, bps |-> 10000, cycles |-> 0, maximum |-> Unlimited,
              perAccount |-> 1, zero |-> TRUE]

Symmetry == Permutations({c1, c2})
=============================================================================
