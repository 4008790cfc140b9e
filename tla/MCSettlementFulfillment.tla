----------------------- MODULE MCSettlementFulfillment -----------------------
(* Small instances of SettlementFulfillment for TLC. *)
EXTENDS SettlementFulfillment, TLC

CONSTANTS w1, w2

One == {"o"}
Zero == {"z"}
Two == {"o", "z"}
TotalOne == [o \in One |-> 2]
TotalZero == [o \in Zero |-> 0]
TotalTwo == [o \in Two |-> IF o = "z" THEN 0 ELSE 2]

\* Hosted checkouts k1, k2 and a payment intent n1 for the same order.
AttemptsNamed(names) ==
    [a \in names |-> [order |-> "o", amount |-> 2, intent |-> a = "n1"]]

CheckoutAndIntent == AttemptsNamed({"k1", "n1"})
TwoCheckouts == AttemptsNamed({"k1", "k2"})

Symmetry == Permutations({w1, w2})

NoAttempts == AttemptsNamed({})

PaidBy(id, payment, a, intent) ==
    [id |-> id, paid |-> TRUE, payment |-> payment, attempt |-> a, intent |-> intent,
     reference |-> "o", amount |-> 2]

\* Two events of the first payment; two payments on one intent of the same order;
\* a partial payment under the id of the first event; a payment of the first
\* checkout without its order's reference.
Overlapping ==
    {PaidBy("e1", "p1", "k1", None), PaidBy("e2", "p1", "k1", None),
     PaidBy("e3", "p2", "n1", "n1"), PaidBy("e6", "p3", "n1", "n1"),
     [PaidBy("e1", "p1", "k1", None) EXCEPT !.amount = 1],
     [PaidBy("e4", "p4", "k1", None) EXCEPT !.reference = None]}

\* One payment by each checkout.
TwoPayments == {PaidBy("e1", "p1", "k1", None), PaidBy("e3", "p2", "k2", None)}
=============================================================================
