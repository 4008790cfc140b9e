--------------------------- MODULE RefundPromise ---------------------------
(***************************************************************************)
(* What the refunds of settled payments promise: one is reserved only when *)
(* its amount fits with everything reserved or granted of its settlement,  *)
(* it is granted or refused once and for good, and only a refusal gives    *)
(* the amount back.                                                        *)
(***************************************************************************)
EXTENDS Integers, FiniteSets

CONSTANTS
    Sources,        \* at most one refund each
    Settled         \* the amount of every settlement

VARIABLE refund

NoRefund == [state |-> "NONE", settlement |-> 0, amount |-> 0]

Init == refund = [x \in Sources |-> NoRefund]

\* Holds(x, s): its amount cannot be given to another refund of settlement s.
Holds(x, s) == refund[x].settlement = s /\ refund[x].state \in {"RESERVED", "GRANTED"}

\* The units of money that are held.
Held(s) == UNION {{<<x>>} \X (1 .. refund[x].amount) : x \in {y \in Sources : Holds(y, s)}}

Reserve(x, s, amount) ==
    /\ refund[x].state = "NONE"
    /\ Cardinality(Held(s)) + amount <= Settled[s]
    /\ refund' = [refund EXCEPT ![x] =
                     [state |-> "RESERVED", settlement |-> s, amount |-> amount]]

Decide(x) ==
    /\ refund[x].state = "RESERVED"
    /\ \E outcome \in {"GRANTED", "REFUSED"} : refund' = [refund EXCEPT ![x].state = outcome]

Next ==
    \E x \in Sources :
       \/ \E s \in DOMAIN Settled : \E amount \in 1 .. Settled[s] : Reserve(x, s, amount)
       \/ Decide(x)

Spec == Init /\ [][Next]_refund
=============================================================================
