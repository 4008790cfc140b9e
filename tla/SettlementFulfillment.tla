------------------------ MODULE SettlementFulfillment ------------------------
(***************************************************************************)
(* From a verified provider event to durable rights, across three          *)
(* packages: Payments stores the event and claims a settlement fact,       *)
(* Commerce settles order, invoice and offer redemption in one             *)
(* transaction, and Entitlements grants one right per order item. Orders   *)
(* of total 0 enter at the Commerce step. Reactions run concurrently, die  *)
(* between any two steps and are repeated by redelivered events.           *)
(***************************************************************************)
EXTENDS Naturals, FiniteSets

CONSTANTS
    Workers,        \* slots for concurrent reactions
    Orders,
    Total,          \* the priced total of every order
    Items,          \* 1 .. Items, the items of every order, ordered by id
    Attempts,       \* checkouts and payment intents: [order, amount, intent]
    Payloads,       \* events the provider may send: their id; paid, a payment.paid
                    \* event of the expected mode and currency; the payment; the
                    \* attempt whose checkout or intent they name, or None; the
                    \* intent, or None; reference and amount
    Instants,       \* the times at which a zero-total order may be fulfilled
    Discounted,     \* orders with an offer redemption
    AttemptsFail,   \* may a late failure overwrite an attempt, see CheckoutAttempt
    MaxFaults,      \* bound on dying reactions
    None

ASSUME FulfillmentAssumption ==
    /\ Total \in [Orders -> Nat]
    /\ Items \in Nat \ {0}
    /\ \A a \in DOMAIN Attempts : Attempts[a].order \in Orders /\ Attempts[a].amount \in Nat
    /\ \A e \in Payloads : e.attempt \in DOMAIN Attempts \cup {None}
                         /\ e.reference \in Orders \cup {None}
    /\ Discounted \subseteq Orders
    /\ AttemptsFail \in BOOLEAN
    /\ MaxFaults \in Nat

VARIABLES
    stored,         \* PaymentProviderEvent: one payload per event id
    attempt,        \* the status of every attempt
    facts,          \* PaymentSettlementFact
    order,          \* Commerce: status, invoice and redemption of every order
    right,          \* Entitlements: the right of every order item, by source reference
    worker,         \* the local state of every reaction
    faults

vars == <<stored, attempt, facts, order, right, worker, faults>>

Idle == [pc |-> "idle", event |-> None, order |-> None, amount |-> 0, evidence |-> None, item |-> 0]
NoRight == [status |-> "NONE", evidence |-> None]

TypeOK ==
    /\ stored \subseteq Payloads
    /\ \A d, e \in stored : d.id = e.id => d = e
    /\ attempt \in [DOMAIN Attempts -> {"PENDING", "CANCELLED", "FAILED"}]
    /\ \A o \in Orders :
          /\ order[o].status \in {"PENDING", "PAID", "CANCELLED", "REFUNDED"}
          /\ order[o].invoice \in {"DRAFT", "FINAL", "VOID"}
          /\ order[o].redemption \in {"NONE", "RESERVED", "APPLIED", "RELEASED", "REFUNDED"}
    /\ \A o \in Orders, i \in 1 .. Items : right[<<o, i>>].status \in {"NONE", "ACTIVE", "REVOKED"}
    /\ \A w \in Workers :
          /\ worker[w].pc \in {"idle", "claim", "settle", "grant"}
          /\ worker[w].item \in 0 .. Items
    /\ faults \in 0 .. MaxFaults

Init ==
    /\ stored = {}
    /\ attempt = [a \in DOMAIN Attempts |-> "PENDING"]
    /\ facts = {}
    /\ order = [o \in Orders |->
                   [status |-> "PENDING", invoice |-> "DRAFT",
                    redemption |-> IF o \in Discounted THEN "RESERVED" ELSE "NONE"]]
    /\ right = [x \in Orders \X (1 .. Items) |-> NoRight]
    /\ worker = [w \in Workers |-> Idle]
    /\ faults = 0

Becomes(w, local) == worker' = [worker EXCEPT ![w] = local]

Return(w) == Becomes(w, Idle)

----------------------------------------------------------------------------
\* Payments

IsNew(e) == \A d \in stored : d.id # e.id

\* ingest: the first payload of an event id is kept, another one is an
\* EVENT_CONFLICT.
Ingest(e) ==
    /\ IsNew(e)
    /\ stored' = stored \cup {e}
    /\ UNCHANGED <<attempt, facts, order, right, worker, faults>>

\* mutant: the payment's reference is not compared with the attempt's order
AcceptsAnyReference(e) ==
    /\ e.paid /\ e.attempt # None
    /\ attempt[e.attempt] # "FAILED"
    /\ Attempts[e.attempt].intent => attempt[e.attempt] # "CANCELLED"
    /\ e.amount = Attempts[e.attempt].amount

\* reconcile up to the claim. An intent's attempt must not be CANCELLED, that of
\* a checkout may be.
Accepts(e) ==
    /\ e.paid /\ e.attempt # None
    /\ attempt[e.attempt] # "FAILED"
    /\ Attempts[e.attempt].intent => attempt[e.attempt] # "CANCELLED"
    /\ e.reference = Attempts[e.attempt].order
    /\ e.amount = Attempts[e.attempt].amount

React(w, e) ==
    /\ worker[w].pc = "idle"
    /\ Accepts(e)
    /\ Becomes(w, [Idle EXCEPT !.pc = "claim", !.event = e])
    /\ UNCHANGED <<stored, attempt, facts, order, right, faults>>

\* The fact claimed for an event: of the attempt's order and amount.
FactOf(e) ==
    [event |-> e.id, payment |-> e.payment, attempt |-> e.attempt, intent |-> e.intent,
     order |-> Attempts[e.attempt].order, amount |-> Attempts[e.attempt].amount]

SameIntent(f, g) == f.intent # None /\ f.intent = g.intent

\* The unique indexes of PaymentSettlementFact.
Collides(f, g) == f.event = g.event \/ f.payment = g.payment \/ SameIntent(f, g)

\* The fact the repository returns when its insert meets a conflict: that of the
\* event, else that of the payment; none when only the intent collides.
Existing(f) ==
    LET ofEvent == {g \in facts : g.event = f.event}
    IN  IF ofEvent # {} THEN ofEvent ELSE {g \in facts : g.payment = f.payment}

Equivalent(f, g) ==
    /\ f.attempt = g.attempt /\ f.payment = g.payment /\ f.intent = g.intent
    /\ f.order = g.order /\ f.amount = g.amount

\* The rights will carry the identity of the settlement fact g.
Proceed(w, g) ==
    Becomes(w, [worker[w] EXCEPT !.pc = "settle", !.order = g.order, !.amount = g.amount,
                             !.evidence = g.event])

ClaimFact(w) ==
    /\ worker[w].pc = "claim"
    /\ LET f == FactOf(worker[w].event)
       IN  \/ /\ \A g \in facts : ~Collides(f, g)
              /\ facts' = facts \cup {f}
              /\ Proceed(w, f)
           \/ /\ \E g \in Existing(f) : Equivalent(f, g) /\ Proceed(w, g)
              /\ UNCHANGED facts
           \/ /\ \E g \in facts : Collides(f, g)         \* SETTLEMENT_CONFLICT, or
              /\ ~ \E g \in Existing(f) : Equivalent(f, g)   \* claim disappeared
              /\ Return(w)
              /\ UNCHANGED facts
    /\ UNCHANGED <<stored, attempt, order, right, faults>>

----------------------------------------------------------------------------
\* Commerce

InvoiceFits(o) ==
    /\ order[o].status \in {"PENDING", "CANCELLED"} => order[o].invoice = "DRAFT"
    /\ order[o].status = "PAID" => order[o].invoice = "FINAL"

\* mutant: a paid order is not settled again
SettleableOnce(o) ==
    /\ order[o].status \in {"PENDING", "CANCELLED"}
    /\ InvoiceFits(o)
    /\ \/ order[o].redemption \in {"NONE", "RESERVED", "APPLIED"}
       \/ order[o].status = "CANCELLED" /\ order[o].redemption = "RELEASED"

\* mutant: a refunded order can be settled again
SettleableAgain(o) ==
    /\ order[o].status \in {"PENDING", "PAID", "CANCELLED", "REFUNDED"}
    /\ InvoiceFits(o)

Settleable(o) ==
    /\ order[o].status \in {"PENDING", "PAID", "CANCELLED"}
    /\ InvoiceFits(o)
    /\ \/ order[o].redemption \in {"NONE", "RESERVED", "APPLIED"}
       \/ order[o].status = "CANCELLED" /\ order[o].redemption = "RELEASED"

\* mutant: only a reserved redemption is applied
PaidWithoutRelease(o) ==
    [status |-> "PAID", invoice |-> "FINAL",
     redemption |-> IF order[o].redemption = "RESERVED" THEN "APPLIED" ELSE order[o].redemption]

Paid(o) ==
    [status |-> "PAID", invoice |-> "FINAL",
     redemption |-> IF order[o].redemption = "NONE" THEN "NONE" ELSE "APPLIED"]

\* The transaction of settle.
Settle(w) ==
    /\ worker[w].pc = "settle"
    /\ LET o == worker[w].order
       IN  \/ /\ worker[w].amount = Total[o] /\ Settleable(o)
              /\ order' = [order EXCEPT ![o] = Paid(o)]
              /\ Becomes(w, [worker[w] EXCEPT !.pc = "grant", !.item = 1])
           \/ /\ ~(worker[w].amount = Total[o] /\ Settleable(o))
              /\ Return(w)
              /\ UNCHANGED order
    /\ UNCHANGED <<stored, attempt, facts, right, faults>>

\* Zero-payment fulfilment; the caller passes the present time, which becomes
\* the start of validity of the rights.
FulfillZero(w, o, at) ==
    /\ worker[w].pc = "idle"
    /\ Total[o] = 0
    /\ order[o].status \in {"PENDING", "PAID"}
    /\ InvoiceFits(o)
    /\ order[o].redemption \in {"NONE", "RESERVED", "APPLIED"}
    /\ order' = [order EXCEPT ![o] = Paid(o)]
    /\ Becomes(w, [Idle EXCEPT !.pc = "grant", !.order = o, !.evidence = at, !.item = 1])
    /\ UNCHANGED <<stored, attempt, facts, right, faults>>

----------------------------------------------------------------------------
\* Entitlements

NextItem(w) ==
    IF worker[w].item = Items THEN Idle ELSE [worker[w] EXCEPT !.item = @ + 1]

\* The right of the source reference was granted on the same evidence; it may
\* have been revoked since.
Matches(r, evidence) == r.status # "NONE" /\ r.evidence = evidence

\* One item of the loop. A right with other evidence is a SOURCE_CONFLICT and
\* ends the reaction.
Grant(w) ==
    /\ worker[w].pc = "grant"
    /\ LET x == <<worker[w].order, worker[w].item>>
       IN  \/ /\ right[x].status = "NONE"
              /\ right' = [right EXCEPT ![x] = [status |-> "ACTIVE", evidence |-> worker[w].evidence]]
              /\ Becomes(w, NextItem(w))
           \/ /\ Matches(right[x], worker[w].evidence)
              /\ Becomes(w, NextItem(w))
              /\ UNCHANGED right
           \/ /\ right[x].status # "NONE" /\ ~Matches(right[x], worker[w].evidence)
              /\ Return(w)
              /\ UNCHANGED right
    /\ UNCHANGED <<stored, attempt, facts, order, faults>>

Revoke(x) ==
    /\ right[x].status = "ACTIVE"
    /\ right' = [right EXCEPT ![x].status = "REVOKED"]
    /\ UNCHANGED <<stored, attempt, facts, order, worker, faults>>

----------------------------------------------------------------------------
\* The host: cancels orders and attempts, releases redemptions of cancelled
\* orders, refunds paid orders (external, by the capabilities' plans).

CancelOrder(o) ==
    /\ order[o].status = "PENDING"
    /\ order' = [order EXCEPT ![o].status = "CANCELLED"]
    /\ UNCHANGED <<stored, attempt, facts, right, worker, faults>>

\* The attempt of a hosted checkout of a cancelled order.
CancelAttempt(a) ==
    /\ attempt[a] = "PENDING" /\ ~Attempts[a].intent
    /\ order[Attempts[a].order].status = "CANCELLED"
    /\ attempt' = [attempt EXCEPT ![a] = "CANCELLED"]
    /\ UNCHANGED <<stored, facts, order, right, worker, faults>>

\* transition RELEASE
ReleaseRedemption(o) ==
    /\ order[o].status = "CANCELLED"
    /\ order[o].redemption = "RESERVED"
    /\ order' = [order EXCEPT ![o].redemption = "RELEASED"]
    /\ UNCHANGED <<stored, attempt, facts, right, worker, faults>>

\* The plan of a succeeded refund: order, invoice and redemption.
Refund(o) ==
    /\ order[o].status = "PAID"
    /\ order' = [order EXCEPT ![o] =
                    [status |-> "REFUNDED", invoice |-> "VOID",
                     redemption |-> IF @.redemption = "APPLIED" THEN "REFUNDED" ELSE @.redemption]]
    /\ UNCHANGED <<stored, attempt, facts, right, worker, faults>>

FailAttempt(a) ==
    /\ AttemptsFail
    /\ ~Attempts[a].intent
    /\ attempt' = [attempt EXCEPT ![a] = "FAILED"]
    /\ UNCHANGED <<stored, facts, order, right, worker, faults>>

\* A reaction dies or meets an unavailable package.
Die(w) ==
    /\ worker[w].pc # "idle"
    /\ faults < MaxFaults
    /\ faults' = faults + 1
    /\ Return(w)
    /\ UNCHANGED <<stored, attempt, facts, order, right>>

Continue(w) == ClaimFact(w) \/ Settle(w) \/ Grant(w)

Next ==
    \/ \E e \in Payloads : Ingest(e)
    \/ \E w \in Workers :
          \/ \E e \in stored : React(w, e)
          \/ \E o \in Orders, at \in Instants : FulfillZero(w, o, at)
          \/ ClaimFact(w) \/ Settle(w) \/ Grant(w) \/ Die(w)
    \/ \E x \in DOMAIN right : Revoke(x)
    \/ \E o \in Orders : CancelOrder(o) \/ ReleaseRedemption(o) \/ Refund(o)
    \/ \E a \in DOMAIN Attempts : CancelAttempt(a) \/ FailAttempt(a)

Spec == Init /\ [][Next]_vars

\* Running reactions go on; events whose reaction did not end with FULFILLED are
\* delivered again, and a zero-total order's fulfilment is tried again.
FairSpec ==
    /\ Spec
    /\ \A w \in Workers : WF_vars(Continue(w))
    /\ \A e \in Payloads : SF_vars(e \in stored /\ \E w \in Workers : React(w, e))
    /\ \A o \in Orders : SF_vars(\E w \in Workers, at \in Instants : FulfillZero(w, o, at))

----------------------------------------------------------------------------
\* Properties

Granted(o) == \A i \in 1 .. Items : right[<<o, i>>].status # "NONE"

\* No right without money: every right rests on a settlement fact, backed by a
\* stored payment.paid event, that names its order and pays its whole total, or
\* on a total of zero; and the order has been marked paid by then. One payment fulfils
\* an order: two payments of the same order, or two events of the same payment, never
\* leave rights of one order on different evidence.
RightsArePaidFor ==
    \A o \in Orders, i, j \in 1 .. Items :
        right[<<o, i>>].status # "NONE" =>
            /\ right[<<o, j>>].status # "NONE" => right[<<o, i>>].evidence = right[<<o, j>>].evidence
            /\ order[o].status \in {"PAID", "REFUNDED"}
            /\ \/ Total[o] = 0
               \/ \E f \in facts, e \in stored :
                     /\ f.event = right[<<o, i>>].evidence /\ f.order = o /\ f.amount = Total[o]
                     /\ e.id = f.event /\ e.paid /\ e.reference = o /\ e.amount = Total[o]

\* The type invariant, and: invoice and redemption follow the order, also when the money arrives after a
\* cancellation that gave the redemption back.
Consistent ==
    /\ TypeOK
    /\ \A o \in Orders :
          /\ order[o].status = "PAID" <=> order[o].invoice = "FINAL"
          /\ order[o].status = "PAID" => order[o].redemption \in {"NONE", "APPLIED"}
          /\ order[o].redemption = "APPLIED" => order[o].status = "PAID"

\* Redelivered events undo neither a refund nor a revocation, and never change
\* the evidence of a right.
NothingComesBack ==
    [][/\ \A o \in Orders : order[o].status = "REFUNDED" => order'[o].status = "REFUNDED"
       /\ \A x \in DOMAIN right :
             right[x].status # "NONE" =>
                 /\ right'[x].evidence = right[x].evidence
                 /\ right[x].status = "REVOKED" => right'[x].status = "REVOKED"]_vars

\* A payment of an order's whole total, once its event is stored, gives the
\* purchaser all rights unless the order is refunded, whichever reactions die.
Pays(e) ==
    /\ e \in stored /\ e.paid /\ e.attempt # None
    /\ e.reference = Attempts[e.attempt].order
    /\ e.amount = Attempts[e.attempt].amount
    /\ e.amount = Total[e.reference]

PaymentHonoured ==
    \A e \in Payloads : e.reference \in Orders =>
        (Pays(e) ~> Granted(e.reference) \/ order[e.reference].status = "REFUNDED")

\* Fulfilment of a zero-total order can be retried until all rights are there, or
\* the host takes back the order or one of its rights.
ZeroTotalHonoured ==
    \A o \in Orders :
        Total[o] = 0 /\ order[o].status = "PAID" ~>
            \/ Granted(o) \/ order[o].status = "REFUNDED"
            \/ \E i \in 1 .. Items : right[<<o, i>>].status = "REVOKED"
=============================================================================
