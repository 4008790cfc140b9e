--------------------- MODULE SettlementFulfillmentProofs ---------------------
(***************************************************************************)
(* Proofs about SettlementFulfillment, for every value of its constants.   *)
(***************************************************************************)
EXTENDS SettlementFulfillment, TLAPS

Evidence == {e.id : e \in Payloads} \cup Instants \cup {None}

OrderRecord ==
    [status : {"PENDING", "PAID", "CANCELLED", "REFUNDED"}, invoice : {"DRAFT", "FINAL", "VOID"},
     redemption : {"NONE", "RESERVED", "APPLIED", "RELEASED", "REFUNDED"}]

RightRecord == [status : {"NONE", "ACTIVE", "REVOKED"}, evidence : Evidence]

WorkerRecord ==
    [pc : {"idle", "claim", "settle", "grant"}, event : Payloads \cup {None},
     order : Orders \cup {None}, amount : Nat, evidence : Evidence, item : 0 .. Items]

EventInv ==
    /\ stored \subseteq Payloads
    /\ \A d, e \in stored : d.id = e.id => d = e
    /\ attempt \in [DOMAIN Attempts -> {"PENDING", "CANCELLED", "FAILED"}]
    /\ faults \in 0 .. MaxFaults

\* A settlement fact rests on the stored event that paid it.
Backed(f) ==
    \E e \in stored : /\ e.id = f.event /\ e.paid
                      /\ e.reference = f.order /\ e.amount = f.amount

FactInv ==
    \A f \in facts : f.event \in Evidence /\ f.order \in Orders /\ f.amount \in Nat /\ Backed(f)

OrderInv ==
    /\ order \in [Orders -> OrderRecord]
    /\ \A o \in Orders :
          /\ order[o].status = "PAID" <=> order[o].invoice = "FINAL"
          /\ order[o].status = "PAID" => order[o].redemption \in {"NONE", "APPLIED"}
          /\ order[o].redemption = "APPLIED" => order[o].status = "PAID"

\* A fact names the order and the amount and gives the evidence.
Claimed(o, amount, evidence) ==
    \E f \in facts : f.event = evidence /\ f.order = o /\ f.amount = amount

\* Why an order may be fulfilled on some evidence.
Justified(o, evidence) ==
    /\ order[o].status \in {"PAID", "REFUNDED"}
    /\ Total[o] = 0 \/ Claimed(o, Total[o], evidence)

\* What a reaction that has found the event is about to claim.
ClaimInv(w) ==
    LET e == worker[w].event IN
    /\ e \in stored /\ e.paid /\ e.attempt \in DOMAIN Attempts
    /\ e.reference = Attempts[e.attempt].order /\ e.amount = Attempts[e.attempt].amount

SettleInv(w) ==
    /\ worker[w].order \in Orders
    /\ Claimed(worker[w].order, worker[w].amount, worker[w].evidence)

\* A reaction that grants the items of an order has granted, or found, the first one on
\* its own evidence before it comes to the others.
GrantInv(w) ==
    /\ worker[w].order \in Orders /\ worker[w].item \in 1 .. Items
    /\ Justified(worker[w].order, worker[w].evidence)
    /\ worker[w].item # 1 => Matches(right[<<worker[w].order, 1>>], worker[w].evidence)

LocalInv(w) ==
    /\ worker[w].pc = "claim" => ClaimInv(w)
    /\ worker[w].pc = "settle" => SettleInv(w)
    /\ worker[w].pc = "grant" => GrantInv(w)

WorkerInv ==
    /\ worker \in [Workers -> WorkerRecord]
    /\ \A w \in Workers : LocalInv(w)

\* The rights of an order rest on the evidence of its first one.
RightInv ==
    /\ right \in [Orders \X (1 .. Items) -> RightRecord]
    /\ \A o \in Orders, i \in 1 .. Items :
          right[<<o, i>>].status # "NONE" =>
              /\ Justified(o, right[<<o, i>>].evidence)
              /\ Matches(right[<<o, 1>>], right[<<o, i>>].evidence)

Inv == EventInv /\ FactInv /\ OrderInv /\ WorkerInv /\ RightInv

----------------------------------------------------------------------------
(* What no step takes back.                                                 *)

OrdersAdvance ==
    \A o \in Orders : order[o].status \in {"PAID", "REFUNDED"} =>
        order'[o].status \in {"PAID", "REFUNDED"}

RightsStand ==
    \A x \in Orders \X (1 .. Items) : right[x].status # "NONE" =>
        right'[x].status # "NONE" /\ right'[x].evidence = right[x].evidence

Grows == stored \subseteq stored' /\ facts \subseteq facts' /\ OrdersAdvance /\ RightsStand

LEMMA NothingChanged ==
  ASSUME UNCHANGED <<stored, facts, order, right>>
  PROVE  Grows
  BY DEF Grows, OrdersAdvance, RightsStand

LEMMA FirstItem == 1 \in 1 .. Items
  BY FulfillmentAssumption

LEMMA ClaimedStays ==
  ASSUME Grows
  PROVE  \A o, amount, evidence :
            Claimed(o, amount, evidence) =>
               \E f \in facts' : f.event = evidence /\ f.order = o /\ f.amount = amount
  BY DEF Grows, Claimed

LEMMA JustifiedStays ==
  ASSUME Grows, NEW o \in Orders, NEW evidence, Justified(o, evidence)
  PROVE  /\ order'[o].status \in {"PAID", "REFUNDED"}
         /\ \/ Total[o] = 0
            \/ \E f \in facts' : f.event = evidence /\ f.order = o /\ f.amount = Total[o]
  <1>1. order'[o].status \in {"PAID", "REFUNDED"}
    BY DEF Justified, Grows, OrdersAdvance
  <1>2. Claimed(o, Total[o], evidence) =>
          \E f \in facts' : f.event = evidence /\ f.order = o /\ f.amount = Total[o]
    BY ClaimedStays
  <1> QED
    BY <1>1, <1>2 DEF Justified

\* A reaction that does not move keeps what it relies on.
LEMMA OthersKeep ==
  ASSUME Inv, Grows, NEW w \in Workers, worker'[w] = worker[w]
  PROVE  LocalInv(w)'
  <1>1. LocalInv(w)
    BY DEF Inv, WorkerInv
  <1>2. worker'[w].pc = "claim" => ClaimInv(w)'
    BY <1>1 DEF LocalInv, ClaimInv, Grows
  <1>3. worker'[w].pc = "settle" => SettleInv(w)'
    BY <1>1, ClaimedStays DEF LocalInv, SettleInv, Claimed
  <1>4. ASSUME worker'[w].pc = "grant" PROVE GrantInv(w)'
    <2>1. GrantInv(w)
      BY <1>1, <1>4 DEF LocalInv
    <2>2. Justified(worker[w].order, worker[w].evidence)'
      BY <2>1, ClaimedStays DEF GrantInv, Justified, Grows, OrdersAdvance, Claimed
    <2>3. worker[w].item # 1 => Matches(right'[<<worker[w].order, 1>>], worker[w].evidence)
      BY <2>1, FirstItem DEF GrantInv, Matches, Grows, RightsStand
    <2> QED
      BY <2>1, <2>2, <2>3 DEF GrantInv
  <1> QED
    BY <1>2, <1>3, <1>4 DEF LocalInv

LEMMA WorkerStep ==
  ASSUME Inv, Grows, NEW w \in Workers, NEW l \in WorkerRecord, Becomes(w, l), LocalInv(w)'
  PROVE  WorkerInv'
  <1>1. /\ worker' \in [Workers -> WorkerRecord]
        /\ \A v \in Workers \ {w} : worker'[v] = worker[v]
    BY DEF Inv, WorkerInv, Becomes
  <1> QED
    BY <1>1, OthersKeep DEF WorkerInv

LEMMA IdleType == Idle \in WorkerRecord /\ Idle.pc = "idle"
  <1>1. 0 \in 0 .. Items
    BY FulfillmentAssumption
  <1> QED
    BY <1>1 DEF Idle, WorkerRecord, Evidence

LEMMA WorkerReturns ==
  ASSUME Inv, Grows, NEW w \in Workers, Return(w)
  PROVE  WorkerInv'
  <1>1. LocalInv(w)'
    BY IdleType DEF Return, Becomes, LocalInv, Inv, WorkerInv
  <1> QED
    BY <1>1, IdleType, WorkerStep DEF Return

LEMMA WorkersWait ==
  ASSUME Inv, Grows, UNCHANGED worker
  PROVE  WorkerInv'
  BY OthersKeep DEF Inv, WorkerInv

LEMMA RightsKept ==
  ASSUME Inv, Grows, UNCHANGED right
  PROVE  RightInv'
  <1>1. ASSUME NEW o \in Orders, NEW i \in 1 .. Items, right[<<o, i>>].status # "NONE"
        PROVE  Justified(o, right[<<o, i>>].evidence)'
    <2>1. Justified(o, right[<<o, i>>].evidence)
      BY <1>1 DEF Inv, RightInv
    <2> QED
      BY <2>1, ClaimedStays DEF Justified, Grows, OrdersAdvance, Claimed
  <1> QED
    BY <1>1 DEF Inv, RightInv

LEMMA FactsKept ==
  ASSUME Inv, Grows, UNCHANGED facts
  PROVE  FactInv'
  BY DEF Inv, FactInv, Backed, Grows

LEMMA EventsKept ==
  ASSUME Inv, UNCHANGED <<stored, attempt, faults>>
  PROVE  EventInv'
  BY DEF Inv, EventInv

LEMMA OrdersKept ==
  ASSUME Inv, UNCHANGED order
  PROVE  OrderInv'
  BY DEF Inv, OrderInv

----------------------------------------------------------------------------
(* Payments.                                                                *)

LEMMA IngestInv ==
  ASSUME Inv, NEW e \in Payloads, Ingest(e)
  PROVE  Inv'
  <1>1. Grows
    BY DEF Ingest, Grows, OrdersAdvance, RightsStand
  <1>2. EventInv'
    BY DEF Ingest, IsNew, Inv, EventInv
  <1> QED
    BY <1>1, <1>2, FactsKept, OrdersKept, WorkersWait, RightsKept DEF Ingest, Inv

LEMMA ReactInv ==
  ASSUME Inv, NEW w \in Workers, NEW e \in stored, React(w, e)
  PROVE  Inv'
  <1> DEFINE l == [Idle EXCEPT !.pc = "claim", !.event = e]
  <1>1. Grows
    BY NothingChanged DEF React
  <1>2. l \in WorkerRecord /\ l.pc = "claim" /\ l.event = e
    BY IdleType DEF WorkerRecord, Inv, EventInv
  <1>3. e.attempt \in DOMAIN Attempts
    BY FulfillmentAssumption DEF React, Accepts, Inv, EventInv
  <1>4. worker'[w] = l
    BY DEF React, Becomes, Inv, WorkerInv
  <1>5. Becomes(w, l)
    BY DEF React
  <1> HIDE DEF l
  <1>6. ClaimInv(w)'
    BY <1>2, <1>3, <1>4 DEF ClaimInv, React, Accepts
  <1>7. LocalInv(w)'
    BY <1>2, <1>4, <1>6 DEF LocalInv
  <1> QED
    BY <1>1, <1>2, <1>5, <1>7, WorkerStep, EventsKept, FactsKept, OrdersKept, RightsKept DEF React, Inv

LEMMA ClaimFactInv ==
  ASSUME Inv, NEW w \in Workers, ClaimFact(w)
  PROVE  Inv'
  <1> DEFINE e == worker[w].event
             f == FactOf(e)
  <1>1. Grows
    BY DEF ClaimFact, Grows, OrdersAdvance, RightsStand
  <1>2. ClaimInv(w) /\ worker[w] \in WorkerRecord /\ e \in Payloads
    BY DEF ClaimFact, Inv, WorkerInv, LocalInv, ClaimInv, EventInv
  <1>3. /\ f.event = e.id /\ f.order = Attempts[e.attempt].order
        /\ f.amount = Attempts[e.attempt].amount
    BY DEF FactOf
  <1>4. f.event \in Evidence /\ f.order \in Orders /\ f.amount \in Nat /\ Backed(f)
    BY <1>2, <1>3, FulfillmentAssumption DEF ClaimInv, Backed, Evidence
  <1> HIDE DEF f
  <1>5. FactInv'
    <2>1. facts' \subseteq facts \cup {f} /\ UNCHANGED stored
      BY DEF ClaimFact, f
    <2> QED
      BY <1>4, <2>1 DEF Inv, FactInv, Backed
  <1>6. CASE Return(w)
    BY <1>1, <1>5, <1>6, WorkerReturns, EventsKept, OrdersKept, RightsKept DEF ClaimFact, Inv
  <1>7. ASSUME NEW g \in facts', Proceed(w, g)
        PROVE  Inv'
    <2> DEFINE l == [worker[w] EXCEPT !.pc = "settle", !.order = g.order, !.amount = g.amount,
                                      !.evidence = g.event]
    <2>1. g.event \in Evidence /\ g.order \in Orders /\ g.amount \in Nat
      BY <1>5, <1>7 DEF FactInv
    <2>2. /\ l \in WorkerRecord /\ l.pc = "settle" /\ l.order = g.order /\ l.amount = g.amount
          /\ l.evidence = g.event
      BY <1>2, <2>1 DEF WorkerRecord
    <2>3. Becomes(w, l)
      BY <1>7 DEF Proceed
    <2>4. worker'[w] = l
      BY <2>3 DEF Becomes, Inv, WorkerInv
    <2> HIDE DEF l
    <2>5. SettleInv(w)'
      BY <1>7, <2>1, <2>2, <2>4 DEF SettleInv, Claimed
    <2>6. LocalInv(w)'
      BY <2>2, <2>4, <2>5 DEF LocalInv
    <2> QED
      BY <1>1, <1>5, <2>2, <2>3, <2>6, WorkerStep, EventsKept, OrdersKept, RightsKept
         DEF ClaimFact, Inv
  <1>8. Return(w) \/ \E g \in facts' : Proceed(w, g)
    BY DEF ClaimFact, Existing, f
  <1> QED
    BY <1>6, <1>7, <1>8

----------------------------------------------------------------------------
(* Commerce.                                                                *)

\* One order gets a new row.
LEMMA OrderStored ==
  ASSUME Inv, NEW o \in Orders, NEW row \in OrderRecord, order' = [order EXCEPT ![o] = row],
         row.status = "PAID" <=> row.invoice = "FINAL",
         row.status = "PAID" => row.redemption \in {"NONE", "APPLIED"},
         row.redemption = "APPLIED" => row.status = "PAID",
         order[o].status \in {"PAID", "REFUNDED"} => row.status \in {"PAID", "REFUNDED"},
         UNCHANGED <<stored, facts, right>>
  PROVE  OrderInv' /\ Grows
  <1>1. order \in [Orders -> OrderRecord]
    BY DEF Inv, OrderInv
  <1>2. OrderInv'
    BY <1>1 DEF Inv, OrderInv
  <1>3. Grows
    BY <1>1 DEF Grows, OrdersAdvance, RightsStand
  <1> QED
    BY <1>2, <1>3

LEMMA PaidType ==
  ASSUME NEW o \in Orders, order[o].redemption \in {"NONE", "RESERVED", "APPLIED", "RELEASED"}
  PROVE  /\ Paid(o) \in OrderRecord /\ Paid(o).status = "PAID" /\ Paid(o).invoice = "FINAL"
         /\ Paid(o).redemption \in {"NONE", "APPLIED"}
  BY DEF Paid, OrderRecord

\* The order is paid, and the reaction goes on to the first item.
LEMMA PaidStep ==
  ASSUME Inv, NEW w \in Workers, NEW o \in Orders, NEW l \in WorkerRecord,
         order[o].redemption \in {"NONE", "RESERVED", "APPLIED", "RELEASED"},
         order' = [order EXCEPT ![o] = Paid(o)], Becomes(w, l),
         l.pc = "grant", l.order = o, l.item = 1,
         Total[o] = 0 \/ Claimed(o, Total[o], l.evidence),
         UNCHANGED <<stored, attempt, facts, right, faults>>
  PROVE  Inv'
  <1>1. OrderInv' /\ Grows
    BY PaidType, OrderStored
  <1>2. worker'[w] = l /\ order'[o].status = "PAID"
    BY PaidType DEF Becomes, Inv, WorkerInv, OrderInv
  <1>3. Justified(o, l.evidence)'
    BY <1>1, <1>2, ClaimedStays DEF Justified, Claimed
  <1>4. LocalInv(w)'
    BY <1>2, <1>3, FirstItem DEF LocalInv, GrantInv
  <1> QED
    BY <1>1, <1>4, WorkerStep, EventsKept, FactsKept, RightsKept DEF Inv

LEMMA SettleStepInv ==
  ASSUME Inv, NEW w \in Workers, Settle(w)
  PROVE  Inv'
  <1> DEFINE o == worker[w].order
             l == [worker[w] EXCEPT !.pc = "grant", !.item = 1]
  <1>1. worker[w] \in WorkerRecord /\ SettleInv(w)
    BY DEF Settle, Inv, WorkerInv, LocalInv
  <1>2. CASE /\ worker[w].amount = Total[o] /\ Settleable(o)
             /\ order' = [order EXCEPT ![o] = Paid(o)]
             /\ Becomes(w, l)
    <2>1. order[o].redemption \in {"NONE", "RESERVED", "APPLIED", "RELEASED"}
      BY <1>2 DEF Settleable
    <2>2. 1 \in 0 .. Items
      BY FulfillmentAssumption
    <2>3. /\ l \in WorkerRecord /\ l.pc = "grant" /\ l.order = o /\ l.item = 1
          /\ l.evidence = worker[w].evidence
      BY <1>1, <2>2 DEF WorkerRecord
    <2>4. o \in Orders /\ Claimed(o, Total[o], l.evidence)
      BY <1>1, <1>2, <2>3 DEF SettleInv
    <2> HIDE DEF l, o
    <2> QED
      BY <1>2, <2>1, <2>3, <2>4, PaidStep DEF Settle
  <1>3. CASE Return(w) /\ UNCHANGED order
    <2>1. Grows
      BY <1>3, NothingChanged DEF Settle
    <2> QED
      BY <1>3, <2>1, WorkerReturns, EventsKept, FactsKept, OrdersKept, RightsKept DEF Settle, Inv
  <1> QED
    BY <1>2, <1>3 DEF Settle

LEMMA FulfillZeroInv ==
  ASSUME Inv, NEW w \in Workers, NEW o \in Orders, NEW at \in Instants, FulfillZero(w, o, at)
  PROVE  Inv'
  <1> DEFINE l == [Idle EXCEPT !.pc = "grant", !.order = o, !.evidence = at, !.item = 1]
  <1>1. 1 \in 0 .. Items /\ at \in Evidence
    BY FulfillmentAssumption DEF Evidence
  <1>2. l \in WorkerRecord /\ l.pc = "grant" /\ l.order = o /\ l.item = 1
    BY <1>1, IdleType DEF WorkerRecord
  <1>3. Becomes(w, l) /\ Total[o] = 0
    BY DEF FulfillZero
  <1> HIDE DEF l
  <1> QED
    BY <1>2, <1>3, PaidStep DEF FulfillZero

\* Steps of the host on one order.
LEMMA HostStep ==
  ASSUME Inv, NEW o \in Orders, NEW row \in OrderRecord, order' = [order EXCEPT ![o] = row],
         row.status = "PAID" <=> row.invoice = "FINAL",
         row.status = "PAID" => row.redemption \in {"NONE", "APPLIED"},
         row.redemption = "APPLIED" => row.status = "PAID",
         order[o].status \in {"PAID", "REFUNDED"} => row.status \in {"PAID", "REFUNDED"},
         UNCHANGED <<stored, attempt, facts, right, worker, faults>>
  PROVE  Inv'
  BY OrderStored, WorkersWait, EventsKept, FactsKept, RightsKept DEF Inv

LEMMA CancelOrderInv ==
  ASSUME Inv, NEW o \in Orders, CancelOrder(o)
  PROVE  Inv'
  <1> DEFINE row == [order[o] EXCEPT !.status = "CANCELLED"]
  <1>1. /\ order[o] \in OrderRecord /\ order[o].invoice # "FINAL" /\ order[o].redemption # "APPLIED"
        /\ order[o].status = "PENDING"
    BY DEF CancelOrder, Inv, OrderInv
  <1>2. /\ row \in OrderRecord /\ row.status = "CANCELLED" /\ row.invoice = order[o].invoice
        /\ row.redemption = order[o].redemption
    BY <1>1 DEF OrderRecord
  <1>3. order' = [order EXCEPT ![o] = row]
    BY DEF CancelOrder
  <1> HIDE DEF row
  <1> QED
    BY <1>1, <1>2, <1>3, HostStep DEF CancelOrder

LEMMA ReleaseRedemptionInv ==
  ASSUME Inv, NEW o \in Orders, ReleaseRedemption(o)
  PROVE  Inv'
  <1> DEFINE row == [order[o] EXCEPT !.redemption = "RELEASED"]
  <1>1. order[o] \in OrderRecord /\ order[o].invoice # "FINAL" /\ order[o].status = "CANCELLED"
    BY DEF ReleaseRedemption, Inv, OrderInv
  <1>2. /\ row \in OrderRecord /\ row.status = order[o].status /\ row.invoice = order[o].invoice
        /\ row.redemption = "RELEASED"
    BY <1>1 DEF OrderRecord
  <1>3. order' = [order EXCEPT ![o] = row]
    BY DEF ReleaseRedemption
  <1> HIDE DEF row
  <1> QED
    BY <1>1, <1>2, <1>3, HostStep DEF ReleaseRedemption

LEMMA RefundInv ==
  ASSUME Inv, NEW o \in Orders, Refund(o)
  PROVE  Inv'
  <1> DEFINE redemption == IF order[o].redemption = "APPLIED" THEN "REFUNDED"
                           ELSE order[o].redemption
             row == [status |-> "REFUNDED", invoice |-> "VOID", redemption |-> redemption]
  <1>1. order \in [Orders -> OrderRecord] /\ order[o] \in OrderRecord
    BY DEF Inv, OrderInv
  <1>2. row \in OrderRecord /\ row.redemption # "APPLIED"
    BY <1>1 DEF OrderRecord
  <1>3. order' = [order EXCEPT ![o] = row]
    BY <1>1 DEF Refund
  <1>4. row.status = "REFUNDED" /\ row.invoice = "VOID"
    OBVIOUS
  <1> HIDE DEF row
  <1> QED
    BY <1>2, <1>3, <1>4, HostStep DEF Refund

----------------------------------------------------------------------------
(* Entitlements.                                                            *)

\* The reaction has dealt with its item: the right is on its evidence.
LEMMA ItemDone ==
  ASSUME Inv, Grows, NEW w \in Workers, worker[w].pc = "grant",
         Matches(right'[<<worker[w].order, worker[w].item>>], worker[w].evidence),
         worker' = [worker EXCEPT ![w] = NextItem(w)]
  PROVE  WorkerInv'
  <1> DEFINE o == worker[w].order
             i == worker[w].item
             evidence == worker[w].evidence
             l == [worker[w] EXCEPT !.item = i + 1]
  <1>1. worker \in [Workers -> WorkerRecord] /\ worker[w] \in WorkerRecord /\ GrantInv(w)
    BY DEF Inv, WorkerInv, LocalInv
  <1>2. o \in Orders /\ i \in 1 .. Items /\ Items \in Nat
    BY <1>1, FulfillmentAssumption DEF GrantInv
  <1>3. CASE i = Items
    <2>1. Return(w)
      BY <1>3 DEF Return, Becomes, NextItem
    <2> QED
      BY <2>1, WorkerReturns
  <1>4. CASE i # Items
    <2>1. i + 1 \in 1 .. Items /\ i + 1 \in 0 .. Items
      BY <1>2, <1>4
    <2>2. /\ l \in WorkerRecord /\ l.pc = "grant" /\ l.order = o /\ l.evidence = evidence
          /\ l.item = i + 1
      BY <1>1, <2>1 DEF WorkerRecord
    <2>3. Becomes(w, l)
      BY <1>4 DEF Becomes, NextItem
    <2> HIDE DEF l
    <2>4. worker'[w] = l
      BY <1>1, <2>3 DEF Becomes
    <2>5. /\ order'[o].status \in {"PAID", "REFUNDED"}
          /\ \/ Total[o] = 0
             \/ \E f \in facts' : f.event = evidence /\ f.order = o /\ f.amount = Total[o]
      BY <1>1, JustifiedStays DEF GrantInv
    <2>6. Matches(right'[<<o, 1>>], evidence)
      <3>1. CASE i = 1
        BY <3>1 DEF Matches
      <3>2. CASE i # 1
        BY <1>1, <1>2, <3>2, FirstItem DEF GrantInv, Matches, Grows, RightsStand
      <3> QED
        BY <3>1, <3>2
    <2>7. GrantInv(w)'
      BY <1>2, <2>1, <2>2, <2>4, <2>5, <2>6 DEF GrantInv, Justified, Claimed
    <2>8. LocalInv(w)'
      BY <2>2, <2>4, <2>7 DEF LocalInv
    <2> QED
      BY <2>2, <2>3, <2>8, WorkerStep
  <1> QED
    BY <1>3, <1>4

LEMMA GrantStepInv ==
  ASSUME Inv, NEW w \in Workers, Grant(w)
  PROVE  Inv'
  <1> DEFINE o == worker[w].order
             i == worker[w].item
             evidence == worker[w].evidence
             x == <<o, i>>
             granted == [status |-> "ACTIVE", evidence |-> evidence]
  <1>1. worker \in [Workers -> WorkerRecord] /\ worker[w] \in WorkerRecord /\ GrantInv(w)
    BY DEF Grant, Inv, WorkerInv, LocalInv
  <1>2. /\ o \in Orders /\ i \in 1 .. Items /\ evidence \in Evidence
        /\ right \in [Orders \X (1 .. Items) -> RightRecord] /\ x \in Orders \X (1 .. Items)
    BY <1>1 DEF GrantInv, WorkerRecord, Inv, RightInv
  <1>3. CASE /\ right[x].status = "NONE" /\ right' = [right EXCEPT ![x] = granted]
             /\ Becomes(w, NextItem(w))
    <2>1. Grows
      BY <1>2, <1>3 DEF Grant, Grows, OrdersAdvance, RightsStand
    <2>2. granted \in RightRecord /\ granted.status = "ACTIVE" /\ granted.evidence = evidence
      BY <1>2 DEF RightRecord
    <2> HIDE DEF granted
    <2>3. right'[x] = granted /\ \A y \in Orders \X (1 .. Items) : y # x => right'[y] = right[y]
      BY <1>2, <1>3
    <2>4. WorkerInv'
      BY <1>3, <2>1, <2>2, <2>3, ItemDone DEF Grant, Becomes, Matches
    <2>5. RightInv'
      <3>1. right' \in [Orders \X (1 .. Items) -> RightRecord]
        BY <1>2, <1>3, <2>2
      <3>2. Matches(right'[<<o, 1>>], evidence)
        <4>1. CASE i = 1
          BY <2>2, <2>3, <4>1 DEF Matches
        <4>2. CASE i # 1
          BY <1>1, <1>2, <2>1, <4>2, FirstItem DEF GrantInv, Matches, Grows, RightsStand
        <4> QED
          BY <4>1, <4>2
      <3>3. /\ order'[o].status \in {"PAID", "REFUNDED"}
            /\ \/ Total[o] = 0
               \/ \E f \in facts' : f.event = evidence /\ f.order = o /\ f.amount = Total[o]
        BY <1>1, <2>1, JustifiedStays DEF GrantInv
      <3>4. ASSUME NEW p \in Orders, NEW j \in 1 .. Items, right'[<<p, j>>].status # "NONE"
            PROVE  /\ Justified(p, right[<<p, j>>].evidence)'
                   /\ Matches(right[<<p, 1>>], right[<<p, j>>].evidence)'
        <4>1. CASE <<p, j>> = x
          <5>1. p = o /\ right'[<<p, j>>].evidence = evidence
            BY <2>2, <2>3, <4>1
          <5> QED
            BY <3>2, <3>3, <5>1 DEF Justified, Claimed, Matches
        <4>2. CASE <<p, j>> # x
          <5>1. right'[<<p, j>>] = right[<<p, j>>]
            BY <2>3, <4>2
          <5>2. Justified(p, right[<<p, j>>].evidence) /\ Matches(right[<<p, 1>>], right[<<p, j>>].evidence)
            BY <3>4, <5>1 DEF Inv, RightInv
          <5>3. Justified(p, right[<<p, j>>].evidence)'
            BY <2>1, <5>1, <5>2, ClaimedStays DEF Justified, Grows, OrdersAdvance, Claimed
          <5>4. Matches(right[<<p, 1>>], right[<<p, j>>].evidence)'
            BY <2>1, <5>1, <5>2, FirstItem DEF Matches, Grows, RightsStand
          <5> QED
            BY <5>3, <5>4
        <4> QED
          BY <4>1, <4>2
      <3> QED
        BY <3>1, <3>4 DEF RightInv
    <2> QED
      BY <2>1, <2>4, <2>5, EventsKept, FactsKept, OrdersKept DEF Grant, Inv
  <1>4. CASE Matches(right[x], evidence) /\ Becomes(w, NextItem(w)) /\ UNCHANGED right
    <2>1. Grows
      BY <1>4, NothingChanged DEF Grant
    <2>2. WorkerInv'
      BY <1>4, <2>1, ItemDone DEF Grant, Becomes
    <2> QED
      BY <1>4, <2>1, <2>2, EventsKept, FactsKept, OrdersKept, RightsKept DEF Grant, Inv
  <1>5. CASE Return(w) /\ UNCHANGED right
    <2>1. Grows
      BY <1>5, NothingChanged DEF Grant
    <2> QED
      BY <1>5, <2>1, WorkerReturns, EventsKept, FactsKept, OrdersKept, RightsKept DEF Grant, Inv
  <1> QED
    BY <1>3, <1>4, <1>5 DEF Grant

LEMMA RevokeInv ==
  ASSUME Inv, NEW x \in DOMAIN right, Revoke(x)
  PROVE  Inv'
  <1> DEFINE r == [right[x] EXCEPT !.status = "REVOKED"]
  <1>1. /\ right \in [Orders \X (1 .. Items) -> RightRecord] /\ x \in Orders \X (1 .. Items)
        /\ right[x] \in RightRecord /\ right[x].status # "NONE"
    BY DEF Revoke, Inv, RightInv
  <1>2. r \in RightRecord /\ r.status = "REVOKED" /\ r.evidence = right[x].evidence
    BY <1>1 DEF RightRecord
  <1>3. right' = [right EXCEPT ![x] = r]
    BY DEF Revoke
  <1> HIDE DEF r
  <1>4. \A y \in Orders \X (1 .. Items) :
           right'[y].evidence = right[y].evidence /\ (right'[y].status = "NONE" <=> right[y].status = "NONE")
    BY <1>1, <1>2, <1>3
  <1>5. Grows
    BY <1>4 DEF Revoke, Grows, OrdersAdvance, RightsStand
  <1>6. right' \in [Orders \X (1 .. Items) -> RightRecord]
    BY <1>1, <1>2, <1>3
  <1>7. ASSUME NEW o \in Orders, NEW i \in 1 .. Items, right'[<<o, i>>].status # "NONE"
        PROVE  /\ Justified(o, right[<<o, i>>].evidence)'
               /\ Matches(right[<<o, 1>>], right[<<o, i>>].evidence)'
    <2>1. Justified(o, right[<<o, i>>].evidence) /\ Matches(right[<<o, 1>>], right[<<o, i>>].evidence)
      BY <1>4, <1>7 DEF Inv, RightInv
    <2> QED
      BY <1>4, <2>1, FirstItem DEF Revoke, Justified, Claimed, Matches
  <1>8. RightInv'
    BY <1>6, <1>7 DEF RightInv
  <1> QED
    BY <1>5, <1>8, EventsKept, FactsKept, OrdersKept, WorkersWait DEF Revoke, Inv

LEMMA AttemptInv ==
  ASSUME Inv, NEW a \in DOMAIN Attempts, CancelAttempt(a) \/ FailAttempt(a)
  PROVE  Inv'
  <1>1. UNCHANGED <<stored, facts, order, right, worker, faults>>
    BY DEF CancelAttempt, FailAttempt
  <1>2. EventInv'
    BY DEF CancelAttempt, FailAttempt, Inv, EventInv
  <1>3. Grows
    BY <1>1, NothingChanged
  <1> QED
    BY <1>1, <1>2, <1>3, FactsKept, OrdersKept, WorkersWait, RightsKept DEF Inv

LEMMA DieInv ==
  ASSUME Inv, NEW w \in Workers, Die(w)
  PROVE  Inv'
  <1>1. Grows
    BY NothingChanged DEF Die
  <1>2. EventInv'
    BY FulfillmentAssumption DEF Die, Inv, EventInv
  <1> QED
    BY <1>1, <1>2, WorkerReturns, FactsKept, OrdersKept, RightsKept DEF Die, Inv

----------------------------------------------------------------------------
(* The invariant and the properties.                                        *)

LEMMA InitInv ==
  ASSUME Init
  PROVE  Inv
  <1> USE DEF Init
  <1>1. EventInv /\ FactInv
    BY FulfillmentAssumption DEF EventInv, FactInv
  <1>2. OrderInv
    BY DEF OrderInv, OrderRecord
  <1>3. WorkerInv
    BY IdleType DEF WorkerInv, LocalInv
  <1>4. RightInv
    BY DEF RightInv, RightRecord, NoRight, Evidence
  <1> QED
    BY <1>1, <1>2, <1>3, <1>4 DEF Inv

LEMMA NextInv ==
  ASSUME Inv, [Next]_vars
  PROVE  Inv'
  <1>1. CASE UNCHANGED vars
    BY <1>1, NothingChanged, WorkersWait, EventsKept, FactsKept, OrdersKept, RightsKept DEF vars, Inv
  <1> QED
    BY <1>1, IngestInv, ReactInv, ClaimFactInv, SettleStepInv, FulfillZeroInv, GrantStepInv, RevokeInv,
       CancelOrderInv, ReleaseRedemptionInv, RefundInv, AttemptInv, DieInv
       DEF Next

THEOREM Invariance == Spec => []Inv
  BY InitInv, NextInv, PTL DEF Spec

LEMMA Consequences ==
  ASSUME Inv
  PROVE  Consistent /\ RightsArePaidFor
  <1>1. TypeOK
    BY DEF TypeOK, Inv, EventInv, OrderInv, RightInv, WorkerInv, OrderRecord, RightRecord, WorkerRecord
  <1>2. Consistent
    BY <1>1 DEF Consistent, Inv, OrderInv
  <1>3. ASSUME NEW o \in Orders, NEW i \in 1 .. Items, NEW j \in 1 .. Items,
               right[<<o, i>>].status # "NONE"
        PROVE  /\ right[<<o, j>>].status # "NONE" => right[<<o, i>>].evidence = right[<<o, j>>].evidence
               /\ order[o].status \in {"PAID", "REFUNDED"}
               /\ \/ Total[o] = 0
                  \/ \E f \in facts, e \in stored :
                        /\ f.event = right[<<o, i>>].evidence /\ f.order = o /\ f.amount = Total[o]
                        /\ e.id = f.event /\ e.paid /\ e.reference = o /\ e.amount = Total[o]
    <2>1. Justified(o, right[<<o, i>>].evidence)
      BY <1>3 DEF Inv, RightInv
    <2>2. right[<<o, j>>].status # "NONE" => right[<<o, i>>].evidence = right[<<o, j>>].evidence
      BY <1>3 DEF Inv, RightInv, Matches
    <2> QED
      BY <2>1, <2>2 DEF Justified, Claimed, Inv, FactInv, Backed
  <1> QED
    BY <1>2, <1>3 DEF RightsArePaidFor

\* Types, and: invoice and redemption follow the order through settlement, cancellation
\* and refund, in whatever order they come.
THEOREM ConsistentCorrect == Spec => []Consistent
  BY Invariance, Consequences, PTL

\* Every right rests on money that settled the whole total of its order, and all rights
\* of an order on the same settlement.
THEOREM RightsArePaidForCorrect == Spec => []RightsArePaidFor
  BY Invariance, Consequences, PTL

LEMMA NothingComesBackStep ==
  ASSUME Inv, [Next]_vars
  PROVE  /\ \A o \in Orders : order[o].status = "REFUNDED" => order'[o].status = "REFUNDED"
         /\ \A x \in DOMAIN right :
               right[x].status # "NONE" =>
                   /\ right'[x].evidence = right[x].evidence
                   /\ right[x].status = "REVOKED" => right'[x].status = "REVOKED"
  <1>1. /\ order \in [Orders -> OrderRecord]
        /\ right \in [Orders \X (1 .. Items) -> RightRecord]
    BY DEF Inv, OrderInv, RightInv
  <1>2. ASSUME NEW o \in Orders, order[o].status = "REFUNDED"
        PROVE  order'[o].status = "REFUNDED"
    <2>1. CASE UNCHANGED order
      BY <1>2, <2>1
    <2>2. \/ UNCHANGED order
          \/ \E p \in Orders : /\ order[p].status # "REFUNDED"
                               /\ \E row : order' = [order EXCEPT ![p] = row]
      <3>1. ASSUME NEW w \in Workers, Settle(w)
            PROVE  \/ UNCHANGED order
                   \/ \E p \in Orders : /\ order[p].status # "REFUNDED"
                                        /\ \E row : order' = [order EXCEPT ![p] = row]
        <4>1. worker[w].order \in Orders
          BY <3>1 DEF Settle, Inv, WorkerInv, LocalInv, SettleInv
        <4> QED
          BY <3>1, <4>1 DEF Settle, Settleable
      <3>2. ASSUME NEW w \in Workers, NEW p \in Orders, NEW at, FulfillZero(w, p, at)
            PROVE  order[p].status # "REFUNDED" /\ \E row : order' = [order EXCEPT ![p] = row]
        BY <3>2 DEF FulfillZero
      <3>3. ASSUME NEW p \in Orders, CancelOrder(p) \/ ReleaseRedemption(p) \/ Refund(p)
            PROVE  order[p].status # "REFUNDED" /\ \E row : order' = [order EXCEPT ![p] = row]
        BY <3>3 DEF CancelOrder, ReleaseRedemption, Refund
      <3> QED
        BY <3>1, <3>2, <3>3
           DEF Next, vars, Ingest, React, ClaimFact, Grant, Die, Revoke, CancelAttempt, FailAttempt
    <2> QED
      BY <1>1, <1>2, <2>1, <2>2
  <1>3. ASSUME NEW x \in DOMAIN right, right[x].status # "NONE"
        PROVE  /\ right'[x].evidence = right[x].evidence
               /\ right[x].status = "REVOKED" => right'[x].status = "REVOKED"
    <2>1. CASE UNCHANGED right
      BY <2>1
    <2>2. ASSUME NEW w \in Workers, Grant(w)
          PROVE  right'[x] = right[x]
      BY <1>1, <1>3, <2>2 DEF Grant
    <2>3. ASSUME NEW y \in DOMAIN right, Revoke(y)
          PROVE  /\ right'[x].evidence = right[x].evidence
                 /\ right[x].status = "REVOKED" => right'[x].status = "REVOKED"
      BY <1>1, <2>3 DEF Revoke, RightRecord
    <2> QED
      BY <2>1, <2>2, <2>3
         DEF Next, vars, Ingest, React, ClaimFact, Settle, FulfillZero, Die, CancelOrder,
             ReleaseRedemption, Refund, CancelAttempt, FailAttempt
  <1> QED
    BY <1>2, <1>3

\* Neither a redelivered event nor a repeated fulfilment takes back a refund or a
\* revocation, or puts a right on other evidence.
THEOREM NothingComesBackCorrect == Spec => NothingComesBack
  <1>1. Inv /\ [Next]_vars =>
           [/\ \A o \in Orders : order[o].status = "REFUNDED" => order'[o].status = "REFUNDED"
            /\ \A x \in DOMAIN right :
                  right[x].status # "NONE" =>
                      /\ right'[x].evidence = right[x].evidence
                      /\ right[x].status = "REVOKED" => right'[x].status = "REVOKED"]_vars
    BY NothingComesBackStep
  <1> QED
    BY <1>1, Invariance, PTL DEF Spec, NothingComesBack
=============================================================================
