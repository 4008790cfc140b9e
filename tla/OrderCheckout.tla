----------------------------- MODULE OrderCheckout -----------------------------
(***************************************************************************)
(* A checkout of @bke/commerce, from the order to its settlement: calls of *)
(* start() create the order and its draft invoice, price a renewal from    *)
(* its subscription, price an offer and reserve its redemption, and then   *)
(* fulfil a total of zero or start a payment. Each of these is a           *)
(* transaction of its own and a call may die between any two. The host     *)
(* cancels, recovers, reserves offers by itself, and starts and renews     *)
(* subscriptions; payments settle when they like.                          *)
(***************************************************************************)
EXTENDS Integers, FiniteSets, Sequences

CONSTANTS
    Calls,          \* slots for concurrent checkouts
    Orders,         \* orders that may be created, named by their number
    Input,          \* what every order asks for, see InputType
    Accounts,
    Offers,
    Offer,          \* the configuration of every offer, see OfferType
    Sources,        \* canonical source references
    Horizon,        \* the last instant of the clock, in billing periods
    MaxFaults,      \* bound on dying calls and lost answers
    None

Bps == 0 .. 10000
Unlimited == -1

\* renews: the first order of the subscription renewed; wish: the offer identifier;
\* direct: the host reserves its offer by itself; hosted: paid by a hosted checkout.
InputType == [account : Accounts, source : Sources, unit : Nat, quantity : Nat \ {0}, tax : Nat,
              monthly : BOOLEAN, renews : Orders \cup {None}, wish : Offers \cup {None},
              direct : BOOLEAN, hosted : BOOLEAN]

\* general: a GENERAL_PROMOTION; cycles: 0 for none.
OfferType == [general : BOOLEAN, coded : BOOLEAN, account : Accounts \cup {None}, bps : Bps,
              cycles : Nat, maximum : Nat \cup {Unlimited}, perAccount : Nat \cup {Unlimited}, zero : BOOLEAN]

ASSUME CheckoutAssumption ==
    /\ None \notin Orders \cup Offers
    /\ Input \in [Orders -> InputType]
    /\ Offer \in [Offers -> OfferType]
    /\ \A f \in Offers : Offer[f].zero => Offer[f].bps = 10000
    /\ {Horizon, MaxFaults} \subseteq Nat

\* Every plan of an edition costs MIN_AMOUNT_MINOR at least: no subscription is sold for
\* nothing. A hypothesis of one theorem; create() itself takes any amount.
PlansArePriced == \A o \in Orders : Input[o].monthly => Input[o].unit > 0

VARIABLES
    order,          \* Order with its item and Invoice
    redemption,     \* the OfferRedemption row of every order
    active,         \* offers that are ACTIVE, started and not ended
    attempt,        \* the payment attempt of every source (Payments)
    subscription,   \* the Subscription row started for a first order
    call,           \* the local state of every call
    now, faults

vars == <<order, redemption, active, attempt, subscription, call, now, faults>>

NoOrder == [status |-> "NONE", total |-> 0, offer |-> None, invoice |-> "NONE", invoiced |-> 0,
            lines |-> <<>>, late |-> FALSE, renewed |-> FALSE]
NoRedemption == [status |-> "NONE", offer |-> None, final |-> 0, released |-> FALSE]
NoAttempt == [order |-> None, amount |-> 0]
NoSubscription == [started |-> FALSE, base |-> 0, offer |-> None, total |-> 0, consumed |-> 0,
                   end |-> 0, periods |-> 0]
IdleCall == [pc |-> "idle", order |-> None, total |-> 0, single |-> FALSE]

Created == {o \in Orders : order[o].status # "NONE"}

TypeOK ==
    /\ \A o \in Orders :
          /\ order[o].status \in {"NONE", "PENDING", "PAID", "CANCELLED", "REFUNDED"}
          /\ order[o].invoice \in {"NONE", "DRAFT", "FINAL", "VOID"}
          /\ order[o].total \in Nat
          /\ redemption[o].status \in {"NONE", "RESERVED", "APPLIED", "RELEASED", "REFUNDED"}
          /\ redemption[o].status = "NONE" <=> redemption[o].offer = None
          /\ subscription[o].consumed \in 0 .. subscription[o].total
          /\ subscription[o].end \in Nat
    /\ active \subseteq Offers
    /\ \A s \in Sources : attempt[s].order \in Created \cup {None}
    /\ \A c \in Calls : call[c].pc \in {"idle", "renewal", "price", "finish"}
    /\ now \in 0 .. Horizon
    /\ faults \in 0 .. MaxFaults

Init ==
    /\ order = [o \in Orders |-> NoOrder]
    /\ redemption = [o \in Orders |-> NoRedemption]
    /\ active = Offers
    /\ attempt = [s \in Sources |-> NoAttempt]
    /\ subscription = [o \in Orders |-> NoSubscription]
    /\ call = [c \in Calls |-> IdleCall]
    /\ now = 0
    /\ faults = 0

Becomes(c, local) == call' = [call EXCEPT ![c] = local]

Return(c) == Becomes(c, IdleCall)

Fault ==
    /\ faults < MaxFaults
    /\ faults' = faults + 1

----------------------------------------------------------------------------
\* The order and its draft invoice

Subtotal(o) == Input[o].quantity * Input[o].unit

Duplicate(o) == \E p \in Created : p = o \/ Input[p].source = Input[o].source

Drafted(o) ==
    [NoOrder EXCEPT !.status = "PENDING", !.total = Subtotal(o) + Input[o].tax, !.invoice = "DRAFT",
                    !.invoiced = Subtotal(o) + Input[o].tax, !.lines = <<Subtotal(o)>>]

\* The host renews a subscription it knows, one renewal at a time.
MayRenew(o) ==
    LET s == Input[o].renews IN
    s # None => /\ subscription[s].started
                /\ \A p \in Created : Input[p].renews = s =>
                      order[p].status \notin {"PENDING"} /\ (order[p].status = "PAID" => order[p].renewed)

\* start() up to and with the order: account and legal requirements are accepted; a
\* duplicate is an ORDER_CONFLICT. A direct order is created by the host.
Create(c, o) ==
    /\ call[c].pc = "idle"
    /\ ~Duplicate(o)
    /\ MayRenew(o)
    /\ order' = [order EXCEPT ![o] = Drafted(o)]
    /\ IF Input[o].direct THEN Return(c)
       ELSE Becomes(c, [IdleCall EXCEPT !.pc = "renewal", !.order = o])
    /\ UNCHANGED <<redemption, active, attempt, subscription, now, faults>>

----------------------------------------------------------------------------
\* Offers

\* Half up.
Discounted(base, bps) == (base * (10000 - bps) + 5000) \div 10000

Holders(f) == {o \in Orders : redemption[o].offer = f /\ redemption[o].status # "RELEASED"}

Of(account, S) == {o \in S : Input[o].account = account}

\* mutant: only reserved redemptions hold a place
PlaceLive(f, o) ==
    LET held == {p \in Holders(f) : redemption[p].status = "RESERVED"} IN
    Offer[f].maximum = Unlimited \/ Cardinality(held) < Offer[f].maximum

PlaceFree(f, o) ==
    /\ Offer[f].maximum = Unlimited \/ Cardinality(Holders(f)) < Offer[f].maximum
    /\ Offer[f].perAccount = Unlimited
         \/ Cardinality(Of(Input[o].account, Holders(f))) < Offer[f].perAccount

Matches(f, o) ==
    /\ f \in active
    /\ Offer[f].account \in {None, Input[o].account}
    /\ Offer[f].cycles > 0 => Input[o].monthly

\* mutant: any offer may bring the total to zero
AnyZero(f, o, base) == TRUE

\* A general promotion never gives a perpetual licence away.
ZeroAllowed(f, o, base) ==
    Discounted(base, Offer[f].bps) = 0 /\ base > 0 =>
        Offer[f].zero /\ (Offer[f].general => Input[o].monthly)

\* The identified offer, or the best of the public ones.
Public(o) ==
    {f \in active : Offer[f].general /\ ~Offer[f].coded /\ Offer[f].account = None /\ Matches(f, o)}

Candidates(o) ==
    IF Input[o].wish # None THEN {Input[o].wish}
    ELSE {f \in Public(o) : \A g \in Public(o) : Offer[g].bps <= Offer[f].bps}

EligibleForOffer(o) ==
    /\ order[o].status = "PENDING" /\ order[o].invoice = "DRAFT"
    /\ Input[o].tax = 0 /\ Input[o].quantity = 1
    /\ order[o].offer = None

Reserved(f, final) == [status |-> "RESERVED", offer |-> f, final |-> final, released |-> FALSE]

\* mutant: the invoice keeps its total
OrderOnly(o, f, final) ==
    [order[o] EXCEPT !.total = final, !.offer = f,
                     !.lines = IF final = order[o].total THEN @ ELSE Append(@, final - order[o].total)]

Priced(o, f, final) ==
    [order[o] EXCEPT !.total = final, !.invoiced = final, !.offer = f,
                     !.lines = IF final = order[o].total THEN @ ELSE Append(@, final - order[o].total)]

\* single: the order is sold as one item at the discounted price.
PricedAt(c, total, single) ==
    Becomes(c, [call[c] EXCEPT !.pc = "finish", !.total = total, !.single = single])

\* The transaction of price(), on an order that has a redemption already.
PriceAgain(c) ==
    LET o == call[c].order IN
    /\ call[c].pc = "price"
    /\ redemption[o].status # "NONE"
    /\ IF redemption[o].status \in {"RESERVED", "APPLIED"} THEN PricedAt(c, order[o].total, TRUE)
       ELSE Return(c)
    /\ UNCHANGED <<order, redemption, active, attempt, subscription, now, faults>>

\* No offer is asked for and none applies; or an offer is asked for and refused. A
\* public offer that is used up refuses the checkout as well.
PriceWithout(c) ==
    LET o == call[c].order IN
    /\ call[c].pc = "price"
    /\ redemption[o].status = "NONE"
    /\ \/ /\ Input[o].wish = None
          /\ ~EligibleForOffer(o) \/ Candidates(o) = {}
          /\ PricedAt(c, order[o].total, FALSE)
       \/ /\ Input[o].wish # None /\ ~EligibleForOffer(o)
          /\ Return(c)
       \/ /\ EligibleForOffer(o)
          /\ \E f \in Candidates(o) :
                ~(Matches(f, o) /\ PlaceFree(f, o) /\ ZeroAllowed(f, o, order[o].total))
          /\ Return(c)
    /\ UNCHANGED <<order, redemption, active, attempt, subscription, now, faults>>

\* The redemption is reserved and order, item and invoice are repriced.
PriceOffer(c) ==
    LET o == call[c].order IN
    /\ call[c].pc = "price"
    /\ redemption[o].status = "NONE"
    /\ EligibleForOffer(o)
    /\ \E f \in Candidates(o) : LET final == Discounted(order[o].total, Offer[f].bps) IN
          /\ Matches(f, o) /\ PlaceFree(f, o) /\ ZeroAllowed(f, o, order[o].total)
          /\ redemption' = [redemption EXCEPT ![o] = Reserved(f, final)]
          /\ order' = [order EXCEPT ![o] = Priced(o, f, final)]
          /\ PricedAt(c, final, TRUE)
    /\ UNCHANGED <<active, attempt, subscription, now, faults>>

\* reserve(): the host claims an offer by its code and leaves the order as it is.
Reserve(o, f) ==
    LET final == Discounted(Subtotal(o), Offer[f].bps) IN
    /\ Input[o].direct /\ order[o].status = "PENDING"
    /\ redemption[o].status = "NONE"
    /\ f \in active /\ Offer[f].coded /\ Offer[f].account \in {None, Input[o].account}
    /\ PlaceFree(f, o)
    /\ final = 0 /\ Subtotal(o) > 0 => Offer[f].zero
    /\ redemption' = [redemption EXCEPT ![o] = Reserved(f, final)]
    /\ UNCHANGED <<order, active, attempt, subscription, call, now, faults>>

\* The release of the redemption of a cancelled order.
Release(o) ==
    /\ order[o].status = "CANCELLED"
    /\ redemption[o].status = "RESERVED"
    /\ redemption' = [redemption EXCEPT ![o].status = "RELEASED", ![o].released = TRUE]
    /\ UNCHANGED <<order, active, attempt, subscription, call, now, faults>>

----------------------------------------------------------------------------
\* Subscriptions

\* A discounted cycle is left.
Scheduled(s) ==
    /\ subscription[s].offer # None
    /\ subscription[s].consumed < subscription[s].total

\* The catalogue price of the subscription, or of the order when it has none.
RenewalBase(o) ==
    LET s == Input[o].renews IN
    IF subscription[s].base > 0 THEN subscription[s].base ELSE Subtotal(o)

\* The price of a renewal: its base, discounted while discounted cycles are left. The tax
\* of the order is not part of it.
Renewal(o) ==
    LET s == Input[o].renews
        base == RenewalBase(o)
        final == IF Scheduled(s) THEN Discounted(base, Offer[subscription[s].offer].bps) ELSE base
    IN  [order[o] EXCEPT !.total = final, !.invoiced = final,
                         !.offer = IF Scheduled(s) THEN subscription[s].offer ELSE None,
                         !.lines = IF final = base THEN <<base>> ELSE <<base, final - base>>]

\* The account and the plan are the subscription's, and there is one DRAFT invoice of one
\* line: an order discounted before has two.
RenewalEligible(o) ==
    /\ order[o].status = "PENDING" /\ order[o].invoice = "DRAFT"
    /\ Input[o].quantity = 1
    /\ Input[Input[o].renews].account = Input[o].account
    /\ Input[Input[o].renews].monthly = Input[o].monthly
    /\ Len(order[o].lines) = 1

PrepareRenewal(c) ==
    LET o == call[c].order
        s == Input[o].renews IN
    /\ call[c].pc = "renewal"
    /\ \/ /\ s = None
          /\ Becomes(c, [call[c] EXCEPT !.pc = "price"])
          /\ UNCHANGED order
       \/ /\ s # None /\ RenewalEligible(o)
          /\ order' = [order EXCEPT ![o] = Renewal(o)]
          /\ IF Scheduled(s) THEN PricedAt(c, Renewal(o).total, TRUE)
             ELSE Becomes(c, [call[c] EXCEPT !.pc = "price"])
       \/ /\ s # None /\ ~RenewalEligible(o)
          /\ Return(c)
          /\ UNCHANGED order
    /\ UNCHANGED <<redemption, active, attempt, subscription, now, faults>>

\* mutant: a renewal starts a new period at once
FromNow(s) == now

PeriodStart(s) == IF subscription[s].end > now THEN subscription[s].end ELSE now

\* The host starts the subscription of a paid order from its redemption.
StartSubscription(o) ==
    LET f == order[o].offer
        cycles == IF f = None THEN 0 ELSE Offer[f].cycles IN
    /\ order[o].status = "PAID" /\ Input[o].monthly /\ Input[o].renews = None
    /\ ~subscription[o].started
    /\ subscription' = [subscription EXCEPT
           ![o] = [started |-> TRUE, base |-> Subtotal(o), offer |-> f, total |-> cycles,
                   consumed |-> IF cycles > 0 THEN 1 ELSE 0, end |-> now + 1, periods |-> 1]]
    /\ UNCHANGED <<order, redemption, active, attempt, call, now, faults>>

\* mutant: a discounted renewal consumes no cycle
NoneConsumed(s, f) == subscription[s].consumed

Consumed(s, f) ==
    IF f # None /\ subscription[s].consumed < subscription[s].total
    THEN subscription[s].consumed + 1 ELSE subscription[s].consumed

\* renew(), called by the host for a paid renewal; it knows nothing of the order, and
\* a host that loses the answer calls it again.
Renew(o) ==
    LET s == Input[o].renews IN
    /\ order[o].status = "PAID" /\ s # None /\ ~order[o].renewed
    /\ subscription' = [subscription EXCEPT
           ![s].consumed = Consumed(s, order[o].offer),
           ![s].end = PeriodStart(s) + 1,
           ![s].periods = @ + 1]
    /\ \/ order' = [order EXCEPT ![o].renewed = TRUE] /\ UNCHANGED faults
       \/ Fault /\ UNCHANGED order
    /\ UNCHANGED <<redemption, active, attempt, call, now>>

----------------------------------------------------------------------------
\* Fulfilment or payment

Applied(o) ==
    IF redemption[o].status = "NONE" THEN redemption[o] ELSE [redemption[o] EXCEPT !.status = "APPLIED"]

Paid(o) == [order[o] EXCEPT !.status = "PAID", !.invoice = "FINAL"]

\* Orders that settle: an order settled before stays as it is.
Settles(o) ==
    \/ /\ order[o].status = "PENDING"
       /\ redemption[o].status \in {"NONE", "RESERVED", "APPLIED"}
    \/ /\ order[o].status = "CANCELLED"
       /\ redemption[o].status \in {"NONE", "RESERVED", "APPLIED", "RELEASED"}

\* The lines of a hosted checkout; they are one line when the order was discounted.
ItemsTotal(c) ==
    LET o == call[c].order IN
    (IF call[c].single THEN call[c].total ELSE Subtotal(o)) + Input[o].tax

\* Payments answers a source with the attempt it has and refuses items that do not
\* add up to the amount.
StartsPayment(c) ==
    /\ attempt[Input[call[c].order].source] = NoAttempt
    /\ Input[call[c].order].hosted => ItemsTotal(c) = call[c].total

FulfillZero(c) ==
    LET o == call[c].order IN
    /\ call[c].pc = "finish" /\ call[c].total = 0
    /\ IF order[o].status = "PENDING" /\ Settles(o)
       THEN /\ order' = [order EXCEPT ![o] = Paid(o)]
            /\ redemption' = [redemption EXCEPT ![o] = Applied(o)]
       ELSE UNCHANGED <<order, redemption>>
    /\ Return(c)
    /\ UNCHANGED <<active, attempt, subscription, now, faults>>

StartPayment(c) ==
    LET o == call[c].order IN
    /\ call[c].pc = "finish" /\ call[c].total > 0
    /\ IF StartsPayment(c)
       THEN attempt' = [attempt EXCEPT ![Input[o].source] = [order |-> o, amount |-> call[c].total]]
       ELSE UNCHANGED attempt
    /\ Return(c)
    /\ UNCHANGED <<order, redemption, active, subscription, now, faults>>

\* A payment of the attempt settles the order, whose total it must be.
Settle(s) ==
    LET o == attempt[s].order IN
    /\ o # None
    /\ attempt[s].amount = order[o].total
    /\ Settles(o)
    /\ order' = [order EXCEPT ![o] = [Paid(o) EXCEPT !.late = order[o].status = "CANCELLED"]]
    /\ redemption' = [redemption EXCEPT ![o] = Applied(o)]
    /\ UNCHANGED <<active, attempt, subscription, call, now, faults>>

----------------------------------------------------------------------------
\* The host and the world (external)

Cancel(o) ==
    /\ order[o].status = "PENDING"
    /\ order' = [order EXCEPT ![o].status = "CANCELLED"]
    /\ UNCHANGED <<redemption, active, attempt, subscription, call, now, faults>>

\* The plan of a succeeded refund.
Refund(o) ==
    /\ order[o].status = "PAID"
    /\ order' = [order EXCEPT ![o].status = "REFUNDED", ![o].invoice = "VOID"]
    /\ redemption' = [redemption EXCEPT
           ![o].status = IF @ = "APPLIED" THEN "REFUNDED" ELSE @]
    /\ UNCHANGED <<active, attempt, subscription, call, now, faults>>

Die(c) ==
    /\ call[c].pc # "idle"
    /\ Fault
    /\ Return(c)
    /\ UNCHANGED <<order, redemption, active, attempt, subscription, now>>

\* The host finds the order of a dead call by its source and goes on with the
\* capabilities start() is made of.
Recover(c, o) ==
    /\ call[c].pc = "idle"
    /\ order[o].status = "PENDING" /\ ~Input[o].direct
    /\ attempt[Input[o].source] = NoAttempt
    /\ \A d \in Calls : call[d].order # o
    /\ Becomes(c, [IdleCall EXCEPT !.pc = "renewal", !.order = o])
    /\ UNCHANGED <<order, redemption, active, attempt, subscription, now, faults>>

\* An offer is disabled or ends.
Withdraw(f) ==
    /\ f \in active
    /\ active' = active \ {f}
    /\ UNCHANGED <<order, redemption, attempt, subscription, call, now, faults>>

Tick ==
    /\ now < Horizon
    /\ now' = now + 1
    /\ UNCHANGED <<order, redemption, active, attempt, subscription, call, faults>>

Next ==
    \/ \E c \in Calls :
          \/ \E o \in Orders : Create(c, o) \/ Recover(c, o)
          \/ PrepareRenewal(c)
          \/ PriceAgain(c) \/ PriceWithout(c) \/ PriceOffer(c)
          \/ FulfillZero(c) \/ StartPayment(c) \/ Die(c)
    \/ \E o \in Orders : Release(o) \/ StartSubscription(o) \/ Renew(o) \/ Cancel(o) \/ Refund(o)
    \/ \E o \in Orders, f \in Offers : Reserve(o, f)
    \/ \E s \in Sources : Settle(s)
    \/ \E f \in Offers : Withdraw(f)
    \/ Tick

Spec == Init /\ [][Next]_vars

----------------------------------------------------------------------------
\* Properties

\* Concurrent checkouts and reservations never use an offer beyond its maximum, in all
\* or for one account, save by payments of orders whose redemption was given back.
OfferWithinLimits ==
    \A f \in Offers :
        LET held == {o \in Holders(f) : ~redemption[o].released} IN
        /\ Offer[f].maximum # Unlimited => Cardinality(held) <= Offer[f].maximum
        /\ Offer[f].perAccount # Unlimited =>
               \A o \in Orders : Cardinality(Of(Input[o].account, held)) <= Offer[f].perAccount

\* An invoice has the line of its item and at most one line of a discount.
LinesTotal(lines) == IF Len(lines) = 1 THEN lines[1] ELSE lines[1] + lines[2]

\* Whatever dies, is recovered or cancelled on the way: the lines of the invoice add up to
\* its total, which is what the order costs, what the redemption promised and what the
\* customer is asked to pay; the tax of a renewal excepted.
BooksBalance ==
    /\ \A o \in Created :
          /\ order[o].invoiced = order[o].total
          /\ Len(order[o].lines) \in {1, 2}
          /\ Input[o].tax = 0 \/ Input[o].renews = None =>
                Input[o].tax + LinesTotal(order[o].lines) = order[o].total
          /\ redemption[o].status # "NONE" /\ ~Input[o].direct => redemption[o].final = order[o].total
    /\ \A s \in Sources : attempt[s].order # None => attempt[s].amount = order[attempt[s].order].total

\* Nothing is given away, at the first order or at a later renewal, unless an offer that
\* allows a total of zero says so; a perpetual licence never by a general promotion.
FreeOnlyIfAllowed ==
    \A o \in Created : order[o].total = 0 /\ Subtotal(o) > 0 =>
        /\ order[o].offer # None /\ Offer[order[o].offer].zero
        /\ Offer[order[o].offer].general => Input[o].monthly

\* A subscription is sold at its promotional price for as many cycles as the offer grants;
\* refunded renewals, and those paid for after their cancellation, do not count.
PromotionEnds ==
    \A s \in Orders : subscription[s].started /\ subscription[s].total > 0 =>
        Cardinality({o \in Created :
            /\ Input[o].renews = s /\ ~order[o].late
            /\ order[o].status = "PAID"
            /\ order[o].offer # None /\ redemption[o].status = "NONE"}) < subscription[s].total

\* The type invariant, and: renewing early never costs a part of the period already paid
\* for.
PaidTimeKept ==
    /\ TypeOK
    /\ \A s \in Orders : subscription[s].started => subscription[s].end >= subscription[s].periods
=============================================================================
