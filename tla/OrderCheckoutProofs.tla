-------------------------- MODULE OrderCheckoutProofs --------------------------
(***************************************************************************)
(* Proofs about OrderCheckout, for every value of its constants.           *)
(***************************************************************************)
EXTENDS OrderCheckout, FiniteSetTheorems, TLAPS

OrderRecord ==
    [status : {"NONE", "PENDING", "PAID", "CANCELLED", "REFUNDED"}, total : Nat,
     offer : Offers \cup {None}, invoice : {"NONE", "DRAFT", "FINAL", "VOID"}, invoiced : Nat,
     lines : Seq(Int), late : BOOLEAN, renewed : BOOLEAN]

RedemptionRecord ==
    [status : {"NONE", "RESERVED", "APPLIED", "RELEASED", "REFUNDED"}, offer : Offers \cup {None},
     final : Nat, released : BOOLEAN]

AttemptRecord == [order : Orders \cup {None}, amount : Nat]

SubscriptionRecord ==
    [started : BOOLEAN, base : Nat, offer : Offers \cup {None}, total : Nat, consumed : Nat,
     end : Nat, periods : Nat]

CallRecord ==
    [pc : {"idle", "renewal", "price", "finish"}, order : Orders \cup {None}, total : Nat,
     single : BOOLEAN]

TypeInv ==
    /\ order \in [Orders -> OrderRecord]
    /\ redemption \in [Orders -> RedemptionRecord]
    /\ active \subseteq Offers
    /\ attempt \in [Sources -> AttemptRecord]
    /\ subscription \in [Orders -> SubscriptionRecord]
    /\ call \in [Calls -> CallRecord]
    /\ now \in 0 .. Horizon
    /\ faults \in 0 .. MaxFaults

----------------------------------------------------------------------------
(* What an order costs.                                                     *)

\* The price of a renewal before any discount.
ListPrice(o) ==
    LET s == Input[o].renews IN IF Subtotal(s) > 0 THEN Subtotal(s) ELSE Subtotal(o)

\* The prices an order may have before its discount: as it was created, or as a renewal.
Bases(o) ==
    {Subtotal(o) + Input[o].tax} \cup (IF Input[o].renews = None THEN {} ELSE {ListPrice(o)})

\* An order that costs less than its base does so by an offer that may bring it there.
PriceOf(o, offer, total) ==
    IF offer = None THEN total \in Bases(o)
    ELSE \E base \in Bases(o) :
            /\ total = Discounted(base, Offer[offer].bps)
            /\ PlansArePriced => ZeroAllowed(offer, o, base)

Booked(o) ==
    /\ order[o].invoiced = order[o].total
    /\ Len(order[o].lines) \in {1, 2}
    /\ Input[o].tax = 0 \/ Input[o].renews = None =>
          Input[o].tax + LinesTotal(order[o].lines) = order[o].total
    /\ order[o].offer = None => Len(order[o].lines) = 1
    /\ order[o].offer # None /\ Input[o].renews = None => Input[o].tax = 0
    /\ PriceOf(o, order[o].offer, order[o].total)

OrderInv ==
    /\ \A o \in Created : Booked(o)
    /\ \A o \in Created : Input[o].renews # None => subscription[Input[o].renews].started
    /\ \A o, p \in Created : Input[o].source = Input[p].source => o = p

FlagInv ==
    \A o \in Orders : order[o].status \in {"NONE", "PENDING", "CANCELLED"} =>
       ~order[o].late /\ ~order[o].renewed

\* A renewal is given a new offer only when its subscription has no discounted cycle left,
\* and an order priced again at one line is priced as it was.
PricedOnce(o) ==
    Input[o].renews # None =>
        /\ ~Scheduled(Input[o].renews)
        /\ Len(order[o].lines) = 1 => order[o].total = ListPrice(o)

RedemptionInv ==
    \A o \in Orders :
       /\ redemption[o].status = "NONE" <=> redemption[o].offer = None
       /\ redemption[o].status = "RELEASED" => redemption[o].released
       /\ redemption[o].status # "NONE" => o \in Created
       /\ redemption[o].status # "NONE" /\ ~Input[o].direct =>
             redemption[o].final = order[o].total /\ PricedOnce(o)

AttemptInv ==
    \A s \in Sources : attempt[s] # NoAttempt =>
       /\ attempt[s].order \in Created /\ Input[attempt[s].order].source = s
       /\ attempt[s].amount = order[attempt[s].order].total

SubscriptionInv ==
    /\ \A s \in Orders : subscription[s].consumed <= subscription[s].total
    /\ \A s \in Orders : subscription[s].started =>
          /\ s \in Created /\ Input[s].renews = None /\ Input[s].monthly
          /\ subscription[s].base = Subtotal(s)
          /\ subscription[s].offer # None /\ PlansArePriced =>
                ZeroAllowed(subscription[s].offer, s, Subtotal(s))
          /\ subscription[s].end >= subscription[s].periods

\* A checkout works on an order of its own, of which no payment was started.
LocalInv(c) ==
    call[c].pc # "idle" =>
       /\ call[c].order \in Created /\ ~Input[call[c].order].direct
       /\ attempt[Input[call[c].order].source] = NoAttempt
       /\ call[c].pc = "price" /\ Input[call[c].order].renews # None =>
             ~Scheduled(Input[call[c].order].renews)
             /\ order[call[c].order].total = ListPrice(call[c].order)
       /\ call[c].pc = "finish" => call[c].total = order[call[c].order].total

CallInv ==
    /\ \A c \in Calls : LocalInv(c)
    /\ \A c \in Calls : call[c].pc = "idle" <=> call[c].order = None
    /\ \A c, d \in Calls : call[c].order = call[d].order /\ call[c].pc # "idle" => c = d

----------------------------------------------------------------------------
(* Who uses an offer, and how often.                                        *)

Held(f) == {o \in Holders(f) : ~redemption[o].released}

LimitInv ==
    \A f \in Offers :
       /\ IsFiniteSet(Holders(f))
       /\ Offer[f].maximum # Unlimited => Cardinality(Held(f)) <= Offer[f].maximum
       /\ Offer[f].perAccount # Unlimited =>
             \A a \in Accounts : Cardinality(Of(a, Held(f))) <= Offer[f].perAccount

\* The order is a renewal that may still be paid in time, or has been and has not been
\* passed on to the subscription.
Live(o) ==
    /\ Input[o].renews # None /\ ~order[o].late
    /\ order[o].status = "PENDING" \/ (order[o].status = "PAID" /\ ~order[o].renewed)

\* It takes one of the discounted cycles of its subscription.
Counted(o) == order[o].offer # None /\ redemption[o].status = "NONE"

\* The discounted renewals that the subscription knows of.
Promoted(s) ==
    {o \in Orders : /\ Input[o].renews = s /\ ~order[o].late /\ order[o].status = "PAID"
                    /\ order[o].renewed /\ Counted(o)}

PromotionInv ==
    \A s \in Orders : subscription[s].started /\ subscription[s].total > 0 =>
       /\ IsFiniteSet(Promoted(s))
       /\ Cardinality(Promoted(s)) + 1 <= subscription[s].consumed
       /\ \A o \in Orders : Live(o) /\ Counted(o) /\ Input[o].renews = s =>
             Cardinality(Promoted(s)) + 2 <= subscription[s].total

\* One renewal of a subscription at a time.
LiveInv ==
    \A o, p \in Orders : Live(o) /\ Live(p) /\ Input[o].renews = Input[p].renews => o = p

Inv ==
    /\ TypeInv /\ OrderInv /\ FlagInv /\ RedemptionInv /\ AttemptInv /\ SubscriptionInv /\ CallInv
    /\ LimitInv /\ PromotionInv /\ LiveInv
----------------------------------------------------------------------------
(* Constants and arithmetic.                                                *)

LEMMA InputFacts ==
  ASSUME NEW o \in Orders
  PROVE  /\ Input[o].account \in Accounts /\ Input[o].source \in Sources /\ Input[o].tax \in Nat
         /\ Input[o].unit \in Nat /\ Input[o].quantity \in Nat \ {0} /\ Input[o].monthly \in BOOLEAN
         /\ Input[o].renews \in Orders \cup {None} /\ Input[o].direct \in BOOLEAN
         /\ o # None
  BY CheckoutAssumption DEF InputType

LEMMA OfferFacts ==
  ASSUME NEW f \in Offers
  PROVE  /\ Offer[f].bps \in Bps /\ Offer[f].cycles \in Nat /\ f # None
         /\ Offer[f].maximum \in Nat \cup {Unlimited} /\ Offer[f].perAccount \in Nat \cup {Unlimited}
  BY CheckoutAssumption DEF OfferType

LEMMA SubtotalFacts ==
  ASSUME NEW o \in Orders
  PROVE  /\ Subtotal(o) \in Nat
         /\ PlansArePriced /\ Input[o].monthly => Subtotal(o) > 0
  <1>1. Input[o].quantity \in Nat \ {0} /\ Input[o].unit \in Nat
    BY InputFacts
  <1>2. \A q \in Nat \ {0}, u \in Nat : q * u \in Nat /\ (u > 0 => q * u > 0)
    OBVIOUS
  <1> QED
    BY <1>1, <1>2 DEF Subtotal, PlansArePriced

LEMMA DiscountedType ==
  ASSUME NEW base \in Nat, NEW bps \in Bps
  PROVE  Discounted(base, bps) \in Nat
  <1> DEFINE p == base * (10000 - bps)
  <1>1. 10000 - bps \in Nat
    BY DEF Bps
  <1>2. \A m \in Nat, n \in Nat : m * n \in Nat
    OBVIOUS
  <1>3. p \in Nat
    BY <1>1, <1>2
  <1> HIDE DEF p
  <1>4. (p + 5000) \div 10000 \in Nat
    BY <1>3
  <1> QED
    BY <1>4 DEF Discounted, p

LEMMA ListPriceType ==
  ASSUME NEW o \in Orders, Input[o].renews # None
  PROVE  Input[o].renews \in Orders /\ ListPrice(o) \in Nat /\ ListPrice(o) \in Bases(o)
  BY InputFacts, SubtotalFacts DEF ListPrice, Bases

----------------------------------------------------------------------------
(* Frames.                                                                  *)

\* The step leaves what the order costs alone.
SameBooks(o) ==
    /\ order'[o].total = order[o].total /\ order'[o].offer = order[o].offer
    /\ order'[o].invoiced = order[o].invoiced /\ order'[o].lines = order[o].lines
    /\ order'[o].status = "NONE" <=> order[o].status = "NONE"

\* A subscription once started keeps its conditions and uses up its discounted cycles.
Continues ==
    \A s \in Orders : subscription[s].started =>
       /\ subscription'[s].started /\ subscription'[s].base = subscription[s].base
       /\ subscription'[s].offer = subscription[s].offer
       /\ subscription'[s].total = subscription[s].total
       /\ subscription'[s].consumed \in Nat
       /\ subscription'[s].consumed >= subscription[s].consumed

LEMMA Unchanging ==
  ASSUME Inv, UNCHANGED subscription
  PROVE  Continues
  BY DEF Inv, TypeInv, SubscriptionRecord, Continues

LEMMA NotScheduledStays ==
  ASSUME Inv, Continues, NEW s \in Orders, subscription[s].started, ~Scheduled(s)
  PROVE  ~Scheduled(s)'
  <1>1. /\ subscription[s].consumed \in Nat /\ subscription[s].total \in Nat
        /\ subscription'[s].offer = subscription[s].offer
        /\ subscription'[s].total = subscription[s].total
        /\ subscription'[s].consumed \in Nat
        /\ subscription'[s].consumed >= subscription[s].consumed
    BY DEF Inv, TypeInv, SubscriptionRecord, Continues
  <1> QED
    BY <1>1 DEF Scheduled

\* The renewals of a subscription were opened after it was started.
LEMMA RenewsStarted ==
  ASSUME Inv, NEW o \in Created, Input[o].renews # None
  PROVE  Input[o].renews \in Orders /\ subscription[Input[o].renews].started
  BY InputFacts DEF Inv, OrderInv, Created

LEMMA SubscriptionsKept ==
  ASSUME Inv, UNCHANGED subscription, \A s \in Created : order'[s].status # "NONE"
  PROVE  SubscriptionInv'
  BY DEF Inv, SubscriptionInv, Created

LEMMA AttemptsKept ==
  ASSUME Inv, UNCHANGED attempt,
         \A s \in Sources : attempt[s] # NoAttempt => SameBooks(attempt[s].order)
  PROVE  AttemptInv'
  <1> SUFFICES ASSUME NEW s \in Sources, attempt[s] # NoAttempt
               PROVE  /\ attempt[s].order \in Created' /\ Input[attempt[s].order].source = s
                      /\ attempt[s].amount = order'[attempt[s].order].total
    BY DEF AttemptInv
  <1>1. /\ attempt[s].order \in Created /\ Input[attempt[s].order].source = s
        /\ attempt[s].amount = order[attempt[s].order].total
    BY DEF Inv, AttemptInv
  <1> QED
    BY <1>1 DEF SameBooks, Created

LEMMA OneOrder ==
  ASSUME Inv, Continues, NEW o \in Orders, \A p \in Orders \ {o} : SameBooks(p),
         order'[o].status # "NONE", Booked(o)',
         Input[o].renews # None => subscription'[Input[o].renews].started,
         o \in Created \/ ~Duplicate(o)
  PROVE  OrderInv'
  <1>1. \A p \in Orders : p \in Created' <=> p \in Created \/ p = o
    BY DEF SameBooks, Created
  <1>2. \A p \in Orders \ {o} : Booked(p) => Booked(p)'
    BY DEF SameBooks, Booked, PriceOf
  <1>3. \A p \in Created' : Booked(p)'
    BY <1>1, <1>2 DEF Inv, OrderInv, Created
  <1>4. \A p \in Created : Input[p].renews # None => subscription'[Input[p].renews].started
    BY RenewsStarted DEF Continues
  <1>5. \A p \in Created' : Input[p].renews # None => subscription'[Input[p].renews].started
    BY <1>1, <1>4 DEF Created
  <1>6. \A p, q \in Created' : Input[p].source = Input[q].source => p = q
    BY <1>1 DEF Inv, OrderInv, Duplicate, Created
  <1> QED
    BY <1>3, <1>5, <1>6 DEF OrderInv

LEMMA OrdersKept ==
  ASSUME Inv, Continues, \A o \in Orders : SameBooks(o)
  PROVE  OrderInv'
  <1>1. \A o \in Orders : o \in Created' <=> o \in Created
    BY DEF SameBooks, Created
  <1>2. \A o \in Orders : Booked(o) => Booked(o)'
    BY DEF SameBooks, Booked, PriceOf
  <1>3. \A o \in Created : Input[o].renews # None => subscription'[Input[o].renews].started
    BY RenewsStarted DEF Continues
  <1>4. Created' = Created
    BY <1>1 DEF Created
  <1>5. \A o \in Created : Booked(o)'
    BY <1>2 DEF Inv, OrderInv, Created
  <1> QED
    BY <1>3, <1>4, <1>5 DEF Inv, OrderInv

\* The row of a redemption, if there is one, is still right for its order.
RedemptionFits(o) ==
    /\ redemption[o].status = "NONE" <=> redemption[o].offer = None
    /\ redemption[o].status = "RELEASED" => redemption[o].released
    /\ redemption[o].status # "NONE" => o \in Created
    /\ redemption[o].status # "NONE" /\ ~Input[o].direct =>
          redemption[o].final = order[o].total /\ PricedOnce(o)

LEMMA RedemptionKept ==
  ASSUME Inv, Continues, NEW o \in Orders, SameBooks(o),
         redemption'[o].offer = redemption[o].offer, redemption'[o].final = redemption[o].final,
         redemption'[o].status = "NONE" <=> redemption[o].status = "NONE",
         redemption'[o].status = "RELEASED" => redemption'[o].released
  PROVE  RedemptionFits(o)'
  <1>1. RedemptionFits(o)
    BY DEF Inv, RedemptionInv, RedemptionFits
  <1>2. redemption[o].status # "NONE" /\ Input[o].renews # None /\ ~Scheduled(Input[o].renews) =>
           ~Scheduled(Input[o].renews)'
    BY <1>1, RenewsStarted, NotScheduledStays DEF RedemptionFits
  <1>3. redemption[o].status # "NONE" /\ PricedOnce(o) => PricedOnce(o)'
    BY <1>2 DEF PricedOnce, SameBooks
  <1> QED
    BY <1>1, <1>3 DEF RedemptionFits, SameBooks, Created

LEMMA RedemptionsKept ==
  ASSUME Inv, Continues, UNCHANGED redemption, \A o \in Orders : SameBooks(o)
  PROVE  RedemptionInv'
  <1>1. \A o \in Orders : redemption[o].status = "RELEASED" => redemption[o].released
    BY DEF Inv, RedemptionInv
  <1>2. \A o \in Orders : RedemptionFits(o)'
    BY <1>1, RedemptionKept
  <1> QED
    BY <1>2 DEF RedemptionInv, RedemptionFits
\* A checkout that does not move keeps what it relies on.
LEMMA OthersKeep ==
  ASSUME Inv, Continues, NEW c \in Calls, call'[c] = call[c],
         call[c].pc # "idle" =>
            /\ SameBooks(call[c].order)
            /\ attempt'[Input[call[c].order].source] = attempt[Input[call[c].order].source]
  PROVE  LocalInv(c)'
  <1> SUFFICES ASSUME call[c].pc # "idle" PROVE LocalInv(c)'
    BY DEF LocalInv
  <1>1. PICK o \in Orders : o = call[c].order /\ o \in Created
    BY DEF Inv, CallInv, LocalInv, Created
  <1>2. /\ ~Input[o].direct /\ attempt[Input[o].source] = NoAttempt
        /\ call[c].pc = "price" /\ Input[o].renews # None =>
              ~Scheduled(Input[o].renews) /\ order[o].total = ListPrice(o)
        /\ call[c].pc = "finish" => call[c].total = order[o].total
    BY <1>1 DEF Inv, CallInv, LocalInv
  <1>3. call[c].pc = "price" /\ Input[o].renews # None => ~Scheduled(Input[o].renews)'
    BY <1>1, <1>2, RenewsStarted, NotScheduledStays
  <1>4. SameBooks(o) /\ attempt'[Input[o].source] = NoAttempt /\ call'[c].order = o
        /\ call'[c].pc = call[c].pc /\ call'[c].total = call[c].total
    BY <1>1, <1>2
  <1>5. order'[o].total = order[o].total /\ order'[o].status # "NONE"
    BY <1>1, <1>4 DEF SameBooks, Created
  <1> QED
    BY <1>2, <1>3, <1>4, <1>5 DEF LocalInv, Created

LEMMA CallStep ==
  ASSUME Inv, Continues, NEW c \in Calls, NEW l \in CallRecord, Becomes(c, l),
         \A d \in Calls \ {c} : call[d].pc # "idle" =>
            /\ call[d].order # l.order
            /\ SameBooks(call[d].order)
            /\ attempt'[Input[call[d].order].source] = attempt[Input[call[d].order].source],
         l.pc = "idle" <=> l.order = None, LocalInv(c)'
  PROVE  call' \in [Calls -> CallRecord] /\ CallInv'
  <1>1. /\ call' \in [Calls -> CallRecord] /\ call'[c] = l
        /\ \A d \in Calls \ {c} : call'[d] = call[d]
    BY DEF Inv, TypeInv, Becomes
  <1>2. \A d \in Calls \ {c} : LocalInv(d)'
    BY <1>1, OthersKeep
  <1>3. \A d \in Calls : call'[d].pc = "idle" <=> call'[d].order = None
    BY <1>1 DEF Inv, CallInv
  <1>4. \A d, e \in Calls \ {c} : call[d].order = call[e].order /\ call[d].pc # "idle" => d = e
    BY DEF Inv, CallInv
  <1>5. \A d \in Calls \ {c} : call[d].pc # "idle" => call[d].order # l.order
    OBVIOUS
  <1>6. \A d \in Calls : call[d].pc = "idle" <=> call[d].order = None
    BY DEF Inv, CallInv
  <1>7. ASSUME NEW d \in Calls, NEW e \in Calls, call'[d].order = call'[e].order, call'[d].pc # "idle"
        PROVE  d = e
    <2>1. call'[e].pc # "idle"
      BY <1>3, <1>7
    <2> QED
      BY <1>1, <1>4, <1>5, <1>7, <2>1
  <1> QED
    BY <1>1, <1>2, <1>3, <1>7 DEF CallInv

LEMMA CallReturns ==
  ASSUME Inv, Continues, NEW c \in Calls, Return(c),
         \A d \in Calls \ {c} : call[d].pc # "idle" =>
            /\ SameBooks(call[d].order)
            /\ attempt'[Input[call[d].order].source] = attempt[Input[call[d].order].source]
  PROVE  call' \in [Calls -> CallRecord] /\ CallInv'
  <1>1. IdleCall \in CallRecord /\ IdleCall.pc = "idle" /\ IdleCall.order = None
    BY DEF IdleCall, CallRecord
  <1>2. call'[c] = IdleCall /\ Becomes(c, IdleCall)
    BY DEF Inv, TypeInv, Return, Becomes
  <1>3. LocalInv(c)'
    BY <1>1, <1>2 DEF LocalInv
  <1>4. \A d \in Calls \ {c} : call[d].pc # "idle" => call[d].order # None
    BY DEF Inv, CallInv
  <1> HIDE DEF IdleCall
  <1> QED
    BY <1>1, <1>2, <1>3, <1>4, CallStep

\* The orders of the checkouts are there, and no two of them work on one.
LEMMA CallOrders ==
  ASSUME Inv, NEW c \in Calls, call[c].pc # "idle"
  PROVE  /\ call[c].order \in Orders /\ call[c].order \in Created /\ ~Input[call[c].order].direct
         /\ attempt[Input[call[c].order].source] = NoAttempt
         /\ \A d \in Calls \ {c} : call[d].order # call[c].order
         /\ \A s \in Sources : attempt[s].order # call[c].order
  <1>1. /\ call[c].order \in Orders /\ call[c].order \in Created /\ ~Input[call[c].order].direct
        /\ attempt[Input[call[c].order].source] = NoAttempt
    BY DEF Inv, CallInv, LocalInv, Created
  <1>2. \A d \in Calls \ {c} : call[d].order # call[c].order
    BY DEF Inv, CallInv
  <1>3. ASSUME NEW s \in Sources, attempt[s].order = call[c].order PROVE FALSE
    <2>1. attempt[s] # NoAttempt
      BY <1>1, <1>3, InputFacts DEF NoAttempt
    <2>2. Input[call[c].order].source = s
      BY <1>3, <2>1 DEF Inv, AttemptInv
    <2> QED
      BY <1>1, <2>1, <2>2
  <1> QED
    BY <1>1, <1>2, <1>3

LEMMA CallsWait ==
  ASSUME Inv, Continues, UNCHANGED <<call, attempt>>,
         \A c \in Calls : call[c].pc # "idle" => SameBooks(call[c].order)
  PROVE  call' \in [Calls -> CallRecord] /\ CallInv'
  <1>1. \A c \in Calls : LocalInv(c)'
    BY OthersKeep
  <1> QED
    BY <1>1 DEF Inv, TypeInv, CallInv

\* No one takes another place of an offer.
LEMMA LimitsKept ==
  ASSUME Inv, \A f \in Offers : IsFiniteSet(Holders(f)') /\ Held(f)' \subseteq Held(f)
  PROVE  LimitInv'
  <1> SUFFICES ASSUME NEW f \in Offers
               PROVE  /\ Offer[f].maximum # Unlimited => Cardinality(Held(f)') <= Offer[f].maximum
                      /\ Offer[f].perAccount # Unlimited =>
                            \A a \in Accounts : Cardinality(Of(a, Held(f)')) <= Offer[f].perAccount
    BY DEF LimitInv
  <1>1. /\ IsFiniteSet(Holders(f))
        /\ Offer[f].maximum # Unlimited => Cardinality(Held(f)) <= Offer[f].maximum
        /\ Offer[f].perAccount # Unlimited =>
              \A a \in Accounts : Cardinality(Of(a, Held(f))) <= Offer[f].perAccount
    BY DEF Inv, LimitInv
  <1>2. IsFiniteSet(Held(f))
    BY <1>1, FS_Subset DEF Held
  <1>3. /\ Cardinality(Held(f)') \in Nat /\ Cardinality(Held(f)) \in Nat
        /\ Cardinality(Held(f)') <= Cardinality(Held(f))
    BY <1>2, FS_Subset, FS_CardinalityType
  <1>4. ASSUME NEW a \in Accounts
        PROVE  /\ Cardinality(Of(a, Held(f)')) \in Nat /\ Cardinality(Of(a, Held(f))) \in Nat
               /\ Cardinality(Of(a, Held(f)')) <= Cardinality(Of(a, Held(f)))
    <2>1. Of(a, Held(f)') \subseteq Of(a, Held(f)) /\ Of(a, Held(f)) \subseteq Held(f)
      BY DEF Of
    <2>2. IsFiniteSet(Of(a, Held(f)))
      BY <1>2, <2>1, FS_Subset
    <2> QED
      BY <2>1, <2>2, FS_Subset, FS_CardinalityType
  <1> QED
    BY <1>1, <1>3, <1>4, OfferFacts

LEMMA RedemptionRowsKept ==
  ASSUME Inv, UNCHANGED redemption
  PROVE  LimitInv'
  <1>1. \A f \in Offers : Holders(f)' = Holders(f) /\ Held(f)' = Held(f)
    BY DEF Holders, Held
  <1> QED
    BY <1>1, LimitsKept DEF Inv, LimitInv

\* One order takes a place that is free.
LEMMA PlaceTaken ==
  ASSUME Inv, NEW o \in Orders, NEW g \in Offers, NEW row \in RedemptionRecord,
         redemption[o].status = "NONE", PlaceFree(g, o), row.offer = g, row.status = "RESERVED",
         redemption' = [redemption EXCEPT ![o] = row]
  PROVE  LimitInv'
  <1> SUFFICES ASSUME NEW f \in Offers
               PROVE  /\ IsFiniteSet(Holders(f)')
                      /\ Offer[f].maximum # Unlimited => Cardinality(Held(f)') <= Offer[f].maximum
                      /\ Offer[f].perAccount # Unlimited =>
                            \A a \in Accounts : Cardinality(Of(a, Held(f)')) <= Offer[f].perAccount
    BY DEF LimitInv
  <1>1. /\ IsFiniteSet(Holders(f))
        /\ Offer[f].maximum # Unlimited => Cardinality(Held(f)) <= Offer[f].maximum
        /\ Offer[f].perAccount # Unlimited =>
              \A a \in Accounts : Cardinality(Of(a, Held(f))) <= Offer[f].perAccount
    BY DEF Inv, LimitInv
  <1>2. redemption'[o] = row /\ \A p \in Orders \ {o} : redemption'[p] = redemption[p]
    BY DEF Inv, TypeInv
  <1>3. o \notin Holders(f)
    BY OfferFacts DEF Inv, RedemptionInv, Holders
  <1>4. CASE f # g
    <2>1. Holders(f)' = Holders(f) /\ Held(f)' = Held(f)
      BY <1>2, <1>3, <1>4 DEF Holders, Held
    <2> QED
      BY <1>1, <2>1
  <1>5. CASE f = g
    <2>1. Holders(f)' = Holders(f) \cup {o} /\ Held(f)' \subseteq Held(f) \cup {o}
      BY <1>2, <1>5 DEF Holders, Held
    <2>2. \A S : S \subseteq Holders(f) => IsFiniteSet(S) /\ Cardinality(S) \in Nat
      BY <1>1, FS_Subset, FS_CardinalityType
    <2>3. ASSUME NEW S, NEW T, NEW H, IsFiniteSet(H), S \subseteq H, T \subseteq S \cup {o}
          PROVE  /\ Cardinality(T) \in Nat /\ Cardinality(H) \in Nat
                 /\ Cardinality(T) <= Cardinality(H) + 1
      <3>1. IsFiniteSet(S) /\ Cardinality(S) <= Cardinality(H)
        BY <2>3, FS_Subset
      <3>2. IsFiniteSet(S \cup {o}) /\ Cardinality(S \cup {o}) \in {Cardinality(S), Cardinality(S) + 1}
        BY <3>1, FS_AddElement
      <3>3. IsFiniteSet(T) /\ Cardinality(T) <= Cardinality(S \cup {o})
        BY <2>3, <3>2, FS_Subset
      <3>4. /\ Cardinality(T) \in Nat /\ Cardinality(S) \in Nat /\ Cardinality(H) \in Nat
        BY <2>3, <3>1, <3>3, FS_CardinalityType
      <3> QED
        BY <3>1, <3>2, <3>3, <3>4
    <2>4. IsFiniteSet(Holders(f)')
      BY <1>1, <2>1, FS_AddElement
    <2>5. Held(f) \subseteq Holders(f)
      BY DEF Held
    <2>6. /\ Cardinality(Held(f)') \in Nat /\ Cardinality(Holders(f)) \in Nat
          /\ Cardinality(Held(f)') <= Cardinality(Holders(f)) + 1
      BY <1>1, <2>1, <2>3, <2>5
    <2>7. Offer[f].maximum # Unlimited => Cardinality(Holders(f)) < Offer[f].maximum
      BY <1>5 DEF PlaceFree
    <2>8. Offer[f].maximum # Unlimited => Cardinality(Held(f)') <= Offer[f].maximum
      BY <2>6, <2>7, OfferFacts
    <2>9. ASSUME NEW a \in Accounts, Offer[f].perAccount # Unlimited
          PROVE  Cardinality(Of(a, Held(f)')) <= Offer[f].perAccount
      <3>1. CASE a # Input[o].account
        <4>1. Of(a, Held(f)') \subseteq Of(a, Held(f)) /\ Of(a, Held(f)) \subseteq Holders(f)
          BY <2>1, <2>5, <3>1 DEF Of
        <4>2. IsFiniteSet(Of(a, Held(f))) /\ Cardinality(Of(a, Held(f))) \in Nat
          BY <2>2, <4>1
        <4>3. /\ Cardinality(Of(a, Held(f)')) <= Cardinality(Of(a, Held(f)))
              /\ Cardinality(Of(a, Held(f)')) \in Nat
          BY <4>1, <4>2, FS_Subset, FS_CardinalityType
        <4> QED
          BY <1>1, <2>9, <4>2, <4>3, OfferFacts
      <3>2. CASE a = Input[o].account
        <4>1. /\ Of(a, Held(f)') \subseteq Of(a, Held(f)) \cup {o}
              /\ Of(a, Held(f)) \subseteq Of(a, Holders(f))
              /\ Of(a, Holders(f)) \subseteq Holders(f)
          BY <2>1, <2>5 DEF Of
        <4>2. IsFiniteSet(Of(a, Holders(f)))
          BY <2>2, <4>1
        <4>3. /\ Cardinality(Of(a, Held(f)')) \in Nat /\ Cardinality(Of(a, Holders(f))) \in Nat
              /\ Cardinality(Of(a, Held(f)')) <= Cardinality(Of(a, Holders(f))) + 1
          BY <2>3, <4>1, <4>2
        <4>4. Cardinality(Of(a, Holders(f))) < Offer[f].perAccount
          BY <1>5, <2>9, <3>2 DEF PlaceFree
        <4> QED
          BY <2>9, <4>3, <4>4, OfferFacts
      <3> QED
        BY <3>1, <3>2
    <2> QED
      BY <2>4, <2>8, <2>9
  <1> QED
    BY <1>4, <1>5

\* No renewal is counted that was not, unless a discounted cycle is left for it.
LEMMA PromotionStep ==
  ASSUME Inv, UNCHANGED subscription,
         \A s \in Orders : Promoted(s)' \subseteq Promoted(s),
         \A o \in Orders : Live(o)' /\ Counted(o)' =>
            \/ Live(o) /\ Counted(o)
            \/ subscription[Input[o].renews].consumed < subscription[Input[o].renews].total
  PROVE  PromotionInv'
  <1> SUFFICES ASSUME NEW s \in Orders, subscription[s].started, subscription[s].total > 0
               PROVE  /\ IsFiniteSet(Promoted(s)')
                      /\ Cardinality(Promoted(s)') + 1 <= subscription[s].consumed
                      /\ \A o \in Orders : Live(o)' /\ Counted(o)' /\ Input[o].renews = s =>
                            Cardinality(Promoted(s)') + 2 <= subscription[s].total
    BY DEF PromotionInv
  <1>1. /\ IsFiniteSet(Promoted(s))
        /\ Cardinality(Promoted(s)) + 1 <= subscription[s].consumed
        /\ \A o \in Orders : Live(o) /\ Counted(o) /\ Input[o].renews = s =>
              Cardinality(Promoted(s)) + 2 <= subscription[s].total
    BY DEF Inv, PromotionInv
  <1>2. /\ IsFiniteSet(Promoted(s)') /\ Cardinality(Promoted(s)') <= Cardinality(Promoted(s))
        /\ Cardinality(Promoted(s)') \in Nat /\ Cardinality(Promoted(s)) \in Nat
    BY <1>1, FS_Subset, FS_CardinalityType
  <1>3. subscription[s].consumed \in Nat /\ subscription[s].total \in Nat
    BY DEF Inv, TypeInv, SubscriptionRecord
  <1>4. ASSUME NEW o \in Orders, Live(o)', Counted(o)', Input[o].renews = s
        PROVE  Cardinality(Promoted(s)') + 2 <= subscription[s].total
    <2>1. \/ Cardinality(Promoted(s)) + 2 <= subscription[s].total
          \/ subscription[s].consumed < subscription[s].total
      BY <1>1, <1>4
    <2> QED
      BY <1>1, <1>2, <1>3, <2>1
  <1> QED
    BY <1>1, <1>2, <1>3, <1>4

LEMMA LiveKept ==
  ASSUME Inv, \A o \in Orders : Live(o)' => Live(o)
  PROVE  LiveInv'
  BY DEF Inv, LiveInv

\* No renewal moves.
LEMMA PromotionsKept ==
  ASSUME Inv, UNCHANGED <<subscription, redemption, order>>
  PROVE  PromotionInv' /\ LiveInv' /\ FlagInv'
  <1>1. \A s \in Orders : Promoted(s)' \subseteq Promoted(s)
    BY DEF Promoted, Counted
  <1>2. \A o \in Orders : (Live(o)' => Live(o)) /\ (Counted(o)' => Counted(o))
    BY DEF Live, Counted
  <1>3. FlagInv'
    BY DEF Inv, FlagInv
  <1> QED
    BY <1>1, <1>2, <1>3, PromotionStep, LiveKept
----------------------------------------------------------------------------
(* The order, its renewal price and its offer.                              *)

LEMMA InitInv == Init => Inv
  <1> SUFFICES ASSUME Init PROVE Inv
    OBVIOUS
  <1>1. /\ NoOrder \in OrderRecord /\ NoRedemption \in RedemptionRecord
        /\ NoAttempt \in AttemptRecord /\ NoSubscription \in SubscriptionRecord
        /\ IdleCall \in CallRecord
    BY DEF NoOrder, OrderRecord, NoRedemption, RedemptionRecord, NoAttempt, AttemptRecord,
           NoSubscription, SubscriptionRecord, IdleCall, CallRecord
  <1>2. TypeInv
    BY <1>1, CheckoutAssumption DEF Init, TypeInv
  <1>3. Created = {}
    BY DEF Init, Created, NoOrder
  <1>4. OrderInv /\ FlagInv
    BY <1>3 DEF Init, OrderInv, FlagInv, NoOrder
  <1>5. RedemptionInv /\ AttemptInv /\ SubscriptionInv /\ PromotionInv
    BY DEF Init, RedemptionInv, NoRedemption, AttemptInv, SubscriptionInv, NoSubscription, PromotionInv
  <1>6. CallInv
    BY DEF Init, CallInv, LocalInv, IdleCall
  <1>7. LimitInv
    <2>1. \A f \in Offers : Holders(f) = {} /\ Held(f) = {}
      BY OfferFacts DEF Init, Holders, Held, NoRedemption
    <2>2. \A a : Of(a, {}) = {}
      BY DEF Of
    <2> QED
      BY <2>1, <2>2, FS_EmptySet, OfferFacts DEF LimitInv, Unlimited
  <1>8. LiveInv
    BY DEF Init, LiveInv, Live, NoOrder
  <1> QED
    BY <1>2, <1>4, <1>5, <1>6, <1>7, <1>8 DEF Inv

LEMMA DraftedFacts ==
  ASSUME NEW o \in Orders
  PROVE  /\ Drafted(o) \in OrderRecord /\ Drafted(o).status = "PENDING" /\ Drafted(o).offer = None
         /\ Drafted(o).total = Subtotal(o) + Input[o].tax /\ Drafted(o).invoiced = Drafted(o).total
         /\ Drafted(o).lines = <<Subtotal(o)>> /\ ~Drafted(o).late /\ ~Drafted(o).renewed
  <1> DEFINE total == Subtotal(o) + Input[o].tax
             lines == <<Subtotal(o)>>
  <1>1. total \in Nat /\ lines \in Seq(Int)
    BY InputFacts, SubtotalFacts
  <1>2. Drafted(o) = [NoOrder EXCEPT !.status = "PENDING", !.total = total, !.invoice = "DRAFT",
                                     !.invoiced = total, !.lines = lines]
    BY DEF Drafted
  <1> HIDE DEF total, lines
  <1>3. /\ Drafted(o) \in OrderRecord /\ Drafted(o).status = "PENDING" /\ Drafted(o).offer = None
        /\ Drafted(o).total = total /\ Drafted(o).invoiced = total
        /\ Drafted(o).lines = lines /\ ~Drafted(o).late /\ ~Drafted(o).renewed
    BY <1>1, <1>2 DEF NoOrder, OrderRecord
  <1> QED
    BY <1>3 DEF total, lines

LEMMA CreateInv ==
  ASSUME Inv, NEW c \in Calls, NEW o \in Orders, Create(c, o)
  PROVE  Inv'
  <1> DEFINE row == Drafted(o)
  <1>1. /\ row \in OrderRecord /\ row.status = "PENDING" /\ row.offer = None
        /\ row.total = Subtotal(o) + Input[o].tax /\ row.invoiced = row.total
        /\ row.lines = <<Subtotal(o)>> /\ ~row.late /\ ~row.renewed
    BY DraftedFacts
  <1>2. order' = [order EXCEPT ![o] = row]
    BY DEF Create
  <1> HIDE DEF row
  <1>3. /\ order' \in [Orders -> OrderRecord] /\ order'[o] = row
        /\ \A p \in Orders \ {o} : order'[p] = order[p]
    BY <1>1, <1>2 DEF Inv, TypeInv
  <1>4. ~Duplicate(o) /\ o \notin Created /\ order[o].status = "NONE"
    BY DEF Create, Duplicate, Created
  <1>5. Continues /\ \A p \in Orders \ {o} : SameBooks(p)
    BY <1>3, Unchanging DEF Create, SameBooks
  <1>6. OrderInv'
    <2>1. Booked(o)'
      <3>1. Len(row.lines) = 1 /\ row.lines[1] = Subtotal(o) /\ Subtotal(o) \in Nat /\ Input[o].tax \in Nat
        BY <1>1, SubtotalFacts, InputFacts
      <3> QED
        BY <1>1, <1>3, <3>1 DEF Booked, PriceOf, Bases, LinesTotal
    <2>2. Input[o].renews # None => subscription'[Input[o].renews].started
      BY DEF Create, MayRenew
    <2> QED
      BY <1>1, <1>3, <1>4, <1>5, <2>1, <2>2, OneOrder
  <1>7. FlagInv'
    BY <1>1, <1>3 DEF Inv, FlagInv
  <1>8. RedemptionInv'
    <2>1. \A p \in Orders : redemption[p].status = "RELEASED" => redemption[p].released
      BY DEF Inv, RedemptionInv
    <2>2. \A p \in Orders \ {o} : RedemptionFits(p)'
      BY <1>5, <2>1, RedemptionKept DEF Create
    <2>3. RedemptionFits(o)'
      BY <1>4 DEF Create, Inv, RedemptionInv, RedemptionFits
    <2> QED
      BY <2>2, <2>3 DEF RedemptionInv, RedemptionFits
  <1>9. AttemptInv'
    <2>1. \A s \in Sources : attempt[s] # NoAttempt => attempt[s].order \in Orders \ {o}
      BY <1>4 DEF Inv, AttemptInv, Created
    <2> QED
      BY <1>5, <2>1, AttemptsKept DEF Create
  <1>10. SubscriptionInv'
    BY <1>3, <1>4, SubscriptionsKept DEF Create, Created
  <1>11. call' \in [Calls -> CallRecord] /\ CallInv'
    <2>1. \A d \in Calls : call[d].pc # "idle" => call[d].order \in Orders \ {o} /\ SameBooks(call[d].order)
      BY <1>4, <1>5, CallOrders
    <2>2. CASE Input[o].direct
      BY <1>5, <2>1, <2>2, CallReturns DEF Create
    <2>3. CASE ~Input[o].direct
      <3> DEFINE l == [IdleCall EXCEPT !.pc = "renewal", !.order = o]
      <3>1. l \in CallRecord /\ l.pc = "renewal" /\ l.order = o
        BY DEF IdleCall, CallRecord
      <3>2. Becomes(c, l)
        BY <2>3 DEF Create
      <3> HIDE DEF l
      <3>3. call'[c] = l
        BY <3>2 DEF Inv, TypeInv, Becomes
      <3>4. attempt[Input[o].source] = NoAttempt
        BY <1>4, InputFacts DEF Inv, AttemptInv, Duplicate
      <3>5. LocalInv(c)'
        BY <1>1, <1>3, <2>3, <3>1, <3>3, <3>4 DEF Create, LocalInv, Created
      <3>6. o # None
        BY InputFacts
      <3> QED
        BY <1>5, <2>1, <3>1, <3>2, <3>5, <3>6, CallStep DEF Create
    <2> QED
      BY <2>2, <2>3
  <1>12. LimitInv'
    BY RedemptionRowsKept DEF Create
  <1>13. PromotionInv'
    <2>1. ~Counted(o)' /\ \A p \in Orders \ {o} : (Live(p)' => Live(p)) /\ (Counted(p)' => Counted(p))
      BY <1>1, <1>3 DEF Create, Counted, Live
    <2>2. \A s \in Orders : Promoted(s)' \subseteq Promoted(s)
      BY <1>3, <2>1 DEF Promoted
    <2> QED
      BY <2>1, <2>2, PromotionStep DEF Create
  <1>14. LiveInv'
    <2>1. \A p \in Orders \ {o} : Live(p)' => Live(p)
      BY <1>3 DEF Live
    <2>2. \A p \in Orders \ {o} : Live(p) /\ Input[p].renews = Input[o].renews => FALSE
      BY DEF Create, MayRenew, Live, Created
    <2> QED
      BY <2>1, <2>2 DEF Inv, LiveInv
  <1> QED
    BY <1>3, <1>6, <1>7, <1>8, <1>9, <1>10, <1>11, <1>12, <1>13, <1>14 DEF Create, Inv, TypeInv

LEMMA RenewalFacts ==
  ASSUME Inv, NEW o \in Created, Input[o].renews # None,
         NEW final, final = IF Scheduled(Input[o].renews)
                            THEN Discounted(ListPrice(o), Offer[subscription[Input[o].renews].offer].bps)
                            ELSE ListPrice(o)
  PROVE  /\ Renewal(o) \in OrderRecord
         /\ Renewal(o).total = final /\ Renewal(o).invoiced = final /\ final \in Nat
         /\ Renewal(o).offer = IF Scheduled(Input[o].renews)
                               THEN subscription[Input[o].renews].offer ELSE None
         /\ Renewal(o).lines = IF final = ListPrice(o) THEN <<ListPrice(o)>>
                               ELSE <<ListPrice(o), final - ListPrice(o)>>
         /\ Renewal(o).status = order[o].status
         /\ Renewal(o).late = order[o].late /\ Renewal(o).renewed = order[o].renewed
  <1> DEFINE s == Input[o].renews
             offer == IF Scheduled(s) THEN subscription[s].offer ELSE None
             lines == IF final = ListPrice(o) THEN <<ListPrice(o)>>
                      ELSE <<ListPrice(o), final - ListPrice(o)>>
  <1>1. s \in Orders /\ subscription[s].started /\ ListPrice(o) \in Nat /\ o \in Orders
    BY RenewsStarted, ListPriceType DEF Created
  <1>2. RenewalBase(o) = ListPrice(o)
    BY <1>1 DEF RenewalBase, ListPrice, Inv, SubscriptionInv
  <1>3. offer \in Offers \cup {None} /\ (Scheduled(s) => subscription[s].offer \in Offers)
    BY <1>1 DEF Inv, TypeInv, SubscriptionRecord, Scheduled
  <1>4. final \in Nat
    BY <1>1, <1>3, OfferFacts, DiscountedType
  <1>5. lines \in Seq(Int)
    BY <1>1, <1>4
  <1>6. Renewal(o) = [order[o] EXCEPT !.total = final, !.invoiced = final, !.offer = offer, !.lines = lines]
    BY <1>2 DEF Renewal
  <1>7. order[o] \in OrderRecord
    BY <1>1 DEF Inv, TypeInv
  <1> HIDE DEF offer, lines
  <1>8. /\ Renewal(o) \in OrderRecord /\ Renewal(o).total = final /\ Renewal(o).invoiced = final
        /\ Renewal(o).offer = offer /\ Renewal(o).lines = lines /\ Renewal(o).status = order[o].status
        /\ Renewal(o).late = order[o].late /\ Renewal(o).renewed = order[o].renewed
    BY <1>3, <1>4, <1>5, <1>6, <1>7 DEF OrderRecord
  <1> QED
    BY <1>4, <1>8 DEF offer, lines
\* What a checkout that gives its own order another price leaves in order.
Repriced(c, o, row) ==
    /\ Continues /\ \A p \in Orders \ {o} : SameBooks(p)
    /\ order' \in [Orders -> OrderRecord] /\ order'[o] = row /\ o \in Created'
    /\ OrderInv' /\ FlagInv' /\ AttemptInv' /\ SubscriptionInv'
    /\ \A p \in Orders \ {o} : redemption'[p] = redemption[p] => RedemptionFits(p)'
    /\ \A d \in Calls \ {c} : call[d].pc # "idle" =>
          call[d].order # o /\ SameBooks(call[d].order)
    /\ \A p \in Orders : Live(p)' => Live(p)
    /\ LiveInv'

LEMMA Reprice ==
  ASSUME Inv, NEW c \in Calls, call[c].pc # "idle", NEW o \in Orders, call[c].order = o,
         NEW row \in OrderRecord, order' = [order EXCEPT ![o] = row],
         order[o].status = "PENDING", row.status = "PENDING",
         row.late = order[o].late, row.renewed = order[o].renewed,
         Booked(o)', UNCHANGED <<attempt, subscription>>
  PROVE  Repriced(c, o, row)
  <1>1. /\ order' \in [Orders -> OrderRecord] /\ order'[o] = row
        /\ \A p \in Orders \ {o} : order'[p] = order[p]
    BY DEF Inv, TypeInv
  <1>2. o \in Created /\ o \in Created'
    BY <1>1 DEF Created
  <1>3. Continues /\ \A p \in Orders \ {o} : SameBooks(p)
    BY <1>1, Unchanging DEF SameBooks
  <1>4. OrderInv'
    BY <1>1, <1>2, <1>3, RenewsStarted, OneOrder
  <1>5. FlagInv'
    BY <1>1 DEF Inv, FlagInv
  <1>6. AttemptInv'
    <2>1. \A s \in Sources : attempt[s] # NoAttempt => attempt[s].order \in Orders \ {o}
      BY CallOrders DEF Inv, AttemptInv, Created
    <2> QED
      BY <1>3, <2>1, AttemptsKept
  <1>7. SubscriptionInv'
    BY <1>1, SubscriptionsKept DEF Created
  <1>8. \A p \in Orders \ {o} : redemption'[p] = redemption[p] => RedemptionFits(p)'
    <2>1. \A p \in Orders : redemption[p].status = "RELEASED" => redemption[p].released
      BY DEF Inv, RedemptionInv
    <2> QED
      BY <1>3, <2>1, RedemptionKept
  <1>9. \A d \in Calls \ {c} : call[d].pc # "idle" => call[d].order # o /\ SameBooks(call[d].order)
    BY <1>3, CallOrders
  <1>10. \A p \in Orders : Live(p)' => Live(p)
    BY <1>1 DEF Live
  <1> QED
    BY <1>1, <1>2, <1>3, <1>4, <1>5, <1>6, <1>7, <1>8, <1>9, <1>10, LiveKept DEF Repriced

\* The checkout goes on with its order, or returns.
LEMMA OwnOrder ==
  ASSUME Inv, Continues, NEW c \in Calls, call[c].pc # "idle", NEW l \in CallRecord, Becomes(c, l),
         l.order = call[c].order, l.pc # "idle", UNCHANGED attempt, LocalInv(c)',
         \A d \in Calls \ {c} : call[d].pc # "idle" => SameBooks(call[d].order)
  PROVE  call' \in [Calls -> CallRecord] /\ CallInv'
  <1>1. \A d \in Calls \ {c} : call[d].order # l.order
    BY CallOrders
  <1>2. l.order # None
    BY CallOrders, InputFacts
  <1> QED
    BY <1>1, <1>2, CallStep

\* Nothing but a checkout moves.
LEMMA OnlyCall ==
  ASSUME Inv, UNCHANGED <<order, redemption, attempt, subscription>>,
         call' \in [Calls -> CallRecord] /\ CallInv', active' \subseteq Offers,
         now' \in 0 .. Horizon, faults' \in 0 .. MaxFaults
  PROVE  Inv'
  <1>1. Continues /\ \A o \in Orders : SameBooks(o)
    BY Unchanging DEF SameBooks
  <1>2. OrderInv' /\ RedemptionInv'
    BY <1>1, OrdersKept, RedemptionsKept
  <1>3. AttemptInv'
    BY DEF Inv, AttemptInv, Created
  <1>4. SubscriptionInv'
    BY SubscriptionsKept DEF Created
  <1>5. LimitInv' /\ PromotionInv' /\ LiveInv' /\ FlagInv'
    BY RedemptionRowsKept, PromotionsKept
  <1> QED
    BY <1>2, <1>3, <1>4, <1>5 DEF Inv, TypeInv

LEMMA ReturnInv ==
  ASSUME Inv, NEW c \in Calls, Return(c), UNCHANGED <<order, redemption, attempt, subscription, active, now>>,
         faults' \in 0 .. MaxFaults
  PROVE  Inv'
  <1>1. Continues /\ \A o \in Orders : SameBooks(o)
    BY Unchanging DEF SameBooks
  <1>2. \A d \in Calls : call[d].pc # "idle" => call[d].order \in Orders
    BY CallOrders
  <1>3. call' \in [Calls -> CallRecord] /\ CallInv'
    BY <1>1, <1>2, CallReturns
  <1> QED
    BY <1>3, OnlyCall DEF Inv, TypeInv

\* The checkout goes on with its order as it is.
LEMMA MoveInv ==
  ASSUME Inv, NEW c \in Calls, call[c].pc # "idle", NEW l \in CallRecord, Becomes(c, l),
         l.order = call[c].order, l.pc # "idle", LocalInv(c)',
         UNCHANGED <<order, redemption, attempt, subscription, active, now, faults>>
  PROVE  Inv'
  <1>1. Continues /\ \A o \in Orders : SameBooks(o)
    BY Unchanging DEF SameBooks
  <1>2. \A d \in Calls : call[d].pc # "idle" => call[d].order \in Orders
    BY CallOrders
  <1>3. call' \in [Calls -> CallRecord] /\ CallInv'
    BY <1>1, <1>2, OwnOrder
  <1> QED
    BY <1>3, OnlyCall DEF Inv, TypeInv
\* A renewal at its renewal price.
LEMMA RenewalBooked ==
  ASSUME Inv, NEW o \in Created, Input[o].renews # None, RenewalEligible(o),
         order'[o] = Renewal(o)
  PROVE  Booked(o)'
  <1> DEFINE s == Input[o].renews
             base == ListPrice(o)
             final == IF Scheduled(s) THEN Discounted(base, Offer[subscription[s].offer].bps) ELSE base
  <1>1. /\ s \in Orders /\ o \in Orders /\ subscription[s].started /\ base \in Nat /\ base \in Bases(o)
    BY RenewsStarted, ListPriceType DEF Created
  <1>2. /\ order'[o].total = final /\ order'[o].invoiced = final /\ final \in Nat
        /\ order'[o].offer = IF Scheduled(s) THEN subscription[s].offer ELSE None
        /\ order'[o].lines = IF final = base THEN <<base>> ELSE <<base, final - base>>
    BY RenewalFacts
  <1>3. /\ Scheduled(s) => subscription[s].offer \in Offers
        /\ ~Scheduled(s) => final = base
    BY <1>1 DEF Inv, TypeInv, SubscriptionRecord, Scheduled
  <1>4. ASSUME Scheduled(s), PlansArePriced
        PROVE  ZeroAllowed(subscription[s].offer, o, base)
    <2>1. Input[s].monthly /\ Subtotal(s) > 0
      BY <1>1, <1>4, SubtotalFacts DEF Inv, SubscriptionInv
    <2>2. ZeroAllowed(subscription[s].offer, s, Subtotal(s))
      BY <1>1, <1>4 DEF Inv, SubscriptionInv, Scheduled
    <2>3. base = Subtotal(s) /\ Input[o].monthly = Input[s].monthly
      BY <2>1 DEF ListPrice, RenewalEligible
    <2> QED
      BY <2>1, <2>2, <2>3 DEF ZeroAllowed
  <1>5. PriceOf(o, order'[o].offer, order'[o].total)
    <2>1. CASE Scheduled(s)
      <3>1. final = Discounted(base, Offer[subscription[s].offer].bps)
        BY <2>1
      <3> HIDE DEF final, base
      <3> QED
        BY <1>1, <1>2, <1>3, <1>4, <2>1, <3>1, OfferFacts DEF PriceOf
    <2>2. CASE ~Scheduled(s)
      BY <1>1, <1>2, <1>3, <2>2 DEF PriceOf
    <2> QED
      BY <2>1, <2>2
  <1>6. order'[o].offer = None => final = base
    BY <1>2, <1>3, OfferFacts
  <1> HIDE DEF final, base
  <1>7. /\ Len(order'[o].lines) \in {1, 2} /\ (final = base => Len(order'[o].lines) = 1)
        /\ LinesTotal(order'[o].lines) = final
    <2>1. CASE final = base
      BY <1>1, <1>2, <2>1 DEF LinesTotal
    <2>2. CASE final # base
      <3>1. order'[o].lines = <<base, final - base>>
        BY <1>2, <2>2
      <3>2. base + (final - base) = final
        BY <1>1, <1>2
      <3> QED
        BY <2>2, <3>1, <3>2 DEF LinesTotal
    <2> QED
      BY <2>1, <2>2
  <1>8. Input[o].tax \in Nat
    BY <1>1, InputFacts
  <1>9. Input[o].tax = 0 \/ s = None => Input[o].tax + LinesTotal(order'[o].lines) = order'[o].total
    BY <1>2, <1>7, <1>8
  <1> QED
    BY <1>2, <1>5, <1>6, <1>7, <1>9 DEF Booked, PriceOf

LEMMA PrepareRenewalInv ==
  ASSUME Inv, NEW c \in Calls, PrepareRenewal(c)
  PROVE  Inv'
  <1>1. PICK o \in Orders : o = call[c].order /\ o \in Created /\ ~Input[o].direct /\ attempt[Input[o].source] = NoAttempt
    BY CallOrders DEF PrepareRenewal
  <1> DEFINE s == Input[o].renews
             next == [call[c] EXCEPT !.pc = "price"]
  <1>2. /\ call[c] \in CallRecord /\ call[c].pc = "renewal"
        /\ call \in [Calls -> CallRecord]
    BY DEF PrepareRenewal, Inv, TypeInv
  <1>3. next \in CallRecord /\ next.pc = "price" /\ next.order = o
    BY <1>1, <1>2 DEF CallRecord
  <1> HIDE DEF next
  <1>4. CASE s = None /\ Becomes(c, next) /\ UNCHANGED order
    <2>1. call'[c] = next
      BY <1>2, <1>4 DEF Becomes
    <2>2. LocalInv(c)'
      BY <1>1, <1>3, <1>4, <2>1 DEF PrepareRenewal, LocalInv, Created
    <2> QED
      BY <1>1, <1>2, <1>3, <1>4, <2>2, MoveInv DEF PrepareRenewal
  <1>5. CASE /\ s # None /\ RenewalEligible(o) /\ order' = [order EXCEPT ![o] = Renewal(o)]
             /\ IF Scheduled(s) THEN PricedAt(c, Renewal(o).total, TRUE) ELSE Becomes(c, next)
    <2> DEFINE final == IF Scheduled(s)
                        THEN Discounted(ListPrice(o), Offer[subscription[s].offer].bps) ELSE ListPrice(o)
    <2>0. PICK row \in OrderRecord : row = Renewal(o)
      BY <1>1, <1>5, RenewalFacts
    <2>1. /\ row \in OrderRecord /\ row.total = final /\ final \in Nat
          /\ row.offer = IF Scheduled(s) THEN subscription[s].offer ELSE None
          /\ row.status = order[o].status /\ row.late = order[o].late /\ row.renewed = order[o].renewed
      BY <1>1, <1>5, <2>0, RenewalFacts
    <2>2. order[o].status = "PENDING" /\ Len(order[o].lines) = 1
      BY <1>5 DEF RenewalEligible
    <2>3. ~Scheduled(s) => final = ListPrice(o)
      OBVIOUS
    <2>4. order'[o] = row /\ order' = [order EXCEPT ![o] = row]
      BY <1>5, <2>0 DEF Inv, TypeInv
    <2>5. Booked(o)'
      BY <1>1, <1>5, <2>0, <2>4, RenewalBooked
    <2> HIDE DEF final
    <2>6. Repriced(c, o, row)
      <3>1. UNCHANGED <<attempt, subscription>> /\ call[c].pc # "idle" /\ call[c].order = o
        BY <1>1, <1>2 DEF PrepareRenewal
      <3>2. row.status = "PENDING"
        BY <2>1, <2>2
      <3> QED
        BY <2>1, <2>2, <2>4, <2>5, <3>1, <3>2, Reprice
    <2>7. RedemptionInv'
      <3>1. RedemptionFits(o)'
        <4>1. RedemptionFits(o) /\ UNCHANGED <<redemption, subscription>>
          BY DEF PrepareRenewal, Inv, RedemptionInv, RedemptionFits
        <4>2. redemption[o].status # "NONE" =>
                 /\ ~Scheduled(s) /\ order[o].total = ListPrice(o) /\ redemption[o].final = order[o].total
          BY <1>1, <1>5, <2>2, <4>1 DEF RedemptionFits, PricedOnce
        <4>3. redemption[o].status # "NONE" =>
                 /\ ~Scheduled(s)' /\ order'[o].total = ListPrice(o) /\ redemption[o].final = order'[o].total
          BY <2>1, <2>3, <2>6, <4>1, <4>2 DEF Scheduled, Repriced
        <4> QED
          BY <1>1, <2>6, <4>1, <4>3 DEF RedemptionFits, PricedOnce, Repriced
      <3> QED
        BY <2>6, <3>1 DEF PrepareRenewal, RedemptionInv, RedemptionFits, Repriced
    <2>8. PromotionInv'
      <3>1. \A p \in Orders \ {o} : (Counted(p)' => Counted(p)) /\ order'[p] = order[p]
        BY <2>4 DEF PrepareRenewal, Counted, Inv, TypeInv
      <3>2. \A r \in Orders : Promoted(r)' \subseteq Promoted(r)
        BY <2>1, <2>2, <2>6, <3>1 DEF Promoted, Repriced
      <3>3. Counted(o)' => subscription[s].consumed < subscription[s].total
        BY <2>1, <2>6 DEF Counted, Scheduled, Repriced
      <3> QED
        BY <2>6, <3>1, <3>2, <3>3, PromotionStep DEF PrepareRenewal, Repriced
    <2>9. call' \in [Calls -> CallRecord] /\ CallInv'
      <3>1. CASE Scheduled(s)
        <4> DEFINE l == [call[c] EXCEPT !.pc = "finish", !.total = row.total, !.single = TRUE]
        <4>1. /\ l \in CallRecord /\ l.pc = "finish" /\ l.order = o /\ l.total = row.total
          BY <1>1, <1>2, <2>1 DEF CallRecord
        <4>2. Becomes(c, l)
          BY <1>5, <2>0, <3>1 DEF PricedAt
        <4> HIDE DEF l
        <4>3. call'[c] = l
          BY <1>2, <4>2 DEF Becomes
        <4>4. LocalInv(c)'
          BY <1>1, <2>6, <4>1, <4>3 DEF PrepareRenewal, LocalInv, Repriced
        <4> QED
          BY <1>1, <1>2, <2>6, <4>1, <4>2, <4>4, OwnOrder DEF PrepareRenewal, Repriced
      <3>2. CASE ~Scheduled(s)
        <4>1. Becomes(c, next) /\ call'[c] = next
          BY <1>2, <1>5, <3>2 DEF Becomes
        <4>2. ~Scheduled(s)' /\ order'[o].total = ListPrice(o)
          BY <2>1, <2>3, <2>6, <3>2 DEF PrepareRenewal, Scheduled, Repriced
        <4>3. LocalInv(c)'
          BY <1>1, <1>3, <2>6, <4>1, <4>2 DEF PrepareRenewal, LocalInv, Repriced
        <4> QED
          BY <1>1, <1>2, <1>3, <2>6, <4>1, <4>3, OwnOrder DEF PrepareRenewal, Repriced
      <3> QED
        BY <3>1, <3>2
    <2> QED
      BY <2>6, <2>7, <2>8, <2>9, RedemptionRowsKept DEF PrepareRenewal, Inv, TypeInv, Repriced
  <1>6. CASE Return(c) /\ UNCHANGED order
    BY <1>6, ReturnInv DEF PrepareRenewal, Inv, TypeInv
  <1> QED
    BY <1>1, <1>4, <1>5, <1>6 DEF PrepareRenewal, next

\* The checkout comes to the payment with what its order costs.
LEMMA PricedInv ==
  ASSUME Inv, NEW c \in Calls, call[c].pc # "idle", NEW single \in BOOLEAN,
         PricedAt(c, order[call[c].order].total, single),
         UNCHANGED <<order, redemption, attempt, subscription, active, now, faults>>
  PROVE  Inv'
  <1>1. PICK o \in Orders : o = call[c].order /\ o \in Created /\ ~Input[o].direct /\ attempt[Input[o].source] = NoAttempt
    BY CallOrders
  <1> DEFINE l == [call[c] EXCEPT !.pc = "finish", !.total = order[o].total, !.single = single]
  <1>2. call[c] \in CallRecord /\ order[o].total \in Nat
    BY DEF Inv, TypeInv, OrderRecord
  <1>3. l \in CallRecord /\ l.pc = "finish" /\ l.order = o /\ l.total = order[o].total
    BY <1>1, <1>2 DEF CallRecord
  <1>4. Becomes(c, l)
    BY <1>1 DEF PricedAt
  <1> HIDE DEF l
  <1>5. call'[c] = l
    BY <1>4 DEF Inv, TypeInv, Becomes
  <1>6. LocalInv(c)'
    BY <1>1, <1>3, <1>5 DEF LocalInv, Created
  <1> QED
    BY <1>1, <1>3, <1>4, <1>6, MoveInv

LEMMA PriceAgainInv ==
  ASSUME Inv, NEW c \in Calls, PriceAgain(c)
  PROVE  Inv'
  BY PricedInv, ReturnInv DEF PriceAgain, Inv, TypeInv

LEMMA PriceWithoutInv ==
  ASSUME Inv, NEW c \in Calls, PriceWithout(c)
  PROVE  Inv'
  <1>1. CASE PricedAt(c, order[call[c].order].total, FALSE)
    BY <1>1, PricedInv DEF PriceWithout
  <1>2. CASE Return(c)
    BY <1>2, ReturnInv DEF PriceWithout, Inv, TypeInv
  <1> QED
    BY <1>1, <1>2 DEF PriceWithout
LEMMA ReservedFacts ==
  ASSUME NEW f \in Offers, NEW final \in Nat
  PROVE  /\ Reserved(f, final) \in RedemptionRecord /\ Reserved(f, final).status = "RESERVED"
         /\ Reserved(f, final).offer = f /\ Reserved(f, final).final = final
         /\ ~Reserved(f, final).released
  BY DEF Reserved, RedemptionRecord

LEMMA PricedFacts ==
  ASSUME Inv, NEW o \in Orders, NEW f \in Offers, NEW final \in Nat
  PROVE  /\ Priced(o, f, final) \in OrderRecord
         /\ Priced(o, f, final).total = final /\ Priced(o, f, final).invoiced = final
         /\ Priced(o, f, final).offer = f
         /\ Priced(o, f, final).lines = IF final = order[o].total THEN order[o].lines
                                        ELSE Append(order[o].lines, final - order[o].total)
         /\ Priced(o, f, final).status = order[o].status
         /\ Priced(o, f, final).late = order[o].late
         /\ Priced(o, f, final).renewed = order[o].renewed
  <1> DEFINE lines == IF final = order[o].total THEN order[o].lines
                      ELSE Append(order[o].lines, final - order[o].total)
  <1>1. order[o] \in OrderRecord /\ order[o].lines \in Seq(Int) /\ order[o].total \in Nat
    BY DEF Inv, TypeInv, OrderRecord
  <1>2. lines \in Seq(Int)
    BY <1>1
  <1>3. Priced(o, f, final) =
           [order[o] EXCEPT !.total = final, !.invoiced = final, !.offer = f, !.lines = lines]
    BY <1>1 DEF Priced, OrderRecord
  <1> HIDE DEF lines
  <1>4. /\ Priced(o, f, final) \in OrderRecord
        /\ Priced(o, f, final).total = final /\ Priced(o, f, final).invoiced = final
        /\ Priced(o, f, final).offer = f /\ Priced(o, f, final).lines = lines
        /\ Priced(o, f, final).status = order[o].status
        /\ Priced(o, f, final).late = order[o].late
        /\ Priced(o, f, final).renewed = order[o].renewed
    BY <1>1, <1>2, <1>3 DEF OrderRecord
  <1> QED
    BY <1>4 DEF lines

\* An order at the price of an offer.
LEMMA OfferBooked ==
  ASSUME Inv, NEW o \in Orders, EligibleForOffer(o), NEW f \in Offers,
         ZeroAllowed(f, o, order[o].total),
         NEW final \in Nat, final = Discounted(order[o].total, Offer[f].bps),
         order'[o] = Priced(o, f, final)
  PROVE  /\ Booked(o)'
         /\ Len(order'[o].lines) = 1 => final = order[o].total
  <1>1. /\ order'[o].total = final /\ order'[o].invoiced = final /\ order'[o].offer = f
        /\ order'[o].lines = IF final = order[o].total THEN order[o].lines
                             ELSE Append(order[o].lines, final - order[o].total)
    BY PricedFacts
  <1>2. o \in Created /\ Booked(o) /\ order[o].offer = None /\ Input[o].tax = 0
    BY DEF EligibleForOffer, Created, Inv, OrderInv
  <1>3. /\ order[o].lines \in Seq(Int) /\ Len(order[o].lines) = 1 /\ order[o].total \in Nat
        /\ order[o].lines[1] \in Int /\ order[o].lines[1] = order[o].total
        /\ order[o].total \in Bases(o)
    BY <1>2 DEF Booked, LinesTotal, PriceOf, Inv, TypeInv, OrderRecord
  <1>4. PriceOf(o, order'[o].offer, order'[o].total)
    BY <1>1, <1>3, OfferFacts DEF PriceOf
  <1>5. /\ Len(order'[o].lines) \in {1, 2} /\ LinesTotal(order'[o].lines) = final
        /\ Len(order'[o].lines) = 1 => final = order[o].total
    <2>1. CASE final = order[o].total
      BY <1>1, <1>3, <2>1 DEF LinesTotal
    <2>2. CASE final # order[o].total
      <3>1. /\ Len(order'[o].lines) = 2 /\ order'[o].lines[1] = order[o].lines[1]
            /\ order'[o].lines[2] = final - order[o].total
        BY <1>1, <1>3, <2>2
      <3>2. order[o].total + (final - order[o].total) = final
        BY <1>3
      <3> QED
        BY <1>3, <2>2, <3>1, <3>2 DEF LinesTotal
    <2> QED
      BY <2>1, <2>2
  <1> QED
    BY <1>1, <1>2, <1>4, <1>5, OfferFacts DEF Booked, PriceOf

LEMMA PriceOfferInv ==
  ASSUME Inv, NEW c \in Calls, PriceOffer(c)
  PROVE  Inv'
  <1>1. PICK o \in Orders : o = call[c].order /\ o \in Created /\ ~Input[o].direct /\ attempt[Input[o].source] = NoAttempt
    BY CallOrders DEF PriceOffer
  <1>2. PICK f \in Candidates(o) :
           /\ Matches(f, o) /\ PlaceFree(f, o) /\ ZeroAllowed(f, o, order[o].total)
           /\ redemption' = [redemption EXCEPT ![o] = Reserved(f, Discounted(order[o].total, Offer[f].bps))]
           /\ order' = [order EXCEPT ![o] = Priced(o, f, Discounted(order[o].total, Offer[f].bps))]
           /\ PricedAt(c, Discounted(order[o].total, Offer[f].bps), TRUE)
    BY <1>1 DEF PriceOffer
  <1>3. f \in Offers
    BY <1>2 DEF Matches, Inv, TypeInv
  <1>4. /\ order[o] \in OrderRecord /\ order[o].total \in Nat /\ order[o].status = "PENDING"
        /\ call[c].pc = "price" /\ redemption[o].status = "NONE" /\ EligibleForOffer(o)
        /\ UNCHANGED <<active, attempt, subscription, now, faults>>
        /\ call \in [Calls -> CallRecord] /\ call[c] \in CallRecord
        /\ order \in [Orders -> OrderRecord] /\ redemption \in [Orders -> RedemptionRecord]
    BY <1>1 DEF PriceOffer, EligibleForOffer, Inv, TypeInv, OrderRecord
  <1>5. PICK final \in Nat : final = Discounted(order[o].total, Offer[f].bps)
    BY <1>3, <1>4, OfferFacts, DiscountedType
  <1>6. PICK row \in OrderRecord : row = Priced(o, f, final)
    BY <1>3, PricedFacts
  <1>7. PICK taken \in RedemptionRecord : taken = Reserved(f, final)
    BY <1>3, ReservedFacts
  <1>8. /\ row.total = final /\ row.offer = f /\ row.status = order[o].status
        /\ row.late = order[o].late /\ row.renewed = order[o].renewed
        /\ taken.status = "RESERVED" /\ taken.offer = f /\ taken.final = final
    BY <1>3, <1>6, <1>7, PricedFacts, ReservedFacts
  <1>9. /\ order' = [order EXCEPT ![o] = row] /\ redemption' = [redemption EXCEPT ![o] = taken]
        /\ PricedAt(c, final, TRUE) /\ order'[o] = row /\ order'[o] = Priced(o, f, final)
        /\ redemption'[o] = taken /\ redemption' \in [Orders -> RedemptionRecord]
        /\ \A p \in Orders \ {o} : redemption'[p] = redemption[p] /\ order'[p] = order[p]
    BY <1>2, <1>4, <1>5, <1>6, <1>7
  <1>10. Booked(o)' /\ (Len(order'[o].lines) = 1 => final = order[o].total)
    BY <1>2, <1>3, <1>4, <1>5, <1>9, OfferBooked
  <1>11. Repriced(c, o, row)
    <2>1. row.status = "PENDING" /\ call[c].pc # "idle" /\ call[c].order = o
      BY <1>1, <1>4, <1>8
    <2> QED
      BY <1>4, <1>8, <1>9, <1>10, <2>1, Reprice
  <1>12. RedemptionInv'
    <2>1. Input[o].renews # None => ~Scheduled(Input[o].renews) /\ order[o].total = ListPrice(o)
      BY <1>1, <1>4 DEF Inv, CallInv, LocalInv
    <2>2. PricedOnce(o)'
      BY <1>4, <1>8, <1>9, <1>10, <2>1 DEF PricedOnce, Scheduled
    <2>3. RedemptionFits(o)'
      BY <1>3, <1>8, <1>9, <1>11, <2>2, OfferFacts DEF RedemptionFits, Repriced
    <2> QED
      BY <1>9, <1>11, <2>3 DEF RedemptionInv, RedemptionFits, Repriced
  <1>13. LimitInv'
    BY <1>2, <1>3, <1>4, <1>8, <1>9, PlaceTaken
  <1>14. PromotionInv'
    <2>1. ~Counted(o)' /\ \A p \in Orders \ {o} : Counted(p)' => Counted(p)
      BY <1>8, <1>9 DEF Counted
    <2>2. \A s \in Orders : Promoted(s)' \subseteq Promoted(s)
      BY <1>9, <2>1 DEF Promoted
    <2> QED
      BY <1>4, <1>11, <2>1, <2>2, PromotionStep DEF Repriced
  <1>15. call' \in [Calls -> CallRecord] /\ CallInv'
    <2> DEFINE l == [call[c] EXCEPT !.pc = "finish", !.total = final, !.single = TRUE]
    <2>1. l \in CallRecord /\ l.pc = "finish" /\ l.order = o /\ l.total = final
      BY <1>1, <1>4 DEF CallRecord
    <2>2. Becomes(c, l)
      BY <1>9 DEF PricedAt
    <2> HIDE DEF l
    <2>3. call'[c] = l
      BY <1>4, <2>2 DEF Becomes
    <2>4. LocalInv(c)'
      BY <1>1, <1>4, <1>8, <1>9, <1>11, <2>1, <2>3 DEF LocalInv, Repriced
    <2> QED
      BY <1>1, <1>4, <1>11, <2>1, <2>2, <2>4, OwnOrder DEF Repriced
  <1> QED
    BY <1>4, <1>9, <1>11, <1>12, <1>13, <1>14, <1>15 DEF Inv, TypeInv, Repriced

\* Only the redemption of one order changes.
LEMMA RedemptionOnly ==
  ASSUME Inv, NEW o \in Orders, NEW row \in RedemptionRecord,
         redemption' = [redemption EXCEPT ![o] = row],
         RedemptionFits(o)', LimitInv', row.status # "NONE",
         UNCHANGED <<order, active, attempt, subscription, call, now, faults>>
  PROVE  Inv'
  <1>1. /\ redemption' \in [Orders -> RedemptionRecord] /\ redemption'[o] = row
        /\ \A p \in Orders \ {o} : redemption'[p] = redemption[p]
    BY DEF Inv, TypeInv
  <1>2. Continues /\ \A p \in Orders : SameBooks(p)
    BY Unchanging DEF SameBooks
  <1>3. RedemptionInv'
    <2>1. \A p \in Orders : redemption[p].status = "RELEASED" => redemption[p].released
      BY DEF Inv, RedemptionInv
    <2>2. \A p \in Orders \ {o} : RedemptionFits(p)'
      BY <1>1, <1>2, <2>1, RedemptionKept
    <2> QED
      BY <2>2 DEF RedemptionInv, RedemptionFits
  <1>4. OrderInv'
    BY <1>2, OrdersKept
  <1>5. CallInv'
    <2>1. \A c \in Calls : call[c].pc # "idle" => SameBooks(call[c].order)
      BY <1>2, CallOrders
    <2> QED
      BY <1>2, <2>1, CallsWait
  <1>6. AttemptInv' /\ SubscriptionInv' /\ FlagInv' /\ LiveInv'
    BY DEF Inv, AttemptInv, SubscriptionInv, FlagInv, LiveInv, Live, Created
  <1>7. PromotionInv'
    <2>1. \A p \in Orders : Counted(p)' => Counted(p)
      BY <1>1 DEF Counted
    <2>2. (\A s \in Orders : Promoted(s)' \subseteq Promoted(s)) /\ (\A p \in Orders : Live(p)' => Live(p))
      BY <2>1 DEF Promoted, Live
    <2> QED
      BY <2>1, <2>2, PromotionStep
  <1> QED
    BY <1>1, <1>3, <1>4, <1>5, <1>6, <1>7 DEF Inv, TypeInv

LEMMA ReserveInv ==
  ASSUME Inv, NEW o \in Orders, NEW f \in Offers, Reserve(o, f)
  PROVE  Inv'
  <1>1. PICK final \in Nat : final = Discounted(Subtotal(o), Offer[f].bps)
    BY SubtotalFacts, OfferFacts, DiscountedType
  <1>2. PICK row \in RedemptionRecord : row = Reserved(f, final)
    BY ReservedFacts
  <1>3. row.status = "RESERVED" /\ row.offer = f
    BY <1>2, ReservedFacts
  <1>4. redemption' = [redemption EXCEPT ![o] = row] /\ redemption[o].status = "NONE" /\ PlaceFree(f, o)
    BY <1>1, <1>2 DEF Reserve
  <1>5. LimitInv'
    BY <1>3, <1>4, PlaceTaken
  <1>6. redemption'[o] = row
    BY <1>4 DEF Inv, TypeInv
  <1>7. RedemptionFits(o)'
    BY <1>3, <1>6, OfferFacts DEF Reserve, RedemptionFits, Created
  <1> QED
    BY <1>3, <1>4, <1>5, <1>7, RedemptionOnly DEF Reserve

LEMMA ReleaseInv ==
  ASSUME Inv, NEW o \in Orders, Release(o)
  PROVE  Inv'
  <1>1. redemption[o] \in RedemptionRecord /\ redemption[o].status = "RESERVED"
    BY DEF Release, Inv, TypeInv
  <1>2. PICK row \in RedemptionRecord : row = [redemption[o] EXCEPT !.status = "RELEASED", !.released = TRUE]
    BY <1>1 DEF RedemptionRecord
  <1>3. /\ row.status = "RELEASED" /\ row.released /\ row.offer = redemption[o].offer
        /\ row.final = redemption[o].final
    BY <1>1, <1>2 DEF RedemptionRecord
  <1>4. redemption' = [redemption EXCEPT ![o] = row]
    BY <1>1, <1>2 DEF Release, Inv, TypeInv, RedemptionRecord
  <1>5. redemption'[o] = row /\ \A p \in Orders \ {o} : redemption'[p] = redemption[p]
    BY <1>4 DEF Inv, TypeInv
  <1>6. LimitInv'
    <2>1. \A f \in Offers : Holders(f)' \subseteq Holders(f) /\ Held(f)' \subseteq Held(f)
      BY <1>3, <1>5 DEF Holders, Held
    <2>2. \A f \in Offers : IsFiniteSet(Holders(f)')
      BY <2>1, FS_Subset DEF Inv, LimitInv
    <2> QED
      BY <2>1, <2>2, LimitsKept
  <1>7. RedemptionFits(o)'
    <2>1. Continues /\ SameBooks(o)
      BY Unchanging DEF Release, SameBooks
    <2> QED
      BY <1>1, <1>3, <1>5, <2>1, RedemptionKept
  <1> QED
    BY <1>3, <1>4, <1>6, <1>7, RedemptionOnly DEF Release
----------------------------------------------------------------------------
(* Subscriptions.                                                           *)

LEMMA StartSubscriptionInv ==
  ASSUME Inv, NEW o \in Orders, StartSubscription(o)
  PROVE  Inv'
  <1> DEFINE f == order[o].offer
             cycles == IF f = None THEN 0 ELSE Offer[f].cycles
  <1>1. /\ order[o] \in OrderRecord /\ f \in Offers \cup {None} /\ cycles \in Nat
        /\ o \in Created /\ Input[o].renews = None /\ Input[o].monthly /\ ~subscription[o].started
    BY OfferFacts DEF StartSubscription, Inv, TypeInv, OrderRecord, Created
  <1>2. now + 1 \in Nat /\ now + 1 >= 1
    BY CheckoutAssumption DEF Inv, TypeInv
  <1>3. PICK n \in Nat : n = now + 1 /\ n >= 1
    BY <1>2
  <1>4. PICK k \in Nat : k = cycles
    BY <1>1
  <1>5. PICK g \in Offers \cup {None} : g = f
    BY <1>1
  <1>6. PICK first \in Nat : first = IF k > 0 THEN 1 ELSE 0
    OBVIOUS
  <1>7. PICK row \in SubscriptionRecord :
           /\ row = [started |-> TRUE, base |-> Subtotal(o), offer |-> g, total |-> k,
                     consumed |-> first, end |-> n, periods |-> 1]
           /\ row.started /\ row.base = Subtotal(o) /\ row.offer = g /\ row.total = k
           /\ row.consumed = first /\ row.end = n /\ row.periods = 1
    <2>1. PICK base \in Nat : base = Subtotal(o)
      BY SubtotalFacts
    <2>2. [started |-> TRUE, base |-> base, offer |-> g, total |-> k, consumed |-> first,
           end |-> n, periods |-> 1] \in SubscriptionRecord
      BY DEF SubscriptionRecord
    <2> QED
      BY <2>1, <2>2
  <1>8. /\ subscription' = [subscription EXCEPT ![o] = row]
        /\ UNCHANGED <<order, redemption, active, attempt, call, now, faults>>
    BY <1>3, <1>4, <1>5, <1>6, <1>7 DEF StartSubscription
  <1> HIDE DEF f, cycles
  <1>9. /\ subscription' \in [Orders -> SubscriptionRecord] /\ subscription'[o] = row
        /\ \A s \in Orders \ {o} : subscription'[s] = subscription[s]
    BY <1>8 DEF Inv, TypeInv
  <1>10. Continues
    BY <1>1, <1>9 DEF Continues, Inv, TypeInv, SubscriptionRecord
  <1>11. \A p \in Orders : SameBooks(p)
    BY <1>8 DEF SameBooks
  <1>12. OrderInv' /\ RedemptionInv'
    BY <1>8, <1>10, <1>11, OrdersKept, RedemptionsKept
  <1>13. CallInv'
    <2>1. \A c \in Calls : call[c].pc # "idle" => SameBooks(call[c].order)
      BY <1>11, CallOrders
    <2> QED
      BY <1>8, <1>10, <2>1, CallsWait
  <1>14. AttemptInv' /\ FlagInv' /\ LiveInv' /\ LimitInv'
    BY <1>8, RedemptionRowsKept DEF Inv, AttemptInv, FlagInv, LiveInv, Live, Created
  <1>15. g # None /\ PlansArePriced => ZeroAllowed(g, o, Subtotal(o))
    <2> SUFFICES ASSUME g # None, PlansArePriced PROVE ZeroAllowed(g, o, Subtotal(o))
      OBVIOUS
    <2>1. Booked(o)
      BY <1>1 DEF Inv, OrderInv
    <2>2. Input[o].tax = 0 /\ PriceOf(o, g, order[o].total)
      BY <1>1, <1>5, <2>1 DEF Booked, f
    <2>3. PICK base \in Bases(o) : ZeroAllowed(g, o, base)
      BY <2>2 DEF PriceOf
    <2>4. Subtotal(o) + 0 = Subtotal(o)
      BY SubtotalFacts
    <2>5. base = Subtotal(o)
      BY <1>1, <2>2, <2>4 DEF Bases
    <2> QED
      BY <2>3, <2>5
  <1>16. SubscriptionInv'
    BY <1>1, <1>3, <1>6, <1>7, <1>8, <1>9, <1>15 DEF Inv, SubscriptionInv, Created
  <1>17. PromotionInv'
    <2>1. \A p \in Orders : Input[p].renews = o => order[p].status = "NONE"
      BY <1>1, RenewsStarted, InputFacts DEF Created
    <2>2. \A s \in Orders : Promoted(s)' = Promoted(s)
      BY <1>8 DEF Promoted, Counted
    <2>3. \A p \in Orders : (Live(p)' <=> Live(p)) /\ (Counted(p)' <=> Counted(p))
      BY <1>8 DEF Live, Counted
    <2>4. Promoted(o) = {}
      BY <2>1 DEF Promoted
    <2>5. \A p \in Orders : Live(p) => Input[p].renews # o
      BY <2>1 DEF Live
    <2>6. IsFiniteSet({}) /\ Cardinality({}) = 0
      BY FS_EmptySet
    <2>7. ASSUME NEW s \in Orders, s # o, subscription'[s].started, subscription'[s].total > 0
          PROVE  /\ IsFiniteSet(Promoted(s)')
                 /\ Cardinality(Promoted(s)') + 1 <= subscription'[s].consumed
                 /\ \A p \in Orders : Live(p)' /\ Counted(p)' /\ Input[p].renews = s =>
                       Cardinality(Promoted(s)') + 2 <= subscription'[s].total
      BY <1>9, <2>2, <2>3, <2>7 DEF Inv, PromotionInv
    <2>8. k > 0 => Cardinality(Promoted(o)') + 1 <= subscription'[o].consumed
      BY <1>6, <1>7, <1>9, <2>2, <2>4, <2>6
    <2> QED
      BY <1>7, <1>9, <2>2, <2>3, <2>4, <2>5, <2>6, <2>7, <2>8 DEF PromotionInv
  <1> QED
    BY <1>8, <1>9, <1>12, <1>13, <1>14, <1>16, <1>17 DEF Inv, TypeInv

\* The subscription takes note of a paid renewal, and the host may lose that answer.
LEMMA RenewInv ==
  ASSUME Inv, NEW o \in Orders, Renew(o)
  PROVE  Inv'
  <1>1. PICK s \in Orders : s = Input[o].renews
    BY InputFacts DEF Renew
  <1>2. /\ order[o] \in OrderRecord /\ order[o].status = "PAID" /\ ~order[o].renewed
        /\ o \in Created /\ s # None /\ subscription[s].started
        /\ subscription[s] \in SubscriptionRecord
    BY <1>1, RenewsStarted, InputFacts DEF Renew, Created, Inv, TypeInv
  <1>3. PICK consumed \in Nat : consumed = Consumed(s, order[o].offer)
    BY <1>2 DEF Consumed, SubscriptionRecord
  <1>4. PICK end \in Nat : end = PeriodStart(s) + 1 /\ end > subscription[s].end
    <2>1. now \in Nat /\ subscription[s].end \in Nat
      BY <1>2, CheckoutAssumption DEF SubscriptionRecord, Inv, TypeInv
    <2>2. PeriodStart(s) \in Nat /\ PeriodStart(s) >= subscription[s].end
      BY <2>1 DEF PeriodStart
    <2>3. PeriodStart(s) + 1 \in Nat /\ PeriodStart(s) + 1 > subscription[s].end
      BY <2>1, <2>2
    <2> HIDE DEF PeriodStart
    <2> QED
      BY <2>3
  <1>5. PICK periods \in Nat : periods = subscription[s].periods + 1
    BY <1>2 DEF SubscriptionRecord
  <1>6. PICK row \in SubscriptionRecord :
           row = [subscription[s] EXCEPT !.consumed = consumed, !.end = end, !.periods = periods]
    BY <1>2 DEF SubscriptionRecord
  <1>7. /\ row.started /\ row.base = subscription[s].base /\ row.offer = subscription[s].offer
        /\ row.total = subscription[s].total /\ row.consumed = consumed /\ row.end = end
        /\ row.periods = subscription[s].periods + 1
    BY <1>2, <1>5, <1>6 DEF SubscriptionRecord
  <1>8. /\ subscription' = [subscription EXCEPT ![s] = row]
        /\ UNCHANGED <<redemption, active, attempt, call, now>>
    BY <1>1, <1>2, <1>3, <1>4, <1>5, <1>6 DEF Renew, Inv, TypeInv, SubscriptionRecord
  <1>9. /\ subscription' \in [Orders -> SubscriptionRecord] /\ subscription'[s] = row
        /\ \A t \in Orders \ {s} : subscription'[t] = subscription[t]
    BY <1>8 DEF Inv, TypeInv
  <1>10. /\ order' \in [Orders -> OrderRecord] /\ faults' \in 0 .. MaxFaults
         /\ \A p \in Orders \ {o} : order'[p] = order[p]
         /\ order'[o] = order[o] \/ order'[o].renewed
         /\ order'[o].status = order[o].status /\ order'[o].late = order[o].late
         /\ \A p \in Orders : SameBooks(p)
    <2>1. CASE UNCHANGED order /\ Fault
      BY <2>1, CheckoutAssumption DEF Fault, SameBooks, Inv, TypeInv
    <2>2. CASE order' = [order EXCEPT ![o].renewed = TRUE] /\ UNCHANGED faults
      <3>1. PICK next \in OrderRecord : next = [order[o] EXCEPT !.renewed = TRUE]
        BY <1>2 DEF OrderRecord
      <3>2. /\ next.renewed /\ next.status = order[o].status /\ next.late = order[o].late
            /\ next.total = order[o].total /\ next.offer = order[o].offer
            /\ next.invoiced = order[o].invoiced /\ next.lines = order[o].lines
        BY <1>2, <3>1 DEF OrderRecord
      <3>3. order' = [order EXCEPT ![o] = next]
        BY <2>2, <3>1 DEF Inv, TypeInv
      <3>4. /\ order' \in [Orders -> OrderRecord] /\ order'[o] = next
            /\ \A p \in Orders \ {o} : order'[p] = order[p]
        BY <3>3 DEF Inv, TypeInv
      <3> QED
        BY <2>2, <3>2, <3>4 DEF SameBooks, Inv, TypeInv
    <2> QED
      BY <2>1, <2>2 DEF Renew
  <1>11. /\ consumed >= subscription[s].consumed /\ consumed <= subscription[s].total
         /\ subscription[s].consumed \in Nat /\ subscription[s].total \in Nat
         /\ order[o].offer # None =>
               consumed = subscription[s].total \/ consumed = subscription[s].consumed + 1
    <2>1. subscription[s].consumed <= subscription[s].total
      BY <1>2 DEF Inv, SubscriptionInv
    <2> QED
      BY <1>2, <1>3, <2>1 DEF Consumed, SubscriptionRecord
  <1>12. end >= row.periods
    <2>1. subscription[s].end >= subscription[s].periods
      BY <1>2 DEF Inv, SubscriptionInv
    <2> QED
      BY <1>2, <1>4, <1>7, <2>1 DEF SubscriptionRecord
  <1>13. Continues
    BY <1>7, <1>9, <1>11 DEF Continues, Inv, TypeInv, SubscriptionRecord
  <1>14. OrderInv' /\ RedemptionInv'
    BY <1>8, <1>10, <1>13, OrdersKept, RedemptionsKept
  <1>15. CallInv'
    <2>1. \A c \in Calls : call[c].pc # "idle" => SameBooks(call[c].order)
      BY <1>10, CallOrders
    <2> QED
      BY <1>8, <1>13, <2>1, CallsWait
  <1>16. AttemptInv'
    <2>1. \A t \in Sources : attempt[t] # NoAttempt => SameBooks(attempt[t].order)
      BY <1>10 DEF Inv, AttemptInv, Created
    <2> QED
      BY <1>8, <2>1, AttemptsKept
  <1>17. FlagInv' /\ LimitInv'
    BY <1>2, <1>8, <1>10, RedemptionRowsKept DEF Inv, FlagInv
  <1>18. SubscriptionInv'
    <2>1. \A t \in Created : order'[t].status # "NONE"
      BY <1>10 DEF Created, SameBooks
    <2> QED
      BY <1>2, <1>7, <1>9, <1>11, <1>12, <2>1 DEF Inv, SubscriptionInv, Created
  <1>19. \A p \in Orders : (Live(p)' => Live(p)) /\ (Counted(p)' <=> Counted(p))
    BY <1>2, <1>8, <1>10 DEF Live, Counted, SameBooks
  <1>20. LiveInv'
    BY <1>19, LiveKept
  <1>21. PromotionInv'
    <2> SUFFICES ASSUME NEW t \in Orders, subscription'[t].started, subscription'[t].total > 0
                 PROVE  /\ IsFiniteSet(Promoted(t)')
                        /\ Cardinality(Promoted(t)') + 1 <= subscription'[t].consumed
                        /\ \A p \in Orders : Live(p)' /\ Counted(p)' /\ Input[p].renews = t =>
                              Cardinality(Promoted(t)') + 2 <= subscription'[t].total
      BY DEF PromotionInv
    <2>1. /\ IsFiniteSet(Promoted(t)) /\ Cardinality(Promoted(t)) \in Nat
          /\ Cardinality(Promoted(t)) + 1 <= subscription[t].consumed
          /\ \A p \in Orders : Live(p) /\ Counted(p) /\ Input[p].renews = t =>
                Cardinality(Promoted(t)) + 2 <= subscription[t].total
          /\ subscription'[t].total = subscription[t].total
      BY <1>2, <1>7, <1>9, FS_CardinalityType DEF Inv, PromotionInv
    <2>2. CASE t # s
      <3>1. Promoted(t)' = Promoted(t)
        BY <1>1, <1>10, <1>19, <2>2 DEF Promoted
      <3> QED
        BY <1>9, <1>19, <2>1, <2>2, <3>1
    <2>3. CASE t = s /\ o \in Promoted(s)'
      <3>1. Live(o) /\ Counted(o) /\ order'[o].renewed
        BY <1>1, <1>2, <1>10, <1>19, <2>3 DEF Promoted, Live
      <3>2. Cardinality(Promoted(s)) + 2 <= subscription[s].total
        BY <1>1, <2>1, <2>3, <3>1
      <3>3. Promoted(s)' = Promoted(s) \cup {o} /\ o \notin Promoted(s)
        BY <1>2, <1>10, <1>19, <2>3 DEF Promoted
      <3>4. IsFiniteSet(Promoted(s)') /\ Cardinality(Promoted(s)') = Cardinality(Promoted(s)) + 1
        BY <2>1, <2>3, <3>3, FS_AddElement
      <3>5. order[o].offer # None
        BY <3>1 DEF Counted
      <3>6. Cardinality(Promoted(s)') + 1 <= consumed
        BY <1>11, <2>1, <2>3, <3>2, <3>4, <3>5
      <3>7. \A p \in Orders : Live(p)' /\ Input[p].renews = s => FALSE
        <4>1. ~Live(o)'
          BY <1>2, <1>10, <3>1 DEF Live
        <4>2. \A p \in Orders : Live(p) /\ Input[p].renews = s => p = o
          BY <1>1, <3>1 DEF Inv, LiveInv
        <4> QED
          BY <1>19, <4>1, <4>2
      <3> QED
        BY <1>7, <1>9, <2>3, <3>4, <3>6, <3>7
    <2>4. CASE t = s /\ o \notin Promoted(s)'
      <3>1. Promoted(s)' = Promoted(s)
        <4>1. o \notin Promoted(s)
          BY <1>2 DEF Promoted
        <4> QED
          BY <1>10, <1>19, <2>4, <4>1 DEF Promoted
      <3>2. Cardinality(Promoted(s)) + 1 <= consumed
        BY <1>11, <2>1, <2>4
      <3> QED
        BY <1>7, <1>9, <1>19, <2>1, <2>4, <3>1, <3>2
    <2> QED
      BY <2>2, <2>3, <2>4
  <1> QED
    BY <1>8, <1>9, <1>10, <1>14, <1>15, <1>16, <1>17, <1>18, <1>20, <1>21 DEF Inv, TypeInv

----------------------------------------------------------------------------
(* Settlement, cancellation and refund.                                     *)

\* An order moves on, with its redemption, and keeps what it costs; nothing pays for it in
\* time that could not before.
LEMMA StatusStep ==
  ASSUME Inv, NEW o \in Orders, NEW row \in OrderRecord, NEW rrow \in RedemptionRecord,
         order[o].status # "NONE", row.status \notin {"NONE", "PENDING"},
         row.total = order[o].total, row.offer = order[o].offer,
         row.invoiced = order[o].invoiced, row.lines = order[o].lines,
         row.renewed = order[o].renewed,
         row.status = "PAID" => order[o].status \in {"PENDING", "CANCELLED"},
         row.status = "PAID" => row.late = (order[o].status = "CANCELLED"),
         row.status # "PAID" => row.late = order[o].late,
         row.status = "CANCELLED" => order[o].status = "PENDING",
         rrow.offer = redemption[o].offer, rrow.final = redemption[o].final,
         rrow.released = redemption[o].released,
         rrow.status = "NONE" <=> redemption[o].status = "NONE",
         rrow.status = "RELEASED" => redemption[o].status = "RELEASED",
         order' = [order EXCEPT ![o] = row],
         redemption' = [redemption EXCEPT ![o] = rrow],
         call' \in [Calls -> CallRecord] /\ CallInv',
         UNCHANGED <<active, attempt, subscription, now, faults>>
  PROVE  Inv'
  <1>1. /\ order' \in [Orders -> OrderRecord] /\ order'[o] = row
        /\ \A p \in Orders \ {o} : order'[p] = order[p]
        /\ redemption' \in [Orders -> RedemptionRecord] /\ redemption'[o] = rrow
        /\ \A p \in Orders \ {o} : redemption'[p] = redemption[p]
    BY DEF Inv, TypeInv
  <1>2. Continues /\ \A p \in Orders : SameBooks(p)
    BY <1>1, Unchanging DEF SameBooks
  <1>3. OrderInv'
    BY <1>2, OrdersKept
  <1>4. FlagInv'
    BY <1>1 DEF Inv, FlagInv
  <1>5. RedemptionInv'
    <2>1. \A p \in Orders : redemption[p].status = "RELEASED" => redemption[p].released
      BY DEF Inv, RedemptionInv
    <2>2. \A p \in Orders : RedemptionFits(p)'
      BY <1>1, <1>2, <2>1, RedemptionKept
    <2> QED
      BY <2>2 DEF RedemptionInv, RedemptionFits
  <1>6. AttemptInv'
    <2>1. \A s \in Sources : attempt[s] # NoAttempt => attempt[s].order \in Orders
      BY DEF Inv, AttemptInv, Created
    <2> QED
      BY <1>2, <2>1, AttemptsKept
  <1>7. SubscriptionInv'
    <2>1. \A s \in Created : order'[s].status # "NONE"
      BY <1>2 DEF Created, SameBooks
    <2> QED
      BY <2>1, SubscriptionsKept
  <1>8. LimitInv'
    <2>1. \A f \in Offers : Held(f)' \subseteq Held(f)
      BY <1>1 DEF Holders, Held, Inv, RedemptionInv
    <2>2. ASSUME NEW f \in Offers PROVE IsFiniteSet(Holders(f)')
      <3>1. Holders(f)' \subseteq Holders(f) \cup {o}
        BY <1>1 DEF Holders
      <3>2. IsFiniteSet(Holders(f) \cup {o})
        BY FS_AddElement DEF Inv, LimitInv
      <3> QED
        BY <3>1, <3>2, FS_Subset
    <2> QED
      BY <2>1, <2>2, LimitsKept
  <1>9. \A p \in Orders : (Live(p)' => Live(p)) /\ (Counted(p)' <=> Counted(p))
    <2>1. \A p \in Orders \ {o} : (Live(p)' => Live(p)) /\ (Counted(p)' <=> Counted(p))
      BY <1>1 DEF Live, Counted
    <2>2. Counted(o)' <=> Counted(o)
      BY <1>1 DEF Counted
    <2>3. order[o].status = "PENDING" => ~order[o].late
      BY DEF Inv, FlagInv
    <2>4. Live(o)' => Live(o)
      <3> SUFFICES ASSUME Live(o)' PROVE Live(o)
        OBVIOUS
      <3>1. Input[o].renews # None /\ row.status = "PAID" /\ ~row.late
        BY <1>1 DEF Live
      <3>2. order[o].status = "PENDING"
        BY <3>1
      <3> QED
        BY <2>3, <3>1, <3>2 DEF Live
    <2> QED
      BY <2>1, <2>2, <2>4
  <1>10. PromotionInv'
    <2>1. ~order[o].renewed \/ row.status # "PAID"
      BY DEF Inv, FlagInv
    <2>2. \A s \in Orders : Promoted(s)' \subseteq Promoted(s)
      BY <1>1, <1>9, <2>1 DEF Promoted
    <2> QED
      BY <1>9, <2>2, PromotionStep
  <1>11. LiveInv'
    BY <1>9, LiveKept
  <1> QED
    BY <1>1, <1>3, <1>4, <1>5, <1>6, <1>7, <1>8, <1>10, <1>11 DEF Inv, TypeInv

\* No checkout moves, and every order costs what it did.
LEMMA BooksWait ==
  ASSUME Inv, UNCHANGED <<call, attempt, subscription>>, NEW o \in Orders, NEW row \in OrderRecord,
         row.total = order[o].total, row.offer = order[o].offer,
         row.invoiced = order[o].invoiced, row.lines = order[o].lines,
         row.status = "NONE" <=> order[o].status = "NONE",
         order' = [order EXCEPT ![o] = row]
  PROVE  call' \in [Calls -> CallRecord] /\ CallInv'
  <1>1. order'[o] = row /\ \A p \in Orders \ {o} : order'[p] = order[p]
    BY DEF Inv, TypeInv
  <1>2. Continues /\ \A p \in Orders : SameBooks(p)
    BY <1>1, Unchanging DEF SameBooks
  <1>3. \A c \in Calls : call[c].pc # "idle" => SameBooks(call[c].order)
    BY <1>2, CallOrders
  <1> QED
    BY <1>2, <1>3, CallsWait

LEMMA AppliedFacts ==
  ASSUME Inv, NEW o \in Orders
  PROVE  /\ Applied(o) \in RedemptionRecord /\ Applied(o).offer = redemption[o].offer
         /\ Applied(o).final = redemption[o].final /\ Applied(o).released = redemption[o].released
         /\ Applied(o).status = "NONE" <=> redemption[o].status = "NONE"
         /\ Applied(o).status # "RELEASED"
  <1>1. redemption[o] \in RedemptionRecord
    BY DEF Inv, TypeInv
  <1> QED
    BY <1>1 DEF Applied, RedemptionRecord

LEMMA PaidFacts ==
  ASSUME Inv, NEW o \in Orders
  PROVE  /\ Paid(o) \in OrderRecord /\ Paid(o).status = "PAID" /\ Paid(o).total = order[o].total
         /\ Paid(o).offer = order[o].offer /\ Paid(o).invoiced = order[o].invoiced
         /\ Paid(o).lines = order[o].lines /\ Paid(o).renewed = order[o].renewed
         /\ Paid(o).late = order[o].late
  <1>1. order[o] \in OrderRecord
    BY DEF Inv, TypeInv
  <1> QED
    BY <1>1 DEF Paid, OrderRecord

LEMMA FulfillZeroInv ==
  ASSUME Inv, NEW c \in Calls, FulfillZero(c)
  PROVE  Inv'
  <1>1. PICK o \in Orders : o = call[c].order
    BY CallOrders DEF FulfillZero
  <1>2. CASE UNCHANGED <<order, redemption>>
    BY <1>2, ReturnInv DEF FulfillZero, Inv, TypeInv
  <1>3. CASE /\ order[o].status = "PENDING"
             /\ order' = [order EXCEPT ![o] = Paid(o)]
             /\ redemption' = [redemption EXCEPT ![o] = Applied(o)]
    <2>1. PICK row \in OrderRecord : row = Paid(o)
      BY PaidFacts
    <2>2. PICK rrow \in RedemptionRecord : rrow = Applied(o)
      BY AppliedFacts
    <2>3. /\ row.status = "PAID" /\ row.total = order[o].total
          /\ row.offer = order[o].offer /\ row.invoiced = order[o].invoiced
          /\ row.lines = order[o].lines /\ row.renewed = order[o].renewed
          /\ row.late = order[o].late
      BY <2>1, PaidFacts
    <2>4. /\ rrow.offer = redemption[o].offer
          /\ rrow.final = redemption[o].final /\ rrow.released = redemption[o].released
          /\ rrow.status = "NONE" <=> redemption[o].status = "NONE"
          /\ rrow.status # "RELEASED"
      BY <2>2, AppliedFacts
    <2>5. row.late = FALSE
      BY <1>3, <2>3 DEF Inv, FlagInv, TypeInv, OrderRecord
    <2>6. /\ order' = [order EXCEPT ![o] = row] /\ redemption' = [redemption EXCEPT ![o] = rrow]
          /\ Return(c) /\ UNCHANGED <<active, attempt, subscription, now, faults>>
      BY <1>3, <2>1, <2>2 DEF FulfillZero
    <2>7. Continues /\ \A p \in Orders : SameBooks(p)
      BY <1>3, <2>3, <2>6, Unchanging DEF SameBooks, Inv, TypeInv
    <2>8. \A d \in Calls : call[d].pc # "idle" => call[d].order \in Orders
      BY CallOrders
    <2>9. call' \in [Calls -> CallRecord] /\ CallInv'
      BY <2>6, <2>7, <2>8, CallReturns
    <2> QED
      BY <1>3, <2>3, <2>4, <2>5, <2>6, <2>9, StatusStep
  <1> QED
    BY <1>1, <1>2, <1>3 DEF FulfillZero

LEMMA SettleInv ==
  ASSUME Inv, NEW s \in Sources, Settle(s)
  PROVE  Inv'
  <1>1. PICK o \in Orders : o = attempt[s].order
    BY DEF Settle, Inv, TypeInv, AttemptRecord
  <1>2. PICK late \in BOOLEAN : late = (order[o].status = "CANCELLED")
    OBVIOUS
  <1>3. PICK row \in OrderRecord : row = [Paid(o) EXCEPT !.late = late]
    BY PaidFacts DEF OrderRecord
  <1>4. PICK rrow \in RedemptionRecord : rrow = Applied(o)
    BY AppliedFacts
  <1>5. /\ row.status = "PAID" /\ row.total = order[o].total
        /\ row.offer = order[o].offer /\ row.invoiced = order[o].invoiced
        /\ row.lines = order[o].lines /\ row.renewed = order[o].renewed
        /\ row.late = late
    BY <1>3, PaidFacts DEF OrderRecord
  <1>6. /\ rrow.offer = redemption[o].offer
        /\ rrow.final = redemption[o].final /\ rrow.released = redemption[o].released
        /\ rrow.status = "NONE" <=> redemption[o].status = "NONE"
        /\ rrow.status # "RELEASED"
    BY <1>4, AppliedFacts
  <1>7. /\ order' = [order EXCEPT ![o] = row] /\ redemption' = [redemption EXCEPT ![o] = rrow]
        /\ UNCHANGED <<active, attempt, subscription, call, now, faults>>
        /\ order[o].status \in {"PENDING", "CANCELLED"}
    BY <1>1, <1>2, <1>3, <1>4 DEF Settle, Settles
  <1>8. call' \in [Calls -> CallRecord] /\ CallInv'
    BY <1>5, <1>7, BooksWait
  <1> QED
    BY <1>2, <1>5, <1>6, <1>7, <1>8, StatusStep

LEMMA CancelInv ==
  ASSUME Inv, NEW o \in Orders, Cancel(o)
  PROVE  Inv'
  <1>1. order[o] \in OrderRecord /\ redemption[o] \in RedemptionRecord
    BY DEF Inv, TypeInv
  <1>2. PICK row \in OrderRecord : row = [order[o] EXCEPT !.status = "CANCELLED"]
    BY <1>1 DEF OrderRecord
  <1>3. /\ row.status = "CANCELLED" /\ row.total = order[o].total
        /\ row.offer = order[o].offer /\ row.invoiced = order[o].invoiced
        /\ row.lines = order[o].lines /\ row.renewed = order[o].renewed
        /\ row.late = order[o].late
    BY <1>1, <1>2 DEF OrderRecord
  <1>4. /\ order' = [order EXCEPT ![o] = row] /\ order[o].status = "PENDING"
        /\ redemption' = [redemption EXCEPT ![o] = redemption[o]]
        /\ UNCHANGED <<active, attempt, subscription, call, now, faults>>
    BY <1>2 DEF Cancel, Inv, TypeInv
  <1>5. call' \in [Calls -> CallRecord] /\ CallInv'
    BY <1>3, <1>4, BooksWait
  <1> QED
    BY <1>1, <1>3, <1>4, <1>5, StatusStep

LEMMA RefundInv ==
  ASSUME Inv, NEW o \in Orders, Refund(o)
  PROVE  Inv'
  <1>1. order[o] \in OrderRecord /\ redemption[o] \in RedemptionRecord
    BY DEF Inv, TypeInv
  <1>2. PICK row \in OrderRecord : row = [order[o] EXCEPT !.status = "REFUNDED", !.invoice = "VOID"]
    BY <1>1 DEF OrderRecord
  <1>3. /\ row.status = "REFUNDED" /\ row.total = order[o].total
        /\ row.offer = order[o].offer /\ row.invoiced = order[o].invoiced
        /\ row.lines = order[o].lines /\ row.renewed = order[o].renewed
        /\ row.late = order[o].late
    BY <1>1, <1>2 DEF OrderRecord
  <1>4. PICK st \in {"NONE", "RESERVED", "APPLIED", "RELEASED", "REFUNDED"} :
           st = IF redemption[o].status = "APPLIED" THEN "REFUNDED" ELSE redemption[o].status
    BY <1>1 DEF RedemptionRecord
  <1>5. PICK rrow \in RedemptionRecord : rrow = [redemption[o] EXCEPT !.status = st]
    BY <1>1 DEF RedemptionRecord
  <1>6. /\ rrow.offer = redemption[o].offer
        /\ rrow.final = redemption[o].final /\ rrow.released = redemption[o].released
        /\ rrow.status = st
    BY <1>1, <1>5 DEF RedemptionRecord
  <1>7. order' = [order EXCEPT ![o] = row]
    BY <1>1, <1>2 DEF Refund, Inv, TypeInv, OrderRecord
  <1>8. redemption' = [redemption EXCEPT ![o] = rrow]
    BY <1>1, <1>4, <1>5 DEF Refund, Inv, TypeInv, RedemptionRecord
  <1>9. /\ order[o].status = "PAID" /\ UNCHANGED <<active, attempt, subscription, call, now, faults>>
    BY DEF Refund
  <1>10. call' \in [Calls -> CallRecord] /\ CallInv'
    BY <1>3, <1>7, <1>9, BooksWait
  <1>11. (st = "NONE" <=> redemption[o].status = "NONE") /\ (st = "RELEASED" => redemption[o].status = "RELEASED")
    BY <1>4
  <1> QED
    BY <1>3, <1>6, <1>7, <1>8, <1>9, <1>10, <1>11, StatusStep

----------------------------------------------------------------------------
(* Payments, faults and the world.                                          *)

LEMMA StartPaymentInv ==
  ASSUME Inv, NEW c \in Calls, StartPayment(c)
  PROVE  Inv'
  <1>1. PICK o \in Orders : /\ o = call[c].order /\ o \in Created
                            /\ \A d \in Calls \ {c} : call[d].order # o
    BY CallOrders DEF StartPayment
  <1>2. CASE UNCHANGED attempt
    BY <1>2, ReturnInv DEF StartPayment, Inv, TypeInv
  <1>3. CASE attempt' = [attempt EXCEPT ![Input[o].source] = [order |-> o, amount |-> call[c].total]]
    <2>1. PICK total \in Nat : total = call[c].total /\ total = order[o].total
      BY <1>1 DEF StartPayment, Inv, TypeInv, CallInv, LocalInv, CallRecord
    <2>2. PICK row \in AttemptRecord : row = [order |-> o, amount |-> total] /\ row.order = o /\ row.amount = total
      <3>1. [order |-> o, amount |-> total] \in AttemptRecord
        BY DEF AttemptRecord
      <3> QED
        BY <3>1
    <2>3. PICK source \in Sources : source = Input[o].source
      BY InputFacts
    <2>4. /\ attempt' = [attempt EXCEPT ![source] = row] /\ Return(c)
          /\ UNCHANGED <<order, redemption, active, subscription, now, faults>>
      BY <1>3, <2>1, <2>2, <2>3 DEF StartPayment
    <2>5. /\ attempt' \in [Sources -> AttemptRecord] /\ attempt'[source] = row
          /\ \A s \in Sources \ {source} : attempt'[s] = attempt[s]
      BY <2>4 DEF Inv, TypeInv
    <2>6. Continues /\ \A p \in Orders : SameBooks(p)
      BY <2>4, Unchanging DEF SameBooks
    <2>7. AttemptInv'
      BY <1>1, <2>1, <2>2, <2>3, <2>4, <2>5 DEF Inv, AttemptInv, Created
    <2>8. ASSUME NEW d \in Calls \ {c}, call[d].pc # "idle"
          PROVE  /\ SameBooks(call[d].order)
                 /\ attempt'[Input[call[d].order].source] = attempt[Input[call[d].order].source]
      <3>1. PICK p \in Orders : p = call[d].order /\ p \in Created /\ p # o
        BY <1>1, <2>8, CallOrders
      <3>2. Input[p].source \in Sources \ {source}
        BY <1>1, <2>3, <3>1, InputFacts DEF Inv, OrderInv
      <3> QED
        BY <2>5, <2>6, <3>1, <3>2
    <2>9. call' \in [Calls -> CallRecord] /\ CallInv'
      BY <2>4, <2>6, <2>8, CallReturns
    <2>10. OrderInv' /\ RedemptionInv'
      BY <2>4, <2>6, OrdersKept, RedemptionsKept
    <2>11. SubscriptionInv'
      BY <2>4, SubscriptionsKept DEF Created
    <2>12. LimitInv' /\ PromotionInv' /\ LiveInv' /\ FlagInv'
      BY <2>4, RedemptionRowsKept, PromotionsKept
    <2> QED
      BY <2>4, <2>5, <2>7, <2>9, <2>10, <2>11, <2>12 DEF Inv, TypeInv
  <1> QED
    BY <1>1, <1>2, <1>3 DEF StartPayment

LEMMA DieInv ==
  ASSUME Inv, NEW c \in Calls, Die(c)
  PROVE  Inv'
  <1>1. faults' \in 0 .. MaxFaults
    BY CheckoutAssumption DEF Die, Fault, Inv, TypeInv
  <1> QED
    BY <1>1, ReturnInv DEF Die

LEMMA RecoverInv ==
  ASSUME Inv, NEW c \in Calls, NEW o \in Orders, Recover(c, o)
  PROVE  Inv'
  <1>1. PICK l \in CallRecord : /\ l = [IdleCall EXCEPT !.pc = "renewal", !.order = o]
                                /\ l.pc = "renewal" /\ l.order = o
    <2>1. [IdleCall EXCEPT !.pc = "renewal", !.order = o] \in CallRecord
      BY DEF IdleCall, CallRecord
    <2> QED
      BY <2>1 DEF IdleCall
  <1>2. Becomes(c, l)
    BY <1>1 DEF Recover
  <1>3. call'[c] = l
    BY <1>2 DEF Inv, TypeInv, Becomes
  <1>4. LocalInv(c)'
    BY <1>1, <1>3 DEF Recover, LocalInv, Created
  <1>5. Continues /\ \A p \in Orders : SameBooks(p)
    BY Unchanging DEF Recover, SameBooks
  <1>6. \A d \in Calls : call[d].pc # "idle" => SameBooks(call[d].order) /\ call[d].order # o
    BY <1>5, CallOrders DEF Recover
  <1>7. o # None
    BY InputFacts
  <1>8. call' \in [Calls -> CallRecord] /\ CallInv'
    BY <1>1, <1>2, <1>4, <1>5, <1>6, <1>7, CallStep DEF Recover
  <1> QED
    BY <1>8, OnlyCall DEF Recover, Inv, TypeInv

LEMMA WorldInv ==
  ASSUME Inv, UNCHANGED <<order, redemption, attempt, subscription, call>>,
         active' \subseteq Offers, now' \in 0 .. Horizon, faults' \in 0 .. MaxFaults
  PROVE  Inv'
  <1>1. Continues /\ \A p \in Orders : SameBooks(p)
    BY Unchanging DEF SameBooks
  <1>2. \A d \in Calls : call[d].pc # "idle" => SameBooks(call[d].order)
    BY <1>1, CallOrders
  <1>3. call' \in [Calls -> CallRecord] /\ CallInv'
    BY <1>1, <1>2, CallsWait
  <1> QED
    BY <1>3, OnlyCall

LEMMA WithdrawInv ==
  ASSUME Inv, NEW f \in Offers, Withdraw(f)
  PROVE  Inv'
  BY WorldInv DEF Withdraw, Inv, TypeInv

LEMMA TickInv ==
  ASSUME Inv, Tick
  PROVE  Inv'
  <1>1. now' \in 0 .. Horizon
    BY CheckoutAssumption DEF Tick, Inv, TypeInv
  <1> QED
    BY <1>1, WorldInv DEF Tick, Inv, TypeInv

----------------------------------------------------------------------------
(* The invariant.                                                           *)

LEMMA NextInv ==
  ASSUME Inv, [Next]_vars
  PROVE  Inv'
  <1>1. ASSUME NEW c \in Calls, NEW o \in Orders, Create(c, o) PROVE Inv'
    BY <1>1, CreateInv
  <1>2. ASSUME NEW c \in Calls, NEW o \in Orders, Recover(c, o) PROVE Inv'
    BY <1>2, RecoverInv
  <1>3. ASSUME NEW c \in Calls, PrepareRenewal(c) PROVE Inv'
    BY <1>3, PrepareRenewalInv
  <1>4. ASSUME NEW c \in Calls, PriceAgain(c) PROVE Inv'
    BY <1>4, PriceAgainInv
  <1>5. ASSUME NEW c \in Calls, PriceWithout(c) PROVE Inv'
    BY <1>5, PriceWithoutInv
  <1>6. ASSUME NEW c \in Calls, PriceOffer(c) PROVE Inv'
    BY <1>6, PriceOfferInv
  <1>7. ASSUME NEW c \in Calls, FulfillZero(c) PROVE Inv'
    BY <1>7, FulfillZeroInv
  <1>8. ASSUME NEW c \in Calls, StartPayment(c) PROVE Inv'
    BY <1>8, StartPaymentInv
  <1>9. ASSUME NEW c \in Calls, Die(c) PROVE Inv'
    BY <1>9, DieInv
  <1>10. ASSUME NEW o \in Orders, Release(o) PROVE Inv'
    BY <1>10, ReleaseInv
  <1>11. ASSUME NEW o \in Orders, StartSubscription(o) PROVE Inv'
    BY <1>11, StartSubscriptionInv
  <1>12. ASSUME NEW o \in Orders, Renew(o) PROVE Inv'
    BY <1>12, RenewInv
  <1>13. ASSUME NEW o \in Orders, Cancel(o) PROVE Inv'
    BY <1>13, CancelInv
  <1>14. ASSUME NEW o \in Orders, Refund(o) PROVE Inv'
    BY <1>14, RefundInv
  <1>15. ASSUME NEW o \in Orders, NEW f \in Offers, Reserve(o, f) PROVE Inv'
    BY <1>15, ReserveInv
  <1>16. ASSUME NEW s \in Sources, Settle(s) PROVE Inv'
    BY <1>16, SettleInv
  <1>17. ASSUME NEW f \in Offers, Withdraw(f) PROVE Inv'
    BY <1>17, WithdrawInv
  <1>18. CASE Tick
    BY <1>18, TickInv
  <1>19. CASE UNCHANGED vars
    BY <1>19, WorldInv DEF vars, Inv, TypeInv
  <1> QED
    BY <1>1, <1>2, <1>3, <1>4, <1>5, <1>6, <1>7, <1>8, <1>9, <1>10, <1>11, <1>12, <1>13, <1>14,
       <1>15, <1>16, <1>17, <1>18, <1>19 DEF Next

\* In every reachable state orders, redemptions, attempts, subscriptions and calls agree:
\* what Inv says of them, which is inductive.
THEOREM Invariance == Spec => []Inv
  <1>1. Init => Inv
    BY InitInv
  <1>2. Inv /\ [Next]_vars => Inv'
    BY NextInv
  <1> QED
    BY <1>1, <1>2, PTL DEF Spec

----------------------------------------------------------------------------
(* The properties.                                                          *)

\* Concurrent checkouts and reservations never use an offer beyond its maximum, in all or
\* for one account: the places are counted in the transaction that takes one.
THEOREM OfferWithinLimitsCorrect == Spec => []OfferWithinLimits
  <1>1. Inv => OfferWithinLimits
    <2> SUFFICES ASSUME Inv PROVE OfferWithinLimits
      OBVIOUS
    <2>1. \A f \in Offers : Held(f) = {o \in Holders(f) : ~redemption[o].released}
      BY DEF Held
    <2> QED
      BY <2>1, InputFacts DEF Inv, LimitInv, OfferWithinLimits
  <1> QED
    BY <1>1, Invariance, PTL

\* The lines of every invoice add up to what its order costs, what its redemption promised
\* and what its payment asks for, however a checkout died, was recovered or cancelled.
THEOREM BooksBalanceCorrect == Spec => []BooksBalance
  <1>1. Inv => BooksBalance
    <2> SUFFICES ASSUME Inv PROVE BooksBalance
      OBVIOUS
    <2>1. \A s \in Sources : attempt[s].order # None => attempt[s].amount = order[attempt[s].order].total
      BY DEF Inv, AttemptInv, NoAttempt
    <2> QED
      BY <2>1 DEF Inv, OrderInv, Booked, RedemptionInv, Created, BooksBalance
  <1> QED
    BY <1>1, Invariance, PTL

\* No order and no renewal is given away but by an offer that allows it, and a perpetual
\* licence never by a general promotion, if the catalogue sells no subscription for nothing.
THEOREM FreeOnlyIfAllowedCorrect ==
  ASSUME PlansArePriced
  PROVE  Spec => []FreeOnlyIfAllowed
  <1>1. Inv => FreeOnlyIfAllowed
    <2> SUFFICES ASSUME Inv, NEW o \in Created, order[o].total = 0, Subtotal(o) > 0
                 PROVE  /\ order[o].offer # None /\ Offer[order[o].offer].zero
                        /\ Offer[order[o].offer].general => Input[o].monthly
      BY DEF FreeOnlyIfAllowed
    <2>1. /\ o \in Orders /\ Subtotal(o) \in Nat /\ Input[o].tax \in Nat
      BY SubtotalFacts, InputFacts DEF Created
    <2>2. \A base \in Bases(o) : base > 0
      <3>1. Subtotal(o) + Input[o].tax > 0
        BY <2>1
      <3>2. Input[o].renews # None => ListPrice(o) > 0
        <4>1. Input[o].renews # None => Input[o].renews \in Orders /\ Subtotal(Input[o].renews) \in Nat
          BY <2>1, InputFacts, SubtotalFacts
        <4> QED
          BY <2>1, <4>1 DEF ListPrice
      <3> QED
        BY <3>1, <3>2 DEF Bases
    <2>3. PriceOf(o, order[o].offer, order[o].total)
      BY DEF Inv, OrderInv, Booked
    <2>4. order[o].offer # None
      BY <2>2, <2>3 DEF PriceOf
    <2>5. PICK base \in Bases(o) :
             0 = Discounted(base, Offer[order[o].offer].bps) /\ ZeroAllowed(order[o].offer, o, base)
      BY <2>3, <2>4 DEF PriceOf
    <2> QED
      BY <2>2, <2>4, <2>5 DEF ZeroAllowed
  <1> QED
    BY <1>1, Invariance, PTL

\* A subscription is renewed at its promotional price for no more cycles than its offer
\* grants, though prices are fixed before the payment and cycles counted after it.
THEOREM PromotionEndsCorrect == Spec => []PromotionEnds
  <1>1. Inv => PromotionEnds
    <2> SUFFICES ASSUME Inv, NEW s \in Orders, subscription[s].started, subscription[s].total > 0
                 PROVE  Cardinality({o \in Created :
                            /\ Input[o].renews = s /\ ~order[o].late
                            /\ order[o].status = "PAID"
                            /\ order[o].offer # None /\ redemption[o].status = "NONE"})
                          < subscription[s].total
      BY DEF PromotionEnds
    <2> DEFINE sold == {o \in Created :
                           /\ Input[o].renews = s /\ ~order[o].late
                           /\ order[o].status = "PAID"
                           /\ order[o].offer # None /\ redemption[o].status = "NONE"}
    <2>1. /\ IsFiniteSet(Promoted(s)) /\ Cardinality(Promoted(s)) \in Nat
          /\ Cardinality(Promoted(s)) + 1 <= subscription[s].consumed
          /\ \A o \in Orders : Live(o) /\ Counted(o) /\ Input[o].renews = s =>
                Cardinality(Promoted(s)) + 2 <= subscription[s].total
      BY FS_CardinalityType DEF Inv, PromotionInv
    <2>2. /\ subscription[s].consumed \in Nat /\ subscription[s].total \in Nat
          /\ subscription[s].consumed <= subscription[s].total
      BY DEF Inv, TypeInv, SubscriptionRecord, SubscriptionInv
    <2>3. \A o \in sold : o \in Promoted(s) \/ (Live(o) /\ Counted(o) /\ Input[o].renews = s)
      BY InputFacts DEF Promoted, Live, Counted, Created
    <2>4. CASE sold \subseteq Promoted(s)
      <3>1. Cardinality(sold) <= Cardinality(Promoted(s)) /\ Cardinality(sold) \in Nat
        BY <2>1, <2>4, FS_Subset, FS_CardinalityType
      <3> QED
        BY <2>1, <2>2, <3>1
    <2>5. CASE ~(sold \subseteq Promoted(s))
      <3>1. PICK o \in Orders : Live(o) /\ Counted(o) /\ Input[o].renews = s
        BY <2>3, <2>5 DEF Created
      <3>2. sold \subseteq Promoted(s) \cup {o}
        BY <2>3, <3>1 DEF Inv, LiveInv, Created
      <3>3. /\ IsFiniteSet(Promoted(s) \cup {o}) /\ Cardinality(Promoted(s) \cup {o}) \in Nat
            /\ Cardinality(Promoted(s) \cup {o}) <= Cardinality(Promoted(s)) + 1
        <4>1. /\ IsFiniteSet(Promoted(s) \cup {o})
              /\ Cardinality(Promoted(s) \cup {o}) \in {Cardinality(Promoted(s)), Cardinality(Promoted(s)) + 1}
          BY <2>1, FS_AddElement
        <4>2. Cardinality(Promoted(s) \cup {o}) \in Nat
          BY <4>1, FS_CardinalityType
        <4> QED
          BY <2>1, <4>1, <4>2
      <3>4. Cardinality(sold) <= Cardinality(Promoted(s) \cup {o}) /\ Cardinality(sold) \in Nat
        BY <3>2, <3>3, FS_Subset, FS_CardinalityType
      <3>5. Cardinality(Promoted(s)) + 2 <= subscription[s].total
        BY <2>1, <3>1
      <3> HIDE DEF sold
      <3>6. Cardinality(sold) < subscription[s].total
        BY <2>1, <2>2, <3>3, <3>4, <3>5
      <3> QED
        BY <3>6 DEF sold
    <2> QED
      BY <2>4, <2>5
  <1> QED
    BY <1>1, Invariance, PTL

\* Every variable keeps its type, and a subscription always runs for at least as many
\* periods as were paid for, however early it was renewed.
THEOREM PaidTimeKeptCorrect == Spec => []PaidTimeKept
  <1>1. Inv => PaidTimeKept
    <2> SUFFICES ASSUME Inv PROVE PaidTimeKept
      OBVIOUS
    <2>1. \A o \in Orders :
             /\ order[o].status \in {"NONE", "PENDING", "PAID", "CANCELLED", "REFUNDED"}
             /\ order[o].invoice \in {"NONE", "DRAFT", "FINAL", "VOID"}
             /\ order[o].total \in Nat
             /\ redemption[o].status \in {"NONE", "RESERVED", "APPLIED", "RELEASED", "REFUNDED"}
      BY DEF Inv, TypeInv, OrderRecord, RedemptionRecord
    <2>2. \A o \in Orders : redemption[o].status = "NONE" <=> redemption[o].offer = None
      BY DEF Inv, RedemptionInv
    <2>3. \A o \in Orders : /\ subscription[o].consumed \in 0 .. subscription[o].total
                            /\ subscription[o].end \in Nat
      BY DEF Inv, TypeInv, SubscriptionRecord, SubscriptionInv
    <2>4. \A s \in Sources : attempt[s].order \in Created \cup {None}
      BY DEF Inv, AttemptInv, NoAttempt
    <2>5. \A c \in Calls : call[c].pc \in {"idle", "renewal", "price", "finish"}
      BY DEF Inv, TypeInv, CallRecord
    <2>6. TypeOK
      BY <2>1, <2>2, <2>3, <2>4, <2>5 DEF TypeOK, Inv, TypeInv
    <2> QED
      BY <2>6 DEF PaidTimeKept, Inv, SubscriptionInv
  <1> QED
    BY <1>1, Invariance, PTL
=============================================================================
