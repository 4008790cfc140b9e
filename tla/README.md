# TLA+ models of the BKE libraries

Models, model-checking runs and proofs for the libraries under `src/@bke/`.
Each library is a TypeScript package of the same shape: *capabilities* in
`logic/` (async functions that validate, read, decide and write), *repositories*
in `prisma/repositories/` (one SQL statement or one transaction per method),
*adapters* in `providers/`, constraints in `migrations/`. The packages run inside
host processes, several at a time, against one PostgreSQL database; nothing in
them serializes calls except the database. What can go wrong lies between two
`await`s, and that is what the modules are about.

Running:

    tlc -workers 2 -config MCPaymentIntent_resolves.cfg MCPaymentIntent
    tlapm PaymentIntentProofs.tla

## 1. Inventory

| Component | State it keeps | Operations | Hard behaviour | What makes it correct |
|---|---|---|---|---|
| payments: payment intents | `PaymentIntentAttempt` row per source; `lastObservation` in each process; the provider's intents and idempotency keys | `create`, `createPaymentMethod`, `attachPaymentMethod` | calls on several hosts race under a lease that can run out while the provider works; lost and late answers; crashes; observations stamped by different clocks | bound once and for good; only that intent handed out; one lease holder; one intent per source; final statuses stay; an open attempt resolves |
| payments: refunds | `PaymentRefundOperation` rows, the provider's refunds | `initiateAgainstSettlement`, `initiateFullByCommercialReference` | capacity claimed concurrently; retries and takeovers; unconditional marks | live refunds and money paid out stay within the settlement |
| payments: checkouts | `PaymentCheckoutAttempt` row | `create` | overlapping calls bind or fail the same row | one checkout, handed out only while the row names it |
| payments: events, settlement facts | `PaymentProviderEvent`, `PaymentSettlementFact` | `ingest`, `reconcile` | duplicates, reused ids, second payments | one fact per event, payment and intent |
| payments: reconciliation, event match, lookups, errors | none | read-only | none | pure comparisons |
| commerce: settlement, zero-total fulfilment | `CommerceOrder`, invoice, offer redemption | `settle`, `fulfillZero` and the reactions around them | reactions die between packages; late money; refunds in between | order, invoice, redemption agree; paid orders get their rights |
| commerce: orders, offers, renewals | `CommerceOrder`, `Invoice`, `OfferRedemption`, `Subscription` | checkout orchestration, pricing of orders, renewals and offers, reservations, `transition`, start and renewal of subscriptions | a checkout is five transactions and can end between any two; limited offers under load; promotional cycles | no offer used beyond its maximum; order, invoice and redemption add up; promotions end |
| commerce: purchase plans | `PurchasePlan` | create an edition with plans, synchronize plans, look up and resolve prices | three upserts, one after the other, by overlapping calls | prices told were asked for |
| commerce: order and subscription lookups, previews | none | read-only | none | |
| entitlements | `EntitlementRight` by source reference | grant, revoke | repeated grants with other evidence | a right is granted once, revocation is final |
| accounts: membership | `CustomerAccount`, `Membership`, `Invitation` | role change, removal, leave, transfer, close, issue, resend, revoke, expire, accept | authorization read before the transaction; different locks | an owner remains; members were invited |
| accounts: profiles, policies | profile columns | updates, decision tables | none | pure policies |
| identity: sessions, password, mailed links | `Session`, `PasswordCredential`, `PasswordResetToken`, `VerificationToken` | login, issue, validate, terminate, administer, change, reset, magic link, verification | every decision is a read, every write a later statement | no session survives its password; a link works once |
| identity: second factors, recent authentication | `AdministratorMfaMethod`, `MfaChallenge`, recovery codes, emergency authorization | challenges for login, enrollment, recent authentication; disable, regenerate, emergency | double consumption, attempt limits, switches of MFA in between | a factor works once; a session's assurance is true |
| identity: registration, Google subjects | `User`, subject binding | one insert each | unique indexes | |
| licensing: commercial leases | signing keys, `DeviceActivation`, `LicenseLeaseRecord`, `CommercialLeaseOperation` | `issue` for five actions | facts read before a SERIALIZABLE transaction that is tried twice; replay of operations; key bootstrap | seats respected, one lease per operation, one active key |
| licensing: grace, keys, versions | grace reservations | reserve, reveal, decide | small | one grace per licence |
| catalog | `CatalogProduct`, `CatalogEdition` | create, update, publish, archive, policies for codes and deletion | the host decides and acts in separate calls; sale in between | nothing sold is deleted; a code names one product |
| legal, notifications, support, privacy, trials | tickets, documents, acceptances | single statements, pure policies | small | unique keys, legal transitions |

Interactions. A customer's purchase runs through `checkout-orchestration` (Commerce),
which prices an order and asks Payments for a checkout attempt or a payment
intent. The provider's webhooks enter Payments through `ingest`; `reconcile` turns
a verified payment into a settlement fact; Commerce reads the fact, settles order,
invoice and redemption in one transaction and asks Entitlements for one right per
order item. Commerce resolves prices from the plans it keeps for the editions of the
Catalog. Licensing reads those rights. Refunds go from Payments back to
Commerce through plans the host executes. Accounts and Identity supply the
principal a call acts for. All calls between packages are function calls that
may throw at any `await`; there are no queues, so recovery is always a repetition
by the caller: a redelivered webhook, a customer's retry, an owner's retry.

## 2. Modules

| Module | Models | Modelled lines |
|---|---|---|
| `PaymentIntent` | one attempt, all calls on it, the provider, the clock | `payments/logic/payment-intent.ts`, `postgres-payment-intent-repository.ts`, `paymongo-payment-intent-adapter.ts` |
| `PaymentIntentPromise` | the abstract promise of an attempt | implemented by `PaymentIntent` (`KeepsPromise`) |
| `RefundLedger` | the refund operations of one customer's settlements | `payments/logic/refund-initiation.ts`, `postgres-refund-repository.ts`, `paymongo-adapter.ts` |
| `RefundPromise` | the abstract promise of the refunds of settled payments | implemented by `RefundLedger` with its provider (`KeepsPromise`) |
| `CheckoutAttempt` | one hosted-checkout attempt | `payments/logic/checkout-attempt.ts`, `postgres-checkout-attempt-repository.ts` |
| `SettlementFulfillment` | events, facts, orders and rights, composed across Payments, Commerce and Entitlements | `provider-event.ts`, `settlement-fact.ts`, `settlement-fulfillment.ts`, `zero-payment-fulfillment.ts`, `durable-right-grant.ts` and their repositories |
| `AccountMembership` | one organization, its members and invitations | the membership and invitation capabilities of `accounts/logic` and their repositories |
| `OrderCheckout` | orders, redemptions, payment attempts and subscriptions from checkout to settlement and renewal | `checkout-orchestration.ts`, `order-creation.ts`, the pricing, redemption, transition and subscription capabilities of `commerce/logic` and their repositories |
| `PlanCatalog` | products, editions, plans, prices, codes and deletions | `catalog/logic`, `edition-plan-management.ts`, `purchase-plan-*.ts` and their repositories |
| `CommercialLease` | one licence: keys, seats, leases, operations | `licensing/logic/commercial-lease.ts`, `lease-lifecycle.ts` and the signing-key and lease repositories |
| `IdentitySessions` | one principal: password, sessions, mailed links | the session, password, magic-login, verification and lifecycle capabilities of `identity/logic` and their repositories |
| `IdentityFactors` | the same principal's MFA, challenges, recovery codes; extends `IdentitySessions` | the MFA, recent-authentication and emergency capabilities and their repositories |
| `...Proofs` | the theorems about a module, with its inductive invariant (section 4) | |
| `MC...` | the constants and symmetry sets of the runs | |

Conventions. A call of a capability occupies a slot (`Calls`, `Workers`) and has a
record of locals with a program counter; an idle slot has the one idle record, so
that ended calls leave no state behind. One repository method is one action,
because it is one statement or one transaction; where PostgreSQL makes a
transaction wait for a lock that another one holds across an `await`
(`AccountMembership`), the transaction is split at that point and the lock is a
variable. An action carries the conflict checks and early returns that follow the
statement in the capability, up to the next `await`. Names are the source's.
Definitions whose comment starts with "mutant:" are wrong variants of the
definition that follows them; no action uses them. They record which plausible
change to the code each property is sensitive to.

### PaymentIntent

`attempt` is the row, its guards (`CanBeginCreate`, `HoldsLease`,
`CanUpdateStatus`) are the `WHERE` clauses of the repository, its updates
(`Released`, `BoundTo`, `Observed`) the `SET` clauses. `Claim`, `BeginCreate`,
`Dispatch`, `Bind`, `MarkUnknown`, `MarkFailed` are the steps of `create`; `Find`,
`Observe`, `Retrieve`, `UpdateStatus`, `ObserveAttach`, `UpdateAttached` those of
the other operations and of `create` on a bound row. `BeginCreate` compares with
any time between the previous answer and now, since the capability reads `now()`
before the statement reaches the database. `requests` are HTTP requests under
way: they survive the call that sent them. The provider is external: it remembers the
last idempotency key for `KeyRetention`, creates an intent for a key it does not
know, and moves intents on its own. The clock is one for all hosts (times are
passed from the host to SQL; skew between hosts is not modelled). `ready` is a
history variable.

### RefundLedger

`Claim` is the SERIALIZABLE transaction of `repository.claim` (PostgreSQL aborts
one of two that conflict; an aborted call ends like `Abandon`). `Answer` and `Mark`
follow the provider's decision, made once per key. `Mark` updates whatever the row
has become, as the code does. A sum of amounts is counted as units: an amount is a set
of so many `Units`, disjoint from those of every other source or key, so that a sum is
the cardinality of a union. `RefundOf` maps an operation, with the provider's decision
on its key, to the refund of `RefundPromise` it stands for: `Claim` maps to `Reserve`, the
provider's grant and the mark of a rejection to `Decide`, all else to stutters, the marks of late
or repeated answers included. Nothing in the code bounds the age of a retried
operation; the provider of the model keeps refund keys for ever.

### CheckoutAttempt

`Claim`, `AskProvider`, `Answer`, `MarkPending`, `MarkFailed` are the steps of
`create`, the marks unconditional as in the repository. `Cancel` is the host's.

### SettlementFulfillment

A *reaction* is one run of `settlement-fulfillment.ts`: `React` (reconcile reads
event and attempt), `ClaimFact` (the insert under the unique indexes on event,
payment and intent, and the comparison with the fact found instead), `Settle`
(the Commerce transaction) and one `Grant` per order item. `FulfillZero` is the
transaction of `zero-payment-fulfillment.ts`, followed by the same grants. The
host's own writes - cancelling orders and attempts, releasing redemptions of
cancelled orders, executing refund plans, revoking rights - are external actions,
enabled as the packages' operations and plans allow. Modelled is the direct
entitlement mode; `CLAIM_CODE` and `LICENSE` hand over to ports of the host.

### AccountMembership

`AuthorizeChange`, `AuthorizeRemoval`, `AuthorizeTransfer`, `AuthorizeIssue` and their
siblings are `account-access.ts` and the lifecycle rule of the calling capability;
the write follows in a later step, on whatever the state has become. Role change
and removal are two steps (`CountOwners`, `WriteMembership`) inside one transaction
that holds the `CustomerAccount` row; leave, transfer and close are one step each,
because everything they read they read under that lock. Accepting is
`ClaimInvitation` and `Join` under the lock of the invitation's row alone; inserting
a new membership waits for the account's row (foreign key), changing an existing
one does not. A call may die in any step (`Abandon`): its transaction rolls back.
SUSPENDED and CLOSURE_REQUESTED have the same effect as CLOSED on every guard
modelled and are represented by it. A resent invitation has a new token; older
tokens stay in the hands of whoever received them (`StartAccept`).

### OrderCheckout

One action per transaction of `start`: `Create` (the order with its draft invoice,
under the unique indexes on order and source), `PrepareRenewal`, `PriceAgain`
(a redemption found for a retried order), `PriceWithout` and `PriceOffer` (no offer,
or one priced and reserved under the offer's row lock), then `FulfillZero` or
`StartPayment`. `Recover` is a call that finds its order already there. `Reserve`,
`Release`, `StartSubscription`, `Renew`, `Cancel`, `Refund` are the packages' other
operations, called by the host when it likes; `Settle` is the Commerce side of a
payment, seen in detail in `SettlementFulfillment`; `Withdraw` and `Tick` end offers
and periods. An amount is the integer the code computes (`Discounted` rounds as
`discountAmount` does). Time is counted in billing periods. `late`, `released`,
`renewed` and `periods` are history.

### PlanCatalog

`CreateEdition`, `Synchronize` and three times `Upsert` are
`edition-plan-management.ts`, one action per statement, `Die` an end between them.
`Resolve` is the arithmetic of price resolution, `Quote` the lookup and resolution at
once (one read). `DecideRename` and `Rename` are the identity policy and the update
the host makes on its decision, two calls of the library. `RequestDeletion`, `CleanUp`
and `FinalizeDeletion` follow the deletion policies; the facts, the decision and the
delete are one action, because the policy leaves it to the host to gather the facts in
the transaction that acts on them. `Order` and `Leave` are the customer's. `host`
chooses at the start what an administration does, so that the instance is a union of
smaller ones.

### CommercialLease

`Request`, `RegisterKey` (find or bootstrap the signing key), `ReadFacts` (the ports to
the owners of licence, account, subscription and version) and then one of `Replay`,
`Issue`, `Refuse`: the SERIALIZABLE transaction. `Conflict` is PostgreSQL's abort, after
which the call reads the facts once more and then gives up. `Prepare` is an operation
recorded by the host; `Deactivate`, `Rotate` and `Change` are the environment's. `lease`
is a sequence in the order of insertion, because the newest lease is the predecessor
when none is named.

### IdentitySessions and IdentityFactors

All queries are by user id or by an unguessable hash, so one principal stands for
all. A call is a record with a program counter, and where the code awaits between a
read and a write there are two actions: `Authenticate` and `IssueSession`,
`StartReset` and `Reset`, `StartMagicMail` and `MailMagic`, `StartVerificationMail` and
`MailVerification`, `StartMagic` and `Magic` (the token's row lock is `Locked`), `StartVerify` and `Verify`, `StartRecent`, `Upgrade` and `CompleteRecent`.
An expiry is an event (`Lapse`, `FallDue`, `GrowStale`); what was compared with an earlier `now`
does not see it. `Review` and `Administrate` are other principals' acts.
`composed` is the set of capabilities the host has composed, chosen at the start:
two operations that touch the same rows are together in at least one of the
compositions of `MCIdentityFactors`.

## 3. Runs

| Run | Checks | Instance | Distinct states |
|---|---|---|---|
| `intent_observe` | `ObservationOrder`, `KeepsPromise` | 2 calls of create, method, attach on 2 hosts, provider moving through 3 statuses, stamps to 5 | 1 533 000 (symmetric) |
| `intent_resolves` | `TypeOK`, `ReadyAgrees`, `LeaseExclusion`, `OneIntent`, `Resolves` | 2 calls, 1 host, 2 fingerprints, 2 intents, lease 1, window 3, key kept for 4, 1 fault | 530 000 |
| `refund_ledger` | `Consistent`, `MoneyWithinSettlement`, `KeepsPromise`, `Resolves` | 2 calls, 2 sources, settlements of 2 and 1, the second answered 409 while a request is in work, 1 fault | 638 000 |
| `checkout_recovers` | `Consistent`, `HandedOutIsBound`, `Recovers` | 3 calls, 2 bodies, 3 faults | 26 000 |
| `settle_overlap` | `Consistent`, `RightsArePaidFor`, `NothingComesBack` | 2 reactions, 6 events on 2 attempts of one discounted order of 2 items, 1 fault | 483 000 (symmetric) |
| `settle_honoured` | `PaymentHonoured` | 1 reaction at a time, 2 payments of one order and a zero-total order, 2 items, 2 faults | 101 000 |
| `settle_zero` | `ZeroTotalHonoured`, violated | a zero-total order of 2 items, 2 instants, 1 fault | |
| `account_roles` | `TypeOK`, `OwnerRemains`, `MembersWereInvited`, `JoinsOncePerInvitation` | 2 calls, founder and 2 outsiders invited as OWNER and MEMBER, 1 resend each | 1 730 000 (symmetric) |
| `lease_seats` | `Consistent`, `SeatsRespected`, `OneLeasePerOperation` | 2 calls, 2 devices, 1 seat, 3 operations (activation, renewal, transfer), 2 keys, a licence that may be revoked, 1 fault | 1 220 000 (symmetric) |
| `order_checkout` | `OfferWithinLimits`, `BooksBalance`, `FreeOnlyIfAllowed`, `PromotionEnds`, `PaidTimeKept` | 2 calls, 5 orders of 2 accounts (a first subscription order, its 2 renewals, a host reservation, a perpetual licence), 2 offers, 1 fault | 156 000 (symmetric) |
| `identity` | `PasswordEndsSessions`, `LinksWorkOnce`, `AssuranceIsTrue`, `AttemptsRespected`, `FactorsWorkOnce`, `ChallengeIsBound` | 2 calls, 2 sessions, 2 links, 2 challenges in 12 compositions, 1 attempt, 3 passwords, 2 sets of codes | 1 055 000 (symmetric) |
| `plan_catalog` | `PlansAreTheLastSelection`, `QuotesAreSelections`, `NeverDeletedInUse`, `CodeNamesOneProduct` | 2 administrators, 2 products, 2 editions, 6 selections, 4 inputs, in 7 kinds of administration, 1 fault | 912 000 (symmetric) |

`Consistent` is the type invariant of its module together with the agreement of its
rows, described at its definition. `intent_resolves` keeps the provider's key longer
than the window; `TypeOK`, `ReadyAgrees` and `LeaseExclusion` are proved for every
retention and any number of hosts (section 4).

Why these bounds. Every hazard but one involves two calls: the one that acts on what it
read and the one that changes it; a third slot in `checkout_recovers` lets a call
overlap two others that disagree. Three lease tokens suffice for two calls and one
orphaned request. A clock of 2 with lease 1 lets one lease run out and be taken
over and the second one run out in turn. Two intents are one more than correct.
Two settlements, of different size, tell an operation bound to its settlement from
one bound to the latest. Two order items are the least with a state between the first
and the last grant. The offer of `order_checkout` grants two
discounted cycles, the first order takes one, and two renewals are one more than is left. One attempt per challenge meets the limit at the first wrong code;
the limit is compared in one place, whatever it is. Three passwords let a call outlive two
replacements. One seat and two devices are the least that compete; the licence is the only
fact that changes, the others act on the same test. Two owners need two principals, and the third is the outsider.
`MaxFaults` counts crashes, lost requests and lost answers together; one is enough
to orphan a lease, two to lose the answer of the takeover as well. Faults of
`PaymentIntent` strike only while the orphaned lease can still end before
`MaxTime`, so that the end of the clock is not a deadlock of the lease; this bounds
the instance, not the code.

`CHECK_DEADLOCK FALSE` is set because all the systems may stop: an organization whose
calls have ended and whose invitations are decided has nothing left to do, nor has an
attempt at the end of the bounded clock, a customer who has ordered or a principal whose
challenges are used up.

Assumptions about the provider. `OneIntent` needs a provider that remembers keys
longer than a create request can be under way after the claim: `beginCreate` compares
the window with a time read before the statement, and nothing bounds the delay of the
request after it. In `intent_resolves` the clock ends before the key is forgotten; the
theorem of section 4 states the condition for every clock (`Timely`). Without it TLC finds a second
intent (`MCPaymentIntent_late.cfg`), made by a request that arrives after the key has been forgotten. `ConflictAnswers` is the set of settlements for which the
provider answers 409 to a key whose first request is in work; `paymongo-adapter.ts:281`
maps that to a rejection, the operation becomes FAILED and its capacity is given to others, although the
first request may succeed later. `CapacityRespected` and `MoneyWithinSettlement`
except those settlements, for which TLC shows them violated, `KeepsPromise` leaves their
refunds out and `Consistent` excepts their FAILED operations; `Resolves` holds for all. The Payment Intent adapter
(`paymongo-payment-intent-adapter.ts:56`) treats 409 as an unknown outcome.

Fairness. `WF` on the steps of a call: an awaited database or provider call
returns or throws, and the event loop runs the continuation. `SF` on retries: the
caller tries again (the customer reopens the purchase, the provider redelivers a
webhook not answered with success, the owner repeats the refund); strong fairness
because slots are free only now and then. A retry uses the request the row was
claimed for, on a host with `creationEnabled`. Requests under way arrive (`WF`).
Faults are never fair and are bounded. `CommercialLease`, `OrderCheckout`, `PlanCatalog` and
`IdentityFactors` are checked for safety alone and state no fairness: their callers give up
after a failure, and nothing in the code promises another try.

### What does not hold

One run expects a violation:

* `settle_zero`: rights of a zero-total order carry the time of the call as start of
  validity (`zero-payment-fulfillment.ts:56`), so a retry after a death between two
  grants meets SOURCE_CONFLICT at the first right and never reaches the second.
  `zero-payment-fulfillment.test.ts:147` expects an idempotent retry.

Three more statements are kept at their modules with a configuration each, outside the
runs; TLC finds each violated:

* `PendingStays` (`MCCheckoutAttempt_pending.cfg`): `markFailed` updates by id alone
  (`postgres-checkout-attempt-repository.ts:124`). Of two overlapping calls one binds
  the checkout and the other, whose request failed, turns the PENDING row into
  FAILED. While it is FAILED a payment of the checkout already handed out is refused
  as CHECKOUT_MISMATCH. `CHECKOUT-ATTEMPT-BOUNDARY.md:30` speaks of a PENDING attempt
  as bound. `checkout_recovers` shows the way back: a further `create` binds it again.
* `LastOwnerKept` (`MCAccountMembership_lastowner.cfg`): accepting an invitation changes
  an existing membership without the account's lock, between the count of owners and
  the write of a role change. `CAPABILITIES.md:29` says the last OWNER row is not demoted.
* `EnabledIsNotReset` (`MCIdentityFactors_restart.cfg`): `startEnrollment` reads the
  method without a lock and upserts it to pending, also when another enrollment has
  enabled it in between (`postgres-mfa-enrollment-start-repository.ts:53`).
  `mfa-enrollment-start.certify.ts:152` expects an enabled method to stay.

`OwnerRemains` is therefore checked, in `account_roles`, for organizations that invite
only principals who are not members (`OutsidersInvited`), and the `identity` run assumes a host
that starts no enrollment while another is being decided (`Serialised`).

## 4. Proofs

`PaymentIntentProofs` proves, for every number of calls, hosts, tokens, intents and
fingerprints and every lease, window, retention, clock and stamp bound:

* `TypeCorrect`: `Spec => []TypeOK`.
* `ReadyAgreesCorrect`: `Spec => []ReadyAgrees`.
* `LeaseExclusionCorrect`: `Spec => []LeaseExclusion`.
* `OneIntentCorrect`: `Spec /\ []Timely => []OneIntent`.
* `ObservationOrderCorrect`: `Spec => ObservationOrder`.
* `PromiseKept`: `Spec => KeepsPromise`, that is, the attempt implements
  `PaymentIntentPromise`.

The assumption is `ConstantsAssumption`, for `OneIntentCorrect` also the hypothesis `Timely`. `ReadyAgrees` is not inductive: it
says nothing of calls that are about to hand out an intent. `Inv` adds `RowInv` (the
row is bound exactly when its status has been observed, to an intent that exists)
and `LocalInv` (a call past the observation works on the intent the row is bound to;
a call in `bind` carries an intent the provider has made). Binding then happens only
on an unbound row, and every later answer names the bound intent, whoever lost
whichever lease. `LeaseExclusion` needs `LeaseInv` besides: tokens are never shared,
and an unexpired lease a waiting call believes it holds is the one in the row; a
takeover is possible only when that lease has run out, which is what
`CanBeginCreate` guards. `OneIntent` needs `OneInv`: all requests carry the fingerprint the row was
claimed with (`RequestInv`), and an intent that exists is the one the provider's key
names, a key remembered at least until `KeyHorizon`, which is `KeyRetention` after the claim (`KeyInv`).
`Timely` says that no request is under way after that, so one that arrives finds the
key. `beginCreate` gives out no lease at a time past `expiresAt` (`KeyHorizon` less
`KeyRetention - Window`), so a provider that keeps keys longer than the window makes `Timely` a bound on
the delay between reading the clock and the request's arrival, which no code in the
repository enforces: it is a hypothesis. `ObservationOrder` follows from `StampInv`: a
stamp taken by `observationAt` exceeds the one of the row that was read. `PromiseKept` follows from `Inv` step by step: `Bind`,
`BindFails` map to `Bind`, the updates to `Observe`, `MarkFailed` to `Refuse`, all
others to stutters.

`AccountMembershipProofs` proves, for any number of calls, principals and
invitations:

* `TypeCorrect`: `Spec => []TypeOK`, including that a row is locked exactly by the
  call inside its transaction.
* `MembersWereInvitedCorrect`: `Spec => []MembersWereInvited`.
* `JoinsOnceCorrect`: `Spec => JoinsOncePerInvitation`.
* `OwnerRemainsCorrect`: `OutsidersInvited` implies `Spec => []OwnerRemains`.

The assumption is `MembershipAssumption`, for the last one also `OutsidersInvited`,
without which `MCAccountMembership_lastowner.cfg` shows how an owner is lost. `Inv` says, call by
call (`LocalInv`), what a call may rely on between its steps: the target of a role
change in progress is a member, the row of an acceptance in progress is PENDING, and
an acceptance concerns the invitee. Locks make this stable under the steps of others
(`CallStep`). `OwnerRemains` needs `OwnerInv`: a call about to end an OWNER membership
has seen another one that nobody can end before it writes. The only step that changes
a role while another call holds the account is `Join`; a pending invitation of an
outsider names no member (`PendingAreOutsiders`), so its insert waits for that lock.

`SaleProofs` holds the proofs about `CheckoutAttempt` and `PlanCatalog`, two modules that share no
state; `PlanCatalog` names its specification `CatalogSpec` for that reason.

For `CheckoutAttempt`, `ConsistentCorrect` and `HandedOutIsBoundCorrect` (assumption
`CheckoutAssumption`) rest on one observation: every request for the attempt carries the
key of its row and the body the row was claimed with, so the provider can have opened
only `TheCheckout`. `Inv` says so of the requests, of the calls that hold an answer, of
the row and of everything handed out. `markFailed` is unconditional, and yet
never changes the checkout the row names.

For `PlanCatalog`, `NeverDeletedInUseCorrect`, `CodeNamesOneProductCorrect`,
`PlansAreTheLastSelectionCorrect` and `QuotesAreSelectionsCorrect` (assumption `CatalogAssumption`,
which types the constants) hold for any number of products, editions and administrators and every selection,
map of codes and kind of administration. The invariant `CatalogInv` has five parts:

* `Tables` types the rows, and `ProductInv` says that a product in use is not deleted and that a
  deleted one was cleaned up.
* `CodeInv`: codes differ, and the orders of a product carry its code. The latter is not
  inductive by itself, since a rename writes what was decided earlier: it speaks of the code a decided
  rename is about to give as well. An order placed in between makes the product `raced`.
* `SettingInv`: of a call of `synchronize` that has overlapped no other, the rows
  behind it are as it asked for, and the amounts it will end with follow from the rows as they
  are now (`AloneOn`).
  When its third upsert is through, this is `SettledInv`: all three rows are those of its selection.

`PlansAreTheLastSelection` follows from `SettledInv`. `QuotesAreSelections` is about arithmetic: `HalfUp`
is the nearest integer to the quotient (`YearlyPrice`), so the yearly price is twelve months less the discount, to
half a minor unit, for every amount and discount.

`RefundLedgerProofs` (`ConsistentCorrect`, `CapacityRespectedCorrect`,
`MoneyWithinSettlementCorrect`, `PromiseKept`; assumption `RefundAssumption`) proves the two limits for
settlements and amounts of any size and any number of sources and calls. Because sums are sizes of unions of
`Units`, they need facts about finite sets only. `CapacityInv` bounds the reserved units
and says that they are finite; `Claim` keeps it by its guard `Fits`, and every mark takes units away
or leaves them, because an operation that is FAILED has been decided so under the one key it
has (`RowInv`, `DecisionInv`). The money granted is then part of what is reserved:
requests, decisions and answers name the row's settlement and amount (`OfRow`).
`PromiseKept` is `Spec => KeepsPromise`: the ledger and the provider implement `RefundPromise`.
Outside `ConflictAnswers` the units `RefundPromise` holds are the reserved ones (`HeldUnits`), so the guard
`Fits` of a claim is the abstract guard; `RefundFacts` says that an operation
whose refund was granted is never FAILED, so that `Mark` either refuses a refund or changes nothing
the promise sees, however late it is; `PositiveInv` keeps the amounts of calls above zero. `CapacityRespected`
speaks of the ledger's rows alone. It is a theorem and no run's property, because the run checks the guard
of the promise's `Reserve`, which bounds the same rows and the provider's refunds.

`SettlementFulfillmentProofs` (`ConsistentCorrect`, `RightsArePaidForCorrect`,
`NothingComesBackCorrect`; assumption `FulfillmentAssumption`). `Inv` follows a payment
through the packages: a fact is backed by a stored event (`FactInv`), a reaction about to settle or to
grant stands on such a fact or on a total of zero (`ClaimInv`, `SettleInv`, `GrantInv`), and a
right is justified by the same evidence (`RightInv`). That the rights of an order share their
evidence is not inductive by itself: two reactions on different evidence may grant at once. The
invariant says why the second one stops: whoever comes to a later item has
granted, or found, the first one on its own evidence. `Grows` collects what no step takes back
(events, facts, PAID or REFUNDED orders, evidence); with it a step of one reaction keeps the
claims of the others.

`OrderCheckoutProofs` (`OfferWithinLimitsCorrect`, `BooksBalanceCorrect`,
`FreeOnlyIfAllowedCorrect`, `PromotionEndsCorrect`, `PaidTimeKeptCorrect`; assumption
`CheckoutAssumption`). The properties are consequences of one invariant of ten parts:

* `Booked` says of every order which price it has: a base (as created, or the list price of a
  renewal) or that base discounted by its offer (`PriceOf`), with the lines that make it up.
  `BooksBalance` follows, and `FreeOnlyIfAllowed`, since an offer was applied where
  `ZeroAllowed` held. A renewal inherits the offer of its subscription, so the latter was allowed at the
  price of the subscription; that this is the renewal's price too needs a price above zero:
  hence the hypothesis `PlansArePriced`, which `edition-plan-management.ts:57` guarantees
  for the plans it writes.
* `PricedOnce` and `LocalInv`: a checkout that died and was recovered prices its order again.
  It finds it at the price it had, because a discounted order has two lines and the renewal's
  pricing refuses it, or has one line and a final price equal to its list price; and a subscription
  that had no discounted cycle left when the order got a new offer has none later.
* `LimitInv` counts the holders of an offer that were never released; `PlaceTaken` is the one step that adds one.
* `PromotionEnds` compares renewals priced before their payment with cycles counted after it.
  `PromotionInv` bounds the promoted renewals the subscription knows of by its consumed
  cycles, the first of which the first order took, and leaves two for a renewal still under
  way; `LiveInv` says there is one such renewal at a time, which `MayRenew`, the host's part, ensures.

`CommercialLeaseProofs` (`ConsistentCorrect`, `SeatsRespectedCorrect`,
`OneLeasePerOperationCorrect`; assumption `LeaseAssumption`), for any number of calls,
devices, operations and keys, infinitely many included: the active devices are
finite by `SeatInv`. `OperationInv` and `LeaseInv` tie operations and leases one to one, which
makes a replay hand out the lease the operation has; `ChainInv`, the last conjunct of `Consistent`,
is inductive because the predecessor the server chooses is the device's newest lease. `KeyInv`: the
bootstrap key is registered before any key is active.

`IdentityFactorsProofs` proves the invariants of `IdentitySessions` and `IdentityFactors`
(`AttemptsRespectedCorrect`, `PasswordEndsSessionsCorrect`, `LinksWorkOnceCorrect`,
`FactorsWorkOnceCorrect`, `ChallengeIsBoundCorrect`; assumptions `SessionsAssumption`,
`FactorsAssumption`) for any number of calls, sessions, links, challenges and compositions
of a host. A link, challenge or set of codes that was used once is `used`, and every use
re-reads that in its own statement; the exception is the login link, whose row lock is
held from `StartMagic` on (`LockInv`). `LocalInv` says what a call carries from its reading
to its writing. `AssuranceIsTrueCorrect` has the hypothesis `Serialised`, without which
`MCIdentityFactors_restart.cfg` shows how MFA is reset; its invariant adds `OrderInv`: while
one call has found the method disabled and will reset it, it is disabled and no other call decides an
enrollment.

In each of these modules `Invariance` is `Spec => []Inv`, and there is one lemma per action of `Next`.
Frame lemmas (for instance `CallStep`, `OrdersKept`, `Grows`) say what a step leaves alone, so that an
action's proof treats only the parts it can disturb.

With these every safety invariant and action property of the runs that pass is a theorem.
Model-checked only: all liveness (`Resolves`, `Recovers`, `PaymentHonoured`), because
the prover handles neither fairness nor ENABLED. The value of `OrderCheckout`'s `Discounted` is
proved to be a natural number and otherwise left as it is: its rounding is checked by the run.

## 5. Not modelled, and simplifications

General:

* Clock skew between hosts; the stamps of observations are compared across hosts as
  the code does, with one clock.
* Payload contents, signatures, redaction, formatting, currencies (one currency).
* Database errors inside a transaction are the death of the call: the
  transaction has no effect, or (for `bind`, `markPending`) its effect is there and
  its answer lost.
* The components with status `not_modelled` in `PROJECT.json`: they read only, decide
  without state, or write one row by one statement under a unique index.

Payments, entitlements, accounts:

* `CLAIM_CODE` and `LICENSE` fulfilment, `settlement-reaction.ts` (the older
  reaction, without invoices).
* Refund operations have no idempotency window; a refund or a checkout retried after
  the provider forgot its key is not modelled.
* The host refunds the order while the reaction grants: the right granted last stays on
  a REFUNDED order until the host revokes it. The model allows it; `RightsArePaidFor`
  asks that the right was paid for.
* An organization that closes between the lifecycle read of an acceptance and its
  insert gains a member (`postgres-invitation-acceptance-repository.ts:69`); the model
  allows it, and no property excludes it.

`OrderCheckout`:

* Orders have one line; line discounts, several lines and the terms a customer accepts are left
  out, account and legal checks are the host's. The APPLY transition of a redemption is left
  out: settling applies the redemption. The answer of Payments is its attempt or a refusal
  (a source already taken, items that do not add up); what happens to that attempt is in
  `CheckoutAttempt` and `PaymentIntent`.
* `BooksBalance` excepts the tax of renewals: the renewal price
  (`postgres-renewal-checkout-pricing-repository.ts:161`) leaves it out.
* `OfferWithinLimits` excepts redemptions released by a cancellation and applied again
  by a late payment (`postgres-settlement-fulfillment-repository.ts:144`).
* A public promotion at its maximum refuses a checkout that names no code, since the
  best promotion is chosen before its limits are looked at; repeating `renew` for one
  order extends the subscription again; pricing a CANCELLED order answers PRICED. The model
  does so too; no property says otherwise.

`PlanCatalog`:

* Descriptive fields, product kinds, legacy price rows, and licensing's product versions are
  left out. The clean-up of stored objects is the host's. Orders are placed only
  while the product exists. The patterns of codes and slugs are the map `Clean`.
* Publishing ignores a pending request of deletion; `updateProduct` given a product id changes the code
  past the policy, so the host is taken to use the policy. A creation that dies after
  its edition leaves it active without plans, and repeating it is a CONFLICT;
  `Synchronize` mends it. `CodeNamesOneProduct` excepts products ordered between the decision on a
  rename and the rename.

`CommercialLease`:

* Expiry of leases, the contents of an envelope and the offline clock. Operations created
  by `issue` record no metadata, so that nothing but the action and the device can be
  compared on replay, as in the model. A predecessor named by the client may
  already be superseded; a transfer does not deactivate the old device; a lease may be issued for a
  licence revoked after the facts were read. The code does all three, and
  `Consistent` and `SeatsRespected` are stated so as to hold regardless.
* All hosts share one bootstrap key.

`IdentitySessions`, `IdentityFactors`:

* The touch of `lastSeenAt`; how a primary method is proved (a wrong password ends the call);
  registration and the binding of Google subjects. A link or a challenge is mailed in the
  step that inserts it. The transaction that replaces the unused links is one step: two of
  them at the same time may in the code leave two usable links, in the model one. One recovery code per set. An enrollment that lapses
  is its challenge that lapses.
* Regenerating recovery codes does not look at MFA again, the commit of a password change looks
  at neither session nor credential again, other reset links stay valid after a reset,
  and `validate` ignores the account's lifecycle: the model does the same.
* `issueSession` re-reads the status of the principal and nothing else. A login that has
  read the old password may insert its session after a reset: it is dated with the new
  version, and `PasswordEndsSessions` says nothing of it. A session decided before a switch of MFA and
  inserted after it is marked `raced` and excepted from `AssuranceIsTrue`.

## 6. Plan

Done: the modules of section 2 with their runs, and the proofs of section 4.

Next, in this order:

1. Composition of `CheckoutAttempt` with `SettlementFulfillment`, so that the
   external `FailAttempt` becomes the checkout's own `MarkFailed`.
2. `SupportTicket`, `LegalAcceptance`, `GracePeriod`: small state machines of one row.

Runs are few: each asks several questions of one instance, and liveness shares an
instance with safety where symmetry is not needed.
