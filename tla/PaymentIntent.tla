--------------------------- MODULE PaymentIntent ---------------------------
(***************************************************************************)
(* One Payment Intent attempt of @bke/payments: the row of table           *)
(* PaymentIntentAttempt that belongs to one sourceReference, the calls of  *)
(* createPaymentsPaymentIntentCapability that race for it from several     *)
(* hosts, the payment provider behind them, and the clock that ends leases *)
(* and idempotency keys.                                                   *)
(*                                                                         *)
(* Every repository method is one SQL statement, hence one atomic action;  *)
(* every `await` of the capability is a boundary between two actions.      *)
(***************************************************************************)
EXTENDS Integers, FiniteSets

CONSTANTS
    Calls,          \* slots for concurrent calls of the capability
    Hosts,          \* processes, each with one capability instance
    EnabledHosts,   \* those configured with creationEnabled
    Operations,     \* the operations callers use
    ProviderMoves,  \* statuses an intent may move to at the provider
    Fingerprints,   \* request fingerprints a caller may present
    Tokens,         \* lease tokens: randomUUID never returns one in use
    Intents,        \* identities the provider may give a Payment Intent
    None,           \* SQL NULL for tokens, intents and fingerprints
    Lease,          \* leaseMilliseconds
    Window,         \* IDEMPOTENCY_WINDOW_MS
    KeyRetention,   \* how long the provider remembers an idempotency key
    MaxTime,        \* bound on the clock
    MaxStamp,       \* bound on observation stamps
    MaxFaults       \* bound on crashes, lost answers and lost requests

VARIABLES
    attempt,            \* the PaymentIntentAttempt row ("NONE" before the claim)
    call,               \* the local state of every call
    lastObservation,    \* per host: the closure variable of the capability
    clock,              \* now(), the same on every host
    requests,           \* create requests under way: lease token, idempotency key
    key,                \* the provider's memory of the last idempotency key
    intents,            \* the provider's Payment Intents
    ready,              \* history: intents some caller received as READY
    faults              \* faults so far, for the bound

vars == <<attempt, call, lastObservation, clock, requests, key, intents, ready, faults>>

----------------------------------------------------------------------------
\* Statuses. The repository upper-cases the provider's words.
Open == {"CREATING", "UNKNOWN"}
Final == {"SUCCEEDED", "CANCELLED"}
Live == {"AWAITING_PAYMENT_METHOD", "AWAITING_NEXT_ACTION", "PROCESSING"}
Observable == Live \cup Final
AttemptStatus == Open \cup Observable \cup {"FAILED"}

ASSUME ConstantsAssumption ==
    /\ EnabledHosts \subseteq Hosts
    /\ Operations \subseteq {"create", "method", "attach"}
    /\ ProviderMoves \subseteq Observable
    /\ None \notin Intents \cup Tokens \cup Fingerprints
    /\ {Lease, Window, KeyRetention} \subseteq Nat \ {0}
    /\ {MaxTime, MaxStamp, MaxFaults} \subseteq Nat

NoTime == -1        \* SQL NULL for times: below every clock value
Time == 0 .. MaxTime
Stamp == 0 .. MaxStamp

NoAttempt == [status |-> "NONE", fingerprint |-> None, intent |-> None,
              token |-> None, leaseUntil |-> NoTime, expiresAt |-> NoTime,
              observedAt |-> NoTime]

\* pc values at which a call works on an intent the record is bound to ...
Bound == {"observe", "retrieve", "update", "observeAttach", "attach", "updateAttached"}
\* ... and at which it works under a lease of its own.
Leased == {"dispatch", "creating", "bind", "unknown", "rejected"}

IdleCall == [pc |-> "idle", op |-> "create", host |-> None, fingerprint |-> None,
             at |-> 0, intent |-> None, seen |-> NoTime, token |-> None,
             until |-> NoTime, stamp |-> NoTime, got |-> "NONE"]

\* Types, and the CHECK constraint of migration 0007: a bound row has no lease.
TypeOK ==
    /\ attempt.leaseUntil # NoTime => attempt.intent = None
    /\ attempt \in [status : AttemptStatus \cup {"NONE"},
                    fingerprint : Fingerprints \cup {None},
                    intent : Intents \cup {None}, token : Tokens \cup {None},
                    leaseUntil : Int, expiresAt : Int,
                    observedAt : Stamp \cup {NoTime}]
    /\ call \in [Calls -> [pc : {"idle", "claim", "begin", "find"} \cup Bound \cup Leased,
                           op : {"create", "method", "attach"},
                           host : Hosts \cup {None},
                           fingerprint : Fingerprints \cup {None},
                           at : Time, intent : Intents \cup {None},
                           seen : Stamp \cup {NoTime}, token : Tokens \cup {None},
                           until : Int, stamp : Stamp \cup {NoTime},
                           got : Observable \cup {"NONE"}]]
    /\ lastObservation \in [Hosts -> Stamp]
    /\ clock \in Time
    /\ requests \subseteq [token : Tokens, key : Fingerprints]
    /\ key \in [name : Fingerprints \cup {None}, intent : Intents \cup {None}, until : Int]
    /\ intents \in [Intents -> Observable \cup {"NONE"}]
    /\ ready \subseteq Intents
    /\ faults \in 0 .. MaxFaults

Init ==
    /\ attempt = NoAttempt
    /\ call = [c \in Calls |-> IdleCall]
    /\ lastObservation = [h \in Hosts |-> 0]
    /\ clock = 0
    /\ requests = {}
    /\ key = [name |-> None, intent |-> None, until |-> NoTime]
    /\ intents = [i \in Intents |-> "NONE"]
    /\ ready = {}
    /\ faults = 0

----------------------------------------------------------------------------
\* The repository: guards and row updates of its SQL statements.

Inserted(fp, claimedAt) ==
    [NoAttempt EXCEPT !.status = "CREATING", !.fingerprint = fp,
                      !.expiresAt = claimedAt + Window]

BeginsDespiteLease(t) ==                 \* mutant: a held lease is not respected
    /\ attempt.intent = None
    /\ attempt.status \in Open
    /\ attempt.expiresAt > t

\* mutant: only a lease given back can be replaced
BeginsOnlyWhenFree(t) ==
    /\ attempt.intent = None
    /\ attempt.status \in Open
    /\ attempt.leaseUntil = NoTime
    /\ attempt.expiresAt > t

CanBeginCreate(t) ==
    /\ attempt.intent = None
    /\ attempt.status \in Open
    /\ attempt.leaseUntil <= t
    /\ attempt.expiresAt > t

\* The WHERE clause shared by bindPaymentIntent, markUnknown and markFailed.
HoldsLease(token) ==
    /\ attempt.intent = None
    /\ attempt.token = token
    /\ attempt.status \in Open

Released(status) ==
    [attempt EXCEPT !.status = status, !.token = None, !.leaseUntil = NoTime]

BoundWithLease(i, status, stamp) ==      \* mutant: the lease columns stay set
    [attempt EXCEPT !.status = status, !.intent = i, !.observedAt = stamp]

BoundStatusOnly(i, status, stamp) ==     \* mutant: the intent's id is not written
    [Released(status) EXCEPT !.observedAt = stamp]

BoundTo(i, status, stamp) ==
    [Released(status) EXCEPT !.intent = i, !.observedAt = stamp]

\* mutant: an observation may reopen a final status
UpdatesFinal(status, stamp) == attempt.intent # None /\ attempt.observedAt < stamp

CanUpdateStatus(status, stamp) ==
    /\ attempt.intent # None
    /\ attempt.observedAt < stamp
    /\ attempt.status \in Final => attempt.status = status

Observed(status, stamp) ==
    IF CanUpdateStatus(status, stamp)
    THEN [attempt EXCEPT !.status = status, !.observedAt = stamp]
    ELSE attempt

----------------------------------------------------------------------------
\* Helpers of the capability.

Becomes(c, local) == call' = [call EXCEPT ![c] = local]

Larger(a, b) == IF a >= b THEN a ELSE b

\* mutant: only this process's clock and counter, not the record it has read
ObservationByClock(c) == Larger(clock, lastObservation[call[c].host] + 1)

\* Math.max(now(), record.statusObservedAt + 1, lastObservation + 1)
ObservationAt(c) ==
    Larger(clock, Larger(call[c].seen + 1, lastObservation[call[c].host] + 1))

Stamped(c, pc) ==
    /\ ObservationAt(c) <= MaxStamp
    /\ lastObservation' = [lastObservation EXCEPT ![call[c].host] = ObservationAt(c)]
    /\ Becomes(c, [call[c] EXCEPT !.pc = pc, !.stamp = ObservationAt(c)])

Goto(c, pc) == Becomes(c, [call[c] EXCEPT !.pc = pc])

\* The call returns; whatever it held is gone with its stack frame.
Return(c) == Becomes(c, IdleCall)

\* The record a call has just read names an intent: go on to observe it.
GotoObserve(c) ==
    Becomes(c, [IdleCall EXCEPT !.pc = "observe", !.op = call[c].op, !.host = call[c].host,
                                !.intent = attempt.intent, !.seen = attempt.observedAt])

\* snapshot(): READY only when record and provider agree on the status.
Answer(c, status) ==
    /\ Return(c)
    /\ ready' = IF status = call[c].got THEN ready \cup {call[c].intent} ELSE ready

TokensInUse ==
    {attempt.token} \cup {r.token : r \in requests} \cup {call[c].token : c \in Calls}

\* Faults are bounded, and strike only while a lease they orphan can still run
\* out before MaxTime.
Fault ==
    /\ faults < MaxFaults
    /\ clock + Lease <= MaxTime
    /\ faults' = faults + 1

----------------------------------------------------------------------------
\* create

Start(c) ==
    /\ call[c].pc = "idle"
    /\ "create" \in Operations
    /\ \E h \in Hosts, fp \in Fingerprints :
          Becomes(c, [IdleCall EXCEPT !.pc = "claim", !.host = h, !.fingerprint = fp,
                                      !.at = clock])
    /\ UNCHANGED <<attempt, lastObservation, clock, requests, key, intents, ready, faults>>

\* repository.claim, the conflict check on its record and the early returns.
Claim(c) ==
    /\ call[c].pc = "claim"
    /\ attempt' = IF attempt.status = "NONE"
                  THEN Inserted(call[c].fingerprint, call[c].at)
                  ELSE attempt
    /\ \/ /\ attempt'.fingerprint # call[c].fingerprint    \* SOURCE_CONFLICT
          /\ Return(c)
       \/ /\ attempt'.fingerprint = call[c].fingerprint
          /\ attempt.intent # None
          /\ GotoObserve(c)
       \/ /\ attempt'.fingerprint = call[c].fingerprint
          /\ attempt.intent = None
          /\ call[c].host \notin EnabledHosts              \* CREATION_DISABLED
          /\ Return(c)
       \/ /\ attempt'.fingerprint = call[c].fingerprint
          /\ attempt.intent = None
          /\ call[c].host \in EnabledHosts
          /\ Becomes(c, [call[c] EXCEPT !.pc = "begin", !.at = clock])
    /\ UNCHANGED <<lastObservation, clock, requests, key, intents, ready, faults>>

\* repository.beginCreate. Its `now` was read before the statement reached the
\* database, at some time between the claim's answer and this step.
BeginCreate(c) ==
    /\ call[c].pc = "begin"
    /\ \E t \in call[c].at .. clock :
          \/ /\ CanBeginCreate(t)                           \* ACQUIRED
             /\ \E token \in Tokens \ TokensInUse :
                   /\ attempt' = [attempt EXCEPT !.token = token, !.leaseUntil = t + Lease]
                   /\ Becomes(c, [call[c] EXCEPT !.pc = "dispatch", !.token = token,
                                                 !.until = t + Lease, !.at = 0])
          \/ /\ attempt.intent # None                       \* ALREADY_BOUND
             /\ attempt' = attempt
             /\ GotoObserve(c)
          \/ /\ attempt.intent = None                       \* EXPIRED or BUSY
             /\ ~CanBeginCreate(t)
             /\ attempt' = attempt
             /\ Return(c)
    /\ UNCHANGED <<lastObservation, clock, requests, key, intents, ready, faults>>

\* mutant: a key of its own for every dispatch
KeyPerLease(c) == call[c].token

\* The key is a hash of provider, source and fingerprint, stored by the claim.
IdempotencyKey(c) == call[c].fingerprint

\* observationAt, then provider.createPaymentIntent leaves the host.
Dispatch(c) ==
    /\ call[c].pc = "dispatch"
    /\ Stamped(c, "creating")
    /\ requests' = requests \cup {[token |-> call[c].token, key |-> IdempotencyKey(c)]}
    /\ UNCHANGED <<attempt, clock, key, intents, ready, faults>>

\* The row bindPaymentIntent finds when its UPDATE matched nothing.
FindsOwnBinding(c) == attempt.intent = call[c].intent

\* bindPaymentIntent, then snapshot. Without a matching row it throws.
Bind(c) ==
    /\ call[c].pc = "bind"
    /\ \/ /\ HoldsLease(call[c].token)
          /\ attempt' = BoundTo(call[c].intent, call[c].got, call[c].stamp)
          /\ Answer(c, call[c].got)
       \/ /\ ~HoldsLease(call[c].token)
          /\ FindsOwnBinding(c)
          /\ attempt' = attempt
          /\ Answer(c, attempt.status)
       \/ /\ ~HoldsLease(call[c].token)
          /\ ~FindsOwnBinding(c)
          /\ Goto(c, "unknown")
          /\ UNCHANGED <<attempt, ready>>
    /\ UNCHANGED <<lastObservation, clock, requests, key, intents, faults>>

\* bindPaymentIntent fails as a database call, before or after its effect.
BindFails(c) ==
    /\ call[c].pc = "bind"
    /\ Fault
    /\ \/ attempt' = attempt
       \/ /\ HoldsLease(call[c].token)
          /\ attempt' = BoundTo(call[c].intent, call[c].got, call[c].stamp)
    /\ Goto(c, "unknown")
    /\ UNCHANGED <<lastObservation, clock, requests, key, intents, ready>>

\* The catch branches: markUnknown after an unknown outcome or an answer that
\* does not match the record, markFailed after PROVIDER_REJECTED.
MarkUnknown(c) ==
    /\ call[c].pc = "unknown"
    /\ attempt' = IF HoldsLease(call[c].token) THEN Released("UNKNOWN") ELSE attempt
    /\ Return(c)
    /\ UNCHANGED <<lastObservation, clock, requests, key, intents, ready, faults>>

MarkFailed(c) ==
    /\ call[c].pc = "rejected"
    /\ attempt' = IF HoldsLease(call[c].token) THEN Released("FAILED") ELSE attempt
    /\ Return(c)
    /\ UNCHANGED <<lastObservation, clock, requests, key, intents, ready, faults>>

----------------------------------------------------------------------------
\* createPaymentMethod and attachPaymentMethod, by the attempt's id.

StartContinuation(c) ==
    /\ call[c].pc = "idle"
    /\ attempt.status # "NONE"
    /\ \E h \in Hosts, op \in Operations \ {"create"} :
          Becomes(c, [IdleCall EXCEPT !.pc = "find", !.op = op, !.host = h])
    /\ UNCHANGED <<attempt, lastObservation, clock, requests, key, intents, ready, faults>>

Find(c) ==
    /\ call[c].pc = "find"
    /\ \/ /\ attempt.intent # None
          /\ attempt.status \notin Final \cup {"FAILED"}
          /\ GotoObserve(c)
       \/ /\ attempt.intent = None \/ attempt.status \in Final \cup {"FAILED"}
          /\ Return(c)
    /\ UNCHANGED <<attempt, lastObservation, clock, requests, key, intents, ready, faults>>

----------------------------------------------------------------------------
\* Observing the bound intent: stamp, sample, write. Shared by all operations.

Observe(c) ==
    /\ call[c].pc = "observe"
    /\ Stamped(c, "retrieve")
    /\ UNCHANGED <<attempt, clock, requests, key, intents, ready, faults>>

Retrieve(c) ==
    /\ call[c].pc = "retrieve"
    /\ Becomes(c, [call[c] EXCEPT !.pc = "update", !.got = intents[call[c].intent]])
    /\ UNCHANGED <<attempt, lastObservation, clock, requests, key, intents, ready, faults>>

UpdateStatus(c) ==
    /\ call[c].pc = "update"
    /\ attempt' = Observed(call[c].got, call[c].stamp)
    /\ \/ /\ call[c].op = "create"
          /\ Answer(c, attempt'.status)
       \/ /\ call[c].op = "attach"
          /\ attempt'.status = "AWAITING_PAYMENT_METHOD"
          /\ call[c].got = "AWAITING_PAYMENT_METHOD"
          /\ Becomes(c, [call[c] EXCEPT !.pc = "observeAttach", !.seen = attempt'.observedAt])
          /\ ready' = ready
       \/ /\ \/ call[c].op = "method"
             \/ /\ call[c].op = "attach"
                /\ {attempt'.status, call[c].got} # {"AWAITING_PAYMENT_METHOD"}
          /\ Return(c)
          /\ ready' = ready
    /\ UNCHANGED <<lastObservation, clock, requests, key, intents, faults>>

ObserveAttach(c) ==
    /\ call[c].pc = "observeAttach"
    /\ Stamped(c, "attach")
    /\ UNCHANGED <<attempt, clock, requests, key, intents, ready, faults>>

UpdateAttached(c) ==
    /\ call[c].pc = "updateAttached"
    /\ attempt' = Observed(call[c].got, call[c].stamp)
    /\ Return(c)
    /\ UNCHANGED <<lastObservation, clock, requests, key, intents, ready, faults>>

----------------------------------------------------------------------------
\* The provider (external) and its answers.

KeyKnown(k) == key.name = k /\ key.until > clock

\* A create request arrives: a key still remembered names its intent again,
\* any other key makes a new one.
Resolve(k, i) ==
    IF KeyKnown(k)
    THEN /\ i = key.intent
         /\ UNCHANGED <<key, intents>>
    ELSE /\ intents[i] = "NONE"
         /\ key' = [name |-> k, intent |-> i, until |-> clock + KeyRetention]
         /\ intents' = [intents EXCEPT ![i] = "AWAITING_PAYMENT_METHOD"]

Waiting(c, r) == call[c].pc = "creating" /\ call[c].token = r.token

\* The call that sent the request receives the answer if it still waits for it.
ProviderCreate(r) ==
    /\ requests' = requests \ {r}
    /\ \E i \in Intents :
          /\ Resolve(r.key, i)
          /\ call' = [c \in Calls |->
                        IF Waiting(c, r)
                        THEN [call[c] EXCEPT !.pc = "bind", !.intent = i, !.got = intents'[i]]
                        ELSE call[c]]
    /\ UNCHANGED <<attempt, lastObservation, clock, ready, faults>>

\* PROVIDER_REJECTED: a 4xx answer, or an answer the adapter cannot accept
\* although the provider did create the intent.
ProviderReject(r) ==
    /\ Fault
    /\ requests' = requests \ {r}
    /\ \/ UNCHANGED <<key, intents>>
       \/ \E i \in Intents : Resolve(r.key, i)
    /\ call' = [c \in Calls |->
                  IF Waiting(c, r) THEN [call[c] EXCEPT !.pc = "rejected"] ELSE call[c]]
    /\ UNCHANGED <<attempt, lastObservation, clock, ready>>

\* PROVIDER_UNAVAILABLE (network error, 409, 5xx) or an answer that does not
\* match the record. The request may be lost, or still be on its way.
OutcomeUnknown(c) ==
    /\ call[c].pc = "creating"
    /\ Fault
    /\ requests' \in {requests, {r \in requests : r.token # call[c].token}}
    /\ Goto(c, "unknown")
    /\ UNCHANGED <<attempt, lastObservation, clock, key, intents, ready>>

\* The attach request is served; otherwise the call ends by Abandon.
ProviderAttach(c) ==
    /\ call[c].pc = "attach"
    /\ intents[call[c].intent] = "AWAITING_PAYMENT_METHOD"
    /\ \E s \in ProviderMoves \ {"AWAITING_PAYMENT_METHOD", "CANCELLED"} :
          /\ intents' = [intents EXCEPT ![call[c].intent] = s]
          /\ Becomes(c, [call[c] EXCEPT !.pc = "updateAttached", !.got = s])
    /\ UNCHANGED <<attempt, lastObservation, clock, requests, key, ready, faults>>

\* The customer, the bank or the merchant's dashboard moves an intent. A failed
\* or expired payment returns it to AWAITING_PAYMENT_METHOD.
ProviderAdvance ==
    /\ \E i \in Intents, s \in ProviderMoves :
          /\ intents[i] \in Live
          /\ s # intents[i]
          /\ ~(intents[i] = "PROCESSING" /\ s = "AWAITING_NEXT_ACTION")
          /\ intents' = [intents EXCEPT ![i] = s]
    /\ UNCHANGED <<attempt, call, lastObservation, clock, requests, key, ready, faults>>

----------------------------------------------------------------------------
\* Failures and time.

\* A repository or provider call throws and the operation returns FAILED with
\* no further write, or the request's handler dies.
Abandon(c) ==
    /\ call[c].pc # "idle"
    /\ Fault
    /\ Return(c)
    /\ UNCHANGED <<attempt, lastObservation, clock, requests, key, intents, ready>>

\* The process restarts: its calls are gone and so is lastObservation.
Crash(h) ==
    /\ Fault
    /\ call' = [c \in Calls |-> IF call[c].host = h THEN IdleCall ELSE call[c]]
    /\ lastObservation' = [lastObservation EXCEPT ![h] = 0]
    /\ UNCHANGED <<attempt, clock, requests, key, intents, ready>>

Tick ==
    /\ clock < MaxTime
    /\ clock' = clock + 1
    /\ UNCHANGED <<attempt, call, lastObservation, requests, key, intents, ready, faults>>

Step(c) ==
    \/ Claim(c) \/ BeginCreate(c) \/ Dispatch(c) \/ Bind(c)
    \/ MarkUnknown(c) \/ MarkFailed(c)
    \/ Find(c) \/ Observe(c) \/ Retrieve(c) \/ UpdateStatus(c)
    \/ ObserveAttach(c) \/ UpdateAttached(c) \/ ProviderAttach(c)

Next ==
    \/ \E c \in Calls : \/ Start(c) \/ StartContinuation(c) \/ Step(c)
                        \/ BindFails(c) \/ OutcomeUnknown(c) \/ Abandon(c)
    \/ \E r \in requests : ProviderCreate(r) \/ ProviderReject(r)
    \/ \E h \in Hosts : Crash(h)
    \/ ProviderAdvance
    \/ Tick

Spec == Init /\ [][Next]_vars

\* The customer's purchase is tried again whenever a slot is free, on a host that
\* may create, with the request the row was claimed for.
Retry(c) ==
    /\ Start(c)
    /\ call'[c].host \in EnabledHosts
    /\ attempt.status # "NONE" => call'[c].fingerprint = attempt.fingerprint

FairSpec ==
    /\ Spec
    /\ \A c \in Calls : WF_vars(Step(c)) /\ SF_vars(Retry(c))
    /\ WF_vars(\E r \in requests : ProviderCreate(r))
    /\ WF_vars(Tick)

----------------------------------------------------------------------------
\* Properties

\* Whatever leases are lost, answers delayed and keys forgotten, every client
\* key ever handed out as READY is that of the one intent the row is bound to:
\* no customer can pay an intent the attempt will not settle.
ReadyAgrees == \A i \in ready : attempt.intent = i

\* The lease of beginCreate lets one call at a time talk to the provider: of the
\* calls waiting for createPaymentIntent at most one holds an unexpired lease.
LeaseExclusion ==
    \A c, d \in Calls :
        /\ {call[c].pc, call[d].pc} \subseteq {"dispatch", "creating"}
        /\ call[c].until > clock
        /\ call[d].until > clock
        => c = d

\* A timeout or an unknown answer never makes the provider create a second
\* payable intent for the same source.
OneIntent == Cardinality({i \in Intents : intents[i] # "NONE"}) <= 1

\* updateStatus of this step finds its observation no newer than the record's.
Refused(c) ==
    /\ call[c].pc \in {"update", "updateAttached"}
    /\ call'[c].pc # call[c].pc
    /\ faults' = faults
    /\ attempt' = attempt
    /\ attempt.status \notin Final

\* Clock ties never make sequential observations unordered: an observation is
\* discarded only for one recorded after the row it started from was read.
ObservationOrder ==
    [][\A c \in Calls : Refused(c) => attempt.observedAt > call[c].seen]_vars

\* What an attempt promises, and that the attempt keeps it.
Promise == INSTANCE PaymentIntentPromise
    WITH intent <- attempt.intent,
         outcome <- IF attempt.status \in Final \cup {"FAILED"} THEN attempt.status ELSE "OPEN",
         released <- ready

KeepsPromise == Promise!Spec

\* A claimed purchase does not stay in limbo after crashes and lost answers: it
\* is bound, or refused by the provider, if the customer keeps trying.
Resolves == attempt.status \in Open ~> attempt.status \notin Open
=============================================================================
