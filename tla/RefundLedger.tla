---------------------------- MODULE RefundLedger ----------------------------
(***************************************************************************)
(* Refund initiation of @bke/payments: the rows of PaymentRefundOperation, *)
(* the SERIALIZABLE claim that reserves refund capacity of a settlement,   *)
(* and concurrent calls that retry an operation at the provider under its  *)
(* id as idempotency key.                                                  *)
(***************************************************************************)
EXTENDS Integers, FiniteSets, Sequences

CONSTANTS
    Calls,              \* slots for concurrent calls of the capability
    Sources,            \* sourceReferences; each names at most one operation
    Settled,            \* sequence of settled amounts, oldest settlement first
    Amounts,            \* amounts callers may ask to refund
    ConflictAnswers,    \* settlements of which the provider may answer 409 to a key in work
    MaxFaults           \* bound on lost requests, lost answers and dying calls

ASSUME RefundAssumption ==
    /\ ConflictAnswers \subseteq DOMAIN Settled
    /\ MaxFaults \in Nat
    /\ Settled \in Seq(Nat \ {0})
    /\ Amounts \subseteq Nat \ {0}

VARIABLES
    recorded,       \* number of settlement facts recorded so far
    operation,      \* the PaymentRefundOperation row of every source
    call,           \* the local state of every call
    requests,       \* createRefund requests on their way to the provider
    decisions,      \* the provider's refunds, by idempotency key
    faults

vars == <<recorded, operation, call, requests, decisions, faults>>

NoOperation == [state |-> "NONE", settlement |-> 0, amount |-> 0]
IdleCall == [pc |-> "idle", source |-> "", settlement |-> 0, amount |-> 0, answer |-> ""]

\* What the provider decides about a refund: "refused" is HTTP 422; "mismatch" a
\* refund that does not name the payment and amount asked for.
Decision == {"succeeded", "pending", "failed", "refused", "mismatch"}

TypeOK ==
    /\ recorded \in 0 .. Len(Settled)
    /\ operation \in [Sources -> [state : {"NONE", "CREATING", "PENDING", "SUCCEEDED", "FAILED"},
                                  settlement : Nat, amount : Nat]]
    /\ \A x \in Sources : operation[x].state # "NONE" => operation[x].settlement \in 1 .. recorded
    /\ \A c \in Calls : call[c].pc \in {"idle", "claim", "calling", "answered"}
    /\ \A d \in decisions : d.decision \in Decision
    /\ faults \in 0 .. MaxFaults

Init ==
    /\ recorded = 0
    /\ operation = [x \in Sources |-> NoOperation]
    /\ call = [c \in Calls |-> IdleCall]
    /\ requests = {}
    /\ decisions = {}
    /\ faults = 0

----------------------------------------------------------------------------

Becomes(c, local) == call' = [call EXCEPT ![c] = local]

Return(c) == Becomes(c, IdleCall)

Fault ==
    /\ faults < MaxFaults
    /\ faults' = faults + 1

\* Another part of Payments records a settlement fact.
RecordSettlement ==
    /\ recorded < Len(Settled)
    /\ recorded' = recorded + 1
    /\ UNCHANGED <<operation, call, requests, decisions, faults>>

\* initiateAgainstSettlement up to the claim; above the settlement's own amount
\* the call is rejected at once.
Request(c, x, s, a) ==
    /\ call[c].pc = "idle"
    /\ a <= Settled[s]
    /\ Becomes(c, [IdleCall EXCEPT !.pc = "claim", !.source = x, !.settlement = s, !.amount = a])
    /\ UNCHANGED <<recorded, operation, requests, decisions, faults>>

Initiate(c) == \E x \in Sources, s \in 1 .. recorded, a \in Amounts : Request(c, x, s, a)

\* The latest settlement of the commercial reference, in full.
InitiateFullByCommercialReference(c) ==
    /\ recorded > 0
    /\ \E x \in Sources : Request(c, x, recorded, Settled[recorded])

----------------------------------------------------------------------------
\* repository.claim

\* mutant: an operation not yet answered by the provider reserves nothing
ReservesWhenAnswered(x, s) ==
    operation[x].settlement = s /\ operation[x].state \in {"PENDING", "SUCCEEDED"}

Reserves(x, s) ==
    operation[x].settlement = s /\ operation[x].state \in {"CREATING", "PENDING", "SUCCEEDED"}

\* Amounts are added up as the units of money that somebody holds.
Units(holder, amount) == {holder} \X (1 .. amount)

ReservedUnits(s) ==
    UNION {Units(<<x>>, operation[x].amount) : x \in {y \in Sources : Reserves(y, s)}}

TotalReserved(s) == Cardinality(ReservedUnits(s))

Fits(c) == TotalReserved(call[c].settlement) + call[c].amount <= Settled[call[c].settlement]

\* The requested settlement and amount are those of the row (fingerprints).
SameRequest(c) ==
    /\ operation[call[c].source].settlement = call[c].settlement
    /\ operation[call[c].source].amount = call[c].amount

\* mutant: a key for every call instead of the operation's id
KeyPerCall(c) == <<call[c].source, c>>

IdempotencyKey(c) == <<call[c].source>>

\* mutant: only the call that created the operation ever asks the provider
MustAskOnce(c) == operation[call[c].source].state = "NONE"

\* A new operation, or one whose outcome is still unknown.
MustAsk(c) == operation[call[c].source].state \in {"NONE", "CREATING"}

AskProvider(c) ==
    /\ Becomes(c, [call[c] EXCEPT !.pc = "calling"])
    /\ requests' = requests \cup {[key |-> IdempotencyKey(c), settlement |-> call[c].settlement,
                                   amount |-> call[c].amount]}

Claim(c) ==
    /\ call[c].pc = "claim"
    /\ \/ /\ operation[call[c].source].state = "NONE"
          /\ ~Fits(c)                                \* AMOUNT_EXCEEDS_SETTLEMENT
          /\ Return(c)
          /\ UNCHANGED <<operation, requests>>
       \/ /\ operation[call[c].source].state = "NONE"
          /\ Fits(c)
          /\ operation' = [operation EXCEPT ![call[c].source] =
                              [state |-> "CREATING", settlement |-> call[c].settlement,
                               amount |-> call[c].amount]]
          /\ AskProvider(c)
       \/ /\ operation[call[c].source].state # "NONE"
          /\ ~SameRequest(c) \/ ~MustAsk(c)          \* SOURCE_CONFLICT or EXISTING
          /\ Return(c)
          /\ UNCHANGED <<operation, requests>>
       \/ /\ operation[call[c].source].state # "NONE"
          /\ SameRequest(c) /\ MustAsk(c)
          /\ AskProvider(c)
          /\ operation' = operation
    /\ UNCHANGED <<recorded, decisions, faults>>

----------------------------------------------------------------------------
\* The provider (external): one decision per idempotency key, repeated to every
\* request with that key. A request may arrive long after its call is gone.

Decided(key) == {d \in decisions : d.key = key}

Decide(r) ==
    /\ requests' = requests \ {r}
    /\ Decided(r.key) = {}
    /\ \E a \in Decision :
          decisions' = decisions \cup {[key |-> r.key, settlement |-> r.settlement,
                                        amount |-> r.amount, decision |-> a]}
    /\ UNCHANGED <<recorded, operation, call, faults>>

\* The request repeats a key already decided.
Replay(r) ==
    /\ Decided(r.key) # {}
    /\ requests' = requests \ {r}
    /\ UNCHANGED <<recorded, operation, call, decisions, faults>>

Answer(c) ==
    /\ call[c].pc = "calling"
    /\ \E d \in Decided(IdempotencyKey(c)) :
          Becomes(c, [call[c] EXCEPT !.pc = "answered", !.answer = d.decision])
    /\ UNCHANGED <<recorded, operation, requests, decisions, faults>>

\* HTTP 409 for a key whose first request is still in work; the adapter reads
\* it as PAYMENT_REFUND_NOT_ALLOWED, like 422.
Conflict(c) ==
    /\ call[c].pc = "calling"
    /\ call[c].settlement \in ConflictAnswers
    /\ \E d \in Calls \ {c} : call[d].pc = "calling" /\ call[d].source = call[c].source
    /\ Becomes(c, [call[c] EXCEPT !.pc = "answered", !.answer = "refused"])
    /\ UNCHANGED <<recorded, operation, requests, decisions, faults>>

\* mutant: a refund the provider still works on counts as failed
RecordedUnlessDone(answer) == IF answer = "succeeded" THEN "SUCCEEDED" ELSE "FAILED"

\* markProviderResult or markFailed, whatever the row has become meanwhile.
Recorded(answer) ==
    CASE answer = "succeeded" -> "SUCCEEDED"
      [] answer = "pending" -> "PENDING"
      [] OTHER -> "FAILED"

Mark(c) ==
    /\ call[c].pc = "answered"
    /\ operation' = [operation EXCEPT ![call[c].source].state = Recorded(call[c].answer)]
    /\ Return(c)
    /\ UNCHANGED <<recorded, requests, decisions, faults>>

\* A transient provider failure, a database error or the death of the call: the
\* operation stays as it is. The request may be lost with it.
Abandon(c) ==
    /\ call[c].pc # "idle"
    /\ Fault
    /\ Return(c)
    /\ requests' \in {requests, {r \in requests : r.key # IdempotencyKey(c)}}
    /\ UNCHANGED <<recorded, operation, decisions>>

Next ==
    \/ RecordSettlement
    \/ \E c \in Calls :
          \/ Initiate(c) \/ InitiateFullByCommercialReference(c)
          \/ Claim(c) \/ Answer(c) \/ Conflict(c) \/ Mark(c) \/ Abandon(c)
    \/ \E r \in requests : Decide(r) \/ Replay(r)

Spec == Init /\ [][Next]_vars

\* The owner of an operation without outcome repeats its request.
Retry(c, x) ==
    /\ operation[x].state = "CREATING"
    /\ Request(c, x, operation[x].settlement, operation[x].amount)

FairSpec ==
    /\ Spec
    /\ \A c \in Calls : WF_vars(Claim(c) \/ Answer(c) \/ Mark(c))
    /\ \A x \in Sources : SF_vars(\E c \in Calls : Retry(c, x))
    /\ WF_vars(\E r \in requests : Decide(r) \/ Replay(r))

----------------------------------------------------------------------------
\* Properties

Live(s) ==
    {x \in Sources : /\ operation[x].settlement = s
                     /\ operation[x].state \in {"CREATING", "PENDING", "SUCCEEDED"}}

Granted(s) == {d \in decisions : d.settlement = s /\ d.decision \in {"succeeded", "pending"}}

\* The ledger never holds live refunds for more than was settled, whatever
\* operations fail, retry and take over the capacity of failed ones; unless the provider
\* answers 409 while it still works on the first request.
CapacityRespected ==
    \A s \in 1 .. recorded \ ConflictAnswers :
        Cardinality(UNION {Units(<<x>>, operation[x].amount) : x \in Live(s)}) <= Settled[s]

\* The provider never pays out more of a settlement than was settled: retries
\* and takeovers of released capacity never refund the same money twice, with
\* the same exception.
MoneyWithinSettlement ==
    \A s \in 1 .. recorded \ ConflictAnswers :
        Cardinality(UNION {Units(d.key, d.amount) : d \in Granted(s)}) <= Settled[s]

\* The type invariant, and: a refund recorded as FAILED, whose capacity others may take,
\* is not one the provider has granted, with the same exception.
Consistent ==
    /\ TypeOK
    /\ \A x \in Sources, d \in decisions :
          operation[x].state = "FAILED" /\ d.key = <<x>> =>
              d.settlement \in ConflictAnswers \/ d.decision \notin {"succeeded", "pending"}

GrantedFor(x) == \E d \in decisions : d.key = <<x>> /\ d.decision \in {"succeeded", "pending"}

\* The refund an operation stands for: granted once the provider says so, refused when it
\* is recorded as FAILED.  Those of settlements with 409 answers are left out.
RefundOf(x) ==
    IF operation[x].state = "NONE" \/ operation[x].settlement \in ConflictAnswers
    THEN NoOperation
    ELSE [operation[x] EXCEPT !.state = IF GrantedFor(x) THEN "GRANTED"
                                        ELSE IF @ = "FAILED" THEN "REFUSED" ELSE "RESERVED"]

Refunds == [x \in Sources |-> RefundOf(x)]

Promise == INSTANCE RefundPromise WITH refund <- Refunds

\* The ledger and the provider's keys together keep the promise: through retries, takeovers,
\* lost answers and calls that died, a refund is granted or refused once and for good, and
\* its amount is given to others only when it was refused.
KeepsPromise == Promise!Spec

\* An operation reserved by a call that died does not hold its capacity for ever
\* once its owner keeps repeating the request.
Resolves == \A x \in Sources : operation[x].state = "CREATING" ~> operation[x].state # "CREATING"
=============================================================================
