--------------------------- MODULE CheckoutAttempt ---------------------------
(***************************************************************************)
(* Hosted checkout of @bke/payments: the PaymentCheckoutAttempt row of one *)
(* source reference and concurrent calls of create() that claim it, ask    *)
(* the provider for a checkout under the row's id as idempotency key, and  *)
(* record the outcome with unconditional updates.                          *)
(***************************************************************************)
EXTENDS Naturals, FiniteSets

CONSTANTS
    Calls,          \* slots for concurrent calls of create()
    Bodies,         \* request bodies callers may use for the source reference
    NoBody,
    MaxFaults       \* bound on errors, lost answers, dying calls, cancellations

ASSUME CheckoutAssumption == NoBody \notin Bodies /\ MaxFaults \in Nat

VARIABLES
    attempt,        \* the row
    call,           \* the local state of every call
    requests,       \* createCheckout requests on their way to the provider
    checkouts,      \* the checkouts the provider has opened
    handedOut,      \* checkouts returned to callers as READY, with their request
    faults

vars == <<attempt, call, requests, checkouts, handedOut, faults>>

NoCheckout == 0

\* A checkout is named by the number of checkouts opened before it, plus one.
Row == [status : {"NONE", "CREATING", "PENDING", "FAILED", "CANCELLED"},
        body : Bodies \cup {NoBody}, checkout : Nat]

Local == [pc : {"idle", "claimed", "calling", "answered", "failing"},
          body : Bodies \cup {NoBody}, checkout : Nat]

IdleCall == [pc |-> "idle", body |-> NoBody, checkout |-> NoCheckout]

TypeOK ==
    /\ attempt \in Row
    /\ attempt.status = "NONE" <=> attempt.body = NoBody
    /\ attempt.status = "PENDING" => attempt.checkout # NoCheckout
    /\ call \in [Calls -> Local]
    /\ \A r \in requests : r.call \in Calls /\ r.body \in Bodies
    /\ \A k \in checkouts : k.id \in Nat \ {NoCheckout} /\ k.body \in Bodies
    /\ handedOut \subseteq [body : Bodies, id : Nat]
    /\ faults \in 0 .. MaxFaults

Init ==
    /\ attempt = [status |-> "NONE", body |-> NoBody, checkout |-> NoCheckout]
    /\ call = [c \in Calls |-> IdleCall]
    /\ requests = {}
    /\ checkouts = {}
    /\ handedOut = {}
    /\ faults = 0

----------------------------------------------------------------------------

Becomes(c, local) == call' = [call EXCEPT ![c] = local]

Return(c) == Becomes(c, IdleCall)

Fault ==
    /\ faults < MaxFaults
    /\ faults' = faults + 1

\* mutant: the row is found by its source reference alone
SameSource(b) == TRUE

SameRequest(b) == attempt.body = b

Bound == attempt.status = "PENDING" /\ attempt.checkout # NoCheckout

\* repository.claim: inserts the row or finds the one of the source reference.
\* Another body's row is a SOURCE_CONFLICT; a PENDING row answers the call.
Claim(c, b) ==
    /\ call[c].pc = "idle"
    /\ \/ /\ attempt.status = "NONE"
          /\ attempt' = [status |-> "CREATING", body |-> b, checkout |-> NoCheckout]
          /\ Becomes(c, [pc |-> "claimed", body |-> b, checkout |-> NoCheckout])
          /\ UNCHANGED handedOut
       \/ /\ attempt.status # "NONE"
          /\ SameRequest(b) /\ Bound
          /\ handedOut' = handedOut \cup {[body |-> b, id |-> attempt.checkout]}
          /\ UNCHANGED <<attempt, call>>
       \/ /\ attempt.status # "NONE"
          /\ SameRequest(b) /\ ~Bound
          /\ Becomes(c, [pc |-> "claimed", body |-> b, checkout |-> NoCheckout])
          /\ UNCHANGED <<attempt, handedOut>>
    /\ UNCHANGED <<requests, checkouts, faults>>

\* mutant: a key for every call instead of the row's id
KeyPerCall(c) == c

\* The id of the row, the same for every call and every retry.
IdempotencyKey(c) == "attempt"

AskProvider(c) ==
    /\ call[c].pc = "claimed"
    /\ Becomes(c, [call[c] EXCEPT !.pc = "calling"])
    /\ requests' = requests \cup {[call |-> c, key |-> IdempotencyKey(c), body |-> call[c].body]}
    /\ UNCHANGED <<attempt, checkouts, handedOut, faults>>

Opened(key) == {k \in checkouts : k.key = key}

\* The provider (external) opens one checkout per idempotency key, also for a
\* request whose call is gone.
Open(r) ==
    /\ requests' = requests \ {r}
    /\ checkouts' = IF Opened(r.key) # {} THEN checkouts
                    ELSE checkouts \cup {[id |-> Cardinality(checkouts) + 1, key |-> r.key,
                                          body |-> r.body]}
    /\ UNCHANGED <<attempt, call, handedOut, faults>>

\* The answer to a request that has reached the provider.
Answer(c) ==
    /\ call[c].pc = "calling"
    /\ \A r \in requests : r.call # c
    /\ \E k \in Opened(IdempotencyKey(c)) :
          Becomes(c, [call[c] EXCEPT !.pc = "answered", !.checkout = k.id])
    /\ UNCHANGED <<attempt, requests, checkouts, handedOut, faults>>

\* The provider rejects, answers with an error or not at all; the request may
\* still be on its way.
ProviderFails(c) ==
    /\ call[c].pc = "calling"
    /\ Fault
    /\ Becomes(c, [call[c] EXCEPT !.pc = "failing"])
    /\ requests' \in {requests, {r \in requests : r.call # c}}
    /\ UNCHANGED <<attempt, checkouts, handedOut>>

\* mutant: a failed attempt is never bound
BoundUnlessFailed(k) ==
    IF attempt.status = "FAILED" THEN attempt
    ELSE [attempt EXCEPT !.status = "PENDING", !.checkout = k]

\* UPDATE ... SET status = PENDING WHERE id: whatever the row has become.
Pending(k) == [attempt EXCEPT !.status = "PENDING", !.checkout = k]

MarkPending(c) ==
    /\ call[c].pc = "answered"
    /\ attempt' = Pending(call[c].checkout)
    /\ handedOut' = IF attempt'.status = "PENDING"
                    THEN handedOut \cup {[body |-> call[c].body, id |-> attempt'.checkout]}
                    ELSE handedOut
    /\ Return(c)
    /\ UNCHANGED <<requests, checkouts, faults>>

\* UPDATE ... SET status = FAILED WHERE id: whatever the row has become.
Failed == [attempt EXCEPT !.status = "FAILED"]

MarkFailed(c) ==
    /\ call[c].pc = "failing"
    /\ attempt' = Failed
    /\ Return(c)
    /\ UNCHANGED <<requests, checkouts, handedOut, faults>>

\* markPending fails, before or after its effect; the call goes on to markFailed.
BindingFails(c) ==
    /\ call[c].pc = "answered"
    /\ Fault
    /\ attempt' \in {attempt, Pending(call[c].checkout)}
    /\ Becomes(c, [call[c] EXCEPT !.pc = "failing"])
    /\ UNCHANGED <<requests, checkouts, handedOut>>

\* The process dies, or the database is gone when the failure is recorded.
Abandon(c) ==
    /\ call[c].pc # "idle"
    /\ Fault
    /\ Return(c)
    /\ UNCHANGED <<attempt, requests, checkouts, handedOut>>

\* The host cancels the order and with it the attempt (external).
Cancel ==
    /\ attempt.status = "PENDING"
    /\ Fault
    /\ attempt' = [attempt EXCEPT !.status = "CANCELLED"]
    /\ UNCHANGED <<call, requests, checkouts, handedOut>>

Next ==
    \/ \E c \in Calls :
          \/ \E b \in Bodies : Claim(c, b)
          \/ AskProvider(c) \/ Answer(c) \/ ProviderFails(c) \/ MarkPending(c)
          \/ BindingFails(c) \/ MarkFailed(c) \/ Abandon(c)
    \/ \E r \in requests : Open(r)
    \/ Cancel

Spec == Init /\ [][Next]_vars

\* Calls that run go on, the provider answers, and the caller asks again while
\* its checkout is not ready.
FairSpec ==
    /\ Spec
    /\ \A c \in Calls : WF_vars(AskProvider(c) \/ Answer(c) \/ MarkPending(c) \/ MarkFailed(c))
    /\ WF_vars(\E r \in requests : Open(r))
    /\ SF_vars(~Bound /\ \E c \in Calls : Claim(c, attempt.body))

----------------------------------------------------------------------------
\* Properties

\* A checkout handed out to a caller is the one the row names, so that its
\* payment is matched to the attempt, and was opened for that caller's request,
\* however many calls, failures and cancellations have gone over the row since.
HandedOutIsBound ==
    \A h \in handedOut :
        /\ attempt.checkout = h.id
        /\ \E k \in checkouts : k.id = h.id /\ k.body = h.body

\* The type invariant, and: the provider never holds two open checkouts for one attempt.
Consistent == TypeOK /\ Cardinality(checkouts) <= 1

\* A checkout ready to be paid is not taken back by another call's failure.  It does not
\* hold (README, section 3): markFailed updates by id alone.
PendingStays == [][attempt.status = "PENDING" => attempt'.status # "FAILED"]_vars

\* Callers that keep asking get their checkout for good once faults are over.
Recovers == attempt.status # "NONE" ~> [](attempt.status = "PENDING")
=============================================================================
