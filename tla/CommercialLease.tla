--------------------------- MODULE CommercialLease ---------------------------
(***************************************************************************)
(* Leases of one licence of @bke/licensing: calls of issue() by devices    *)
(* find the signing key, read the facts about the licence from its owners, *)
(* and then activate the device, sign a lease and complete the operation   *)
(* in one SERIALIZABLE transaction, which they try twice.                  *)
(***************************************************************************)
EXTENDS Naturals, FiniteSets, Sequences

CONSTANTS
    Calls,          \* slots for concurrent calls of issue()
    Devices,        \* devices, each with its one installation
    Operations,     \* operation ids
    Plan,           \* the action of every operation and the devices that know its id
    SigningKeys,    \* key ids
    Bootstrap,      \* the key a host registers when there is none
    Nobody,         \* no device, no key, no operation
    Seats,          \* maxSeats * maxDevicesPerSeat
    Facts,          \* facts that may change
    Naming,         \* operations whose requests may name a predecessor lease
    MaxFaults       \* bound on conflicts, lost answers and dying calls

\* ACTIVATION is created by the call itself, the others are prepared by the host;
\* RENEWAL needs the subscription, TRANSFER the policy, REFRESH stands for the rest.
Action == {"ACTIVATION", "RENEWAL", "TRANSFER", "REFRESH"}

\* The licence is in force (active, not expired, of an active account); its subscription
\* is; its policy allows transfers; the product version asked for is accepted.
Fact == {"valid", "subscribed", "transferable", "eligible"}

ASSUME LeaseAssumption ==
    /\ Bootstrap \in SigningKeys
    /\ Nobody \notin Devices \cup Operations \cup SigningKeys
    /\ Naming \subseteq Operations
    /\ Facts \subseteq Fact
    /\ Plan \in [Operations -> [action : Action, device : Devices, known : SUBSET Devices]]
    /\ {Seats, MaxFaults} \subseteq Nat

VARIABLES
    license,        \* the License row and the facts other owners supply about it
    signing,        \* status of every signing key
    activation,     \* the DeviceActivation row of every device
    lease,          \* the LicenseLeaseRecord rows in the order of their insertion
    operation,      \* the CommercialLeaseOperation rows
    call,           \* the local state of every call
    handedOut,      \* leases returned, with the operation asked for
    faults

vars == <<license, signing, activation, lease, operation, call, handedOut, faults>>

NoLease == 0

\* No metadata is recorded for an operation a call creates.
NoOperation == [status |-> "NONE", action |-> "ACTIVATION", device |-> Nobody,
                predecessor |-> NoLease, result |-> NoLease]

IdleCall == [pc |-> "idle", device |-> Nobody, operation |-> Nobody, named |-> NoLease,
             retried |-> FALSE, good |-> FALSE, subscribed |-> FALSE]

Leases == 1 .. Len(lease)

TypeOK ==
    /\ license \in [Fact -> BOOLEAN]
    /\ signing \in [SigningKeys -> {"NONE", "ACTIVE", "RETIRED"}]
    /\ activation \in [Devices -> {"none", "active", "inactive"}]
    /\ \A l \in Leases :
          /\ lease[l].device \in Devices
          /\ lease[l].status = "SUPERSEDED" <=> lease[l].supersededBy # NoLease
          /\ operation[lease[l].operation].result = l
    /\ \A o \in Operations :
          /\ operation[o].action \in Action
          /\ operation[o].status = "COMPLETED" <=> operation[o].result # NoLease
          /\ operation[o].result \in {NoLease} \cup Leases
    /\ \A c \in Calls : call[c].pc \in {"idle", "bootstrap", "facts", "ready"}
    /\ faults \in 0 .. MaxFaults

Init ==
    /\ license = [f \in Fact |-> TRUE]
    /\ signing = [k \in SigningKeys |-> "NONE"]
    /\ activation = [d \in Devices |-> "none"]
    /\ lease = <<>>
    /\ operation = [o \in Operations |-> NoOperation]
    /\ call = [c \in Calls |-> IdleCall]
    /\ handedOut = {}
    /\ faults = 0

----------------------------------------------------------------------------
\* Signing keys

Becomes(c, local) == call' = [call EXCEPT ![c] = local]

Return(c) == Becomes(c, IdleCall)

Fault ==
    /\ faults < MaxFaults
    /\ faults' = faults + 1

ActiveKeys == {k \in SigningKeys : signing[k] = "ACTIVE"}

Nameable(o) == IF o \in Naming THEN {NoLease} \cup Leases ELSE {NoLease}

\* keys.active() throws unless exactly one key is active.
WithKey(c, local) ==
    Becomes(c, IF Cardinality(ActiveKeys') = 1 THEN [local EXCEPT !.pc = "facts"] ELSE IdleCall)

\* keys.ensure() looks for active rows; when there are some, keys.active() finds them
\* (an active key is only ever replaced, so that the two reads are as one). The
\* request names the device, the operation and, for some operations, the lease it believes
\* to be the latest. An operation that does not exist is an ACTIVATION.
Request(c, d, o, p) ==
    LET local == [IdleCall EXCEPT !.device = d, !.operation = o, !.named = p] IN
    /\ call[c].pc = "idle"
    /\ d \in Plan[o].known
    /\ Plan[o].action = "ACTIVATION" \/ operation[o].status # "NONE"
    /\ UNCHANGED <<license, signing, activation, lease, operation, handedOut, faults>>
    /\ IF ActiveKeys = {} THEN Becomes(c, [local EXCEPT !.pc = "bootstrap"])
       ELSE WithKey(c, local)

\* INSERT ... ON CONFLICT ("keyId") DO NOTHING.
Registered ==
    IF signing[Bootstrap] = "NONE" THEN [signing EXCEPT ![Bootstrap] = "ACTIVE"] ELSE signing

RegisterKey(c) ==
    /\ call[c].pc = "bootstrap"
    /\ signing' = Registered
    /\ WithKey(c, call[c])
    /\ UNCHANGED <<license, activation, lease, operation, handedOut, faults>>

\* The operator rotates the key (external).
Rotate(k) ==
    /\ ActiveKeys # {} /\ signing[k] = "NONE"
    /\ signing' = [j \in SigningKeys |-> IF j = k THEN "ACTIVE"
                                         ELSE IF signing[j] = "ACTIVE" THEN "RETIRED"
                                         ELSE signing[j]]
    /\ UNCHANGED <<license, activation, lease, operation, call, handedOut, faults>>

----------------------------------------------------------------------------
\* The facts, read before the transaction

ReadFacts(c) ==
    /\ call[c].pc = "facts"
    /\ \/ /\ license.valid
          /\ Becomes(c, [call[c] EXCEPT !.pc = "ready", !.good = license.eligible,
                                        !.subscribed = license.subscribed])
       \/ ~license.valid /\ Return(c)
    /\ UNCHANGED <<license, signing, activation, lease, operation, handedOut, faults>>

----------------------------------------------------------------------------
\* The transaction

ActiveDevices == {d \in Devices : activation[d] = "active"}

\* mutant: an activation that was ended counts as a seat already taken
SeatKept(d) == activation[d] # "none" \/ Cardinality(ActiveDevices) < Seats

SeatFor(d) == activation[d] = "active" \/ Cardinality(ActiveDevices) < Seats

LeasesOf(d) == {l \in Leases : lease[l].device = d}

\* mutant: the first lease of the device instead of the last one
OldestLease(d) ==
    IF LeasesOf(d) = {} THEN {NoLease}
    ELSE {l \in LeasesOf(d) : \A m \in LeasesOf(d) : lease[m].generation >= lease[l].generation}

\* ORDER BY generation DESC LIMIT 1: any of those with the highest generation.
LatestLease(d) ==
    IF LeasesOf(d) = {} THEN {NoLease}
    ELSE {l \in LeasesOf(d) : \A m \in LeasesOf(d) : lease[m].generation <= lease[l].generation}

Predecessors(d, named) == IF named = NoLease THEN LatestLease(d) ELSE {named}

NextGeneration(p) == IF p = NoLease THEN 1 ELSE lease[p].generation + 1

Successor(c, p) ==
    [device |-> call[c].device, generation |-> NextGeneration(p), status |-> "ACTIVE",
     supersededBy |-> NoLease, named |-> call[c].named # NoLease,
     operation |-> call[c].operation]

\* createLease and supersedeLease, whatever the predecessor has become.
Extended(c, p) ==
    Append([l \in Leases |-> IF l = p THEN [lease[l] EXCEPT !.status = "SUPERSEDED",
                                                            !.supersededBy = Len(lease) + 1]
                             ELSE lease[l]],
           Successor(c, p))

\* Recorded inputs must be the ones of the call, unrecorded ones are not compared.
SameInput(c, op) ==
    /\ op.device \in {Nobody, call[c].device}
    /\ call[c].named # NoLease => op.predecessor = call[c].named

\* mutant: a completed operation is not looked at
NotReplayed(c) == FALSE

Replayed(c) == operation[call[c].operation].status = "COMPLETED"

\* The operation exists and its action is eligible, or the call creates it.
Eligible(c, action) ==
    /\ action = "RENEWAL" => call[c].subscribed
    /\ action = "TRANSFER" => license.transferable
    /\ call[c].good
    /\ SeatFor(call[c].device)

HandedTo(c, l) ==
    [operation |-> call[c].operation, lease |-> l]

\* A completed operation answers with the lease it issued, or refuses other inputs.
Replay(c) ==
    LET op == operation[call[c].operation] IN
    /\ call[c].pc = "ready"
    /\ Replayed(c)
    /\ handedOut' = IF SameInput(c, op) THEN handedOut \cup {HandedTo(c, op.result)}
                    ELSE handedOut
    /\ Return(c)
    /\ UNCHANGED <<license, signing, activation, lease, operation, faults>>

\* The transaction of an operation created by the call or prepared and pending. Its
\* answer may be lost with the connection, after the commit.
Issue(c) ==
    LET o == call[c].operation
        d == call[c].device IN
    /\ call[c].pc = "ready"
    /\ ~Replayed(c)
    /\ Eligible(c, operation[o].action)
    /\ activation' = [activation EXCEPT ![d] = "active"]
    /\ \E p \in Predecessors(d, call[c].named) : lease' = Extended(c, p)
    /\ operation' = [operation EXCEPT ![o].status = "COMPLETED", ![o].result = Len(lease')]
    /\ Return(c)
    /\ \/ handedOut' = handedOut \cup {HandedTo(c, Len(lease'))} /\ UNCHANGED faults
       \/ Fault /\ UNCHANGED handedOut
    /\ UNCHANGED <<license, signing>>

\* A check fails: the transaction is rolled back and the call throws.
Refuse(c) ==
    /\ call[c].pc = "ready"
    /\ ~Replayed(c)
    /\ ~Eligible(c, operation[call[c].operation].action)
    /\ Return(c)
    /\ UNCHANGED <<license, signing, activation, lease, operation, handedOut, faults>>

SecondAttempt(c) == [call[c] EXCEPT !.pc = "facts", !.retried = TRUE, !.good = FALSE,
                                    !.subscribed = FALSE]

\* 40001 or 40P01: the first attempt is repeated from the reading of the facts, with
\* the signing key found before; the second one throws.
Conflict(c) ==
    /\ call[c].pc = "ready"
    /\ Fault
    /\ IF call[c].retried THEN Return(c) ELSE Becomes(c, SecondAttempt(c))
    /\ UNCHANGED <<license, signing, activation, lease, operation, handedOut>>

Abandon(c) ==
    /\ call[c].pc # "idle"
    /\ Fault
    /\ Return(c)
    /\ UNCHANGED <<license, signing, activation, lease, operation, handedOut>>

----------------------------------------------------------------------------
\* The other owners and the host (external)

\* The host prepares an operation and records the inputs it is meant for.
Prepare(o) ==
    LET d == Plan[o].device IN
    /\ operation[o].status = "NONE"
    /\ Plan[o].action # "ACTIVATION"
    /\ \E p \in Nameable(o) :
          operation' = [operation EXCEPT
              ![o] = [status |-> "PENDING", action |-> Plan[o].action, device |-> d,
                      predecessor |-> p, result |-> NoLease]]
    /\ UNCHANGED <<license, signing, activation, lease, call, handedOut, faults>>

Deactivate(d) ==
    /\ activation[d] = "active"
    /\ activation' = [activation EXCEPT ![d] = "inactive"]
    /\ UNCHANGED <<license, signing, lease, operation, call, handedOut, faults>>

\* The licence is suspended, expires, is renewed; a policy or a version is changed.
Change ==
    /\ \E f \in Facts : license' = [license EXCEPT ![f] = ~@]
    /\ UNCHANGED <<signing, activation, lease, operation, call, handedOut, faults>>

----------------------------------------------------------------------------

Step(c) ==
    RegisterKey(c) \/ ReadFacts(c) \/ Replay(c) \/ Issue(c) \/ Refuse(c)

Next ==
    \/ \E c \in Calls :
          \/ \E d \in Devices, o \in Operations : \E p \in Nameable(o) : Request(c, d, o, p)
          \/ Step(c) \/ Conflict(c) \/ Abandon(c)
    \/ \E o \in Operations : Prepare(o)
    \/ \E k \in SigningKeys : Rotate(k)
    \/ \E d \in Devices : Deactivate(d)
    \/ Change

Spec == Init /\ [][Next]_vars

----------------------------------------------------------------------------
\* Properties

\* However many devices activate at once, and however often an activation is ended
\* and begun again, no more devices are active than the licence pays for.
SeatsRespected == Cardinality(ActiveDevices) <= Seats

\* The type invariant, and: hosts that find no signing key at the same time, and an
\* operator who rotates the key between their looking and their registering, never leave
\* two keys active; a device whose requests leave the choice of the predecessor to the
\* server has one lease in force at most, the one of the highest generation, also when
\* other devices take its leases over.
Consistent ==
    /\ TypeOK
    /\ Cardinality(ActiveKeys) <= 1
    /\ \A d \in Devices : (\A l \in LeasesOf(d) : ~lease[l].named) =>
          \A l, m \in LeasesOf(d) :
              lease[l].status = "ACTIVE" /\ l # m => lease[m].generation < lease[l].generation

\* Repeating an operation, with its answer lost or two calls at once, never yields a
\* second lease.
OneLeasePerOperation ==
    /\ \A l, m \in Leases : lease[l].operation = lease[m].operation => l = m
    /\ \A h, g \in handedOut : h.operation = g.operation => h.lease = g.lease
=============================================================================
