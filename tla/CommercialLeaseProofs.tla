----------------------- MODULE CommercialLeaseProofs -----------------------
(***************************************************************************)
(* Proofs about CommercialLease, for every value of its constants: any     *)
(* number of calls, devices, operations and keys, also infinitely many.    *)
(***************************************************************************)
EXTENDS CommercialLease, FiniteSetTheorems, SequenceTheorems, TLAPS

LeaseRecord ==
    [device : Devices, generation : Nat, status : {"ACTIVE", "SUPERSEDED"}, supersededBy : Nat,
     named : BOOLEAN, operation : Operations]

OperationRecord ==
    [status : {"NONE", "PENDING", "COMPLETED"}, action : Action, device : Devices \cup {Nobody},
     predecessor : Nat, result : Nat]

CallRecord ==
    [pc : {"idle", "bootstrap", "facts", "ready"}, device : Devices \cup {Nobody},
     operation : Operations \cup {Nobody}, named : Nat, retried : BOOLEAN, good : BOOLEAN,
     subscribed : BOOLEAN]

\* The key that hosts register by themselves goes first; then one key is active at a time.
KeyInv ==
    /\ signing \in [SigningKeys -> {"NONE", "ACTIVE", "RETIRED"}]
    /\ signing[Bootstrap] = "NONE" => ActiveKeys = {}
    /\ \A j, k \in ActiveKeys : j = k

\* Devices may be infinitely many, those that are active are not.
SeatInv ==
    /\ activation \in [Devices -> {"none", "active", "inactive"}]
    /\ IsFiniteSet(ActiveDevices)
    /\ SeatsRespected

OperationInv ==
    /\ operation \in [Operations -> OperationRecord]
    /\ \A o \in Operations : /\ operation[o].result \in {NoLease} \cup Leases
                             /\ operation[o].status = "COMPLETED" <=> operation[o].result # NoLease

LeaseInv ==
    /\ lease \in Seq(LeaseRecord)
    /\ \A l \in Leases : /\ lease[l].status = "SUPERSEDED" <=> lease[l].supersededBy # NoLease
                         /\ operation[lease[l].operation].result = l

\* As long as the server chooses its predecessors, a device's lease in force is the one
\* of the highest generation.
ChainInv ==
    \A d \in Devices : (\A l \in LeasesOf(d) : ~lease[l].named) =>
        \A l, m \in LeasesOf(d) :
            lease[l].status = "ACTIVE" /\ l # m => lease[m].generation < lease[l].generation

CallInv ==
    /\ call \in [Calls -> CallRecord]
    /\ \A c \in Calls : call[c].pc # "idle" =>
          /\ call[c].device \in Devices /\ call[c].operation \in Operations
          /\ call[c].named \in {NoLease} \cup Leases

\* What is handed out is what the operation has issued.
HandedOutInv ==
    /\ handedOut \subseteq [operation : Operations, lease : Nat]
    /\ \A h \in handedOut : h.lease # NoLease /\ operation[h.operation].result = h.lease

Inv ==
    /\ license \in [Fact -> BOOLEAN] /\ faults \in 0 .. MaxFaults
    /\ KeyInv /\ SeatInv /\ OperationInv /\ LeaseInv /\ ChainInv /\ CallInv /\ HandedOutInv

----------------------------------------------------------------------------
(* Parts of the invariant that a step leaves alone.                         *)

LEMMA IdleType == IdleCall \in CallRecord /\ IdleCall.pc = "idle"
  BY DEF IdleCall, CallRecord, NoLease

LEMMA KeyKept ==
  ASSUME Inv, UNCHANGED signing
  PROVE  KeyInv'
  BY DEF Inv, KeyInv, ActiveKeys

LEMMA SeatKeptInv ==
  ASSUME Inv, UNCHANGED activation
  PROVE  SeatInv'
  <1>1. UNCHANGED ActiveDevices
    BY DEF ActiveDevices
  <1> QED
    BY <1>1 DEF Inv, SeatInv, SeatsRespected

LEMMA LeasesKept ==
  ASSUME Inv, UNCHANGED <<lease, operation>>
  PROVE  OperationInv' /\ LeaseInv' /\ ChainInv'
  BY DEF Inv, OperationInv, LeaseInv, ChainInv, Leases, LeasesOf

LEMMA HandedOutKept ==
  ASSUME Inv, UNCHANGED <<handedOut, operation>>
  PROVE  HandedOutInv'
  BY DEF Inv, HandedOutInv

\* A step of one call towards the local state l, while leases only grow in number.
LEMMA CallStep ==
  ASSUME Inv, NEW c \in Calls, NEW l \in CallRecord, Becomes(c, l), Leases \subseteq Leases',
         l.pc # "idle" => /\ l.device \in Devices /\ l.operation \in Operations
                          /\ l.named \in {NoLease} \cup Leases
  PROVE  CallInv'
  BY DEF Inv, CallInv, Becomes

LEMMA CallReturns ==
  ASSUME Inv, NEW c \in Calls, Return(c), Leases \subseteq Leases'
  PROVE  CallInv'
  BY IdleType, CallStep DEF Return

LEMMA CallsWait ==
  ASSUME Inv, UNCHANGED <<call, lease>>
  PROVE  CallInv'
  BY DEF Inv, CallInv, Leases

\* A step of one call that changes its local state and the faults only.
LEMMA LocalStep ==
  ASSUME Inv, NEW c \in Calls, NEW l \in CallRecord, Becomes(c, l),
         l.pc # "idle" => /\ l.device \in Devices /\ l.operation \in Operations
                          /\ l.named \in {NoLease} \cup Leases,
         UNCHANGED faults \/ Fault,
         UNCHANGED <<license, signing, activation, lease, operation, handedOut>>
  PROVE  Inv'
  <1>1. UNCHANGED Leases
    BY DEF Leases
  <1>2. faults' \in 0 .. MaxFaults
    BY LeaseAssumption DEF Inv, Fault
  <1>3. CallInv'
    BY <1>1, CallStep
  <1> QED
    BY <1>2, <1>3, KeyKept, SeatKeptInv, LeasesKept, HandedOutKept DEF Inv

LEMMA ReturnStep ==
  ASSUME Inv, NEW c \in Calls, Return(c), UNCHANGED faults \/ Fault,
         UNCHANGED <<license, signing, activation, lease, operation, handedOut>>
  PROVE  Inv'
  BY IdleType, LocalStep DEF Return

----------------------------------------------------------------------------
(* Signing keys.                                                            *)

\* Whether the key is found or not, the call keeps what it asks for.
LEMMA WithKeyLocal ==
  ASSUME NEW c \in Calls, NEW local \in CallRecord, WithKey(c, local)
  PROVE  \E l \in CallRecord :
            /\ Becomes(c, l)
            /\ l.pc # "idle" => /\ l.device = local.device /\ l.operation = local.operation
                                /\ l.named = local.named
  <1> DEFINE l == [local EXCEPT !.pc = "facts"]
  <1>1. /\ l \in CallRecord /\ l.device = local.device /\ l.operation = local.operation
        /\ l.named = local.named
    BY DEF CallRecord
  <1>2. Becomes(c, l) \/ Becomes(c, IdleCall)
    BY DEF WithKey
  <1> QED
    BY <1>1, <1>2, IdleType

LEMMA RequestInv ==
  ASSUME Inv, NEW c \in Calls, NEW d \in Devices, NEW o \in Operations, NEW p \in Nameable(o),
         Request(c, d, o, p)
  PROVE  Inv'
  <1> DEFINE local == [IdleCall EXCEPT !.device = d, !.operation = o, !.named = p]
             l == [local EXCEPT !.pc = "bootstrap"]
  <1>1. p \in {NoLease} \cup Leases /\ p \in Nat
    <2>1. Len(lease) \in Nat
      BY LenProperties DEF Inv, LeaseInv
    <2> QED
      BY <2>1 DEF Nameable, Leases, NoLease
  <1>2. local \in CallRecord /\ local.device = d /\ local.operation = o /\ local.named = p
    BY <1>1, IdleType DEF CallRecord
  <1>3. l \in CallRecord /\ l.device = d /\ l.operation = o /\ l.named = p
    BY <1>2 DEF CallRecord
  <1>4. Becomes(c, l) \/ WithKey(c, local)
    BY DEF Request
  <1> HIDE DEF local, l
  <1>5. PICK r \in CallRecord :
           /\ Becomes(c, r)
           /\ r.pc # "idle" => r.device = d /\ r.operation = o /\ r.named = p
    BY <1>2, <1>3, <1>4, WithKeyLocal
  <1> QED
    BY <1>1, <1>5, LocalStep DEF Request

LEMMA RegisterKeyInv ==
  ASSUME Inv, NEW c \in Calls, RegisterKey(c)
  PROVE  Inv'
  <1>1. KeyInv'
    BY LeaseAssumption DEF RegisterKey, Registered, Inv, KeyInv, ActiveKeys
  <1>2. /\ call[c] \in CallRecord /\ call[c].device \in Devices /\ call[c].operation \in Operations
        /\ call[c].named \in {NoLease} \cup Leases
    BY DEF RegisterKey, Inv, CallInv
  <1>3. PICK l \in CallRecord :
           /\ Becomes(c, l)
           /\ l.pc # "idle" => /\ l.device = call[c].device /\ l.operation = call[c].operation
                               /\ l.named = call[c].named
    BY <1>2, WithKeyLocal DEF RegisterKey
  <1>4. UNCHANGED Leases
    BY DEF RegisterKey, Leases
  <1>5. CallInv'
    BY <1>2, <1>3, <1>4, CallStep
  <1> QED
    BY <1>1, <1>5, SeatKeptInv, LeasesKept, HandedOutKept DEF RegisterKey, Inv

LEMMA RotateInv ==
  ASSUME Inv, NEW k \in SigningKeys, Rotate(k)
  PROVE  Inv'
  <1>1. KeyInv'
    BY LeaseAssumption DEF Rotate, Inv, KeyInv, ActiveKeys
  <1> QED
    BY <1>1, CallsWait, SeatKeptInv, LeasesKept, HandedOutKept DEF Rotate, Inv

----------------------------------------------------------------------------
(* The transaction.                                                         *)

LEMMA ReadFactsInv ==
  ASSUME Inv, NEW c \in Calls, ReadFacts(c)
  PROVE  Inv'
  <1> DEFINE l == [call[c] EXCEPT !.pc = "ready", !.good = license.eligible,
                                  !.subscribed = license.subscribed]
  <1>1. /\ call[c] \in CallRecord /\ call[c].device \in Devices /\ call[c].operation \in Operations
        /\ call[c].named \in {NoLease} \cup Leases
    BY DEF ReadFacts, Inv, CallInv
  <1>2. license.eligible \in BOOLEAN /\ license.subscribed \in BOOLEAN
    BY DEF Inv, Fact
  <1>3. /\ l \in CallRecord /\ l.device = call[c].device /\ l.operation = call[c].operation
        /\ l.named = call[c].named
    BY <1>1, <1>2 DEF CallRecord
  <1>4. Becomes(c, l) \/ Return(c)
    BY DEF ReadFacts
  <1> HIDE DEF l
  <1> QED
    BY <1>1, <1>3, <1>4, LocalStep, ReturnStep DEF ReadFacts

LEMMA ReplayInv ==
  ASSUME Inv, NEW c \in Calls, Replay(c)
  PROVE  Inv'
  <1> DEFINE o == call[c].operation
  <1>1. o \in Operations /\ operation[o].result \in Nat /\ operation[o].result # NoLease
    BY DEF Replay, Replayed, Inv, CallInv, OperationInv, OperationRecord
  <1>2. HandedTo(c, operation[o].result) = [operation |-> o, lease |-> operation[o].result]
    BY DEF HandedTo
  <1>3. HandedOutInv'
    BY <1>1, <1>2 DEF Replay, Inv, HandedOutInv
  <1>4. CallInv'
    BY CallReturns DEF Replay, Leases
  <1> QED
    BY <1>3, <1>4, KeyKept, SeatKeptInv, LeasesKept DEF Replay, Inv

Superseding(row, n) == [row EXCEPT !.status = "SUPERSEDED", !.supersededBy = n]

LEMMA SupersedingType ==
  ASSUME NEW row \in LeaseRecord, NEW n \in Nat
  PROVE  /\ Superseding(row, n) \in LeaseRecord
         /\ Superseding(row, n).status = "SUPERSEDED" /\ Superseding(row, n).supersededBy = n
         /\ Superseding(row, n).device = row.device /\ Superseding(row, n).named = row.named
         /\ Superseding(row, n).generation = row.generation
         /\ Superseding(row, n).operation = row.operation
  BY DEF Superseding, LeaseRecord

LEMMA SuccessorType ==
  ASSUME Inv, NEW c \in Calls, call[c].pc = "ready", NEW p \in {NoLease} \cup Leases
  PROVE  /\ Successor(c, p) \in LeaseRecord
         /\ Successor(c, p).device = call[c].device /\ Successor(c, p).status = "ACTIVE"
         /\ Successor(c, p).generation = NextGeneration(p)
         /\ Successor(c, p).supersededBy = NoLease
         /\ Successor(c, p).named = (call[c].named # NoLease)
         /\ Successor(c, p).operation = call[c].operation
  <1>1. call[c].device \in Devices /\ call[c].operation \in Operations
    BY DEF Inv, CallInv
  <1>2. NextGeneration(p) \in Nat
    <2>1. p # NoLease => lease[p] \in LeaseRecord
      BY ElementOfSeq DEF Inv, LeaseInv, Leases
    <2> QED
      BY <2>1 DEF NextGeneration, LeaseRecord
  <1> QED
    BY <1>1, <1>2 DEF Successor, LeaseRecord, NoLease

LEMMA ExtendedShape ==
  ASSUME Inv, NEW c \in Calls, call[c].pc = "ready", NEW p \in {NoLease} \cup Leases,
         lease' = Extended(c, p)
  PROVE  /\ Len(lease) \in Nat /\ lease' \in Seq(LeaseRecord) /\ Len(lease') = Len(lease) + 1
         /\ lease'[Len(lease) + 1] = Successor(c, p)
         /\ \A l \in Leases : lease'[l] = IF l = p THEN Superseding(lease[l], Len(lease) + 1)
                                          ELSE lease[l]
  <1> DEFINE n == Len(lease)
             old == [l \in 1 .. n |-> IF l = p THEN Superseding(lease[l], n + 1) ELSE lease[l]]
  <1>1. n \in Nat /\ \A l \in 1 .. n : lease[l] \in LeaseRecord
    BY ElementOfSeq, LenProperties DEF Inv, LeaseInv
  <1>2. old \in [1 .. n -> LeaseRecord]
    BY <1>1, SupersedingType
  <1>3. old \in Seq(LeaseRecord) /\ Len(old) = n
    BY <1>1, <1>2
  <1>4. lease' = Append(old, Successor(c, p))
    BY DEF Extended, Leases, Superseding
  <1>5. Successor(c, p) \in LeaseRecord
    BY SuccessorType
  <1>6. /\ lease' \in Seq(LeaseRecord) /\ Len(lease') = n + 1
        /\ lease'[n + 1] = Successor(c, p)
        /\ \A l \in 1 .. n : lease'[l] = old[l]
    <2> HIDE DEF old, n
    <2> QED
      BY <1>1, <1>3, <1>4, <1>5, AppendProperties
  <1> QED
    BY <1>1, <1>6 DEF Leases

LEMMA SeatTaken ==
  ASSUME Inv, NEW d \in Devices, SeatFor(d), activation' = [activation EXCEPT ![d] = "active"]
  PROVE  SeatInv'
  <1>1. activation' \in [Devices -> {"none", "active", "inactive"}]
    BY DEF Inv, SeatInv
  <1>2. ActiveDevices' = ActiveDevices \cup {d}
    BY DEF ActiveDevices, Inv, SeatInv
  <1>3. IsFiniteSet(ActiveDevices) /\ Cardinality(ActiveDevices) \in Nat /\ Seats \in Nat
    BY FS_CardinalityType, LeaseAssumption DEF Inv, SeatInv
  <1>4. IsFiniteSet(ActiveDevices')
        /\ Cardinality(ActiveDevices') =
              IF d \in ActiveDevices THEN Cardinality(ActiveDevices) ELSE Cardinality(ActiveDevices) + 1
    BY <1>2, <1>3, FS_AddElement
  <1>5. d \in ActiveDevices \/ Cardinality(ActiveDevices) < Seats
    BY DEF SeatFor, ActiveDevices
  <1>6. Cardinality(ActiveDevices) <= Seats
    BY DEF Inv, SeatInv, SeatsRespected
  <1> QED
    BY <1>1, <1>3, <1>4, <1>5, <1>6 DEF SeatInv, SeatsRespected

\* The row of the operation that is completed.
Completed(row, n) == [row EXCEPT !.status = "COMPLETED", !.result = n]

LEMMA CompletedType ==
  ASSUME NEW row \in OperationRecord, NEW n \in Nat
  PROVE  /\ Completed(row, n) \in OperationRecord
         /\ Completed(row, n).status = "COMPLETED" /\ Completed(row, n).result = n
  BY DEF Completed, OperationRecord

\* The new lease of a device follows its last one, and puts it out of force.
LEMMA ChainExtended ==
  ASSUME Inv, NEW c \in Calls, call[c].pc = "ready",
         NEW p \in Predecessors(call[c].device, call[c].named), lease' = Extended(c, p)
  PROVE  ChainInv'
  <1> DEFINE n == Len(lease)
             named == call[c].named
  <1>1. named \in {NoLease} \cup Leases
    BY DEF Inv, CallInv
  <1>2. p \in {NoLease} \cup Leases
    BY <1>1 DEF Predecessors, LatestLease, LeasesOf
  <1>3. /\ n \in Nat /\ Len(lease') = n + 1
        /\ lease'[n + 1] = Successor(c, p)
        /\ \A l \in 1 .. n : lease'[l] = IF l = p THEN Superseding(lease[l], n + 1) ELSE lease[l]
    BY <1>2, ExtendedShape DEF Leases
  <1>4. Leases = 1 .. n /\ Leases' = 1 .. (n + 1)
    BY <1>3 DEF Leases
  <1>5. ASSUME NEW l \in 1 .. n
        PROVE  /\ lease[l] \in LeaseRecord /\ lease[l].generation \in Nat
               /\ lease'[l].device = lease[l].device /\ lease'[l].named = lease[l].named
               /\ lease'[l].generation = lease[l].generation
               /\ lease'[l].status = "ACTIVE" => lease[l].status = "ACTIVE" /\ l # p
    <2>1. lease[l] \in LeaseRecord
      BY ElementOfSeq DEF Inv, LeaseInv
    <2> DEFINE r == Superseding(lease[l], n + 1)
    <2>2. n + 1 \in Nat
      BY <1>3
    <2>3. /\ r.status = "SUPERSEDED" /\ r.device = lease[l].device /\ r.named = lease[l].named
          /\ r.generation = lease[l].generation
      BY <2>1, <2>2, SupersedingType
    <2>4. lease'[l] = IF l = p THEN r ELSE lease[l]
      BY <1>3
    <2> HIDE DEF r
    <2> QED
      BY <2>1, <2>3, <2>4 DEF LeaseRecord
  <1>6. /\ lease'[n + 1].device = call[c].device /\ lease'[n + 1].generation = NextGeneration(p)
        /\ lease'[n + 1].named = (named # NoLease)
    BY <1>2, <1>3, SuccessorType
  <1>7. ASSUME NEW d \in Devices, \A l \in LeasesOf(d)' : ~lease'[l].named,
               NEW l \in LeasesOf(d)', NEW m \in LeasesOf(d)', lease'[l].status = "ACTIVE", l # m
        PROVE  lease'[m].generation < lease'[l].generation
    <2>1. \A k \in 1 .. n : lease'[k].device = d <=> k \in LeasesOf(d)
      BY <1>4, <1>5 DEF LeasesOf
    <2>2. \A k \in LeasesOf(d) : k \in 1 .. n /\ ~lease[k].named
      BY <1>4, <1>5, <1>7 DEF LeasesOf
    <2>3. \A j, k \in LeasesOf(d) :
             lease[j].status = "ACTIVE" /\ j # k => lease[k].generation < lease[j].generation
      BY <2>2 DEF Inv, ChainInv
    <2>4. l \in 1 .. (n + 1) /\ lease'[l].device = d /\ m \in 1 .. (n + 1) /\ lease'[m].device = d
      BY <1>4, <1>7 DEF LeasesOf
    <2>5. CASE l \in 1 .. n /\ m \in 1 .. n
      BY <1>5, <1>7, <2>1, <2>3, <2>4, <2>5
    <2>6. CASE l \notin 1 .. n \/ m \notin 1 .. n
      <3>1. (l = n + 1 /\ m \in 1 .. n) \/ (m = n + 1 /\ l \in 1 .. n)
        BY <1>3, <1>7, <2>4, <2>6
      <3>2. d = call[c].device /\ named = NoLease
        <4>1. n + 1 \in LeasesOf(d)'
          BY <1>7, <3>1
        <4> QED
          BY <1>6, <1>7, <2>4, <3>1, <4>1
      <3>3. LeasesOf(d) # {}
        BY <2>1, <2>4, <3>1
      <3>4. p \in LeasesOf(d) /\ \A k \in LeasesOf(d) : lease[k].generation <= lease[p].generation
        BY <3>2, <3>3 DEF Predecessors, LatestLease
      <3>5. p \in 1 .. n /\ NextGeneration(p) = lease[p].generation + 1 /\ lease[p].generation \in Nat
        <4>1. p \in 1 .. n
          BY <2>2, <3>4
        <4>2. p # NoLease
          BY <4>1, <1>3 DEF NoLease
        <4> QED
          BY <1>5, <4>1, <4>2 DEF NextGeneration
      <3>6. CASE l = n + 1 /\ m \in 1 .. n
        <4>1. m \in LeasesOf(d) /\ lease'[m].generation = lease[m].generation
              /\ lease[m].generation \in Nat
          BY <1>5, <2>1, <2>4, <3>6
        <4> QED
          BY <1>6, <3>4, <3>5, <3>6, <4>1
      <3>7. CASE m = n + 1 /\ l \in 1 .. n
        <4>1. l \in LeasesOf(d) /\ lease[l].status = "ACTIVE" /\ l # p /\ lease[l].generation \in Nat
          BY <1>5, <1>7, <2>1, <2>4, <3>7
        <4>2. lease[p].generation < lease[l].generation /\ lease[l].generation <= lease[p].generation
          BY <2>3, <3>4, <4>1
        <4> QED
          BY <3>5, <4>1, <4>2
      <3> QED
        BY <3>1, <3>6, <3>7
    <2> QED
      BY <2>5, <2>6
  <1> QED
    BY <1>7 DEF ChainInv

LEMMA IssueInv ==
  ASSUME Inv, NEW c \in Calls, Issue(c)
  PROVE  Inv'
  <1> DEFINE o == call[c].operation
             d == call[c].device
             n == Len(lease)
  <1>1. /\ call[c].pc = "ready" /\ o \in Operations /\ d \in Devices
        /\ call[c].named \in {NoLease} \cup Leases
    BY DEF Issue, Inv, CallInv
  <1>2. PICK p \in Predecessors(d, call[c].named) : lease' = Extended(c, p)
    BY DEF Issue
  <1>3. p \in {NoLease} \cup Leases
    BY <1>1 DEF Predecessors, LatestLease, LeasesOf
  <1>4. /\ n \in Nat /\ lease' \in Seq(LeaseRecord) /\ Len(lease') = n + 1
        /\ lease'[n + 1] = Successor(c, p)
        /\ \A l \in 1 .. n : lease'[l] = IF l = p THEN Superseding(lease[l], n + 1) ELSE lease[l]
    BY <1>1, <1>2, <1>3, ExtendedShape DEF Leases
  <1>5. Leases = 1 .. n /\ Leases' = 1 .. (n + 1)
    BY <1>4 DEF Leases
  <1>6. /\ operation \in [Operations -> OperationRecord]
        /\ operation[o].result = NoLease
    BY <1>1 DEF Issue, Replayed, Inv, OperationInv
  <1>7. operation' = [operation EXCEPT ![o] = Completed(operation[o], n + 1)]
    BY <1>1, <1>4, <1>6 DEF Issue, Completed
  <1>8. /\ Completed(operation[o], n + 1) \in OperationRecord
        /\ Completed(operation[o], n + 1).status = "COMPLETED"
        /\ Completed(operation[o], n + 1).result = n + 1
    <2>1. operation[o] \in OperationRecord /\ n + 1 \in Nat
      BY <1>1, <1>4, <1>6
    <2> QED
      BY <2>1, CompletedType
  <1>9. /\ operation' \in [Operations -> OperationRecord]
        /\ operation'[o].status = "COMPLETED" /\ operation'[o].result = n + 1
        /\ \A q \in Operations \ {o} : operation'[q] = operation[q]
    BY <1>1, <1>6, <1>7, <1>8
  <1>10. OperationInv'
    <2>1. n + 1 # NoLease
      BY <1>4 DEF NoLease
    <2>2. ASSUME NEW q \in Operations
          PROVE  /\ operation'[q].result \in {NoLease} \cup Leases'
                 /\ operation'[q].status = "COMPLETED" <=> operation'[q].result # NoLease
      <3>1. CASE q = o
        BY <1>4, <1>5, <1>9, <2>1, <3>1
      <3>2. CASE q # o
        BY <1>4, <1>5, <1>9, <3>2 DEF Inv, OperationInv
      <3> QED
        BY <3>1, <3>2
    <2> QED
      BY <1>9, <2>2 DEF OperationInv
  <1>11. LeaseInv'
    <2>1. ASSUME NEW l \in 1 .. n
          PROVE  /\ lease'[l].status = "SUPERSEDED" <=> lease'[l].supersededBy # NoLease
                 /\ operation'[lease'[l].operation].result = l
      <3>1. /\ lease[l] \in LeaseRecord /\ operation[lease[l].operation].result = l
            /\ lease[l].status = "SUPERSEDED" <=> lease[l].supersededBy # NoLease
        BY <1>5, ElementOfSeq DEF Inv, LeaseInv
      <3>2. /\ lease'[l].operation = lease[l].operation
            /\ lease'[l].status = "SUPERSEDED" <=> lease'[l].supersededBy # NoLease
        <4> DEFINE r == Superseding(lease[l], n + 1)
        <4>1. n + 1 \in Nat /\ n + 1 # NoLease
          BY <1>4 DEF NoLease
        <4>2. r.status = "SUPERSEDED" /\ r.supersededBy = n + 1 /\ r.operation = lease[l].operation
          BY <3>1, <4>1, SupersedingType
        <4>3. lease'[l] = IF l = p THEN r ELSE lease[l]
          BY <1>4
        <4> HIDE DEF r
        <4> QED
          BY <3>1, <4>1, <4>2, <4>3
      <3>3. lease[l].operation \in Operations /\ lease[l].operation # o
        BY <1>4, <1>6, <3>1 DEF LeaseRecord, NoLease
      <3> QED
        BY <1>9, <3>1, <3>2, <3>3
    <2>2. /\ lease'[n + 1].status = "SUPERSEDED" <=> lease'[n + 1].supersededBy # NoLease
          /\ operation'[lease'[n + 1].operation].result = n + 1
      BY <1>1, <1>3, <1>4, <1>9, SuccessorType
    <2>3. \A l \in Leases' : l \in 1 .. n \/ l = n + 1
      BY <1>4, <1>5
    <2> QED
      BY <1>4, <2>1, <2>2, <2>3 DEF LeaseInv
  <1>12. ChainInv'
    BY <1>1, <1>2, ChainExtended
  <1>13. CallInv'
    BY <1>4, <1>5, CallReturns DEF Issue
  <1>14. SeatInv'
    BY <1>1, SeatTaken DEF Issue, Eligible
  <1>15. HandedOutInv'
    <2>1. \A h \in handedOut : /\ h.operation \in Operations /\ h.lease # NoLease
                               /\ operation'[h.operation].result = h.lease
      BY <1>6, <1>9 DEF Inv, HandedOutInv
    <2>2. HandedTo(c, Len(lease')) = [operation |-> o, lease |-> n + 1]
      BY <1>4 DEF HandedTo
    <2>3. n + 1 \in Nat /\ n + 1 # NoLease
      BY <1>4 DEF NoLease
    <2>4. handedOut' \subseteq handedOut \cup {[operation |-> o, lease |-> n + 1]}
      BY <2>2 DEF Issue
    <2> QED
      BY <1>1, <1>9, <2>1, <2>3, <2>4 DEF Inv, HandedOutInv
  <1>16. KeyInv' /\ license' \in [Fact -> BOOLEAN] /\ faults' \in 0 .. MaxFaults
    <2>1. KeyInv' /\ license' \in [Fact -> BOOLEAN]
      BY KeyKept DEF Issue, Inv
    <2>2. faults' \in 0 .. MaxFaults
      BY LeaseAssumption DEF Issue, Fault, Inv
    <2> QED
      BY <2>1, <2>2
  <1> QED
    BY <1>10, <1>11, <1>12, <1>13, <1>14, <1>15, <1>16 DEF Inv

LEMMA ConflictInv ==
  ASSUME Inv, NEW c \in Calls, Conflict(c)
  PROVE  Inv'
  <1>1. /\ call[c] \in CallRecord /\ call[c].device \in Devices /\ call[c].operation \in Operations
        /\ call[c].named \in {NoLease} \cup Leases
    BY DEF Conflict, Inv, CallInv
  <1>2. /\ SecondAttempt(c) \in CallRecord /\ SecondAttempt(c).device = call[c].device
        /\ SecondAttempt(c).operation = call[c].operation /\ SecondAttempt(c).named = call[c].named
    BY <1>1 DEF SecondAttempt, CallRecord
  <1>3. Return(c) \/ Becomes(c, SecondAttempt(c))
    BY DEF Conflict
  <1> QED
    BY <1>1, <1>2, <1>3, LocalStep, ReturnStep DEF Conflict

----------------------------------------------------------------------------
(* The other owners and the host.                                           *)

LEMMA PrepareInv ==
  ASSUME Inv, NEW o \in Operations, Prepare(o)
  PROVE  Inv'
  <1> DEFINE Row(p) == [status |-> "PENDING", action |-> Plan[o].action, device |-> Plan[o].device,
                        predecessor |-> p, result |-> NoLease]
  <1>1. PICK p \in Nameable(o) : operation' = [operation EXCEPT ![o] = Row(p)]
    BY DEF Prepare
  <1>2. p \in Nat
    <2>1. Len(lease) \in Nat
      BY LenProperties DEF Inv, LeaseInv
    <2> QED
      BY <2>1 DEF Nameable, Leases, NoLease
  <1>3. Row(p) \in OperationRecord /\ Row(p).status = "PENDING" /\ Row(p).result = NoLease
    BY <1>2, LeaseAssumption DEF OperationRecord, NoLease
  <1> HIDE DEF Row
  <1>4. operation \in [Operations -> OperationRecord] /\ operation[o].result = NoLease
    BY DEF Prepare, Inv, OperationInv
  <1>5. UNCHANGED <<Leases, lease, handedOut>>
    BY DEF Prepare, Leases
  <1>6. OperationInv'
    BY <1>1, <1>3, <1>4, <1>5 DEF Inv, OperationInv
  <1>7. LeaseInv'
    <2>1. \A l \in Leases : lease[l].operation # o /\ lease[l].operation \in Operations
      <3>1. ASSUME NEW l \in Leases
            PROVE  lease[l] \in LeaseRecord /\ operation[lease[l].operation].result = l /\ l # NoLease
        BY ElementOfSeq, LenProperties DEF Inv, LeaseInv, Leases, NoLease
      <3> QED
        BY <1>4, <3>1 DEF LeaseRecord
    <2> QED
      BY <1>1, <1>4, <1>5, <2>1 DEF Inv, LeaseInv
  <1>8. ChainInv'
    BY <1>5 DEF Inv, ChainInv, LeasesOf
  <1>9. HandedOutInv'
    BY <1>1, <1>4, <1>5 DEF Inv, HandedOutInv
  <1> QED
    BY <1>6, <1>7, <1>8, <1>9, KeyKept, SeatKeptInv, CallsWait DEF Prepare, Inv

LEMMA DeactivateInv ==
  ASSUME Inv, NEW d \in Devices, Deactivate(d)
  PROVE  Inv'
  <1>1. ActiveDevices' = ActiveDevices \ {d} /\ d \in ActiveDevices
    BY DEF Deactivate, ActiveDevices, Inv, SeatInv
  <1>2. IsFiniteSet(ActiveDevices) /\ Cardinality(ActiveDevices) \in Nat /\ Seats \in Nat
        /\ Cardinality(ActiveDevices) <= Seats
    BY FS_CardinalityType, LeaseAssumption DEF Inv, SeatInv, SeatsRespected
  <1>3. IsFiniteSet(ActiveDevices') /\ Cardinality(ActiveDevices') = Cardinality(ActiveDevices) - 1
    BY <1>1, <1>2, FS_RemoveElement
  <1>4. activation' \in [Devices -> {"none", "active", "inactive"}]
    BY DEF Deactivate, Inv, SeatInv
  <1>5. SeatInv'
    BY <1>2, <1>3, <1>4 DEF SeatInv, SeatsRespected
  <1> QED
    BY <1>5, KeyKept, LeasesKept, HandedOutKept, CallsWait DEF Deactivate, Inv

LEMMA ChangeInv ==
  ASSUME Inv, Change
  PROVE  Inv'
  <1>1. license' \in [Fact -> BOOLEAN]
    BY LeaseAssumption DEF Change, Inv
  <1> QED
    BY <1>1, KeyKept, SeatKeptInv, LeasesKept, HandedOutKept, CallsWait DEF Change, Inv

----------------------------------------------------------------------------
(* The invariant and the properties.                                        *)

LEMMA InitInv ==
  ASSUME Init
  PROVE  Inv
  <1> USE DEF Init
  <1>1. Leases = {} /\ lease \in Seq(LeaseRecord)
    BY EmptySeq DEF Leases
  <1>2. ActiveKeys = {} /\ ActiveDevices = {}
    BY DEF ActiveKeys, ActiveDevices
  <1>3. KeyInv
    BY <1>2 DEF KeyInv
  <1>4. SeatInv
    BY <1>2, FS_EmptySet, LeaseAssumption DEF SeatInv, SeatsRespected
  <1>5. OperationInv
    BY DEF OperationInv, OperationRecord, NoOperation, NoLease, Action
  <1>6. LeaseInv /\ ChainInv
    BY <1>1 DEF LeaseInv, ChainInv, LeasesOf
  <1>7. CallInv
    BY IdleType DEF CallInv
  <1>8. license \in [Fact -> BOOLEAN] /\ faults \in 0 .. MaxFaults
    BY LeaseAssumption
  <1> QED
    BY <1>3, <1>4, <1>5, <1>6, <1>7, <1>8 DEF Inv, HandedOutInv

LEMMA NextInv ==
  ASSUME Inv, [Next]_vars
  PROVE  Inv'
  <1>1. CASE UNCHANGED vars
    BY <1>1, KeyKept, SeatKeptInv, LeasesKept, HandedOutKept, CallsWait DEF vars, Inv
  <1>2. ASSUME NEW c \in Calls, Refuse(c) \/ Abandon(c)
        PROVE  Inv'
    BY <1>2, ReturnStep DEF Refuse, Abandon
  <1>3. ASSUME NEW c \in Calls, NEW d \in Devices, NEW o \in Operations, NEW p \in Nameable(o),
               Request(c, d, o, p)
        PROVE  Inv'
    BY <1>3, RequestInv
  <1> QED
    BY <1>1, <1>2, <1>3, RegisterKeyInv, ReadFactsInv, ReplayInv, IssueInv, ConflictInv, PrepareInv,
       RotateInv, DeactivateInv, ChangeInv
       DEF Next, Step

THEOREM Invariance == Spec => []Inv
  BY InitInv, NextInv, PTL DEF Spec

LEMMA Consequences ==
  ASSUME Inv
  PROVE  Consistent /\ SeatsRespected /\ OneLeasePerOperation
  <1>1. TypeOK
    <2>1. \A l \in Leases : lease[l] \in LeaseRecord
      BY ElementOfSeq DEF Inv, LeaseInv, Leases
    <2>2. \A l \in Leases :
             /\ lease[l].device \in Devices
             /\ lease[l].status = "SUPERSEDED" <=> lease[l].supersededBy # NoLease
             /\ operation[lease[l].operation].result = l
      BY <2>1 DEF LeaseRecord, Inv, LeaseInv
    <2>3. \A o \in Operations :
             /\ operation[o].action \in Action
             /\ operation[o].status = "COMPLETED" <=> operation[o].result # NoLease
             /\ operation[o].result \in {NoLease} \cup Leases
      BY DEF Inv, OperationInv, OperationRecord
    <2>4. \A c \in Calls : call[c].pc \in {"idle", "bootstrap", "facts", "ready"}
      BY DEF Inv, CallInv, CallRecord
    <2> QED
      BY <2>2, <2>3, <2>4 DEF TypeOK, Inv, KeyInv, SeatInv
  <1>2. Cardinality(ActiveKeys) <= 1
    <2>1. CASE ActiveKeys = {}
      BY <2>1, FS_EmptySet
    <2>2. ASSUME NEW k \in ActiveKeys
          PROVE  Cardinality(ActiveKeys) <= 1
      <3>1. ActiveKeys = {k}
        BY <2>2 DEF Inv, KeyInv
      <3>2. Cardinality({k}) = 1
        BY FS_Singleton
      <3> QED
        BY <3>1, <3>2
    <2> QED
      BY <2>1, <2>2
  <1>3. Consistent
    BY <1>1, <1>2 DEF Consistent, Inv, ChainInv
  <1>4. OneLeasePerOperation
    BY DEF OneLeasePerOperation, Inv, LeaseInv, HandedOutInv
  <1> QED
    BY <1>3, <1>4 DEF Inv, SeatInv

\* Types, at most one active signing key, and an unforked chain of leases per device,
\* whatever calls of issue() and rotations interleave.
THEOREM ConsistentCorrect == Spec => []Consistent
  BY Invariance, Consequences, PTL

\* The licence never has more active devices than seats (the count and the activation
\* share a transaction).
THEOREM SeatsRespectedCorrect == Spec => []SeatsRespected
  BY Invariance, Consequences, PTL

\* An operation issues one lease and hands out no other, however often it is repeated.
THEOREM OneLeasePerOperationCorrect == Spec => []OneLeasePerOperation
  BY Invariance, Consequences, PTL
=============================================================================
