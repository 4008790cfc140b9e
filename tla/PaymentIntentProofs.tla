------------------------ MODULE PaymentIntentProofs ------------------------
(***************************************************************************)
(* Proofs about PaymentIntent, for every value of its constants.           *)
(***************************************************************************)
EXTENDS PaymentIntent, FiniteSetTheorems, TLAPS

\* What the local state l of a call says about the intent the row is bound to
\* and about the intents of the provider.
LocalInv(l, bound, its) ==
    /\ l.pc # "idle" => l.host \in Hosts
    /\ l.pc \in {"claim", "begin", "dispatch"} => l.fingerprint \in Fingerprints
    /\ l.pc \in Leased => l.token \in Tokens
    /\ l.pc = "bind" => /\ l.intent \in Intents
                        /\ l.got \in Observable
                        /\ its[l.intent] # "NONE"
    /\ l.pc \in Bound => bound # None /\ l.intent = bound
    /\ l.pc \in {"update", "updateAttached"} => l.got \in Observable

\* The row is bound exactly when its status was observed, to an intent that
\* exists; so does the intent behind a remembered key.
RowInv ==
    /\ attempt.intent # None <=> attempt.status \in Observable
    /\ attempt.intent # None => intents[attempt.intent] # "NONE"
    /\ key.intent # None => intents[key.intent] # "NONE"

\* The inductive invariant behind TypeOK and ReadyAgrees.
Inv ==
    /\ TypeOK
    /\ RowInv
    /\ \A c \in Calls : LocalInv(call[c], attempt.intent, intents)
    /\ ReadyAgrees

CallRecord ==
    [pc : {"idle", "claim", "begin", "find"} \cup Bound \cup Leased,
     op : {"create", "method", "attach"}, host : Hosts \cup {None},
     fingerprint : Fingerprints \cup {None}, at : Time, intent : Intents \cup {None},
     seen : Stamp \cup {NoTime}, token : Tokens \cup {None}, until : Int,
     stamp : Stamp \cup {NoTime}, got : Observable \cup {"NONE"}]

RowRecord ==
    [status : AttemptStatus \cup {"NONE"}, fingerprint : Fingerprints \cup {None},
     intent : Intents \cup {None}, token : Tokens \cup {None}, leaseUntil : Int,
     expiresAt : Int, observedAt : Stamp \cup {NoTime}]

\* Everything in TypeOK but the calls.
SharedOK ==
    /\ attempt.leaseUntil # NoTime => attempt.intent = None
    /\ attempt \in RowRecord
    /\ lastObservation \in [Hosts -> Stamp]
    /\ clock \in Time
    /\ requests \subseteq [token : Tokens, key : Fingerprints]
    /\ key \in [name : Fingerprints \cup {None}, intent : Intents \cup {None}, until : Int]
    /\ intents \in [Intents -> Observable \cup {"NONE"}]
    /\ ready \subseteq Intents
    /\ faults \in 0 .. MaxFaults

----------------------------------------------------------------------------

LEMMA TypeDef == TypeOK <=> SharedOK /\ call \in [Calls -> CallRecord]
  BY DEF TypeOK, SharedOK, RowRecord, CallRecord

LEMMA ConstantFacts ==
  /\ Lease \in Nat /\ Window \in Nat /\ KeyRetention \in Nat
  /\ MaxTime \in Nat /\ MaxStamp \in Nat /\ MaxFaults \in Nat
  /\ None \notin Intents /\ None \notin Tokens /\ None \notin Fingerprints
  /\ EnabledHosts \subseteq Hosts
  /\ Operations \subseteq {"create", "method", "attach"}
  /\ ProviderMoves \subseteq Observable
  BY ConstantsAssumption

LEMMA InvPrime ==
  ASSUME SharedOK', RowInv', ReadyAgrees', call' \in [Calls -> CallRecord],
         \A d \in Calls : LocalInv(call[d], attempt.intent, intents)'
  PROVE  Inv'
  BY DEF Inv, TypeOK, SharedOK, RowRecord, CallRecord

LEMMA IdleType == IdleCall \in CallRecord
  BY ConstantsAssumption DEF IdleCall, CallRecord, Time, Stamp, NoTime

LEMMA IdleLocal ==
  ASSUME NEW bound, NEW its
  PROVE  LocalInv(IdleCall, bound, its)
  BY DEF LocalInv, IdleCall, Bound, Leased

\* A step of one call preserves the local invariants when its new local state
\* has one, no binding is undone and no intent of the provider disappears.
LEMMA CallStep ==
  ASSUME Inv, NEW c \in Calls, NEW l \in CallRecord, Becomes(c, l),
         LocalInv(l, attempt'.intent, intents'),
         attempt.intent # None => attempt'.intent = attempt.intent,
         \A i \in Intents : intents[i] # "NONE" => intents'[i] # "NONE"
  PROVE  /\ call' \in [Calls -> CallRecord]
         /\ \A d \in Calls : LocalInv(call[d], attempt.intent, intents)'
  <1>1. call \in [Calls -> CallRecord]
    BY TypeDef DEF Inv
  <1>2. call' \in [Calls -> CallRecord]
    BY <1>1 DEF Becomes
  <1>3. ASSUME NEW d \in Calls PROVE LocalInv(call[d], attempt.intent, intents)'
    <2>1. CASE d = c
      BY <1>1, <2>1 DEF Becomes
    <2>2. CASE d # c
      <3>1. call'[d] = call[d]
        BY <1>1, <2>2 DEF Becomes
      <3>2. LocalInv(call[d], attempt.intent, intents)
        BY DEF Inv
      <3> QED
        BY <3>1, <3>2 DEF LocalInv
    <2> QED
      BY <2>1, <2>2
  <1> QED
    BY <1>2, <1>3

LEMMA InitInv == Init => Inv
  <1> SUFFICES ASSUME Init PROVE Inv
    OBVIOUS
  <1>1. SharedOK
    BY ConstantsAssumption
    DEF Init, SharedOK, RowRecord, NoAttempt, Time, Stamp, NoTime
  <1>2. call \in [Calls -> CallRecord]
    BY IdleType DEF Init
  <1>3. RowInv /\ ReadyAgrees
    BY DEF Init, RowInv, ReadyAgrees, NoAttempt, Observable, Live, Final
  <1>4. \A c \in Calls : LocalInv(call[c], attempt.intent, intents)
    BY IdleLocal DEF Init
  <1> QED
    BY <1>1, <1>2, <1>3, <1>4, TypeDef DEF Inv

LEMMA StartInv == ASSUME Inv, NEW c \in Calls, Start(c) PROVE Inv'
  <1>1. PICK h \in Hosts, fp \in Fingerprints :
          Becomes(c, [IdleCall EXCEPT !.pc = "claim", !.host = h, !.fingerprint = fp,
                                      !.at = clock])
    BY DEF Start
  <1> DEFINE l == [IdleCall EXCEPT !.pc = "claim", !.host = h, !.fingerprint = fp, !.at = clock]
  <1>2. UNCHANGED <<attempt, lastObservation, clock, requests, key, intents, ready, faults>>
    BY DEF Start
  <1>3. l \in CallRecord
    BY IdleType, TypeDef DEF Inv, SharedOK, CallRecord
  <1>4. LocalInv(l, attempt'.intent, intents')
    BY DEF LocalInv, IdleCall, Bound, Leased
  <1> HIDE DEF l
  <1>5. /\ call' \in [Calls -> CallRecord]
        /\ \A d \in Calls : LocalInv(call[d], attempt.intent, intents)'
    BY <1>1, <1>2, <1>3, <1>4, CallStep DEF l
  <1>6. SharedOK' /\ RowInv' /\ ReadyAgrees'
    BY <1>2, TypeDef DEF Inv, SharedOK, RowInv, ReadyAgrees
  <1> QED
    BY <1>5, <1>6, InvPrime

LEMMA CallFacts ==
  ASSUME Inv, NEW c \in Calls
  PROVE  call[c] \in CallRecord /\ LocalInv(call[c], attempt.intent, intents)
  BY TypeDef DEF Inv

LEMMA CallFields ==
  ASSUME Inv, NEW c \in Calls
  PROVE  /\ call[c].op \in {"create", "method", "attach"}
         /\ call[c].pc # "idle" => call[c].host \in Hosts
         /\ call[c].host \in Hosts \cup {None}
         /\ call[c].at \in Nat
         /\ call[c].at \in Time
         /\ call[c].intent \in Intents \cup {None}
         /\ call[c].seen \in Stamp \cup {NoTime}
         /\ call[c].stamp \in Stamp \cup {NoTime}
         /\ call[c].got \in Observable \cup {"NONE"}
         /\ call[c].token \in Tokens \cup {None}
         /\ call[c].until \in Int
  BY CallFacts, ConstantFacts DEF CallRecord, LocalInv, Time

LEMMA SharedFacts ==
  ASSUME Inv
  PROVE  /\ SharedOK /\ RowInv /\ ReadyAgrees
         /\ attempt \in RowRecord
         /\ attempt.intent \in Intents \cup {None}
         /\ attempt.observedAt \in Stamp \cup {NoTime}
         /\ attempt.status \in AttemptStatus \cup {"NONE"}
         /\ attempt.token \in Tokens \cup {None}
         /\ attempt.leaseUntil \in Int
         /\ attempt.expiresAt \in Int
         /\ clock \in Nat
         /\ clock \in Time
         /\ attempt.leaseUntil # NoTime => attempt.intent = None
  BY TypeDef, ConstantFacts DEF Inv, SharedOK, RowRecord, Time

LEMMA NoAttemptType == NoAttempt \in RowRecord
  BY ConstantFacts DEF NoAttempt, RowRecord, NoTime

\* The row after releasing a lease, after binding, after an observation.
LEMMA ReleasedRow ==
  ASSUME Inv, NEW s \in AttemptStatus
  PROVE  /\ Released(s) \in RowRecord
         /\ Released(s).leaseUntil = NoTime
         /\ Released(s).status = s
         /\ Released(s).token = None
         /\ Released(s).intent = attempt.intent
         /\ Released(s).expiresAt = attempt.expiresAt
         /\ Released(s).observedAt = attempt.observedAt
         /\ Released(s).fingerprint = attempt.fingerprint
  <1>1. attempt \in RowRecord /\ NoTime \in Int
    BY SharedFacts DEF NoTime
  <1>2. Released(s) = [attempt EXCEPT !.status = s, !.token = None, !.leaseUntil = NoTime]
    BY DEF Released
  <1>3. Released(s) \in RowRecord
    BY <1>1, <1>2 DEF RowRecord
  <1> QED
    BY <1>1, <1>2, <1>3 DEF RowRecord

LEMMA BoundRow ==
  ASSUME Inv, NEW i \in Intents, NEW s \in AttemptStatus, NEW t \in Stamp \cup {NoTime}
  PROVE  /\ BoundTo(i, s, t) \in RowRecord
         /\ BoundTo(i, s, t).leaseUntil = NoTime
         /\ BoundTo(i, s, t).status = s
         /\ BoundTo(i, s, t).token = None
         /\ BoundTo(i, s, t).intent = i
         /\ BoundTo(i, s, t).observedAt = t
  <1>1. Released(s) \in RowRecord /\ Released(s).leaseUntil = NoTime
        /\ Released(s).status = s /\ Released(s).token = None
    BY ReleasedRow
  <1> QED
    BY <1>1 DEF BoundTo, RowRecord

LEMMA ObservedRow ==
  ASSUME Inv, NEW s \in Observable, NEW t \in Stamp \cup {NoTime}
  PROVE  /\ Observed(s, t) \in RowRecord
         /\ Observed(s, t).intent = attempt.intent
         /\ Observed(s, t).leaseUntil = attempt.leaseUntil
         /\ Observed(s, t).token = attempt.token
         /\ Observed(s, t).status \in {attempt.status, s}
         /\ attempt.intent = None => Observed(s, t) = attempt
         /\ attempt.status \in Final => Observed(s, t).status = attempt.status
  BY SharedFacts DEF Observed, CanUpdateStatus, RowRecord, AttemptStatus

LEMMA ReturnStep ==
  ASSUME Inv, NEW c \in Calls, Return(c),
         attempt.intent # None => attempt'.intent = attempt.intent,
         \A i \in Intents : intents[i] # "NONE" => intents'[i] # "NONE"
  PROVE  /\ call' \in [Calls -> CallRecord]
         /\ \A d \in Calls : LocalInv(call[d], attempt.intent, intents)'
  BY CallStep, IdleType, IdleLocal DEF Return

LEMMA ObserveStep ==
  ASSUME Inv, NEW c \in Calls, GotoObserve(c), call[c].pc # "idle",
         attempt.intent # None, attempt' = attempt, intents' = intents
  PROVE  /\ call' \in [Calls -> CallRecord]
         /\ \A d \in Calls : LocalInv(call[d], attempt.intent, intents)'
  <1> DEFINE l == [IdleCall EXCEPT !.pc = "observe", !.op = call[c].op,
                                   !.host = call[c].host, !.intent = attempt.intent,
                                   !.seen = attempt.observedAt]
  <1>1. l \in CallRecord
    BY CallFields, SharedFacts, IdleType DEF CallRecord, Bound
  <1>2. LocalInv(l, attempt'.intent, intents')
    BY CallFields DEF LocalInv, IdleCall, Bound, Leased
  <1>3. Becomes(c, l)
    BY DEF GotoObserve
  <1> HIDE DEF l
  <1> QED
    BY <1>1, <1>2, <1>3, CallStep

LEMMA ClaimInv == ASSUME Inv, NEW c \in Calls, Claim(c) PROVE Inv'
  <1> DEFINE fp == call[c].fingerprint
             l == [call[c] EXCEPT !.pc = "begin", !.at = clock]
  <1>1. /\ UNCHANGED <<lastObservation, clock, requests, key, intents, ready, faults>>
        /\ call[c].pc = "claim"
        /\ attempt' = IF attempt.status = "NONE" THEN Inserted(fp, call[c].at) ELSE attempt
    BY DEF Claim
  <1>2. fp \in Fingerprints /\ call[c].at + Window \in Int
    BY <1>1, CallFacts, CallFields, ConstantFacts DEF LocalInv
  <1>3. /\ attempt' \in RowRecord
        /\ attempt'.intent = attempt.intent
        /\ attempt'.leaseUntil = attempt.leaseUntil \/ attempt'.leaseUntil = NoTime
        /\ attempt'.status = attempt.status \/ {attempt.status, attempt'.status} \subseteq {"NONE", "CREATING"}
    <2>1. CASE attempt.status = "NONE"
      <3>1. attempt.intent = None
        BY <2>1, SharedFacts DEF RowInv, Observable, Live, Final
      <3>2. attempt' = [NoAttempt EXCEPT !.status = "CREATING", !.fingerprint = fp,
                                         !.expiresAt = call[c].at + Window]
        BY <1>1, <2>1 DEF Inserted
      <3>3. attempt' \in RowRecord
        BY <1>2, <3>2, NoAttemptType DEF RowRecord, AttemptStatus, Open
      <3> QED
        BY <2>1, <3>1, <3>2, <3>3 DEF NoAttempt
    <2>2. CASE attempt.status # "NONE"
      BY <1>1, <2>2, SharedFacts
    <2> QED
      BY <2>1, <2>2
  <1>4. SharedOK' /\ RowInv' /\ ReadyAgrees'
    BY <1>1, <1>3, SharedFacts DEF SharedOK, RowInv, ReadyAgrees, Observable, Live, Final
  <1>5. l \in CallRecord /\ LocalInv(l, attempt'.intent, intents')
    <2>1. l \in CallRecord
      BY CallFacts, SharedFacts DEF CallRecord
    <2>2. LocalInv(l, attempt'.intent, intents')
      BY <1>1, CallFacts DEF LocalInv, CallRecord, Bound, Leased
    <2> QED
      BY <2>1, <2>2
  <1>6. /\ call' \in [Calls -> CallRecord]
        /\ \A d \in Calls : LocalInv(call[d], attempt.intent, intents)'
    <2>1. CASE Return(c)
      BY <1>1, <1>3, <2>1, ReturnStep
    <2>2. CASE attempt.intent # None /\ GotoObserve(c)
      <3>1. attempt' = attempt
        BY <1>1, <2>2, SharedFacts DEF RowInv, Observable, Live, Final
      <3> QED
        BY <1>1, <2>2, <3>1, ObserveStep
    <2>3. CASE Becomes(c, l)
      <3> HIDE DEF l
      <3> QED
        BY <1>1, <1>3, <1>5, <2>3, CallStep
    <2> QED
      BY <2>1, <2>2, <2>3 DEF Claim
  <1> QED
    BY <1>4, <1>6, InvPrime

LEMMA BeginCreateInv == ASSUME Inv, NEW c \in Calls, BeginCreate(c) PROVE Inv'
  <1>1. /\ UNCHANGED <<lastObservation, clock, requests, key, intents, ready, faults>>
        /\ call[c].pc = "begin"
    BY DEF BeginCreate
  <1>2. PICK t \in call[c].at .. clock :
          \/ /\ CanBeginCreate(t)
             /\ \E token \in Tokens \ TokensInUse :
                   /\ attempt' = [attempt EXCEPT !.token = token, !.leaseUntil = t + Lease]
                   /\ Becomes(c, [call[c] EXCEPT !.pc = "dispatch", !.token = token,
                                                 !.until = t + Lease, !.at = 0])
          \/ attempt.intent # None /\ attempt' = attempt /\ GotoObserve(c)
          \/ attempt.intent = None /\ ~CanBeginCreate(t) /\ attempt' = attempt /\ Return(c)
    BY DEF BeginCreate
  <1>3. t + Lease \in Int
    BY CallFields, SharedFacts, ConstantFacts
  <1>4. CASE /\ CanBeginCreate(t)
             /\ \E token \in Tokens \ TokensInUse :
                   /\ attempt' = [attempt EXCEPT !.token = token, !.leaseUntil = t + Lease]
                   /\ Becomes(c, [call[c] EXCEPT !.pc = "dispatch", !.token = token,
                                                 !.until = t + Lease, !.at = 0])
    <2>1. PICK token \in Tokens \ TokensInUse :
             /\ attempt' = [attempt EXCEPT !.token = token, !.leaseUntil = t + Lease]
             /\ Becomes(c, [call[c] EXCEPT !.pc = "dispatch", !.token = token,
                                           !.until = t + Lease, !.at = 0])
      BY <1>4
    <2> DEFINE l == [call[c] EXCEPT !.pc = "dispatch", !.token = token,
                                    !.until = t + Lease, !.at = 0]
    <2>2. /\ attempt' \in RowRecord
          /\ attempt'.intent = None
          /\ attempt.intent = None
          /\ attempt'.status = attempt.status
      BY <1>3, <1>4, <2>1, SharedFacts DEF RowRecord, CanBeginCreate
    <2>3. l \in CallRecord
      <3>1. 0 \in Time
        BY ConstantFacts DEF Time
      <3> QED
        BY <1>3, <3>1, CallFacts DEF CallRecord, Leased
    <2>4. LocalInv(l, attempt'.intent, intents')
      BY <1>1, CallFacts DEF LocalInv, CallRecord, Bound, Leased
    <2>5. SharedOK' /\ RowInv' /\ ReadyAgrees'
      BY <1>1, <2>2, SharedFacts DEF SharedOK, RowInv, ReadyAgrees
    <2> HIDE DEF l
    <2>6. /\ call' \in [Calls -> CallRecord]
          /\ \A d \in Calls : LocalInv(call[d], attempt.intent, intents)'
      BY <1>1, <2>1, <2>2, <2>3, <2>4, CallStep DEF l
    <2> QED
      BY <2>5, <2>6, InvPrime
  <1>5. CASE attempt' = attempt /\ (Return(c) \/ (attempt.intent # None /\ GotoObserve(c)))
    <2>1. SharedOK' /\ RowInv' /\ ReadyAgrees'
      BY <1>1, <1>5, SharedFacts DEF SharedOK, RowInv, ReadyAgrees
    <2>2. /\ call' \in [Calls -> CallRecord]
          /\ \A d \in Calls : LocalInv(call[d], attempt.intent, intents)'
      BY <1>1, <1>5, ReturnStep, ObserveStep
    <2> QED
      BY <2>1, <2>2, InvPrime
  <1> QED
    BY <1>2, <1>4, <1>5

\* A step that only takes an observation stamp and moves on.
LEMMA StampedFacts ==
  ASSUME Inv, NEW c \in Calls, NEW pc, Stamped(c, pc), call[c].pc # "idle"
  PROVE  /\ ObservationAt(c) \in Stamp
         /\ lastObservation' \in [Hosts -> Stamp]
  <1>1. /\ clock \in Nat /\ call[c].seen \in Stamp \cup {NoTime}
        /\ call[c].host \in Hosts /\ lastObservation \in [Hosts -> Stamp]
    BY CallFields, SharedFacts DEF SharedOK
  <1>2. lastObservation[call[c].host] \in Stamp
    BY <1>1
  <1>3. ObservationAt(c) \in Nat
    BY <1>1, <1>2, ConstantFacts DEF ObservationAt, Larger, Stamp, NoTime
  <1>4. ObservationAt(c) \in Stamp
    BY <1>3, ConstantFacts DEF Stamped, Stamp
  <1> QED
    BY <1>1, <1>4 DEF Stamped

LEMMA DispatchInv == ASSUME Inv, NEW c \in Calls, Dispatch(c) PROVE Inv'
  <1> DEFINE l == [call[c] EXCEPT !.pc = "creating", !.stamp = ObservationAt(c)]
  <1>1. /\ UNCHANGED <<attempt, clock, key, intents, ready, faults>>
        /\ call[c].pc = "dispatch"
        /\ Stamped(c, "creating")
        /\ requests' = requests \cup {[token |-> call[c].token, key |-> call[c].fingerprint]}
    BY DEF Dispatch, IdempotencyKey
  <1>2. ObservationAt(c) \in Stamp /\ lastObservation' \in [Hosts -> Stamp]
    BY <1>1, StampedFacts
  <1>3. call[c].token \in Tokens /\ call[c].fingerprint \in Fingerprints
    BY <1>1, CallFacts DEF LocalInv, Leased
  <1>4. l \in CallRecord
    BY <1>2, CallFacts DEF CallRecord, Leased
  <1>5. LocalInv(l, attempt'.intent, intents')
    BY <1>1, CallFacts DEF LocalInv, CallRecord, Bound, Leased
  <1>6. SharedOK' /\ RowInv' /\ ReadyAgrees'
    BY <1>1, <1>2, <1>3, SharedFacts DEF SharedOK, RowInv, ReadyAgrees
  <1>7. Becomes(c, l)
    BY <1>1 DEF Stamped
  <1> HIDE DEF l
  <1>8. /\ call' \in [Calls -> CallRecord]
        /\ \A d \in Calls : LocalInv(call[d], attempt.intent, intents)'
    BY <1>1, <1>4, <1>5, <1>7, CallStep
  <1> QED
    BY <1>6, <1>8, InvPrime

LEMMA ObserveInv ==
  ASSUME Inv, NEW c \in Calls, Observe(c) \/ ObserveAttach(c)
  PROVE  Inv'
  <1>1. PICK pc \in {"retrieve", "attach"} : Stamped(c, pc)
    BY DEF Observe, ObserveAttach
  <1> DEFINE l == [call[c] EXCEPT !.pc = pc, !.stamp = ObservationAt(c)]
  <1>2. /\ UNCHANGED <<attempt, clock, requests, key, intents, ready, faults>>
        /\ call[c].pc \in {"observe", "observeAttach"}
    BY DEF Observe, ObserveAttach
  <1>3. ObservationAt(c) \in Stamp /\ lastObservation' \in [Hosts -> Stamp]
    BY <1>1, <1>2, StampedFacts
  <1>4. l \in CallRecord
    BY <1>3, CallFacts DEF CallRecord, Bound
  <1>5. LocalInv(l, attempt'.intent, intents')
    BY <1>2, CallFacts DEF LocalInv, CallRecord, Bound, Leased
  <1>6. SharedOK' /\ RowInv' /\ ReadyAgrees'
    BY <1>2, <1>3, SharedFacts DEF SharedOK, RowInv, ReadyAgrees
  <1>7. Becomes(c, l)
    BY <1>1 DEF Stamped
  <1> HIDE DEF l
  <1>8. /\ call' \in [Calls -> CallRecord]
        /\ \A d \in Calls : LocalInv(call[d], attempt.intent, intents)'
    BY <1>2, <1>4, <1>5, <1>7, CallStep
  <1> QED
    BY <1>6, <1>8, InvPrime

\* Moving on to the catch branch keeps everything else.
LEMMA GotoUnknownStep ==
  ASSUME Inv, NEW c \in Calls, Goto(c, "unknown"), call[c].pc \in Leased,
         attempt.intent # None => attempt'.intent = attempt.intent,
         intents' = intents
  PROVE  /\ call' \in [Calls -> CallRecord]
         /\ \A d \in Calls : LocalInv(call[d], attempt.intent, intents)'
  <1> DEFINE l == [call[c] EXCEPT !.pc = "unknown"]
  <1>1. l \in CallRecord
    BY CallFacts DEF CallRecord, Leased
  <1>2. LocalInv(l, attempt'.intent, intents')
    BY CallFacts DEF LocalInv, CallRecord, Bound, Leased
  <1>3. Becomes(c, l)
    BY DEF Goto
  <1> HIDE DEF l
  <1> QED
    BY <1>1, <1>2, <1>3, CallStep

LEMMA BindInv ==
  ASSUME Inv, NEW c \in Calls, Bind(c) \/ BindFails(c)
  PROVE  Inv'
  <1> DEFINE i == call[c].intent
             s == call[c].got
             t == call[c].stamp
  <1>1. /\ UNCHANGED <<lastObservation, clock, requests, key, intents>>
        /\ faults' \in 0 .. MaxFaults
        /\ call[c].pc = "bind"
        /\ attempt' = attempt \/ (HoldsLease(call[c].token) /\ attempt' = BoundTo(i, s, t))
        /\ Return(c) \/ Goto(c, "unknown")
    BY SharedFacts, ConstantFacts DEF Bind, BindFails, Answer, Fault, SharedOK
  <1>2. /\ i \in Intents /\ s \in Observable /\ t \in Stamp \cup {NoTime}
        /\ intents[i] # "NONE" /\ i # None
    BY <1>1, CallFacts, CallFields, ConstantFacts DEF LocalInv
  <1>3. s \in AttemptStatus /\ call[c].pc \in Leased
    BY <1>1, <1>2 DEF AttemptStatus, Leased
  <1>4. /\ attempt' \in RowRecord
        /\ attempt'.leaseUntil # NoTime => attempt'.intent = None
        /\ attempt.intent # None => attempt'.intent = attempt.intent
        /\ attempt'.intent # None <=> attempt'.status \in Observable
        /\ attempt'.intent # None => intents[attempt'.intent] # "NONE"
    <2>1. CASE attempt' = attempt
      BY <2>1, SharedFacts DEF RowInv
    <2>2. CASE HoldsLease(call[c].token) /\ attempt' = BoundTo(i, s, t)
      BY <1>2, <1>3, <2>2, BoundRow DEF HoldsLease
    <2> QED
      BY <1>1, <2>1, <2>2
  <1>5. ready' = ready \/ (ready' = ready \cup {i} /\ attempt'.intent = i)
    <2>1. CASE ready' = ready
      BY <2>1
    <2>2. CASE HoldsLease(call[c].token) /\ attempt' = BoundTo(i, s, t) /\ Answer(c, s)
      BY <1>2, <1>3, <2>2, BoundRow DEF Answer
    <2>3. CASE FindsOwnBinding(c) /\ attempt' = attempt /\ Answer(c, attempt.status)
      BY <2>3 DEF Answer, FindsOwnBinding
    <2> QED
      BY <2>1, <2>2, <2>3 DEF Bind, BindFails
  <1>6. ReadyAgrees'
    <2>1. \A j \in ready : attempt'.intent = j
      BY <1>4, SharedFacts, ConstantFacts DEF ReadyAgrees, SharedOK
    <2> QED
      BY <1>5, <2>1 DEF ReadyAgrees
  <1>7. SharedOK' /\ RowInv'
    BY <1>1, <1>2, <1>4, <1>5, SharedFacts DEF SharedOK, RowInv
  <1>8. /\ call' \in [Calls -> CallRecord]
        /\ \A d \in Calls : LocalInv(call[d], attempt.intent, intents)'
    BY <1>1, <1>3, <1>4, ReturnStep, GotoUnknownStep
  <1> QED
    BY <1>6, <1>7, <1>8, InvPrime

LEMMA MarkInv ==
  ASSUME Inv, NEW c \in Calls, MarkUnknown(c) \/ MarkFailed(c)
  PROVE  Inv'
  <1>1. PICK s \in {"UNKNOWN", "FAILED"} :
          attempt' = IF HoldsLease(call[c].token) THEN Released(s) ELSE attempt
    BY DEF MarkUnknown, MarkFailed
  <1>2. /\ UNCHANGED <<lastObservation, clock, requests, key, intents, ready, faults>>
        /\ Return(c)
    BY DEF MarkUnknown, MarkFailed
  <1>3. s \in AttemptStatus /\ s \notin Observable
    BY DEF AttemptStatus, Open, Observable, Live, Final
  <1>4. /\ attempt' \in RowRecord
        /\ attempt'.leaseUntil # NoTime => attempt'.intent = None
        /\ attempt'.intent = attempt.intent
        /\ attempt'.intent # None <=> attempt'.status \in Observable
    <2>1. CASE HoldsLease(call[c].token)
      BY <1>1, <1>3, <2>1, ReleasedRow DEF HoldsLease
    <2>2. CASE ~HoldsLease(call[c].token)
      BY <1>1, <2>2, SharedFacts DEF RowInv
    <2> QED
      BY <2>1, <2>2
  <1>5. SharedOK' /\ RowInv' /\ ReadyAgrees'
    BY <1>2, <1>4, SharedFacts DEF SharedOK, RowInv, ReadyAgrees
  <1>6. /\ call' \in [Calls -> CallRecord]
        /\ \A d \in Calls : LocalInv(call[d], attempt.intent, intents)'
    BY <1>2, <1>4, ReturnStep
  <1> QED
    BY <1>5, <1>6, InvPrime

LEMMA StartContinuationInv ==
  ASSUME Inv, NEW c \in Calls, StartContinuation(c)
  PROVE  Inv'
  <1>1. PICK h \in Hosts, op \in Operations \ {"create"} :
          Becomes(c, [IdleCall EXCEPT !.pc = "find", !.op = op, !.host = h])
    BY DEF StartContinuation
  <1> DEFINE l == [IdleCall EXCEPT !.pc = "find", !.op = op, !.host = h]
  <1>2. UNCHANGED <<attempt, lastObservation, clock, requests, key, intents, ready, faults>>
    BY DEF StartContinuation
  <1>3. l \in CallRecord
    BY IdleType, ConstantFacts DEF CallRecord
  <1>4. LocalInv(l, attempt'.intent, intents')
    BY DEF LocalInv, IdleCall, Bound, Leased
  <1>5. SharedOK' /\ RowInv' /\ ReadyAgrees'
    BY <1>2, SharedFacts DEF SharedOK, RowInv, ReadyAgrees
  <1> HIDE DEF l
  <1>6. /\ call' \in [Calls -> CallRecord]
        /\ \A d \in Calls : LocalInv(call[d], attempt.intent, intents)'
    BY <1>1, <1>2, <1>3, <1>4, CallStep DEF l
  <1> QED
    BY <1>5, <1>6, InvPrime

LEMMA FindInv == ASSUME Inv, NEW c \in Calls, Find(c) PROVE Inv'
  <1>1. /\ UNCHANGED <<attempt, lastObservation, clock, requests, key, intents, ready, faults>>
        /\ call[c].pc = "find"
        /\ Return(c) \/ (attempt.intent # None /\ GotoObserve(c))
    BY DEF Find
  <1>2. SharedOK' /\ RowInv' /\ ReadyAgrees'
    BY <1>1, SharedFacts DEF SharedOK, RowInv, ReadyAgrees
  <1>3. /\ call' \in [Calls -> CallRecord]
        /\ \A d \in Calls : LocalInv(call[d], attempt.intent, intents)'
    BY <1>1, ReturnStep, ObserveStep
  <1> QED
    BY <1>2, <1>3, InvPrime

LEMMA RetrieveInv == ASSUME Inv, NEW c \in Calls, Retrieve(c) PROVE Inv'
  <1> DEFINE l == [call[c] EXCEPT !.pc = "update", !.got = intents[call[c].intent]]
  <1>1. /\ UNCHANGED <<attempt, lastObservation, clock, requests, key, intents, ready, faults>>
        /\ call[c].pc = "retrieve"
        /\ Becomes(c, l)
    BY DEF Retrieve
  <1>2. call[c].intent = attempt.intent /\ attempt.intent # None
    BY <1>1, CallFacts DEF LocalInv, Bound
  <1>3. intents[call[c].intent] \in Observable
    BY <1>2, SharedFacts DEF SharedOK, RowInv
  <1>4. l \in CallRecord
    BY <1>3, CallFacts DEF CallRecord, Bound
  <1>5. LocalInv(l, attempt'.intent, intents')
    BY <1>1, <1>2, <1>3, CallFacts DEF LocalInv, CallRecord, Bound, Leased
  <1>6. SharedOK' /\ RowInv' /\ ReadyAgrees'
    BY <1>1, SharedFacts DEF SharedOK, RowInv, ReadyAgrees
  <1> HIDE DEF l
  <1>7. /\ call' \in [Calls -> CallRecord]
        /\ \A d \in Calls : LocalInv(call[d], attempt.intent, intents)'
    BY <1>1, <1>4, <1>5, CallStep
  <1> QED
    BY <1>6, <1>7, InvPrime

LEMMA UpdateInv ==
  ASSUME Inv, NEW c \in Calls, UpdateStatus(c) \/ UpdateAttached(c)
  PROVE  Inv'
  <1> DEFINE l == [call[c] EXCEPT !.pc = "observeAttach", !.seen = attempt'.observedAt]
  <1>1. /\ UNCHANGED <<lastObservation, clock, requests, key, intents, faults>>
        /\ call[c].pc \in {"update", "updateAttached"}
        /\ attempt' = Observed(call[c].got, call[c].stamp)
        /\ Return(c) \/ Becomes(c, l)
        /\ ready' = ready \/ ready' = ready \cup {call[c].intent}
    BY DEF UpdateStatus, UpdateAttached, Answer
  <1>2. /\ call[c].got \in Observable
        /\ call[c].stamp \in Stamp \cup {NoTime}
        /\ call[c].intent = attempt.intent
        /\ attempt.intent # None
    BY <1>1, CallFacts, CallFields DEF LocalInv, Bound
  <1>3. /\ attempt' \in RowRecord
        /\ attempt'.intent = attempt.intent
        /\ attempt'.leaseUntil = attempt.leaseUntil
        /\ attempt'.status \in {attempt.status, call[c].got}
    BY <1>1, <1>2, ObservedRow
  <1>4. attempt'.status \in Observable
    BY <1>2, <1>3, SharedFacts DEF RowInv
  <1>5. SharedOK' /\ RowInv' /\ ReadyAgrees'
    BY <1>1, <1>2, <1>3, <1>4, SharedFacts DEF SharedOK, RowInv, ReadyAgrees
  <1>6. l \in CallRecord
    <2>1. attempt'.observedAt \in Stamp \cup {NoTime}
      BY <1>3 DEF RowRecord
    <2> QED
      BY <2>1, CallFacts DEF CallRecord, Bound
  <1>7. LocalInv(l, attempt'.intent, intents')
    BY <1>1, <1>2, <1>3, CallFacts DEF LocalInv, CallRecord, Bound, Leased
  <1> HIDE DEF l
  <1>8. /\ call' \in [Calls -> CallRecord]
        /\ \A d \in Calls : LocalInv(call[d], attempt.intent, intents)'
    BY <1>1, <1>3, <1>6, <1>7, CallStep, ReturnStep
  <1> QED
    BY <1>5, <1>8, InvPrime

LEMMA ProviderAttachInv == ASSUME Inv, NEW c \in Calls, ProviderAttach(c) PROVE Inv'
  <1>1. PICK s \in ProviderMoves :
          /\ intents' = [intents EXCEPT ![call[c].intent] = s]
          /\ Becomes(c, [call[c] EXCEPT !.pc = "updateAttached", !.got = s])
    BY DEF ProviderAttach
  <1> DEFINE l == [call[c] EXCEPT !.pc = "updateAttached", !.got = s]
  <1>2. /\ UNCHANGED <<attempt, lastObservation, clock, requests, key, ready, faults>>
        /\ call[c].pc = "attach"
    BY DEF ProviderAttach
  <1>3. s \in Observable /\ s # "NONE"
    BY ConstantFacts DEF Observable, Live, Final
  <1>4. /\ intents' \in [Intents -> Observable \cup {"NONE"}]
        /\ \A i \in Intents : intents[i] # "NONE" => intents'[i] # "NONE"
    BY <1>1, <1>3, SharedFacts DEF SharedOK
  <1>5. l \in CallRecord
    BY <1>3, CallFacts DEF CallRecord, Bound
  <1>6. LocalInv(l, attempt'.intent, intents')
    BY <1>2, <1>3, CallFacts DEF LocalInv, CallRecord, Bound, Leased
  <1>7. SharedOK' /\ RowInv' /\ ReadyAgrees'
    <2>1. SharedOK' /\ ReadyAgrees'
      BY <1>2, <1>4, SharedFacts DEF SharedOK, ReadyAgrees
    <2>2. key.intent \in Intents \cup {None}
      BY SharedFacts DEF SharedOK
    <2> QED
      BY <1>2, <1>4, <2>1, <2>2, SharedFacts DEF RowInv
  <1> HIDE DEF l
  <1>8. /\ call' \in [Calls -> CallRecord]
        /\ \A d \in Calls : LocalInv(call[d], attempt.intent, intents)'
    BY <1>1, <1>2, <1>4, <1>5, <1>6, CallStep DEF l
  <1> QED
    BY <1>7, <1>8, InvPrime

LEMMA AbandonInv ==
  ASSUME Inv, NEW c \in Calls, Abandon(c) \/ OutcomeUnknown(c)
  PROVE  Inv'
  <1>1. /\ UNCHANGED <<attempt, lastObservation, clock, key, intents, ready>>
        /\ requests' \subseteq requests
        /\ faults' \in 0 .. MaxFaults
        /\ Return(c) \/ (call[c].pc \in Leased /\ Goto(c, "unknown"))
    BY SharedFacts, ConstantFacts DEF Abandon, OutcomeUnknown, Fault, SharedOK, Leased
  <1>2. SharedOK' /\ RowInv' /\ ReadyAgrees'
    BY <1>1, SharedFacts DEF SharedOK, RowInv, ReadyAgrees
  <1>3. /\ call' \in [Calls -> CallRecord]
        /\ \A d \in Calls : LocalInv(call[d], attempt.intent, intents)'
    BY <1>1, ReturnStep, GotoUnknownStep
  <1> QED
    BY <1>2, <1>3, InvPrime

\* Resolve names an existing intent and keeps those there are.
LEMMA ResolveFacts ==
  ASSUME Inv, NEW k \in Fingerprints, NEW i \in Intents, Resolve(k, i)
  PROVE  /\ key' \in [name : Fingerprints \cup {None}, intent : Intents \cup {None},
                      until : Int]
         /\ intents' \in [Intents -> Observable \cup {"NONE"}]
         /\ intents'[i] \in Observable
         /\ \A j \in Intents : intents[j] # "NONE" => intents'[j] # "NONE"
         /\ key'.intent # None => intents'[key'.intent] # "NONE"
  <1>1. /\ key \in [name : Fingerprints \cup {None}, intent : Intents \cup {None},
                    until : Int]
        /\ intents \in [Intents -> Observable \cup {"NONE"}]
        /\ key.intent # None => intents[key.intent] # "NONE"
        /\ clock + KeyRetention \in Int
    BY SharedFacts, ConstantFacts DEF SharedOK, RowInv
  <1>2. CASE KeyKnown(k)
    BY <1>1, <1>2, ConstantFacts DEF Resolve
  <1>3. CASE ~KeyKnown(k)
    BY <1>1, <1>3, ConstantFacts DEF Resolve, Observable, Live
  <1> QED
    BY <1>2, <1>3

LEMMA ProviderCreateInv == ASSUME Inv, NEW r \in requests, ProviderCreate(r) PROVE Inv'
  <1>1. PICK i \in Intents :
          /\ Resolve(r.key, i)
          /\ call' = [c \in Calls |->
                        IF Waiting(c, r)
                        THEN [call[c] EXCEPT !.pc = "bind", !.intent = i, !.got = intents'[i]]
                        ELSE call[c]]
    BY DEF ProviderCreate
  <1>2. /\ UNCHANGED <<attempt, lastObservation, clock, ready, faults>>
        /\ requests' \subseteq requests
    BY DEF ProviderCreate
  <1>3. r.key \in Fingerprints
    BY SharedFacts DEF SharedOK
  <1>4. /\ key' \in [name : Fingerprints \cup {None}, intent : Intents \cup {None},
                     until : Int]
        /\ intents' \in [Intents -> Observable \cup {"NONE"}]
        /\ intents'[i] \in Observable
        /\ \A j \in Intents : intents[j] # "NONE" => intents'[j] # "NONE"
        /\ key'.intent # None => intents'[key'.intent] # "NONE"
    BY <1>1, <1>3, ResolveFacts
  <1>5. SharedOK' /\ RowInv' /\ ReadyAgrees'
    BY <1>2, <1>4, SharedFacts DEF SharedOK, RowInv, ReadyAgrees
  <1>6. ASSUME NEW d \in Calls
        PROVE  call'[d] \in CallRecord /\ LocalInv(call[d], attempt.intent, intents)'
    <2> DEFINE l == [call[d] EXCEPT !.pc = "bind", !.intent = i, !.got = intents'[i]]
    <2>1. call[d] \in CallRecord /\ LocalInv(call[d], attempt.intent, intents)
      BY CallFacts
    <2>2. CASE Waiting(d, r)
      <3>1. call'[d] = l
        BY <1>1, <2>2
      <3>2. l \in CallRecord
        BY <1>4, <2>1 DEF CallRecord, Leased
      <3>3. intents'[i] # "NONE"
        BY <1>4 DEF Observable, Live, Final
      <3>4. LocalInv(l, attempt'.intent, intents')
        BY <1>4, <2>1, <2>2, <3>3 DEF LocalInv, CallRecord, Waiting, Bound, Leased
      <3> HIDE DEF l
      <3> QED
        BY <3>1, <3>2, <3>4 DEF LocalInv
    <2>3. CASE ~Waiting(d, r)
      <3>1. call'[d] = call[d]
        BY <1>1, <2>3
      <3> QED
        BY <1>2, <1>4, <2>1, <3>1 DEF LocalInv
    <2> QED
      BY <2>2, <2>3
  <1>7. call' \in [Calls -> CallRecord]
    BY <1>1, <1>6
  <1> QED
    BY <1>5, <1>6, <1>7, InvPrime

LEMMA ProviderRejectInv == ASSUME Inv, NEW r \in requests, ProviderReject(r) PROVE Inv'
  <1>1. /\ UNCHANGED <<attempt, lastObservation, clock, ready>>
        /\ requests' \subseteq requests
        /\ faults' \in 0 .. MaxFaults
        /\ UNCHANGED <<key, intents>> \/ \E i \in Intents : Resolve(r.key, i)
        /\ call' = [c \in Calls |->
                      IF Waiting(c, r) THEN [call[c] EXCEPT !.pc = "rejected"] ELSE call[c]]
    BY SharedFacts, ConstantFacts DEF ProviderReject, Fault, SharedOK
  <1>2. r.key \in Fingerprints
    BY SharedFacts DEF SharedOK
  <1>3. /\ key' \in [name : Fingerprints \cup {None}, intent : Intents \cup {None},
                     until : Int]
        /\ intents' \in [Intents -> Observable \cup {"NONE"}]
        /\ \A j \in Intents : intents[j] # "NONE" => intents'[j] # "NONE"
        /\ key'.intent # None => intents'[key'.intent] # "NONE"
    BY <1>1, <1>2, ResolveFacts, SharedFacts DEF SharedOK, RowInv
  <1>4. SharedOK' /\ RowInv' /\ ReadyAgrees'
    BY <1>1, <1>3, SharedFacts DEF SharedOK, RowInv, ReadyAgrees
  <1>5. ASSUME NEW d \in Calls
        PROVE  call'[d] \in CallRecord /\ LocalInv(call[d], attempt.intent, intents)'
    <2> DEFINE l == [call[d] EXCEPT !.pc = "rejected"]
    <2>1. call[d] \in CallRecord /\ LocalInv(call[d], attempt.intent, intents)
      BY CallFacts
    <2>2. CASE Waiting(d, r)
      <3>1. call'[d] = l
        BY <1>1, <2>2
      <3>2. l \in CallRecord
        BY <2>1 DEF CallRecord, Leased
      <3>3. LocalInv(l, attempt'.intent, intents')
        BY <2>1, <2>2 DEF LocalInv, CallRecord, Waiting, Bound, Leased
      <3> HIDE DEF l
      <3> QED
        BY <3>1, <3>2, <3>3 DEF LocalInv
    <2>3. CASE ~Waiting(d, r)
      <3>1. call'[d] = call[d]
        BY <1>1, <2>3
      <3> QED
        BY <1>1, <1>3, <2>1, <3>1 DEF LocalInv
    <2> QED
      BY <2>2, <2>3
  <1>6. call' \in [Calls -> CallRecord]
    BY <1>1, <1>5
  <1> QED
    BY <1>4, <1>5, <1>6, InvPrime

LEMMA CrashInv == ASSUME Inv, NEW h \in Hosts, Crash(h) PROVE Inv'
  <1>1. /\ UNCHANGED <<attempt, clock, requests, key, intents, ready>>
        /\ faults' \in 0 .. MaxFaults
        /\ call' = [c \in Calls |-> IF call[c].host = h THEN IdleCall ELSE call[c]]
        /\ lastObservation' = [lastObservation EXCEPT ![h] = 0]
    BY SharedFacts, ConstantFacts DEF Crash, Fault, SharedOK
  <1>2. lastObservation' \in [Hosts -> Stamp]
    BY <1>1, SharedFacts, ConstantFacts DEF SharedOK, Stamp
  <1>3. SharedOK' /\ RowInv' /\ ReadyAgrees'
    BY <1>1, <1>2, SharedFacts DEF SharedOK, RowInv, ReadyAgrees
  <1>4. ASSUME NEW d \in Calls
        PROVE  call'[d] \in CallRecord /\ LocalInv(call[d], attempt.intent, intents)'
    <2>1. call'[d] \in {IdleCall, call[d]}
      BY <1>1
    <2> QED
      BY <1>1, <2>1, CallFacts, IdleType, IdleLocal
  <1>5. call' \in [Calls -> CallRecord]
    BY <1>1, <1>4
  <1> QED
    BY <1>3, <1>4, <1>5, InvPrime

LEMMA EnvironmentInv ==
  ASSUME Inv, ProviderAdvance \/ Tick \/ UNCHANGED vars
  PROVE  Inv'
  <1>1. /\ UNCHANGED <<attempt, call, lastObservation, requests, key, ready, faults>>
        /\ clock' \in Time
        /\ intents' \in [Intents -> Observable \cup {"NONE"}]
        /\ \A i \in Intents : intents[i] # "NONE" => intents'[i] # "NONE"
    <2>1. CASE ProviderAdvance
      BY <2>1, SharedFacts, ConstantFacts DEF ProviderAdvance, SharedOK, Observable, Live, Final
    <2>2. CASE Tick \/ UNCHANGED vars
      BY <2>2, SharedFacts, ConstantFacts DEF Tick, vars, SharedOK, Time
    <2> QED
      BY <2>1, <2>2
  <1>2. key.intent \in Intents \cup {None}
    BY SharedFacts DEF SharedOK
  <1>3. SharedOK' /\ RowInv' /\ ReadyAgrees'
    BY <1>1, <1>2, SharedFacts DEF SharedOK, RowInv, ReadyAgrees
  <1>4. call' \in [Calls -> CallRecord]
    BY <1>1, TypeDef DEF Inv
  <1>5. \A d \in Calls : LocalInv(call[d], attempt.intent, intents)'
    BY <1>1, CallFacts DEF LocalInv
  <1> QED
    BY <1>3, <1>4, <1>5, InvPrime

LEMMA NextInv == Inv /\ [Next]_vars => Inv'
  <1> SUFFICES ASSUME Inv, [Next]_vars PROVE Inv'
    OBVIOUS
  <1>1. ASSUME NEW c \in Calls, Start(c) \/ StartContinuation(c) \/ Step(c)
        PROVE  Inv'
    BY <1>1, StartInv, StartContinuationInv, ClaimInv, BeginCreateInv, DispatchInv,
       BindInv, MarkInv, FindInv, ObserveInv, RetrieveInv, UpdateInv, ProviderAttachInv
    DEF Step
  <1>2. ASSUME NEW c \in Calls, BindFails(c) \/ OutcomeUnknown(c) \/ Abandon(c)
        PROVE  Inv'
    BY <1>2, BindInv, AbandonInv
  <1>3. ASSUME NEW r \in requests, ProviderCreate(r) \/ ProviderReject(r)
        PROVE  Inv'
    BY <1>3, ProviderCreateInv, ProviderRejectInv
  <1>4. ASSUME NEW h \in Hosts, Crash(h)
        PROVE  Inv'
    BY <1>4, CrashInv
  <1>5. CASE ProviderAdvance \/ Tick \/ UNCHANGED vars
    BY <1>5, EnvironmentInv
  <1> QED
    BY <1>1, <1>2, <1>3, <1>4, <1>5 DEF Next

LEMMA InvCorrect == Spec => []Inv
  BY InitInv, NextInv, PTL DEF Spec

\* Every variable keeps its type and a bound row never carries a lease, as the
\* CHECK constraint of migration 0007 demands of every UPDATE of the repository.
THEOREM TypeCorrect == Spec => []TypeOK
  <1>1. Inv => TypeOK
    BY DEF Inv
  <1> QED
    BY <1>1, InvCorrect, PTL

\* However many calls, hosts, lease takeovers, forgotten keys and lost answers:
\* the only client key handed out is that of the intent the row is bound to.
THEOREM ReadyAgreesCorrect == Spec => []ReadyAgrees
  <1>1. Inv => ReadyAgrees
    BY DEF Inv
  <1> QED
    BY <1>1, InvCorrect, PTL

----------------------------------------------------------------------------
\* The attempt implements PaymentIntentPromise.

Outcome(row) == IF row.status \in Final \cup {"FAILED"} THEN row.status ELSE "OPEN"

LEMMA PromiseInit == Init => Promise!Init
  BY DEF Init, NoAttempt, Promise!Init, Final

LEMMA PromiseStutter ==
  ASSUME attempt'.intent = attempt.intent, Outcome(attempt') = Outcome(attempt),
         ready' = ready
  PROVE  UNCHANGED Promise!promiseVars
  BY DEF Promise!promiseVars, Outcome

LEMMA PromiseBind ==
  ASSUME Inv, NEW c \in Calls, Bind(c) \/ BindFails(c)
  PROVE  [Promise!Next]_(Promise!promiseVars)
  <1> DEFINE i == call[c].intent
             s == call[c].got
  <1>1. /\ call[c].pc = "bind"
        /\ \/ attempt' = attempt
           \/ HoldsLease(call[c].token) /\ attempt' = BoundTo(i, s, call[c].stamp)
    BY DEF Bind, BindFails
  <1>2. /\ i \in Intents /\ s \in Observable /\ i # None
        /\ call[c].stamp \in Stamp \cup {NoTime}
    BY <1>1, CallFacts, CallFields, ConstantFacts DEF LocalInv
  <1>3. CASE HoldsLease(call[c].token) /\ attempt' = BoundTo(i, s, call[c].stamp)
    <2>1. attempt'.intent = i /\ attempt'.status = s
      BY <1>2, <1>3, BoundRow DEF AttemptStatus
    <2>2. attempt.intent = None /\ Outcome(attempt) = "OPEN"
      BY <1>3 DEF HoldsLease, Outcome, Open, Final
    <2>3. Outcome(attempt') \in {"OPEN", "SUCCEEDED", "CANCELLED"}
      BY <1>2, <2>1 DEF Outcome, Observable, Live, Final
    <2>4. ready' \in {ready, ready \cup {i}}
      BY <1>3, <2>2, <1>2 DEF Bind, BindFails, Answer, FindsOwnBinding
    <2>5. Promise!Bind(i)
      BY <2>1, <2>2, <2>3, <2>4 DEF Promise!Bind, Promise!MayRelease, Outcome
    <2> QED
      BY <1>2, <2>5 DEF Promise!Next
  <1>4. CASE attempt' = attempt /\ ready' = ready
    BY <1>4, PromiseStutter
  <1>5. CASE attempt' = attempt /\ ready' # ready
    <2>1. FindsOwnBinding(c) /\ ready' = ready \cup {i}
      <3>1. ~HoldsLease(call[c].token)
        <4>1. CASE BindFails(c)
          BY <1>5, <4>1 DEF BindFails
        <4>2. CASE HoldsLease(call[c].token) /\ Bind(c)
          <5>1. attempt.intent = None /\ attempt'.intent = i
            BY <1>2, <4>2, BoundRow DEF Bind, HoldsLease, AttemptStatus
          <5> QED
            BY <1>2, <1>5, <5>1
        <4> QED
          BY <4>1, <4>2
      <3> QED
        BY <1>5, <3>1 DEF Bind, BindFails, Answer
    <2>2. attempt.intent = i /\ attempt.intent # None
      BY <1>2, <2>1 DEF FindsOwnBinding
    <2>3. Outcome(attempt) = "OPEN" \/ Outcome(attempt) \in {"SUCCEEDED", "CANCELLED"}
      BY <2>2, SharedFacts DEF RowInv, Outcome, Observable, Live, Final
    <2>4. Promise!Observe
      BY <1>5, <2>1, <2>2, <2>3 DEF Promise!Observe, Promise!MayRelease, Outcome
    <2> QED
      BY <2>4 DEF Promise!Next
  <1> QED
    BY <1>1, <1>3, <1>4, <1>5

LEMMA PromiseUpdate ==
  ASSUME Inv, NEW c \in Calls, UpdateStatus(c) \/ UpdateAttached(c)
  PROVE  [Promise!Next]_(Promise!promiseVars)
  <1>1. /\ call[c].pc \in {"update", "updateAttached"}
        /\ attempt' = Observed(call[c].got, call[c].stamp)
        /\ ready' \in {ready, ready \cup {call[c].intent}}
    BY DEF UpdateStatus, UpdateAttached, Answer
  <1>2. /\ call[c].got \in Observable
        /\ call[c].stamp \in Stamp \cup {NoTime}
        /\ call[c].intent = attempt.intent
        /\ attempt.intent # None
    BY <1>1, CallFacts, CallFields DEF LocalInv, Bound
  <1>3. /\ attempt'.intent = attempt.intent
        /\ attempt'.status \in {attempt.status, call[c].got}
        /\ attempt.status \in Final => attempt'.status = attempt.status
    BY <1>1, <1>2, ObservedRow
  <1>4. attempt.status \in Observable
    BY <1>2, SharedFacts DEF RowInv
  <1>5. Outcome(attempt') \in IF Outcome(attempt) = "OPEN"
                              THEN {"OPEN", "SUCCEEDED", "CANCELLED"}
                              ELSE {Outcome(attempt)}
    BY <1>2, <1>3, <1>4 DEF Outcome, Observable, Live, Final
  <1>6. Promise!Observe
    BY <1>1, <1>2, <1>3, <1>5 DEF Promise!Observe, Promise!MayRelease, Outcome
  <1> QED
    BY <1>6 DEF Promise!Next

LEMMA PromiseMark ==
  ASSUME Inv, NEW c \in Calls, MarkUnknown(c) \/ MarkFailed(c)
  PROVE  [Promise!Next]_(Promise!promiseVars)
  <1>1. PICK s \in {"UNKNOWN", "FAILED"} :
          attempt' = IF HoldsLease(call[c].token) THEN Released(s) ELSE attempt
    BY DEF MarkUnknown, MarkFailed
  <1>2. ready' = ready /\ s \in AttemptStatus
    BY DEF MarkUnknown, MarkFailed, AttemptStatus, Open
  <1>3. CASE ~HoldsLease(call[c].token)
    BY <1>1, <1>2, <1>3, PromiseStutter
  <1>4. CASE HoldsLease(call[c].token)
    <2>1. /\ attempt'.intent = attempt.intent /\ attempt.intent = None
          /\ attempt'.status = s
          /\ Outcome(attempt) = "OPEN"
      BY <1>1, <1>2, <1>4, ReleasedRow DEF HoldsLease, Outcome, Open, Final
    <2>2. CASE s = "UNKNOWN"
      BY <1>2, <2>1, <2>2, PromiseStutter DEF Outcome, Final
    <2>3. CASE s = "FAILED"
      BY <1>2, <2>1, <2>3 DEF Promise!Refuse, Promise!Next, Outcome
    <2> QED
      BY <2>2, <2>3
  <1> QED
    BY <1>3, <1>4

LEMMA PromiseClaim ==
  ASSUME Inv, NEW c \in Calls, Claim(c) \/ BeginCreate(c)
  PROVE  UNCHANGED Promise!promiseVars
  <1>1. ready' = ready
    BY DEF Claim, BeginCreate
  <1>2. CASE Claim(c)
    <2>1. CASE attempt.status = "NONE"
      <3>1. attempt.intent = None
        BY <2>1, SharedFacts DEF RowInv, Observable, Live, Final
      <3>2. attempt' = Inserted(call[c].fingerprint, call[c].at)
        BY <1>2, <2>1 DEF Claim
      <3>3. attempt'.intent = None /\ attempt'.status = "CREATING"
        BY <3>2 DEF Inserted, NoAttempt
      <3> QED
        BY <1>1, <2>1, <3>1, <3>3, PromiseStutter DEF Outcome, Final
    <2>2. CASE attempt.status # "NONE"
      BY <1>1, <1>2, <2>2, PromiseStutter DEF Claim
    <2> QED
      BY <2>1, <2>2
  <1>3. CASE BeginCreate(c)
    <2>1. attempt'.intent = attempt.intent /\ attempt'.status = attempt.status
      BY <1>3, SharedFacts DEF BeginCreate, RowRecord
    <2> QED
      BY <1>1, <2>1, PromiseStutter DEF Outcome
  <1> QED
    BY <1>2, <1>3

LEMMA PromiseNext == Inv /\ [Next]_vars => [Promise!Next]_(Promise!promiseVars)
  <1> SUFFICES ASSUME Inv, [Next]_vars PROVE [Promise!Next]_(Promise!promiseVars)
    OBVIOUS
  <1>1. CASE attempt' = attempt /\ ready' = ready
    BY <1>1, PromiseStutter
  <1>2. ASSUME NEW c \in Calls, Step(c), ~(attempt' = attempt /\ ready' = ready)
        PROVE  [Promise!Next]_(Promise!promiseVars)
    <2>1. \/ Claim(c) \/ BeginCreate(c) \/ Bind(c) \/ MarkUnknown(c) \/ MarkFailed(c)
          \/ UpdateStatus(c) \/ UpdateAttached(c)
      BY <1>2 DEF Step, Dispatch, Find, Observe, Retrieve, ObserveAttach, ProviderAttach
    <2> QED
      BY <2>1, PromiseClaim, PromiseBind, PromiseMark, PromiseUpdate
  <1>3. ASSUME NEW c \in Calls, BindFails(c)
        PROVE  [Promise!Next]_(Promise!promiseVars)
    BY <1>3, PromiseBind
  <1>4. CASE \/ \E c \in Calls : Start(c) \/ StartContinuation(c) \/ OutcomeUnknown(c) \/ Abandon(c)
             \/ \E r \in requests : ProviderCreate(r) \/ ProviderReject(r)
             \/ \E h \in Hosts : Crash(h)
             \/ ProviderAdvance \/ Tick \/ UNCHANGED vars
    <2>1. attempt' = attempt /\ ready' = ready
      BY <1>4 DEF Start, StartContinuation, OutcomeUnknown, Abandon, ProviderCreate,
                  ProviderReject, Crash, ProviderAdvance, Tick, vars
    <2> QED
      BY <1>1, <2>1
  <1> QED
    BY <1>1, <1>2, <1>3, <1>4 DEF Next

\* The capability and its repository implement the promise: bound once and for
\* good, only the bound intent's client key handed out, no final outcome undone.
THEOREM PromiseKept == Spec => KeepsPromise
  BY PromiseInit, PromiseNext, InvCorrect, PTL DEF Spec, KeepsPromise, Promise!Spec

----------------------------------------------------------------------------
\* The create lease excludes.

\* Tokens are never shared, and a call that waits for the provider under an
\* unexpired lease is the one the row names. Before the claim there is no lease.
LeaseInv ==
    /\ attempt.status = "NONE" => attempt = NoAttempt
    /\ \A c, d \in Calls : c # d /\ call[c].token = call[d].token => call[c].token = None
    /\ \A c \in Calls :
          call[c].pc \in {"dispatch", "creating"} /\ call[c].until > clock =>
              /\ attempt.token = call[c].token
              /\ attempt.leaseUntil = call[c].until

Waits(l) == l.pc \in {"dispatch", "creating"}

\* No step but a lease acquisition gives a call a token or makes it wait.
Keeps(old, new) ==
    /\ new.token \in {old.token, None}
    /\ Waits(new) => Waits(old) /\ new.token = old.token /\ new.until = old.until

LEMMA LeaseStep ==
  ASSUME Inv, LeaseInv, clock' \in Int, clock' >= clock,
         \A d \in Calls : Keeps(call[d], call'[d]),
         attempt'.status = "NONE" => attempt' = attempt,
         \/ attempt'.token = attempt.token /\ attempt'.leaseUntil = attempt.leaseUntil
         \/ \E c \in Calls : /\ call[c].token # None
                             /\ attempt.token = call[c].token
                             /\ ~Waits(call[c])
  PROVE  LeaseInv'
  <1>1. ASSUME NEW c \in Calls, NEW d \in Calls, c # d, call'[c].token = call'[d].token
        PROVE  call'[c].token = None
    BY <1>1 DEF LeaseInv, Keeps
  <1>2. ASSUME NEW d \in Calls, Waits(call'[d]), call'[d].until > clock'
        PROVE  attempt'.token = call'[d].token /\ attempt'.leaseUntil = call'[d].until
    <2>1. Waits(call[d]) /\ call'[d].token = call[d].token /\ call'[d].until = call[d].until
      BY <1>2 DEF Keeps
    <2>2. call[d].until > clock
      BY <1>2, <2>1, CallFields, SharedFacts
    <2>3. attempt.token = call[d].token /\ attempt.leaseUntil = call[d].until
      BY <2>1, <2>2 DEF LeaseInv, Waits
    <2>4. CASE attempt'.token = attempt.token /\ attempt'.leaseUntil = attempt.leaseUntil
      BY <2>1, <2>3, <2>4
    <2>5. ASSUME NEW c \in Calls, call[c].token # None, attempt.token = call[c].token,
                 ~Waits(call[c])
          PROVE  FALSE
      BY <2>1, <2>3, <2>5 DEF LeaseInv
    <2> QED
      BY <2>4, <2>5
  <1> QED
    BY <1>1, <1>2 DEF LeaseInv, Waits

LEMMA KeepsSame == ASSUME NEW l PROVE Keeps(l, l)
  BY DEF Keeps

\* A step of one call that moves it to the local state l.
LEMMA KeepsBecomes ==
  ASSUME Inv, NEW c \in Calls, NEW l \in CallRecord, Becomes(c, l), Keeps(call[c], l)
  PROVE  \A d \in Calls : Keeps(call[d], call'[d])
  <1>1. call \in [Calls -> CallRecord]
    BY TypeDef DEF Inv
  <1>2. ASSUME NEW d \in Calls PROVE call'[d] = IF d = c THEN l ELSE call[d]
    BY <1>1 DEF Becomes
  <1> QED
    BY <1>2, KeepsSame

LEMMA KeepsReturn ==
  ASSUME Inv, NEW c \in Calls, Return(c)
  PROVE  \A d \in Calls : Keeps(call[d], call'[d])
  BY IdleType, KeepsBecomes DEF Return, Keeps, Waits, IdleCall

LEMMA KeepsObserve ==
  ASSUME Inv, NEW c \in Calls, GotoObserve(c)
  PROVE  \A d \in Calls : Keeps(call[d], call'[d])
  <1> DEFINE l == [IdleCall EXCEPT !.pc = "observe", !.op = call[c].op,
                                   !.host = call[c].host, !.intent = attempt.intent,
                                   !.seen = attempt.observedAt]
  <1>1. l \in CallRecord
    BY CallFields, SharedFacts, IdleType DEF CallRecord, Bound
  <1>2. Keeps(call[c], l)
    BY DEF Keeps, Waits, IdleCall
  <1>3. Becomes(c, l)
    BY DEF GotoObserve
  <1> HIDE DEF l
  <1> QED
    BY <1>1, <1>2, <1>3, KeepsBecomes

\* Local steps of one call, whatever they do to the provider.
LEMMA KeepsLocal ==
  ASSUME Inv, NEW c \in Calls,
         \/ Start(c) \/ StartContinuation(c) \/ Claim(c) \/ Dispatch(c) \/ Find(c)
         \/ Observe(c) \/ ObserveAttach(c) \/ Retrieve(c) \/ UpdateStatus(c)
         \/ UpdateAttached(c) \/ ProviderAttach(c) \/ Bind(c) \/ BindFails(c)
         \/ MarkUnknown(c) \/ MarkFailed(c) \/ OutcomeUnknown(c) \/ Abandon(c)
  PROVE  \A d \in Calls : Keeps(call[d], call'[d])
  <1>1. call[c] \in CallRecord /\ call \in [Calls -> CallRecord]
    BY CallFacts, TypeDef DEF Inv
  <1>2. CASE Return(c) \/ GotoObserve(c)
    BY <1>2, KeepsReturn, KeepsObserve
  <1>3. ASSUME NEW l, Becomes(c, l), Keeps(call[c], l)
        PROVE  \A d \in Calls : Keeps(call[d], call'[d])
    <2>1. ASSUME NEW d \in Calls PROVE call'[d] = IF d = c THEN l ELSE call[d]
      BY <1>1, <1>3 DEF Becomes
    <2> QED
      BY <1>3, <2>1, KeepsSame
  <1>4. CASE Start(c)
    <2>1. PICK h \in Hosts, fp \in Fingerprints :
            Becomes(c, [IdleCall EXCEPT !.pc = "claim", !.host = h, !.fingerprint = fp,
                                        !.at = clock])
      BY <1>4 DEF Start
    <2>2. Keeps(call[c], [IdleCall EXCEPT !.pc = "claim", !.host = h, !.fingerprint = fp,
                                          !.at = clock])
      BY DEF Keeps, Waits, IdleCall
    <2> QED
      BY <1>3, <2>1, <2>2
  <1>5. CASE StartContinuation(c)
    <2>1. PICK h \in Hosts, op \in Operations \ {"create"} :
            Becomes(c, [IdleCall EXCEPT !.pc = "find", !.op = op, !.host = h])
      BY <1>5 DEF StartContinuation
    <2>2. Keeps(call[c], [IdleCall EXCEPT !.pc = "find", !.op = op, !.host = h])
      BY DEF Keeps, Waits, IdleCall
    <2> QED
      BY <1>3, <2>1, <2>2
  <1>6. CASE Dispatch(c)
    <2>1. Keeps(call[c], [call[c] EXCEPT !.pc = "creating", !.stamp = ObservationAt(c)])
      BY <1>1, <1>6 DEF Keeps, Waits, Dispatch, CallRecord
    <2> QED
      BY <1>3, <1>6, <2>1 DEF Dispatch, Stamped
  <1>7. ASSUME NEW pc \in {"begin", "retrieve", "attach", "unknown", "update", "updateAttached", "observeAttach"},
               NEW l, Becomes(c, l), l.pc = pc, l.token = call[c].token
        PROVE  \A d \in Calls : Keeps(call[d], call'[d])
    BY <1>3, <1>7 DEF Keeps, Waits
  <1>8. CASE Claim(c)
    <2>1. CASE Becomes(c, [call[c] EXCEPT !.pc = "begin", !.at = clock])
      BY <1>1, <1>7, <2>1 DEF CallRecord
    <2> QED
      BY <1>2, <1>8, <2>1 DEF Claim
  <1>9. CASE Observe(c) \/ ObserveAttach(c)
    <2>1. PICK pc \in {"retrieve", "attach"} : Stamped(c, pc)
      BY <1>9 DEF Observe, ObserveAttach
    <2> QED
      BY <1>1, <1>7, <2>1 DEF Stamped, CallRecord
  <1>10. CASE Retrieve(c)
    BY <1>1, <1>7, <1>10 DEF Retrieve, CallRecord
  <1>11. CASE UpdateStatus(c) \/ UpdateAttached(c)
    <2>1. CASE Becomes(c, [call[c] EXCEPT !.pc = "observeAttach", !.seen = attempt'.observedAt])
      BY <1>1, <1>7, <2>1 DEF CallRecord
    <2> QED
      BY <1>2, <1>11, <2>1 DEF UpdateStatus, UpdateAttached, Answer
  <1>12. CASE ProviderAttach(c)
    <2>1. PICK s \in ProviderMoves :
            Becomes(c, [call[c] EXCEPT !.pc = "updateAttached", !.got = s])
      BY <1>12 DEF ProviderAttach
    <2> QED
      BY <1>1, <1>7, <2>1 DEF CallRecord
  <1>13. CASE Bind(c) \/ BindFails(c) \/ OutcomeUnknown(c)
    <2>1. CASE Goto(c, "unknown")
      BY <1>1, <1>7, <2>1 DEF Goto, CallRecord
    <2> QED
      BY <1>2, <1>13, <2>1 DEF Bind, BindFails, OutcomeUnknown, Answer
  <1>14. CASE MarkUnknown(c) \/ MarkFailed(c) \/ Abandon(c) \/ Find(c)
    BY <1>2, <1>14 DEF MarkUnknown, MarkFailed, Abandon, Find
  <1> QED
    BY <1>4, <1>5, <1>6, <1>8, <1>9, <1>10, <1>11, <1>12, <1>13, <1>14

LEMMA LeaseInit == Init => LeaseInv
  BY DEF Init, LeaseInv, IdleCall, NoAttempt

LEMMA LeaseAcquire ==
  ASSUME Inv, LeaseInv, NEW c \in Calls, BeginCreate(c)
  PROVE  LeaseInv'
  <1>1. call \in [Calls -> CallRecord] /\ clock' = clock /\ clock \in Nat
    BY TypeDef, SharedFacts DEF Inv, BeginCreate
  <1>2. CASE attempt' = attempt /\ (Return(c) \/ GotoObserve(c))
    BY <1>1, <1>2, LeaseStep, KeepsReturn, KeepsObserve
  <1>3. ASSUME NEW t \in call[c].at .. clock, CanBeginCreate(t),
               NEW token \in Tokens \ TokensInUse,
               attempt' = [attempt EXCEPT !.token = token, !.leaseUntil = t + Lease],
               Becomes(c, [call[c] EXCEPT !.pc = "dispatch", !.token = token,
                                          !.until = t + Lease, !.at = 0])
        PROVE  LeaseInv'
    <2> DEFINE l == [call[c] EXCEPT !.pc = "dispatch", !.token = token,
                                    !.until = t + Lease, !.at = 0]
    <2>1. l.token = token /\ l.until = t + Lease /\ l.pc = "dispatch"
      BY CallFacts DEF CallRecord
    <2> HIDE DEF l
    <2>2. ASSUME NEW d \in Calls PROVE call'[d] = IF d = c THEN l ELSE call[d]
      BY <1>1, <1>3 DEF Becomes, l
    <2>3. attempt'.token = token /\ attempt'.leaseUntil = t + Lease
      BY <1>3, SharedFacts DEF RowRecord
    <2>4. ASSUME NEW d \in Calls PROVE call[d].token # token
      BY DEF TokensInUse
    <2>5. t \in Int /\ t <= clock
      BY <1>1, CallFields
    <2>6. ASSUME NEW d \in Calls, Waits(call[d]), call[d].until > clock
          PROVE  FALSE
      <3>1. attempt.leaseUntil = call[d].until
        BY <2>6 DEF LeaseInv, Waits
      <3> QED
        BY <1>1, <1>3, <2>5, <2>6, <3>1, CallFields DEF CanBeginCreate
    <2>7. ASSUME NEW d \in Calls, NEW e \in Calls, d # e, call'[d].token = call'[e].token
          PROVE  call'[d].token = None
      BY <2>1, <2>2, <2>4, <2>7 DEF LeaseInv
    <2>8. ASSUME NEW d \in Calls, Waits(call'[d]), call'[d].until > clock'
          PROVE  attempt'.token = call'[d].token /\ attempt'.leaseUntil = call'[d].until
      BY <1>1, <2>1, <2>2, <2>3, <2>6, <2>8
    <2>9. attempt'.status # "NONE"
      BY <1>3, SharedFacts DEF CanBeginCreate, Open, RowRecord
    <2> QED
      BY <2>7, <2>8, <2>9 DEF LeaseInv, Waits
  <1> QED
    BY <1>2, <1>3 DEF BeginCreate

LEMMA LeaseNext == Inv /\ LeaseInv /\ [Next]_vars => LeaseInv'
  <1> SUFFICES ASSUME Inv, LeaseInv, [Next]_vars PROVE LeaseInv'
    OBVIOUS
  <1>1. clock \in Nat /\ call \in [Calls -> CallRecord]
    BY SharedFacts, TypeDef DEF Inv
  <1>2. ASSUME NEW c \in Calls,
               \/ Start(c) \/ StartContinuation(c) \/ Claim(c) \/ Dispatch(c) \/ Find(c)
               \/ Observe(c) \/ ObserveAttach(c) \/ Retrieve(c) \/ UpdateStatus(c)
               \/ UpdateAttached(c) \/ ProviderAttach(c) \/ OutcomeUnknown(c) \/ Abandon(c)
        PROVE  LeaseInv'
    <2>1. \A d \in Calls : Keeps(call[d], call'[d])
      BY <1>2, KeepsLocal
    <2>2. clock' = clock
      BY <1>2 DEF Start, StartContinuation, Claim, Dispatch, Find, Observe, ObserveAttach,
                  Retrieve, UpdateStatus, UpdateAttached, ProviderAttach, OutcomeUnknown, Abandon
    <2>3. attempt'.token = attempt.token /\ attempt'.leaseUntil = attempt.leaseUntil
      <3>1. CASE Claim(c)
        <4>1. attempt' = attempt
              \/ (attempt.status = "NONE" /\ attempt' = Inserted(call[c].fingerprint, call[c].at))
          BY <3>1 DEF Claim
        <4>2. CASE attempt.status = "NONE" /\ attempt' = Inserted(call[c].fingerprint, call[c].at)
          <5>1. attempt = NoAttempt
            BY <4>2 DEF LeaseInv
          <5>2. attempt'.token = None /\ attempt'.leaseUntil = NoTime
            BY <4>2 DEF Inserted, NoAttempt
          <5>3. attempt.token = None /\ attempt.leaseUntil = NoTime
            BY <5>1 DEF NoAttempt
          <5> QED
            BY <5>2, <5>3
        <4> QED
          BY <4>1, <4>2
      <3>2. CASE UpdateStatus(c) \/ UpdateAttached(c)
        <4>1. /\ call[c].got \in Observable
              /\ call[c].stamp \in Stamp \cup {NoTime}
              /\ attempt' = Observed(call[c].got, call[c].stamp)
          BY <3>2, CallFacts, CallFields DEF UpdateStatus, UpdateAttached, LocalInv
        <4> QED
          BY <4>1, ObservedRow
      <3> QED
        BY <1>2, <3>1, <3>2
        DEF Start, StartContinuation, Dispatch, Find, Observe, ObserveAttach,
            Retrieve, ProviderAttach, OutcomeUnknown, Abandon
    <2>4. attempt'.status = "NONE" => attempt' = attempt
      <3>1. CASE Claim(c)
        BY <3>1 DEF Claim, Inserted, NoAttempt
      <3>2. CASE UpdateStatus(c) \/ UpdateAttached(c)
        <4>1. /\ call[c].got \in Observable
              /\ call[c].stamp \in Stamp \cup {NoTime}
              /\ attempt' = Observed(call[c].got, call[c].stamp)
              /\ attempt.status # "NONE"
          BY <3>2, CallFacts, CallFields, SharedFacts
          DEF UpdateStatus, UpdateAttached, LocalInv, RowInv, Bound, Observable, Live, Final
        <4> QED
          BY <4>1, ObservedRow DEF Observable, Live, Final
      <3> QED
        BY <1>2, <3>1, <3>2
        DEF Start, StartContinuation, Dispatch, Find, Observe, ObserveAttach,
            Retrieve, ProviderAttach, OutcomeUnknown, Abandon
    <2> QED
      BY <1>1, <2>1, <2>2, <2>3, <2>4, LeaseStep
  <1>3. ASSUME NEW c \in Calls, Bind(c) \/ BindFails(c) \/ MarkUnknown(c) \/ MarkFailed(c)
        PROVE  LeaseInv'
    <2>1. \A d \in Calls : Keeps(call[d], call'[d])
      BY <1>3, KeepsLocal
    <2>2. /\ clock' = clock
          /\ call[c].pc \in {"bind", "unknown", "rejected"}
          /\ attempt' = attempt \/ attempt.token = call[c].token
      BY <1>3 DEF Bind, BindFails, MarkUnknown, MarkFailed, HoldsLease
    <2>3. call[c].token # None /\ ~Waits(call[c])
      BY <2>2, CallFacts, ConstantFacts DEF LocalInv, Leased, Waits
    <2>4. attempt'.status = "NONE" => attempt' = attempt
      <3>1. /\ call[c].pc = "bind" => call[c].intent \in Intents /\ call[c].got \in Observable
            /\ call[c].stamp \in Stamp \cup {NoTime}
        BY CallFacts, CallFields DEF LocalInv
      <3>2. CASE Bind(c) \/ BindFails(c)
        <4>1. /\ call[c].intent \in Intents /\ call[c].got \in AttemptStatus
              /\ call[c].got # "NONE"
              /\ attempt' = attempt
                 \/ attempt' = BoundTo(call[c].intent, call[c].got, call[c].stamp)
          BY <3>1, <3>2 DEF Bind, BindFails, AttemptStatus, Observable, Live, Final
        <4> QED
          BY <3>1, <4>1, BoundRow
      <3>3. CASE MarkUnknown(c) \/ MarkFailed(c)
        BY <3>3, ReleasedRow DEF MarkUnknown, MarkFailed, AttemptStatus, Open
      <3> QED
        BY <1>3, <3>2, <3>3
    <2> QED
      BY <1>1, <2>1, <2>2, <2>3, <2>4, LeaseStep
  <1>4. ASSUME NEW c \in Calls, BeginCreate(c)
        PROVE  LeaseInv'
    BY <1>4, LeaseAcquire
  <1>5. ASSUME NEW r \in requests, ProviderCreate(r) \/ ProviderReject(r)
        PROVE  LeaseInv'
    <2>1. clock' = clock /\ attempt' = attempt
      BY <1>5 DEF ProviderCreate, ProviderReject
    <2>2. ASSUME NEW d \in Calls PROVE Keeps(call[d], call'[d])
      <3>1. CASE call'[d] = call[d]
        BY <3>1, KeepsSame
      <3>2. ASSUME NEW i, NEW s, call'[d] = [call[d] EXCEPT !.pc = "bind", !.intent = i, !.got = s]
            PROVE  Keeps(call[d], call'[d])
        BY <3>2, CallFacts DEF Keeps, Waits, CallRecord
      <3>3. CASE call'[d] = [call[d] EXCEPT !.pc = "rejected"]
        BY <3>3, CallFacts DEF Keeps, Waits, CallRecord
      <3> QED
        BY <1>5, <3>1, <3>2, <3>3 DEF ProviderCreate, ProviderReject
    <2> QED
      BY <1>1, <2>1, <2>2, LeaseStep
  <1>6. ASSUME NEW h \in Hosts, Crash(h)
        PROVE  LeaseInv'
    <2>1. clock' = clock /\ attempt' = attempt
      BY <1>6 DEF Crash
    <2>2. ASSUME NEW d \in Calls PROVE Keeps(call[d], call'[d])
      BY <1>6 DEF Crash, Keeps, Waits, IdleCall
    <2> QED
      BY <1>1, <2>1, <2>2, LeaseStep
  <1>7. CASE ProviderAdvance \/ Tick \/ UNCHANGED vars
    <2>1. /\ call' = call /\ attempt' = attempt
          /\ clock' \in Int /\ clock' >= clock
      BY <1>1, <1>7 DEF ProviderAdvance, Tick, vars
    <2> QED
      BY <2>1, LeaseStep, KeepsSame
  <1> QED
    BY <1>2, <1>3, <1>4, <1>5, <1>6, <1>7 DEF Next, Step

\* With any number of calls and hosts, any lease length and any delay between
\* reading the clock and reaching the database, beginCreate never lets two calls
\* wait for the provider under unexpired leases.
THEOREM LeaseExclusionCorrect == Spec => []LeaseExclusion
  <1>1. Inv /\ LeaseInv => LeaseExclusion
    <2> SUFFICES ASSUME Inv, LeaseInv, NEW c \in Calls, NEW d \in Calls,
                        Waits(call[c]), Waits(call[d]),
                        call[c].until > clock, call[d].until > clock
                 PROVE  c = d
      BY DEF LeaseExclusion, Waits
    <2>1. attempt.token = call[c].token /\ attempt.token = call[d].token
      BY DEF LeaseInv, Waits
    <2>2. call[c].token # None
      BY CallFacts, ConstantFacts DEF LocalInv, Leased, Waits
    <2> QED
      BY <2>1, <2>2 DEF LeaseInv
  <1>2. Spec => []LeaseInv
    BY LeaseInit, LeaseNext, InvCorrect, PTL DEF Spec
  <1> QED
    BY <1>1, <1>2, InvCorrect, PTL

----------------------------------------------------------------------------
\* ObservationOrder: a call's stamp is newer than the row it has read.

StampInv ==
    \A c \in Calls :
        call[c].pc \in {"retrieve", "update", "attach", "updateAttached"}
            => call[c].seen < call[c].stamp

\* The calls a step leaves alone, and those it moves to a pc without a stamp.
Unstamped(l, m) ==
    m.pc \in {"retrieve", "update", "attach", "updateAttached"} =>
        /\ l.pc \in {"retrieve", "update", "attach", "updateAttached"}
        /\ m.seen = l.seen
        /\ m.stamp = l.stamp

LEMMA StampStep ==
  ASSUME StampInv, \A d \in Calls : Unstamped(call[d], call'[d])
  PROVE  StampInv'
  BY DEF StampInv, Unstamped

LEMMA StampBecomes ==
  ASSUME Inv, StampInv, NEW c \in Calls, NEW l, Becomes(c, l),
         \/ l.pc \notin {"retrieve", "update", "attach", "updateAttached"}
         \/ Unstamped(call[c], l)
         \/ l.seen < l.stamp
  PROVE  StampInv'
  <1>1. ASSUME NEW d \in Calls PROVE call'[d] = IF d = c THEN l ELSE call[d]
    BY TypeDef DEF Inv, Becomes
  <1> QED
    BY <1>1 DEF StampInv, Unstamped

LEMMA StampReturn ==
  ASSUME Inv, StampInv, NEW c \in Calls, Return(c) \/ GotoObserve(c)
  PROVE  StampInv'
  <1>1. CASE Return(c)
    <2>1. IdleCall.pc = "idle"
      BY DEF IdleCall
    <2> QED
      BY <1>1, <2>1, StampBecomes DEF Return
  <1>2. CASE GotoObserve(c)
    <2> DEFINE l == [IdleCall EXCEPT !.pc = "observe", !.op = call[c].op,
                                     !.host = call[c].host, !.intent = attempt.intent,
                                     !.seen = attempt.observedAt]
    <2>1. l.pc = "observe"
      BY DEF IdleCall
    <2>2. Becomes(c, l)
      BY <1>2 DEF GotoObserve
    <2> HIDE DEF l
    <2> QED
      BY <2>1, <2>2, StampBecomes
  <1> QED
    BY <1>1, <1>2

LEMMA StampNext == Inv /\ StampInv /\ [Next]_vars => StampInv'
  <1> SUFFICES ASSUME Inv, StampInv, [Next]_vars PROVE StampInv'
    OBVIOUS
  <1>1. call \in [Calls -> CallRecord]
    BY TypeDef DEF Inv
  <1>2. ASSUME NEW c \in Calls, Return(c) \/ GotoObserve(c) PROVE StampInv'
    BY <1>2, StampReturn
  <1>3. ASSUME NEW c \in Calls,
               NEW pc \in {"claim", "begin", "find", "dispatch", "unknown", "observeAttach"},
               NEW l, Becomes(c, l), l.pc = pc
        PROVE  StampInv'
    BY <1>3, StampBecomes
  <1>4. ASSUME NEW c \in Calls, Start(c) \/ StartContinuation(c) PROVE StampInv'
    BY <1>3, <1>4 DEF Start, StartContinuation, IdleCall
  <1>5. ASSUME NEW c \in Calls, Claim(c) PROVE StampInv'
    <2>1. CASE Becomes(c, [call[c] EXCEPT !.pc = "begin", !.at = clock])
      BY <1>1, <1>3, <2>1 DEF CallRecord
    <2> QED
      BY <1>2, <1>5, <2>1 DEF Claim
  <1>6. ASSUME NEW c \in Calls, BeginCreate(c) PROVE StampInv'
    <2>1. ASSUME NEW token, NEW t,
                 Becomes(c, [call[c] EXCEPT !.pc = "dispatch", !.token = token,
                                            !.until = t + Lease, !.at = 0])
          PROVE  StampInv'
      BY <1>1, <1>3, <2>1 DEF CallRecord
    <2> QED
      BY <1>2, <1>6, <2>1 DEF BeginCreate
  <1>7. ASSUME NEW c \in Calls, Dispatch(c) PROVE StampInv'
    <2> DEFINE l == [call[c] EXCEPT !.pc = "creating", !.stamp = ObservationAt(c)]
    <2>1. l.pc = "creating" /\ Becomes(c, l)
      BY <1>1, <1>7 DEF CallRecord, Dispatch, Stamped
    <2> HIDE DEF l
    <2> QED
      BY <2>1, StampBecomes
  <1>8. ASSUME NEW c \in Calls, Observe(c) \/ ObserveAttach(c) PROVE StampInv'
    <2>1. PICK pc \in {"retrieve", "attach"} : Stamped(c, pc)
      BY <1>8 DEF Observe, ObserveAttach
    <2> DEFINE l == [call[c] EXCEPT !.pc = pc, !.stamp = ObservationAt(c)]
    <2>2. /\ call[c].pc # "idle"
          /\ call[c].seen \in Stamp \cup {NoTime}
          /\ clock \in Nat
      BY <1>8, CallFields, SharedFacts DEF Observe, ObserveAttach
    <2>3. lastObservation[call[c].host] \in Int
      BY <2>2, CallFields, SharedFacts, ConstantFacts DEF SharedOK, Stamp
    <2>4. call[c].seen < ObservationAt(c)
      BY <2>2, <2>3, ConstantFacts DEF ObservationAt, Larger, Stamp, NoTime
    <2>5. l.seen < l.stamp
      BY <1>1, <2>4 DEF CallRecord
    <2>6. Becomes(c, l)
      BY <2>1 DEF Stamped
    <2> HIDE DEF l
    <2> QED
      BY <2>5, <2>6, StampBecomes
  <1>9. ASSUME NEW c \in Calls, NEW l, Becomes(c, l), l.seen = call[c].seen,
               l.stamp = call[c].stamp, call[c].pc \in {"retrieve", "attach"}
        PROVE  StampInv'
    BY <1>9, StampBecomes DEF Unstamped
  <1>10. ASSUME NEW c \in Calls, Retrieve(c) PROVE StampInv'
    BY <1>1, <1>9, <1>10 DEF Retrieve, CallRecord
  <1>11. ASSUME NEW c \in Calls, ProviderAttach(c) PROVE StampInv'
    <2>1. PICK s \in ProviderMoves :
            Becomes(c, [call[c] EXCEPT !.pc = "updateAttached", !.got = s])
      BY <1>11 DEF ProviderAttach
    <2> DEFINE l == [call[c] EXCEPT !.pc = "updateAttached", !.got = s]
    <2>2. l.seen = call[c].seen /\ l.stamp = call[c].stamp /\ call[c].pc = "attach"
      BY <1>1, <1>11 DEF CallRecord, ProviderAttach
    <2> HIDE DEF l
    <2> QED
      BY <1>9, <2>1, <2>2 DEF l
  <1>12. ASSUME NEW c \in Calls, UpdateStatus(c) \/ UpdateAttached(c) PROVE StampInv'
    <2>1. CASE Becomes(c, [call[c] EXCEPT !.pc = "observeAttach", !.seen = attempt'.observedAt])
      BY <1>1, <1>3, <2>1 DEF CallRecord
    <2> QED
      BY <1>2, <1>12, <2>1 DEF UpdateStatus, UpdateAttached, Answer
  <1>13. ASSUME NEW c \in Calls, Bind(c) \/ BindFails(c) \/ OutcomeUnknown(c) PROVE StampInv'
    <2>1. CASE Goto(c, "unknown")
      BY <1>1, <1>3, <2>1 DEF Goto, CallRecord
    <2> QED
      BY <1>2, <1>13, <2>1 DEF Bind, BindFails, OutcomeUnknown, Answer
  <1>14. ASSUME NEW c \in Calls, MarkUnknown(c) \/ MarkFailed(c) \/ Abandon(c) \/ Find(c)
         PROVE  StampInv'
    BY <1>2, <1>14 DEF MarkUnknown, MarkFailed, Abandon, Find
  <1>15. ASSUME NEW r \in requests, ProviderCreate(r) \/ ProviderReject(r) PROVE StampInv'
    <2>1. ASSUME NEW d \in Calls PROVE Unstamped(call[d], call'[d])
      <3>1. CASE call'[d] = call[d]
        BY <3>1 DEF Unstamped
      <3>2. ASSUME NEW i, NEW s, call'[d] = [call[d] EXCEPT !.pc = "bind", !.intent = i, !.got = s]
            PROVE  Unstamped(call[d], call'[d])
        BY <1>1, <3>2 DEF Unstamped, CallRecord
      <3>3. CASE call'[d] = [call[d] EXCEPT !.pc = "rejected"]
        BY <1>1, <3>3 DEF Unstamped, CallRecord
      <3> QED
        BY <1>15, <3>1, <3>2, <3>3 DEF ProviderCreate, ProviderReject
    <2> QED
      BY <2>1, StampStep
  <1>16. ASSUME NEW h \in Hosts, Crash(h) PROVE StampInv'
    <2>1. ASSUME NEW d \in Calls PROVE Unstamped(call[d], call'[d])
      BY <1>16 DEF Crash, Unstamped, IdleCall
    <2> QED
      BY <2>1, StampStep
  <1>17. CASE ProviderAdvance \/ Tick \/ UNCHANGED vars
    BY <1>17 DEF ProviderAdvance, Tick, vars, StampInv
  <1> QED
    BY <1>4, <1>5, <1>6, <1>7, <1>8, <1>10, <1>11, <1>12, <1>13, <1>14, <1>15, <1>16, <1>17
    DEF Next, Step

\* Only an update of its own takes a call from an update without a fault.
LEMMA RefusedByUpdate ==
  ASSUME Inv, Next, NEW c \in Calls, Refused(c)
  PROVE  UpdateStatus(c) \/ UpdateAttached(c)
  <1>1. /\ call \in [Calls -> CallRecord]
        /\ faults \in Nat
        /\ faults' = faults
        /\ call[c].pc \in {"update", "updateAttached"}
        /\ call'[c].pc # call[c].pc
    BY TypeDef, SharedFacts, ConstantFacts DEF Inv, SharedOK, Refused
  <1>2. ~Fault
    BY <1>1 DEF Fault
  <1>3. ASSUME NEW d \in Calls, NEW l, Becomes(d, l) PROVE d = c
    BY <1>1, <1>3 DEF Becomes
  <1>4. ASSUME NEW d \in Calls, Return(d) \/ GotoObserve(d) PROVE d = c
    BY <1>3, <1>4 DEF Return, GotoObserve
  <1>5. ASSUME NEW d \in Calls, Start(d) \/ StartContinuation(d) \/ Step(d)
        PROVE  UpdateStatus(c) \/ UpdateAttached(c)
    <2>1. CASE Start(d) \/ StartContinuation(d)
      <3>1. d = c
        BY <1>3, <2>1 DEF Start, StartContinuation
      <3> QED
        BY <1>1, <2>1, <3>1 DEF Start, StartContinuation
    <2>2. CASE Claim(d)
      <3>1. d = c
        BY <1>3, <1>4, <2>2 DEF Claim
      <3> QED
        BY <1>1, <2>2, <3>1 DEF Claim
    <2>3. CASE BeginCreate(d)
      <3>1. d = c
        BY <1>3, <1>4, <2>3 DEF BeginCreate
      <3> QED
        BY <1>1, <2>3, <3>1 DEF BeginCreate
    <2>4. CASE Dispatch(d) \/ Observe(d) \/ ObserveAttach(d)
      <3>1. d = c
        BY <1>3, <2>4 DEF Dispatch, Observe, ObserveAttach, Stamped
      <3> QED
        BY <1>1, <2>4, <3>1 DEF Dispatch, Observe, ObserveAttach
    <2>5. CASE Bind(d)
      <3>1. d = c
        BY <1>3, <1>4, <2>5 DEF Bind, Answer, Goto
      <3> QED
        BY <1>1, <2>5, <3>1 DEF Bind
    <2>6. CASE MarkUnknown(d) \/ MarkFailed(d) \/ Find(d)
      <3>1. d = c
        BY <1>4, <2>6 DEF MarkUnknown, MarkFailed, Find
      <3> QED
        BY <1>1, <2>6, <3>1 DEF MarkUnknown, MarkFailed, Find
    <2>7. CASE Retrieve(d) \/ ProviderAttach(d)
      <3>1. d = c
        BY <1>3, <2>7 DEF Retrieve, ProviderAttach
      <3> QED
        BY <1>1, <2>7, <3>1 DEF Retrieve, ProviderAttach
    <2>8. CASE UpdateStatus(d) \/ UpdateAttached(d)
      <3>1. d = c
        BY <1>3, <1>4, <2>8 DEF UpdateStatus, UpdateAttached, Answer
      <3> QED
        BY <2>8, <3>1
    <2> QED
      BY <1>5, <2>1, <2>2, <2>3, <2>4, <2>5, <2>6, <2>7, <2>8 DEF Step
  <1>6. ASSUME NEW r \in requests, ProviderCreate(r) PROVE FALSE
    BY <1>1, <1>6 DEF ProviderCreate, Waiting
  <1>7. \A d \in Calls : ~BindFails(d) /\ ~OutcomeUnknown(d) /\ ~Abandon(d)
    BY <1>2 DEF BindFails, OutcomeUnknown, Abandon
  <1>8. /\ \A r \in requests : ~ProviderReject(r)
        /\ \A h \in Hosts : ~Crash(h)
    BY <1>2 DEF ProviderReject, Crash
  <1>9. ~ProviderAdvance /\ ~Tick
    BY <1>1 DEF ProviderAdvance, Tick
  <1> QED
    BY <1>5, <1>6, <1>7, <1>8, <1>9 DEF Next

\* However the clocks of the hosts tie or fall behind, updateStatus discards an
\* observation only when the row holds one recorded after it was read.
THEOREM ObservationOrderCorrect == Spec => ObservationOrder
  <1>1. Init => StampInv
    BY DEF Init, StampInv, IdleCall
  <1>2. Spec => []StampInv
    BY <1>1, StampNext, InvCorrect, PTL DEF Spec
  <1>3. ASSUME Inv, StampInv, [Next]_vars, NEW c \in Calls, Refused(c)
        PROVE  attempt.observedAt > call[c].seen
    <2>1. UpdateStatus(c) \/ UpdateAttached(c)
      <3>1. ~UNCHANGED vars
        BY <1>3 DEF Refused, vars
      <3> QED
        BY <1>3, <3>1, RefusedByUpdate
    <2>2. /\ attempt' = Observed(call[c].got, call[c].stamp)
          /\ attempt' = attempt
          /\ attempt.status \notin Final
          /\ call[c].pc \in {"update", "updateAttached"}
      BY <1>3, <2>1 DEF UpdateStatus, UpdateAttached, Refused
    <2>3. /\ attempt \in RowRecord
          /\ attempt.observedAt \in Int
          /\ call[c].stamp \in Int
          /\ call[c].seen \in Int
      BY <1>3, CallFields, SharedFacts, ConstantFacts DEF Stamp, NoTime
    <2>4. call[c].seen < call[c].stamp /\ attempt.intent # None
      BY <1>3, <2>2, CallFacts DEF StampInv, LocalInv, Bound
    <2>5. attempt.observedAt >= call[c].stamp
      <3>1. CASE CanUpdateStatus(call[c].got, call[c].stamp)
        <4>1. attempt = [attempt EXCEPT !.status = call[c].got, !.observedAt = call[c].stamp]
          BY <2>2, <3>1 DEF Observed
        <4>2. attempt.observedAt = call[c].stamp
          BY <2>3, <4>1 DEF RowRecord
        <4> QED
          BY <2>3, <4>2
      <3>2. CASE ~CanUpdateStatus(call[c].got, call[c].stamp)
        BY <2>2, <2>3, <2>4, <3>2 DEF CanUpdateStatus
      <3> QED
        BY <3>1, <3>2
    <2> QED
      BY <2>3, <2>4, <2>5
  <1>4. Inv /\ StampInv /\ [Next]_vars
          => [\A c \in Calls : Refused(c) => attempt.observedAt > call[c].seen]_vars
    BY <1>3
  <1> QED
    BY <1>2, <1>4, InvCorrect, PTL DEF Spec, ObservationOrder

----------------------------------------------------------------------------
\* OneIntent: the provider's memory of the key outlives the requests.

\* The first intent is created no earlier than the claim, at expiresAt - Window,
\* so its key is remembered at least until here.
KeyHorizon == attempt.expiresAt + (KeyRetention - Window)

\* A create request does not stay under way until the provider may have
\* forgotten its key. beginCreate starts none after expiresAt by its own clock;
\* how long one then travels is the network's and the adapter's timeout to bound.
Timely == requests # {} => clock < KeyHorizon

Exists(i) == intents[i] # "NONE"

\* What a call about to ask for an intent knows of the row, and of the clock.
AskInv(l, row, now) ==
    /\ l.pc = "claim" => l.at <= now
    /\ l.pc \in {"begin", "dispatch"} =>
          row.status # "NONE" /\ l.fingerprint = row.fingerprint

RequestInv ==
    /\ attempt.status # "NONE" => attempt.expiresAt - Window <= clock
    /\ requests # {} => attempt.status # "NONE"
    /\ \A r \in requests : r.key = attempt.fingerprint

\* Every intent there is, is the one the key is remembered for.
KeyInv ==
    \A i \in Intents : Exists(i) =>
        /\ attempt.status # "NONE"
        /\ key.intent = i
        /\ key.name = attempt.fingerprint
        /\ key.until >= KeyHorizon

OneInv == RequestInv /\ KeyInv /\ \A c \in Calls : AskInv(call[c], attempt, clock)

RowKept ==
    /\ attempt'.expiresAt = attempt.expiresAt
    /\ attempt'.fingerprint = attempt.fingerprint
    /\ attempt'.status = "NONE" <=> attempt.status = "NONE"

\* A step takes no call to a point before its request but by leaving it there.
NotAsking(l, m) == m.pc \in {"claim", "begin", "dispatch"} => m = l

LEMMA NotAskingSame == ASSUME NEW l PROVE NotAsking(l, l)
  BY DEF NotAsking

LEMMA IntExpiry ==
  ASSUME Inv
  PROVE  /\ attempt.expiresAt \in Int /\ clock \in Int
         /\ Window \in Int /\ KeyRetention \in Int
         /\ KeyHorizon = attempt.expiresAt + (KeyRetention - Window)
  BY SharedFacts, ConstantFacts DEF KeyHorizon

\* Steps that ask the provider for nothing and leave the row's claim as it is.
LEMMA OneStep ==
  ASSUME Inv, OneInv, RowKept, clock' \in Int, clock' >= clock,
         requests' \subseteq requests, key' = key,
         \A i \in Intents : Exists(i)' => Exists(i),
         \A d \in Calls : NotAsking(call[d], call'[d])
  PROVE  OneInv'
  <1>1. RequestInv'
    BY IntExpiry DEF OneInv, RequestInv, RowKept
  <1>2. KeyInv'
    BY DEF OneInv, KeyInv, RowKept, KeyHorizon
  <1>3. ASSUME NEW d \in Calls PROVE AskInv(call[d], attempt, clock)'
    <2>1. AskInv(call[d], attempt, clock)
      BY DEF OneInv
    <2>2. call'[d].pc = "claim" => call[d].at \in Int
      BY CallFields
    <2> QED
      BY <2>1, <2>2, IntExpiry DEF AskInv, NotAsking, RowKept
  <1> QED
    BY <1>1, <1>2, <1>3 DEF OneInv

LEMMA NotAskingBecomes ==
  ASSUME Inv, NEW c \in Calls, NEW l, Becomes(c, l), NotAsking(call[c], l)
  PROVE  \A d \in Calls : NotAsking(call[d], call'[d])
  <1>1. ASSUME NEW d \in Calls PROVE call'[d] = IF d = c THEN l ELSE call[d]
    BY TypeDef DEF Inv, Becomes
  <1> QED
    BY <1>1, NotAskingSame

LEMMA NotAskingLocal ==
  ASSUME Inv, NEW c \in Calls,
         \/ Return(c) \/ GotoObserve(c) \/ StartContinuation(c) \/ Find(c)
         \/ Observe(c) \/ ObserveAttach(c) \/ Retrieve(c) \/ UpdateStatus(c)
         \/ UpdateAttached(c) \/ ProviderAttach(c) \/ Bind(c) \/ BindFails(c)
         \/ MarkUnknown(c) \/ MarkFailed(c) \/ OutcomeUnknown(c) \/ Abandon(c)
         \/ Dispatch(c)
  PROVE  \A d \in Calls : NotAsking(call[d], call'[d])
  <1>1. call \in [Calls -> CallRecord]
    BY TypeDef DEF Inv
  <1>2. ASSUME NEW l, Becomes(c, l), l.pc \notin {"claim", "begin", "dispatch"}
        PROVE  \A d \in Calls : NotAsking(call[d], call'[d])
    BY <1>2, NotAskingBecomes DEF NotAsking
  <1>3. CASE Return(c) \/ GotoObserve(c)
    BY <1>2, <1>3 DEF Return, GotoObserve, IdleCall
  <1>4. CASE StartContinuation(c)
    BY <1>2, <1>4 DEF StartContinuation, IdleCall
  <1>5. ASSUME NEW pc \in {"creating", "retrieve", "attach"}, Stamped(c, pc)
        PROVE  \A d \in Calls : NotAsking(call[d], call'[d])
    BY <1>1, <1>2, <1>5 DEF Stamped, CallRecord
  <1>6. CASE Dispatch(c) \/ Observe(c) \/ ObserveAttach(c)
    BY <1>5, <1>6 DEF Dispatch, Observe, ObserveAttach
  <1>7. CASE Retrieve(c)
    BY <1>1, <1>2, <1>7 DEF Retrieve, CallRecord
  <1>8. CASE ProviderAttach(c)
    <2>1. PICK s \in ProviderMoves :
            Becomes(c, [call[c] EXCEPT !.pc = "updateAttached", !.got = s])
      BY <1>8 DEF ProviderAttach
    <2> QED
      BY <1>1, <1>2, <2>1 DEF CallRecord
  <1>9. CASE UpdateStatus(c) \/ UpdateAttached(c)
    <2>1. CASE Becomes(c, [call[c] EXCEPT !.pc = "observeAttach", !.seen = attempt'.observedAt])
      BY <1>1, <1>2, <2>1 DEF CallRecord
    <2> QED
      BY <1>3, <1>9, <2>1 DEF UpdateStatus, UpdateAttached, Answer
  <1>10. CASE Bind(c) \/ BindFails(c) \/ OutcomeUnknown(c)
    <2>1. CASE Goto(c, "unknown")
      BY <1>1, <1>2, <2>1 DEF Goto, CallRecord
    <2> QED
      BY <1>3, <1>10, <2>1 DEF Bind, BindFails, OutcomeUnknown, Answer
  <1>11. CASE MarkUnknown(c) \/ MarkFailed(c) \/ Abandon(c) \/ Find(c)
    BY <1>3, <1>11 DEF MarkUnknown, MarkFailed, Abandon, Find
  <1> QED
    BY <1>3, <1>4, <1>6, <1>7, <1>8, <1>9, <1>10, <1>11

\* A bound, released or observed row is still the one that was claimed.
LEMMA RowKeptByUpdate ==
  ASSUME Inv, NEW c \in Calls,
         \/ Bind(c) \/ BindFails(c) \/ MarkUnknown(c) \/ MarkFailed(c)
         \/ UpdateStatus(c) \/ UpdateAttached(c)
  PROVE  RowKept
  <1>1. attempt \in RowRecord
    BY SharedFacts
  <1>2. call[c].got \in Observable \cup {"NONE"}
    BY CallFields
  <1>3. CASE attempt' = attempt
    BY <1>3 DEF RowKept
  <1>4. ASSUME HoldsLease(call[c].token), attempt' = Released("UNKNOWN") \/ attempt' = Released("FAILED")
        PROVE  RowKept
    <2>1. PICK st \in {"UNKNOWN", "FAILED"} :
            attempt' = [attempt EXCEPT !.status = st, !.token = None, !.leaseUntil = NoTime]
      BY <1>4 DEF Released
    <2>2. attempt.status # "NONE"
      BY <1>4 DEF HoldsLease, Open
    <2> QED
      BY <1>1, <2>1, <2>2 DEF RowKept, RowRecord
  <1>5. ASSUME call[c].pc = "bind", HoldsLease(call[c].token),
               attempt' = BoundTo(call[c].intent, call[c].got, call[c].stamp)
        PROVE  RowKept
    <2>1. attempt.status # "NONE" /\ call[c].got # "NONE"
      BY <1>5, CallFacts DEF HoldsLease, Open, LocalInv, Observable, Live, Final
    <2>2. attempt' = [[attempt EXCEPT !.status = call[c].got, !.token = None, !.leaseUntil = NoTime]
                        EXCEPT !.intent = call[c].intent, !.observedAt = call[c].stamp]
      BY <1>5 DEF BoundTo, Released
    <2> QED
      BY <1>1, <2>1, <2>2 DEF RowKept, RowRecord
  <1>6. ASSUME call[c].pc \in {"update", "updateAttached"},
               attempt' = Observed(call[c].got, call[c].stamp)
        PROVE  RowKept
    <2>1. attempt.status # "NONE" /\ call[c].got # "NONE"
      BY <1>6, CallFacts, SharedFacts DEF LocalInv, Bound, RowInv, Observable, Live, Final
    <2>2. CASE attempt' = [attempt EXCEPT !.status = call[c].got, !.observedAt = call[c].stamp]
      BY <1>1, <2>1, <2>2 DEF RowKept, RowRecord
    <2> QED
      BY <1>3, <1>6, <2>2 DEF Observed
  <1>7. CASE Bind(c) \/ BindFails(c)
    BY <1>3, <1>5, <1>7 DEF Bind, BindFails
  <1>8. CASE MarkUnknown(c) \/ MarkFailed(c)
    BY <1>3, <1>4, <1>8 DEF MarkUnknown, MarkFailed
  <1>9. CASE UpdateStatus(c) \/ UpdateAttached(c)
    BY <1>6, <1>9 DEF UpdateStatus, UpdateAttached
  <1> QED
    BY <1>7, <1>8, <1>9

\* The row is inserted by the claim: no request and no intent precede it.
LEMMA OneClaim == ASSUME Inv, OneInv, NEW c \in Calls, Claim(c) PROVE OneInv'
  <1> DEFINE fp == call[c].fingerprint
  <1>1. /\ UNCHANGED <<lastObservation, clock, requests, key, intents, ready, faults>>
        /\ call[c].pc = "claim"
        /\ attempt' = IF attempt.status = "NONE" THEN Inserted(fp, call[c].at) ELSE attempt
    BY DEF Claim
  <1>2. call \in [Calls -> CallRecord] /\ call[c].at \in Int
    BY TypeDef, CallFields DEF Inv
  <1>3. /\ attempt'.status # "NONE"
        /\ attempt.status # "NONE" => attempt' = attempt
        /\ attempt.status = "NONE" => attempt'.expiresAt = call[c].at + Window
    BY <1>1 DEF Inserted, NoAttempt
  <1>4. AskInv(call[c], attempt, clock)
    BY DEF OneInv
  <1>5. RequestInv'
    <2>1. attempt'.expiresAt - Window <= clock'
      <3>1. CASE attempt.status = "NONE"
        BY <1>1, <1>2, <1>3, <1>4, <3>1, IntExpiry DEF AskInv
      <3>2. CASE attempt.status # "NONE"
        BY <1>1, <1>3, <3>2 DEF OneInv, RequestInv
      <3> QED
        BY <3>1, <3>2
    <2>2. \A r \in requests : r.key = attempt'.fingerprint
      BY <1>3 DEF OneInv, RequestInv
    <2> QED
      BY <1>1, <1>3, <2>1, <2>2 DEF RequestInv
  <1>6. KeyInv'
    BY <1>1, <1>3 DEF OneInv, KeyInv, KeyHorizon, Exists
  <1>7. ASSUME NEW l, Becomes(c, l), AskInv(l, attempt', clock'),
               \A d \in Calls \ {c} : AskInv(call[d], attempt, clock)'
        PROVE  \A d \in Calls : AskInv(call[d], attempt, clock)'
    <2>1. ASSUME NEW d \in Calls PROVE call'[d] = IF d = c THEN l ELSE call[d]
      BY <1>2, <1>7 DEF Becomes
    <2> QED
      BY <1>7, <2>1 DEF AskInv
  <1>8. ASSUME NEW l, Becomes(c, l), AskInv(l, attempt', clock')
        PROVE  \A d \in Calls : AskInv(call[d], attempt, clock)'
    <2>1. ASSUME NEW d \in Calls \ {c} PROVE AskInv(call[d], attempt, clock)'
      <3>1. call'[d] = call[d] /\ AskInv(call[d], attempt, clock)
        BY <1>2, <1>8 DEF Becomes, OneInv
      <3> QED
        BY <1>1, <1>3, <3>1 DEF AskInv
    <2> QED
      BY <1>7, <1>8, <2>1
  <1>9. CASE Return(c)
    <2>1. AskInv(IdleCall, attempt', clock')
      BY DEF IdleCall, AskInv
    <2> QED
      BY <1>5, <1>6, <1>8, <1>9, <2>1 DEF Return, OneInv
  <1>10. CASE GotoObserve(c)
    <2> DEFINE l == [IdleCall EXCEPT !.pc = "observe", !.op = call[c].op,
                                     !.host = call[c].host, !.intent = attempt.intent,
                                     !.seen = attempt.observedAt]
    <2>1. l.pc = "observe" /\ Becomes(c, l)
      BY <1>10 DEF GotoObserve, IdleCall
    <2> HIDE DEF l
    <2>2. AskInv(l, attempt', clock')
      BY <2>1 DEF AskInv
    <2> QED
      BY <1>5, <1>6, <1>8, <2>1, <2>2 DEF OneInv
  <1>11. CASE attempt'.fingerprint = fp /\ Becomes(c, [call[c] EXCEPT !.pc = "begin", !.at = clock])
    <2> DEFINE l == [call[c] EXCEPT !.pc = "begin", !.at = clock]
    <2>1. l.pc = "begin" /\ l.fingerprint = fp
      BY <1>2 DEF CallRecord
    <2> HIDE DEF l
    <2>2. AskInv(l, attempt', clock')
      BY <1>3, <1>11, <2>1 DEF AskInv
    <2> QED
      BY <1>5, <1>6, <1>8, <1>11, <2>2 DEF OneInv, l
  <1> QED
    BY <1>5, <1>6, <1>9, <1>10, <1>11 DEF Claim, OneInv

LEMMA OneAsk ==
  ASSUME Inv, OneInv, NEW c \in Calls, Start(c) \/ BeginCreate(c) \/ Dispatch(c)
  PROVE  OneInv'
  <1>1. call \in [Calls -> CallRecord] /\ attempt \in RowRecord
    BY TypeDef, SharedFacts DEF Inv
  <1>2. ASSUME RowKept, clock' = clock, requests' = requests, key' = key, intents' = intents,
               NEW l, Becomes(c, l), AskInv(l, attempt, clock)
        PROVE  OneInv'
    <2>1. RequestInv' /\ KeyInv'
      BY <1>2 DEF OneInv, RequestInv, KeyInv, RowKept, KeyHorizon, Exists
    <2>2. ASSUME NEW d \in Calls PROVE call'[d] = IF d = c THEN l ELSE call[d]
      BY <1>1, <1>2 DEF Becomes
    <2>3. ASSUME NEW d \in Calls PROVE AskInv(call'[d], attempt, clock)
      BY <1>2, <2>2 DEF OneInv
    <2>4. ASSUME NEW d \in Calls PROVE AskInv(call[d], attempt, clock)'
      BY <1>2, <2>3 DEF AskInv, RowKept
    <2> QED
      BY <2>1, <2>4 DEF OneInv
  <1>3. CASE Start(c)
    <2>1. PICK h \in Hosts, fp \in Fingerprints :
            Becomes(c, [IdleCall EXCEPT !.pc = "claim", !.host = h, !.fingerprint = fp,
                                        !.at = clock])
      BY <1>3 DEF Start
    <2>2. AskInv([IdleCall EXCEPT !.pc = "claim", !.host = h, !.fingerprint = fp, !.at = clock],
                 attempt, clock)
      BY IntExpiry DEF AskInv, IdleCall
    <2>3. RowKept /\ clock' = clock /\ requests' = requests /\ key' = key /\ intents' = intents
      BY <1>3 DEF Start, RowKept
    <2> QED
      BY <1>2, <2>1, <2>2, <2>3
  <1>4. CASE BeginCreate(c)
    <2>1. /\ clock' = clock /\ requests' = requests /\ key' = key /\ intents' = intents
          /\ call[c].pc = "begin"
          /\ AskInv(call[c], attempt, clock)
      BY <1>4 DEF BeginCreate, OneInv
    <2>2. CASE attempt' = attempt /\ (Return(c) \/ GotoObserve(c))
      <3>1. RowKept
        BY <2>2 DEF RowKept
      <3>2. ASSUME NEW l, Becomes(c, l), l.pc \in {"idle", "observe"} PROVE OneInv'
        <4>1. AskInv(l, attempt, clock)
          BY <3>2 DEF AskInv
        <4> QED
          BY <1>2, <2>1, <2>2, <3>1, <3>2, <4>1
      <3>3. CASE Return(c)
        BY <3>2, <3>3 DEF Return, IdleCall
      <3>4. CASE GotoObserve(c)
        BY <3>2, <3>4 DEF GotoObserve, IdleCall
      <3> QED
        BY <2>2, <3>3, <3>4
    <2>3. ASSUME NEW token, NEW t,
                 attempt' = [attempt EXCEPT !.token = token, !.leaseUntil = t + Lease],
                 Becomes(c, [call[c] EXCEPT !.pc = "dispatch", !.token = token,
                                            !.until = t + Lease, !.at = 0])
          PROVE  OneInv'
      <3> DEFINE l == [call[c] EXCEPT !.pc = "dispatch", !.token = token,
                                      !.until = t + Lease, !.at = 0]
      <3>1. RowKept
        BY <1>1, <2>3 DEF RowKept, RowRecord
      <3>2. l.pc = "dispatch" /\ l.fingerprint = call[c].fingerprint
        BY <1>1 DEF CallRecord
      <3> HIDE DEF l
      <3>3. AskInv(l, attempt, clock)
        BY <2>1, <3>2 DEF AskInv
      <3> QED
        BY <1>2, <2>1, <2>3, <3>1, <3>3 DEF l
    <2> QED
      BY <1>4, <2>2, <2>3 DEF BeginCreate
  <1>5. CASE Dispatch(c)
    <2>1. /\ UNCHANGED <<attempt, clock, key, intents, ready, faults>>
          /\ requests' = requests \cup {[token |-> call[c].token, key |-> call[c].fingerprint]}
          /\ call[c].pc = "dispatch"
          /\ AskInv(call[c], attempt, clock)
      BY <1>5 DEF Dispatch, IdempotencyKey, OneInv
    <2>2. RequestInv'
      BY <2>1 DEF OneInv, RequestInv, AskInv
    <2>3. KeyInv'
      BY <2>1 DEF OneInv, KeyInv, KeyHorizon, Exists
    <2>4. ASSUME NEW d \in Calls PROVE AskInv(call[d], attempt, clock)'
      <3>1. NotAsking(call[d], call'[d]) /\ AskInv(call[d], attempt, clock)
        BY <1>5, NotAskingLocal DEF OneInv
      <3> QED
        BY <2>1, <3>1 DEF NotAsking, AskInv
    <2> QED
      BY <2>2, <2>3, <2>4 DEF OneInv
  <1> QED
    BY <1>3, <1>4, <1>5

\* A request still under way finds its key remembered once there is an intent.
LEMMA OneResolve ==
  ASSUME Inv, OneInv, Timely, NEW r \in requests, NEW i \in Intents, Resolve(r.key, i),
         attempt' = attempt
  PROVE  KeyInv'
  <1>1. /\ attempt.status # "NONE" /\ r.key = attempt.fingerprint
        /\ clock < KeyHorizon /\ attempt.expiresAt - Window <= clock
    BY DEF OneInv, RequestInv, Timely
  <1>2. CASE key' = key /\ intents' = intents
    BY <1>2 DEF OneInv, KeyInv, KeyHorizon, Exists
  <1>3. ASSUME ~KeyKnown(r.key),
               key' = [name |-> r.key, intent |-> i, until |-> clock + KeyRetention],
               intents' = [intents EXCEPT ![i] = "AWAITING_PAYMENT_METHOD"]
        PROVE  KeyInv'
    <2>1. ASSUME NEW j \in Intents PROVE ~Exists(j)
      <3>1. SUFFICES ASSUME Exists(j) PROVE FALSE
        OBVIOUS
      <3>2. key.name = r.key /\ key.until >= KeyHorizon
        BY <1>1, <3>1 DEF OneInv, KeyInv
      <3>3. key.until \in Int
        BY SharedFacts DEF SharedOK
      <3>4. key.until > clock
        BY <1>1, <3>2, <3>3, IntExpiry
      <3> QED
        BY <1>3, <3>2, <3>4 DEF KeyKnown
    <2>2. ASSUME NEW j \in Intents, Exists(j)' PROVE j = i
      BY <1>3, <2>1, <2>2, SharedFacts DEF Exists, SharedOK
    <2>3. clock + KeyRetention >= KeyHorizon
      BY <1>1, IntExpiry
    <2> QED
      BY <1>1, <1>3, <2>2, <2>3 DEF KeyInv, KeyHorizon
  <1> QED
    BY <1>2, <1>3 DEF Resolve

LEMMA OneProvider ==
  ASSUME Inv, OneInv, Timely, NEW r \in requests, ProviderCreate(r) \/ ProviderReject(r)
  PROVE  OneInv'
  <1>1. /\ clock' = clock /\ attempt' = attempt
        /\ requests' = requests \ {r}
        /\ UNCHANGED <<key, intents>> \/ \E i \in Intents : Resolve(r.key, i)
    BY DEF ProviderCreate, ProviderReject
  <1>2. RequestInv'
    BY <1>1 DEF OneInv, RequestInv
  <1>3. KeyInv'
    <2>1. CASE UNCHANGED <<key, intents>>
      BY <1>1, <2>1 DEF OneInv, KeyInv, KeyHorizon, Exists
    <2> QED
      BY <1>1, <2>1, OneResolve
  <1>4. ASSUME NEW d \in Calls PROVE AskInv(call[d], attempt, clock)'
    <2>1. call[d] \in CallRecord /\ AskInv(call[d], attempt, clock)
      BY CallFacts DEF OneInv
    <2>2. CASE call'[d] = call[d]
      BY <1>1, <2>1, <2>2 DEF AskInv
    <2>3. ASSUME NEW i, NEW s, call'[d] = [call[d] EXCEPT !.pc = "bind", !.intent = i, !.got = s]
          PROVE  AskInv(call[d], attempt, clock)'
      BY <2>1, <2>3 DEF AskInv, CallRecord
    <2>4. CASE call'[d] = [call[d] EXCEPT !.pc = "rejected"]
      BY <2>1, <2>4 DEF AskInv, CallRecord
    <2> QED
      BY <2>2, <2>3, <2>4 DEF ProviderCreate, ProviderReject
  <1> QED
    BY <1>2, <1>3, <1>4 DEF OneInv

LEMMA OneNext == Inv /\ OneInv /\ Timely /\ [Next]_vars => OneInv'
  <1> SUFFICES ASSUME Inv, OneInv, Timely, [Next]_vars PROVE OneInv'
    OBVIOUS
  <1>1. clock \in Int /\ call \in [Calls -> CallRecord] /\ intents \in [Intents -> Observable \cup {"NONE"}]
    BY IntExpiry, TypeDef, SharedFacts DEF Inv, SharedOK
  <1>2. ASSUME NEW c \in Calls, Start(c) \/ BeginCreate(c) \/ Dispatch(c) \/ Claim(c)
        PROVE  OneInv'
    BY <1>2, OneAsk, OneClaim
  <1>3. ASSUME NEW c \in Calls,
               \/ StartContinuation(c) \/ Find(c) \/ Observe(c) \/ ObserveAttach(c)
               \/ Retrieve(c) \/ ProviderAttach(c) \/ OutcomeUnknown(c) \/ Abandon(c)
        PROVE  OneInv'
    <2>1. \A d \in Calls : NotAsking(call[d], call'[d])
      BY <1>3, NotAskingLocal
    <2>2. /\ attempt' = attempt /\ clock' = clock /\ key' = key
          /\ requests' \subseteq requests
      BY <1>3 DEF StartContinuation, Find, Observe, ObserveAttach, Retrieve, ProviderAttach,
                  OutcomeUnknown, Abandon
    <2>3. ASSUME NEW i \in Intents, Exists(i)' PROVE Exists(i)
      <3>1. CASE ProviderAttach(c)
        BY <1>1, <2>3, <3>1 DEF ProviderAttach, Exists
      <3>2. CASE intents' = intents
        BY <2>3, <3>2 DEF Exists
      <3> QED
        BY <1>3, <3>1, <3>2 DEF StartContinuation, Find, Observe, ObserveAttach, Retrieve,
                                OutcomeUnknown, Abandon
    <2>4. RowKept
      BY <2>2 DEF RowKept
    <2> QED
      BY <1>1, <2>1, <2>2, <2>3, <2>4, OneStep
  <1>4. ASSUME NEW c \in Calls,
               \/ Bind(c) \/ BindFails(c) \/ MarkUnknown(c) \/ MarkFailed(c)
               \/ UpdateStatus(c) \/ UpdateAttached(c)
        PROVE  OneInv'
    <2>1. \A d \in Calls : NotAsking(call[d], call'[d])
      BY <1>4, NotAskingLocal
    <2>2. RowKept
      BY <1>4, RowKeptByUpdate
    <2>3. UNCHANGED <<clock, key, intents, requests>>
      BY <1>4 DEF Bind, BindFails, MarkUnknown, MarkFailed, UpdateStatus, UpdateAttached
    <2> QED
      BY <1>1, <2>1, <2>2, <2>3, OneStep DEF Exists
  <1>5. ASSUME NEW r \in requests, ProviderCreate(r) \/ ProviderReject(r) PROVE OneInv'
    BY <1>5, OneProvider
  <1>6. ASSUME NEW h \in Hosts, Crash(h) PROVE OneInv'
    <2>1. \A d \in Calls : NotAsking(call[d], call'[d])
      BY <1>6 DEF Crash, NotAsking, IdleCall
    <2>2. RowKept /\ UNCHANGED <<clock, key, intents, requests>>
      BY <1>6 DEF Crash, RowKept
    <2> QED
      BY <1>1, <2>1, <2>2, OneStep DEF Exists
  <1>7. CASE ProviderAdvance \/ Tick \/ UNCHANGED vars
    <2>1. /\ call' = call /\ attempt' = attempt /\ key' = key /\ requests' = requests
          /\ clock' \in Int /\ clock' >= clock
      BY <1>1, <1>7 DEF ProviderAdvance, Tick, vars
    <2>2. ASSUME NEW i \in Intents, Exists(i)' PROVE Exists(i)
      <3>1. CASE ProviderAdvance
        BY <1>1, <2>2, <3>1 DEF ProviderAdvance, Exists, Live
      <3> QED
        BY <1>7, <2>2, <3>1 DEF Tick, vars, Exists
    <2>3. RowKept
      BY <2>1 DEF RowKept
    <2> QED
      BY <2>1, <2>2, <2>3, OneStep, NotAskingSame
  <1> QED
    BY <1>2, <1>3, <1>4, <1>5, <1>6, <1>7 DEF Next, Step

\* Whatever leases run out, answers are lost and hosts retry, the provider never
\* makes a second payable intent for the source, as long as it remembers a key
\* for longer than a create request can be under way after the claim.
THEOREM OneIntentCorrect == Spec /\ []Timely => []OneIntent
  <1>1. Init => OneInv
    BY DEF Init, OneInv, RequestInv, KeyInv, AskInv, Exists, NoAttempt, IdleCall
  <1>2. Spec /\ []Timely => []OneInv
    BY <1>1, OneNext, InvCorrect, PTL DEF Spec
  <1>3. OneInv => OneIntent
    <2> DEFINE S == {i \in Intents : intents[i] # "NONE"}
    <2> SUFFICES ASSUME OneInv PROVE Cardinality(S) <= 1
      BY DEF OneIntent
    <2>1. S \subseteq {key.intent}
      BY DEF OneInv, KeyInv, Exists
    <2>2. IsFiniteSet({key.intent}) /\ Cardinality({key.intent}) = 1
      BY FS_Singleton
    <2>3. IsFiniteSet(S) /\ Cardinality(S) <= Cardinality({key.intent})
      BY <2>1, <2>2, FS_Subset
    <2> QED
      BY <2>2, <2>3
  <1> QED
    BY <1>2, <1>3, PTL
=============================================================================
