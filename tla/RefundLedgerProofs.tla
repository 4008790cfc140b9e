-------------------------- MODULE RefundLedgerProofs --------------------------
(***************************************************************************)
(* Proofs about RefundLedger, for every value of its constants.            *)
(***************************************************************************)
EXTENDS RefundLedger, FiniteSetTheorems, TLAPS

OperationRecord ==
    [state : {"NONE", "CREATING", "PENDING", "SUCCEEDED", "FAILED"}, settlement : Nat, amount : Nat]

CallRecord ==
    [pc : {"idle", "claim", "calling", "answered"}, source : Sources \cup {""}, settlement : Nat,
     amount : Nat, answer : Decision \cup {""}]

\* What somebody does on behalf of an operation is what its row says.
OfRow(x, settlement, amount) ==
    /\ operation[x].state # "NONE"
    /\ operation[x].settlement = settlement /\ operation[x].amount = amount

TypeInv ==
    /\ recorded \in 0 .. Len(Settled)
    /\ operation \in [Sources -> OperationRecord]
    /\ call \in [Calls -> CallRecord]
    /\ faults \in 0 .. MaxFaults

\* The outcome of a row is the one decision of the provider.
RowInv ==
    \A x \in Sources :
       /\ operation[x].state # "NONE" => operation[x].settlement \in 1 .. recorded
       /\ operation[x].state \in {"PENDING", "SUCCEEDED", "FAILED"} =>
             \/ operation[x].settlement \in ConflictAnswers
             \/ \E d \in Decided(<<x>>) : operation[x].state = Recorded(d.decision)

RequestInv == \A r \in requests : \E x \in Sources : r.key = <<x>> /\ OfRow(x, r.settlement, r.amount)

DecisionInv ==
    /\ \A d \in decisions :
          /\ d.decision \in Decision
          /\ \E x \in Sources : d.key = <<x>> /\ OfRow(x, d.settlement, d.amount)
    /\ \A d, e \in decisions : d.key = e.key => d = e

LocalInv(c) ==
    /\ call[c].pc # "idle" => call[c].source \in Sources
    /\ call[c].pc = "claim" => call[c].settlement \in 1 .. recorded
    /\ call[c].pc \in {"calling", "answered"} =>
          OfRow(call[c].source, call[c].settlement, call[c].amount)
    /\ call[c].pc = "answered" =>
          /\ call[c].answer \in Decision
          /\ \/ call[c].settlement \in ConflictAnswers
             \/ \E d \in Decided(<<call[c].source>>) : d.decision = call[c].answer

CallInv == \A c \in Calls : LocalInv(c)

CapacityInv ==
    \A s \in 1 .. recorded \ ConflictAnswers :
       IsFiniteSet(ReservedUnits(s)) /\ Cardinality(ReservedUnits(s)) <= Settled[s]

Inv == TypeInv /\ RowInv /\ RequestInv /\ DecisionInv /\ CallInv /\ CapacityInv

----------------------------------------------------------------------------
(* Units of money.                                                          *)

\* An amount is as many units as it says.
LEMMA UnitsCount ==
  ASSUME NEW holder, NEW n \in Nat
  PROVE  IsFiniteSet(Units(holder, n)) /\ Cardinality(Units(holder, n)) = n
  <1>1. IsFiniteSet({holder}) /\ Cardinality({holder}) = 1
    BY FS_Singleton
  <1>2. IsFiniteSet(1 .. n) /\ Cardinality(1 .. n) = n
    BY FS_Interval
  <1>3. /\ IsFiniteSet({holder} \X (1 .. n))
        /\ Cardinality({holder} \X (1 .. n)) = Cardinality({holder}) * Cardinality(1 .. n)
    BY <1>1, <1>2, FS_Product
  <1> QED
    BY <1>1, <1>2, <1>3 DEF Units

LEMMA SettledType == \A s \in 1 .. Len(Settled) : Settled[s] \in Nat \ {0}
  BY RefundAssumption

----------------------------------------------------------------------------
(* What no step takes back.                                                 *)

Grows ==
    /\ recorded <= recorded' /\ decisions \subseteq decisions'
    /\ \A x \in Sources : operation[x].state # "NONE" =>
          /\ operation'[x].state # "NONE"
          /\ operation'[x].settlement = operation[x].settlement
          /\ operation'[x].amount = operation[x].amount

\* A call that does not move keeps what it relies on.
LEMMA OthersKeep ==
  ASSUME Inv, Grows, recorded' \in Nat, NEW c \in Calls, call'[c] = call[c]
  PROVE  LocalInv(c)'
  <1>1. LocalInv(c) /\ recorded \in Nat
    BY DEF Inv, CallInv, TypeInv
  <1>2. call[c].pc = "claim" => call[c].settlement \in 1 .. recorded'
    BY <1>1 DEF LocalInv, Grows
  <1> QED
    BY <1>1, <1>2 DEF LocalInv, OfRow, Decided, Grows

LEMMA CallStep ==
  ASSUME Inv, Grows, recorded' \in Nat, NEW c \in Calls, NEW l \in CallRecord, Becomes(c, l),
         LocalInv(c)'
  PROVE  call' \in [Calls -> CallRecord] /\ CallInv'
  <1>1. /\ call' \in [Calls -> CallRecord]
        /\ \A d \in Calls \ {c} : call'[d] = call[d]
    BY DEF Inv, TypeInv, Becomes
  <1>2. \A d \in Calls \ {c} : LocalInv(d)'
    BY <1>1, OthersKeep
  <1> QED
    BY <1>1, <1>2 DEF CallInv

LEMMA CallReturns ==
  ASSUME Inv, Grows, recorded' \in Nat, NEW c \in Calls, Return(c)
  PROVE  call' \in [Calls -> CallRecord] /\ CallInv'
  <1>1. IdleCall \in CallRecord /\ IdleCall.pc = "idle"
    BY DEF IdleCall, CallRecord
  <1>2. call'[c] = IdleCall
    BY DEF Inv, TypeInv, Return, Becomes
  <1>3. LocalInv(c)'
    BY <1>1, <1>2 DEF LocalInv
  <1> QED
    BY <1>1, <1>3, CallStep DEF Return

LEMMA CallsWait ==
  ASSUME Inv, Grows, recorded' \in Nat, UNCHANGED call
  PROVE  call' \in [Calls -> CallRecord] /\ CallInv'
  BY OthersKeep DEF Inv, TypeInv, CallInv

\* Rows, requests and decisions when only calls move and requests may be lost.
LEMMA LedgerKept ==
  ASSUME Inv, UNCHANGED <<recorded, operation, decisions>>
  PROVE  Grows /\ RowInv' /\ DecisionInv' /\ CapacityInv' /\ recorded' \in Nat
  <1>1. Grows /\ recorded' \in Nat
    BY DEF Inv, TypeInv, Grows
  <1>2. RowInv'
    BY DEF Inv, RowInv, Decided
  <1>3. DecisionInv'
    BY DEF Inv, DecisionInv, OfRow
  <1>4. CapacityInv'
    BY DEF Inv, CapacityInv, ReservedUnits, Reserves
  <1> QED
    BY <1>1, <1>2, <1>3, <1>4

LEMMA RequestsKept ==
  ASSUME Inv, Grows, requests' \subseteq requests
  PROVE  RequestInv'
  BY DEF Inv, RequestInv, OfRow, Grows

----------------------------------------------------------------------------
(* Calls.                                                                   *)

LEMMA InitInv == Init => Inv
  <1> SUFFICES ASSUME Init PROVE Inv
    OBVIOUS
  <1>1. TypeInv
    <2>1. Len(Settled) \in Nat /\ MaxFaults \in Nat
      BY RefundAssumption
    <2>2. NoOperation \in OperationRecord /\ IdleCall \in CallRecord
      BY DEF NoOperation, OperationRecord, IdleCall, CallRecord
    <2> QED
      BY <2>1, <2>2 DEF Init, TypeInv
  <1>2. RowInv /\ RequestInv /\ DecisionInv /\ CapacityInv
    BY DEF Init, RowInv, NoOperation, RequestInv, DecisionInv, CapacityInv
  <1>3. CallInv
    BY DEF Init, CallInv, LocalInv, IdleCall
  <1> QED
    BY <1>1, <1>2, <1>3 DEF Inv

LEMMA RecordSettlementInv ==
  ASSUME Inv, RecordSettlement
  PROVE  Inv'
  <1>1. /\ recorded \in 0 .. Len(Settled) /\ Len(Settled) \in Nat /\ recorded' = recorded + 1
        /\ recorded' \in 0 .. Len(Settled)
    BY RefundAssumption DEF RecordSettlement, Inv, TypeInv
  <1>2. Grows
    BY <1>1 DEF RecordSettlement, Grows
  <1>3. TypeInv' /\ CallInv'
    BY <1>1, <1>2, CallsWait DEF RecordSettlement, Inv, TypeInv
  <1>4. RowInv'
    <2>1. \A n : n \in 1 .. recorded => n \in 1 .. recorded'
      BY <1>1
    <2> QED
      BY <2>1 DEF RecordSettlement, Inv, RowInv, Decided
  <1>5. DecisionInv'
    BY DEF RecordSettlement, Inv, DecisionInv, OfRow
  <1>6. CapacityInv'
    <2> SUFFICES ASSUME NEW s \in 1 .. recorded' \ ConflictAnswers
                 PROVE  /\ IsFiniteSet(ReservedUnits(s)')
                        /\ Cardinality(ReservedUnits(s)') <= Settled[s]
      BY DEF CapacityInv
    <2>1. ReservedUnits(s)' = ReservedUnits(s)
      BY DEF RecordSettlement, ReservedUnits, Reserves
    <2>2. CASE s \in 1 .. recorded
      BY <2>1, <2>2 DEF Inv, CapacityInv
    <2>3. CASE s \notin 1 .. recorded
      <3>1. \A x \in Sources : ~Reserves(x, s)
        BY <2>3 DEF Inv, RowInv, Reserves
      <3>2. ReservedUnits(s) = {}
        BY <3>1 DEF ReservedUnits
      <3> QED
        BY <1>1, <2>1, <3>2, FS_EmptySet, SettledType
    <2> QED
      BY <2>2, <2>3
  <1>7. RequestInv'
    BY <1>2, RequestsKept DEF RecordSettlement
  <1> QED
    BY <1>3, <1>4, <1>5, <1>6, <1>7 DEF Inv

LEMMA RequestsInv ==
  ASSUME Inv, NEW c \in Calls, NEW x \in Sources, NEW s \in 1 .. recorded, NEW a \in Nat,
         Request(c, x, s, a)
  PROVE  Inv'
  <1> DEFINE l == [IdleCall EXCEPT !.pc = "claim", !.source = x, !.settlement = s, !.amount = a]
  <1>1. s \in Nat
    BY DEF Inv, TypeInv
  <1>2. l \in CallRecord /\ l.pc = "claim" /\ l.source = x /\ l.settlement = s
    BY <1>1 DEF IdleCall, CallRecord
  <1>3. Becomes(c, l)
    BY DEF Request
  <1> HIDE DEF l
  <1>4. UNCHANGED <<recorded, operation, requests, decisions, faults>>
    BY DEF Request
  <1>5. call'[c] = l
    BY <1>3 DEF Inv, TypeInv, Becomes
  <1>6. LocalInv(c)'
    BY <1>2, <1>4, <1>5 DEF LocalInv
  <1> QED
    BY <1>2, <1>3, <1>4, <1>6, LedgerKept, CallStep, RequestsKept DEF Inv, TypeInv

\* A call that only returns, whatever becomes of its request.
LEMMA ReturnInv ==
  ASSUME Inv, NEW c \in Calls, Return(c), requests' \subseteq requests,
         UNCHANGED <<recorded, operation, decisions>>, faults' \in 0 .. MaxFaults
  PROVE  Inv'
  BY LedgerKept, CallReturns, RequestsKept DEF Inv, TypeInv

LEMMA AbandonInv ==
  ASSUME Inv, NEW c \in Calls, Abandon(c)
  PROVE  Inv'
  <1>1. faults' \in 0 .. MaxFaults
    BY RefundAssumption DEF Abandon, Fault, Inv, TypeInv
  <1>2. requests' \subseteq requests
    BY DEF Abandon
  <1> QED
    BY <1>1, <1>2, ReturnInv DEF Abandon

\* Asking on behalf of a row that is there by now.
LEMMA AskInv ==
  ASSUME Inv, Grows, recorded' \in Nat, NEW c \in Calls, call[c].pc = "claim", AskProvider(c),
         operation'[call[c].source].state # "NONE",
         operation'[call[c].source].settlement = call[c].settlement,
         operation'[call[c].source].amount = call[c].amount
  PROVE  call' \in [Calls -> CallRecord] /\ CallInv' /\ RequestInv'
  <1> DEFINE l == [call[c] EXCEPT !.pc = "calling"]
             r == [key |-> IdempotencyKey(c), settlement |-> call[c].settlement,
                   amount |-> call[c].amount]
  <1>1. call[c] \in CallRecord /\ call[c].source \in Sources
    BY DEF Inv, TypeInv, CallInv, LocalInv
  <1>2. /\ l \in CallRecord /\ l.pc = "calling" /\ l.source = call[c].source
        /\ l.settlement = call[c].settlement /\ l.amount = call[c].amount
    BY <1>1 DEF CallRecord
  <1>3. Becomes(c, l)
    BY DEF AskProvider
  <1>4. /\ requests' = requests \cup {r} /\ r.key = <<call[c].source>>
        /\ r.settlement = call[c].settlement /\ r.amount = call[c].amount
    BY DEF AskProvider, IdempotencyKey
  <1> HIDE DEF l, r
  <1>5. call'[c] = l
    BY <1>3 DEF Inv, TypeInv, Becomes
  <1>6. LocalInv(c)'
    BY <1>1, <1>2, <1>5 DEF LocalInv, OfRow
  <1>7. call' \in [Calls -> CallRecord] /\ CallInv'
    BY <1>2, <1>3, <1>6, CallStep
  <1>8. RequestInv'
    <2>1. \A q \in requests : \E x \in Sources : q.key = <<x>> /\ OfRow(x, q.settlement, q.amount)'
      BY DEF Inv, RequestInv, OfRow, Grows
    <2> QED
      BY <1>1, <1>4, <2>1 DEF RequestInv, OfRow
  <1> QED
    BY <1>7, <1>8

\* A new operation takes its amount out of what is left of the settlement.
LEMMA ReserveInv ==
  ASSUME Inv, NEW c \in Calls, call[c].pc = "claim", operation[call[c].source].state = "NONE",
         Fits(c), AskProvider(c), UNCHANGED <<recorded, decisions, faults>>,
         operation' = [operation EXCEPT ![call[c].source] =
                         [state |-> "CREATING", settlement |-> call[c].settlement,
                          amount |-> call[c].amount]]
  PROVE  Inv'
  <1> DEFINE y == call[c].source
             t == call[c].settlement
             n == call[c].amount
             row == [state |-> "CREATING", settlement |-> t, amount |-> n]
  <1>1. /\ y \in Sources /\ t \in 1 .. recorded /\ t \in Nat /\ n \in Nat /\ recorded' \in Nat
    <2>1. recorded \in Nat /\ call[c] \in CallRecord /\ LocalInv(c)
      BY DEF Inv, TypeInv, CallInv
    <2>2. y \in Sources /\ t \in 1 .. recorded
      BY <2>1 DEF LocalInv
    <2> QED
      BY <2>1, <2>2 DEF CallRecord
  <1>2. row \in OperationRecord /\ row.state = "CREATING" /\ row.settlement = t /\ row.amount = n
    BY <1>1 DEF OperationRecord
  <1>3. operation' = [operation EXCEPT ![y] = row]
    OBVIOUS
  <1> HIDE DEF row
  <1>4. /\ operation' \in [Sources -> OperationRecord] /\ operation'[y] = row
        /\ \A x \in Sources \ {y} : operation'[x] = operation[x]
    BY <1>1, <1>2, <1>3 DEF Inv, TypeInv
  <1>5. Grows
    BY <1>1, <1>4 DEF Grows
  <1>6. call' \in [Calls -> CallRecord] /\ CallInv' /\ RequestInv'
    BY <1>1, <1>2, <1>4, <1>5, AskInv
  <1>7. RowInv'
    BY <1>1, <1>2, <1>4 DEF Inv, RowInv, Decided
  <1>8. DecisionInv'
    <2>1. \A d \in decisions : \E x \in Sources : d.key = <<x>> /\ OfRow(x, d.settlement, d.amount)'
      BY <1>5 DEF Inv, DecisionInv, OfRow, Grows
    <2> QED
      BY <2>1 DEF Inv, DecisionInv
  <1>9. CapacityInv'
    <2> SUFFICES ASSUME NEW s \in 1 .. recorded \ ConflictAnswers
                 PROVE  /\ IsFiniteSet(ReservedUnits(s)')
                        /\ Cardinality(ReservedUnits(s)') <= Settled[s]
      BY DEF CapacityInv
    <2>1. IsFiniteSet(ReservedUnits(s)) /\ Cardinality(ReservedUnits(s)) <= Settled[s]
      BY DEF Inv, CapacityInv
    <2>2. CASE s # t
      <3>1. \A x \in Sources : Reserves(x, s)' <=> Reserves(x, s)
        BY <1>1, <1>2, <1>4, <2>2 DEF Reserves
      <3>2. \A x \in Sources : Reserves(x, s) => operation'[x] = operation[x]
        BY <1>4 DEF Reserves
      <3>3. ReservedUnits(s)' = ReservedUnits(s)
        BY <3>1, <3>2 DEF ReservedUnits
      <3> QED
        BY <2>1, <3>3
    <2>3. CASE s = t
      <3>1. \A x \in Sources : Reserves(x, s)' <=> (Reserves(x, s) \/ x = y)
        BY <1>1, <1>2, <1>4, <2>3 DEF Reserves
      <3>2. \A x \in Sources : Reserves(x, s) => operation'[x] = operation[x]
        BY <1>4 DEF Reserves
      <3>3. ReservedUnits(s)' = ReservedUnits(s) \cup Units(<<y>>, n)
        <4>1. ReservedUnits(s)' =
                 UNION {Units(<<x>>, operation'[x].amount) : x \in {z \in Sources : Reserves(z, s) \/ z = y}}
          BY <3>1 DEF ReservedUnits
        <4>2. operation'[y].amount = n
          BY <1>2, <1>4
        <4>3. Units(<<y>>, operation'[y].amount) = Units(<<y>>, n)
          BY <4>2
        <4>4. \A x \in Sources : Reserves(x, s) =>
                 Units(<<x>>, operation'[x].amount) = Units(<<x>>, operation[x].amount)
          BY <3>2
        <4> HIDE DEF y, n
        <4> QED
          BY <1>1, <4>1, <4>3, <4>4 DEF ReservedUnits
      <3>4. IsFiniteSet(Units(<<y>>, n)) /\ Cardinality(Units(<<y>>, n)) = n
        BY <1>1, UnitsCount
      <3>5. ReservedUnits(s) \cap Units(<<y>>, n) = {}
        BY DEF ReservedUnits, Reserves, Units
      <3>6. Cardinality({}) = 0 /\ Cardinality(ReservedUnits(s)) \in Nat
        BY <2>1, FS_EmptySet, FS_CardinalityType
      <3>7. /\ IsFiniteSet(ReservedUnits(s)')
            /\ Cardinality(ReservedUnits(s)') = Cardinality(ReservedUnits(s)) + n - 0
        BY <2>1, <3>3, <3>4, <3>5, <3>6, FS_Union
      <3>8. Cardinality(ReservedUnits(s)) + n <= Settled[s]
        BY <2>3 DEF Fits, TotalReserved
      <3> QED
        BY <1>1, <3>6, <3>7, <3>8
    <2> QED
      BY <2>2, <2>3
  <1> QED
    BY <1>4, <1>6, <1>7, <1>8, <1>9 DEF Inv, TypeInv

LEMMA ClaimStepInv ==
  ASSUME Inv, NEW c \in Calls, Claim(c)
  PROVE  Inv'
  <1>1. CASE Return(c) /\ UNCHANGED <<operation, requests>>
    BY <1>1, ReturnInv DEF Claim, Inv, TypeInv
  <1>2. CASE /\ operation[call[c].source].state = "NONE" /\ Fits(c) /\ AskProvider(c)
             /\ operation' = [operation EXCEPT ![call[c].source] =
                    [state |-> "CREATING", settlement |-> call[c].settlement,
                     amount |-> call[c].amount]]
    BY <1>2, ReserveInv DEF Claim
  <1>3. CASE /\ operation[call[c].source].state # "NONE" /\ SameRequest(c) /\ AskProvider(c)
             /\ operation' = operation
    <2>1. call' \in [Calls -> CallRecord] /\ CallInv' /\ RequestInv'
      BY <1>3, LedgerKept, AskInv DEF Claim, SameRequest
    <2> QED
      BY <1>3, <2>1, LedgerKept DEF Claim, Inv, TypeInv
  <1> QED
    BY <1>1, <1>2, <1>3 DEF Claim

\* A call learns the outcome of its operation.
LEMMA AnsweredInv ==
  ASSUME Inv, NEW c \in Calls, call[c].pc = "calling", NEW answer \in Decision,
         \/ call[c].settlement \in ConflictAnswers
         \/ \E d \in Decided(<<call[c].source>>) : d.decision = answer,
         Becomes(c, [call[c] EXCEPT !.pc = "answered", !.answer = answer]),
         UNCHANGED <<recorded, operation, requests, decisions, faults>>
  PROVE  Inv'
  <1> DEFINE l == [call[c] EXCEPT !.pc = "answered", !.answer = answer]
  <1>1. /\ call[c] \in CallRecord /\ call[c].source \in Sources
        /\ OfRow(call[c].source, call[c].settlement, call[c].amount)
    BY DEF Inv, TypeInv, CallInv, LocalInv
  <1>2. /\ l \in CallRecord /\ l.pc = "answered" /\ l.source = call[c].source
        /\ l.settlement = call[c].settlement /\ l.amount = call[c].amount /\ l.answer = answer
    BY <1>1 DEF CallRecord
  <1>3. Becomes(c, l)
    OBVIOUS
  <1> HIDE DEF l
  <1>4. call'[c] = l
    BY <1>3 DEF Inv, TypeInv, Becomes
  <1>5. LocalInv(c)'
    BY <1>1, <1>2, <1>4 DEF LocalInv, OfRow, Decided
  <1> QED
    BY <1>2, <1>3, <1>5, LedgerKept, CallStep, RequestsKept DEF Inv, TypeInv

LEMMA AnswerInv ==
  ASSUME Inv, NEW c \in Calls, Answer(c)
  PROVE  Inv'
  <1>1. PICK d \in Decided(IdempotencyKey(c)) :
           Becomes(c, [call[c] EXCEPT !.pc = "answered", !.answer = d.decision])
    BY DEF Answer
  <1>2. d.decision \in Decision /\ d \in Decided(<<call[c].source>>)
    BY DEF Inv, DecisionInv, Decided, IdempotencyKey
  <1> QED
    BY <1>1, <1>2, AnsweredInv DEF Answer

LEMMA ConflictInv ==
  ASSUME Inv, NEW c \in Calls, Conflict(c)
  PROVE  Inv'
  BY AnsweredInv DEF Conflict, Decision

\* The row of the operation takes the outcome of its call.  Without the exception it only
\* releases capacity, since every outcome it may have taken before is the same one.
LEMMA MarkInv ==
  ASSUME Inv, NEW c \in Calls, Mark(c)
  PROVE  Inv'
  <1> DEFINE y == call[c].source
             row == [operation[y] EXCEPT !.state = Recorded(call[c].answer)]
  <1>1. /\ y \in Sources /\ operation \in [Sources -> OperationRecord]
        /\ operation[y] \in OperationRecord /\ operation[y].state # "NONE"
        /\ operation[y].settlement = call[c].settlement
        /\ \/ operation[y].settlement \in ConflictAnswers
           \/ \E d \in Decided(<<y>>) : d.decision = call[c].answer
    BY DEF Mark, Inv, TypeInv, CallInv, LocalInv, OfRow
  <1>2. Recorded(call[c].answer) \in {"PENDING", "SUCCEEDED", "FAILED"}
    BY DEF Recorded
  <1>3. /\ row \in OperationRecord /\ row.state = Recorded(call[c].answer)
        /\ row.settlement = operation[y].settlement /\ row.amount = operation[y].amount
    BY <1>1, <1>2 DEF OperationRecord
  <1>4. operation' = [operation EXCEPT ![y] = row]
    BY DEF Mark
  <1> HIDE DEF row
  <1>5. /\ operation' \in [Sources -> OperationRecord] /\ operation'[y] = row
        /\ \A x \in Sources \ {y} : operation'[x] = operation[x]
    BY <1>1, <1>3, <1>4
  <1>6. Grows /\ recorded' \in Nat
    BY <1>2, <1>3, <1>5 DEF Mark, Inv, TypeInv, Grows
  <1>7. RowInv'
    <2>1. /\ operation'[y].settlement \in 1 .. recorded
          /\ \/ operation'[y].settlement \in ConflictAnswers
             \/ \E d \in Decided(<<y>>) : operation'[y].state = Recorded(d.decision)
      BY <1>1, <1>3, <1>5 DEF Inv, RowInv
    <2> QED
      BY <1>5, <2>1 DEF Mark, Inv, RowInv, Decided
  <1>8. DecisionInv'
    <2>1. \A d \in decisions : \E x \in Sources : d.key = <<x>> /\ OfRow(x, d.settlement, d.amount)'
      BY <1>6 DEF Inv, DecisionInv, OfRow, Grows
    <2> QED
      BY <2>1 DEF Mark, Inv, DecisionInv
  <1>9. CapacityInv'
    <2> SUFFICES ASSUME NEW s \in 1 .. recorded \ ConflictAnswers
                 PROVE  /\ IsFiniteSet(ReservedUnits(s)')
                        /\ Cardinality(ReservedUnits(s)') <= Settled[s]
      BY DEF Mark, CapacityInv
    <2>1. IsFiniteSet(ReservedUnits(s)) /\ Cardinality(ReservedUnits(s)) <= Settled[s]
      BY DEF Inv, CapacityInv
    <2>2. \A x \in Sources : Reserves(x, s)' => Reserves(x, s)
      <3>1. \A x \in Sources \ {y} : Reserves(x, s)' => Reserves(x, s)
        BY <1>5 DEF Reserves
      <3>2. ASSUME operation'[y].settlement = s,
                   operation'[y].state \in {"CREATING", "PENDING", "SUCCEEDED"},
                   operation[y].state = "FAILED"
            PROVE  FALSE
        <4>1. operation[y].settlement = s
          BY <1>3, <1>5, <3>2
        <4>2. PICK d \in Decided(<<y>>) : operation[y].state = Recorded(d.decision)
          BY <1>1, <3>2, <4>1 DEF Inv, RowInv
        <4>3. PICK e \in Decided(<<y>>) : e.decision = call[c].answer
          BY <1>1, <4>1
        <4>4. d = e
          BY DEF Inv, DecisionInv, Decided
        <4> QED
          BY <1>3, <1>5, <3>2, <4>2, <4>3, <4>4
      <3>3. /\ operation'[y].settlement = s
            /\ operation'[y].state \in {"CREATING", "PENDING", "SUCCEEDED"}
            => Reserves(y, s)
        BY <1>1, <1>3, <1>5, <3>2 DEF Reserves, OperationRecord
      <3> QED
        BY <3>1, <3>3 DEF Reserves
    <2>3. ReservedUnits(s)' \subseteq ReservedUnits(s)
      BY <1>3, <1>5, <2>2 DEF ReservedUnits
    <2>4. /\ IsFiniteSet(ReservedUnits(s)') /\ Cardinality(ReservedUnits(s)') \in Nat
          /\ Cardinality(ReservedUnits(s)) \in Nat
          /\ Cardinality(ReservedUnits(s)') <= Cardinality(ReservedUnits(s))
      BY <2>1, <2>3, FS_Subset, FS_CardinalityType
    <2>5. Settled[s] \in Nat
      BY SettledType DEF Inv, TypeInv
    <2> QED
      BY <2>1, <2>4, <2>5
  <1> QED
    BY <1>5, <1>6, <1>7, <1>8, <1>9, CallReturns, RequestsKept DEF Mark, Inv, TypeInv

----------------------------------------------------------------------------
(* The provider.                                                            *)

LEMMA DecideInv ==
  ASSUME Inv, NEW r \in requests, Decide(r)
  PROVE  Inv'
  <1>1. PICK a \in Decision :
           decisions' = decisions \cup {[key |-> r.key, settlement |-> r.settlement,
                                         amount |-> r.amount, decision |-> a]}
    BY DEF Decide
  <1> DEFINE n == [key |-> r.key, settlement |-> r.settlement, amount |-> r.amount, decision |-> a]
  <1>2. /\ n.key = r.key /\ n.settlement = r.settlement /\ n.amount = r.amount
        /\ n.decision \in Decision /\ decisions' = decisions \cup {n}
    BY <1>1
  <1> HIDE DEF n
  <1>3. Grows /\ recorded' \in Nat
    BY <1>2 DEF Decide, Inv, TypeInv, Grows
  <1>4. RowInv'
    BY <1>2 DEF Decide, Inv, RowInv, Decided
  <1>5. DecisionInv'
    <2>1. \A d \in decisions : d.key # r.key
      BY DEF Decide, Decided
    <2>2. \E x \in Sources : n.key = <<x>> /\ OfRow(x, n.settlement, n.amount)
      BY <1>2 DEF Inv, RequestInv
    <2>3. \A d \in decisions' :
             d.decision \in Decision /\ \E x \in Sources : d.key = <<x>> /\ OfRow(x, d.settlement, d.amount)
      BY <1>2, <2>2 DEF Inv, DecisionInv
    <2>4. \A d, e \in decisions' : d.key = e.key => d = e
      BY <1>2, <2>1 DEF Inv, DecisionInv
    <2> QED
      BY <2>3, <2>4 DEF Decide, DecisionInv, OfRow
  <1>6. CapacityInv'
    BY DEF Decide, Inv, CapacityInv, ReservedUnits, Reserves
  <1> QED
    BY <1>3, <1>4, <1>5, <1>6, CallsWait, RequestsKept DEF Decide, Inv, TypeInv

LEMMA ReplayInv ==
  ASSUME Inv, NEW r \in requests, Replay(r)
  PROVE  Inv'
  BY LedgerKept, CallsWait, RequestsKept DEF Replay, Inv, TypeInv

----------------------------------------------------------------------------
(* Theorems.                                                                *)

LEMMA NextInv ==
  ASSUME Inv, [Next]_vars
  PROVE  Inv'
  <1>1. CASE UNCHANGED vars
    BY <1>1, LedgerKept, CallsWait, RequestsKept DEF vars, Inv, TypeInv
  <1>2. ASSUME NEW c \in Calls, Initiate(c) \/ InitiateFullByCommercialReference(c)
        PROVE  Inv'
    <2>1. CASE Initiate(c)
      BY <2>1, RequestsInv, RefundAssumption DEF Initiate
    <2>2. CASE InitiateFullByCommercialReference(c)
      <3>1. recorded \in 1 .. recorded /\ Settled[recorded] \in Nat
        BY <2>2, SettledType DEF InitiateFullByCommercialReference, Inv, TypeInv
      <3> QED
        BY <2>2, <3>1, RequestsInv DEF InitiateFullByCommercialReference
    <2> QED
      BY <1>2, <2>1, <2>2
  <1>3. ASSUME NEW c \in Calls,
               Claim(c) \/ Answer(c) \/ Conflict(c) \/ Mark(c) \/ Abandon(c)
        PROVE  Inv'
    BY <1>3, ClaimStepInv, AnswerInv, ConflictInv, MarkInv, AbandonInv
  <1> QED
    BY <1>1, <1>2, <1>3, RecordSettlementInv, DecideInv, ReplayInv DEF Next

\* The inductive invariant.
THEOREM Invariance == Spec => []Inv
  <1>1. Inv /\ [Next]_vars => Inv'
    BY NextInv
  <1> QED
    BY InitInv, <1>1, PTL DEF Spec

LEMMA InvConsistent == Inv => Consistent
  <1> SUFFICES ASSUME Inv PROVE Consistent
    OBVIOUS
  <1>1. TypeOK
    <2>1. operation \in [Sources -> [state : {"NONE", "CREATING", "PENDING", "SUCCEEDED", "FAILED"},
                                     settlement : Nat, amount : Nat]]
      BY DEF Inv, TypeInv, OperationRecord
    <2>2. \A c \in Calls : call[c].pc \in {"idle", "claim", "calling", "answered"}
      BY DEF Inv, TypeInv, CallRecord
    <2> QED
      BY <2>1, <2>2 DEF Inv, TypeInv, RowInv, DecisionInv, TypeOK
  <1>2. ASSUME NEW x \in Sources, NEW d \in decisions, operation[x].state = "FAILED", d.key = <<x>>
        PROVE  d.settlement \in ConflictAnswers \/ d.decision \notin {"succeeded", "pending"}
    <2>1. operation[x].settlement = d.settlement
      <3>1. PICK y \in Sources : d.key = <<y>> /\ OfRow(y, d.settlement, d.amount)
        BY DEF Inv, DecisionInv
      <3>2. y = x
        BY <1>2, <3>1
      <3> QED
        BY <3>1, <3>2 DEF OfRow
    <2>2. CASE operation[x].settlement \in ConflictAnswers
      BY <2>1, <2>2
    <2>3. CASE \E e \in Decided(<<x>>) : operation[x].state = Recorded(e.decision)
      <3>1. PICK e \in Decided(<<x>>) : operation[x].state = Recorded(e.decision)
        BY <2>3
      <3>2. e = d
        BY <1>2 DEF Inv, DecisionInv, Decided
      <3> QED
        BY <1>2, <3>1, <3>2 DEF Recorded
    <2> QED
      BY <1>2, <2>2, <2>3 DEF Inv, RowInv
  <1> QED
    BY <1>1, <1>2 DEF Consistent

\* Consistent: repository rows are well typed, and a refund that
\* refund-initiation.ts marks FAILED, which frees its capacity, was not granted by the
\* provider.
THEOREM ConsistentCorrect == Spec => []Consistent
  BY Invariance, InvConsistent, PTL

LEMMA LiveUnits ==
  ASSUME NEW s
  PROVE  UNION {Units(<<x>>, operation[x].amount) : x \in Live(s)} = ReservedUnits(s)
  BY DEF Live, ReservedUnits, Reserves

\* CapacityRespected: the sum repository.claim checks under its SERIALIZABLE transaction
\* stays within the settlement through every retry, failure and takeover.
THEOREM CapacityRespectedCorrect == Spec => []CapacityRespected
  <1>1. Inv => CapacityRespected
    BY LiveUnits DEF Inv, CapacityInv, CapacityRespected
  <1> QED
    BY Invariance, <1>1, PTL

\* Every unit the provider pays out is one the ledger holds for it.
LEMMA GrantedIsReserved ==
  ASSUME Inv, NEW s, s \notin ConflictAnswers
  PROVE  UNION {Units(d.key, d.amount) : d \in Granted(s)} \subseteq ReservedUnits(s)
  <1>1. ASSUME NEW d \in Granted(s)
        PROVE  \E x \in Sources : d.key = <<x>> /\ d.amount = operation[x].amount /\ Reserves(x, s)
    <2>1. d \in decisions /\ d.settlement = s /\ d.decision \in {"succeeded", "pending"}
      BY DEF Granted
    <2>2. PICK x \in Sources : d.key = <<x>> /\ OfRow(x, d.settlement, d.amount)
      BY <2>1 DEF Inv, DecisionInv
    <2>3. operation[x].state # "FAILED"
      BY <2>1, <2>2, InvConsistent DEF Consistent
    <2> QED
      BY <2>1, <2>2, <2>3 DEF OfRow, Reserves, Inv, TypeInv, OperationRecord
  <1> QED
    BY <1>1 DEF ReservedUnits

\* MoneyWithinSettlement: under the operation's id as idempotency key, the provider never
\* pays out more of a settlement than was settled.
THEOREM MoneyWithinSettlementCorrect == Spec => []MoneyWithinSettlement
  <1>1. ASSUME Inv PROVE MoneyWithinSettlement
    <2> SUFFICES ASSUME NEW s \in 1 .. recorded \ ConflictAnswers
                 PROVE  Cardinality(UNION {Units(d.key, d.amount) : d \in Granted(s)}) <= Settled[s]
      BY DEF MoneyWithinSettlement
    <2> DEFINE paid == UNION {Units(d.key, d.amount) : d \in Granted(s)}
    <2>1. paid \subseteq ReservedUnits(s)
      BY <1>1, GrantedIsReserved
    <2>2. IsFiniteSet(ReservedUnits(s)) /\ Cardinality(ReservedUnits(s)) <= Settled[s]
      BY <1>1 DEF Inv, CapacityInv
    <2> HIDE DEF paid
    <2>3. /\ IsFiniteSet(paid) /\ Cardinality(paid) <= Cardinality(ReservedUnits(s))
          /\ Cardinality(paid) \in Nat /\ Cardinality(ReservedUnits(s)) \in Nat
      BY <2>1, <2>2, FS_Subset, FS_CardinalityType
    <2>4. Settled[s] \in Nat
      BY <1>1, SettledType DEF Inv, TypeInv
    <2>5. Cardinality(paid) <= Settled[s]
      BY <2>2, <2>3, <2>4
    <2> QED
      BY <2>5 DEF paid
  <1> QED
    BY Invariance, <1>1, PTL

----------------------------------------------------------------------------
(* The ledger keeps the promise of RefundPromise.                           *)

LEMMA PromiseInit == Init => Promise!Init
  BY DEF Init, Promise!Init, Refunds, RefundOf, NoOperation, Promise!NoRefund

\* A refund changes only with its row or a decision about it.
LEMMA SameRefund ==
  ASSUME NEW x \in Sources, operation'[x] = operation[x], GrantedFor(x)' <=> GrantedFor(x)
  PROVE  RefundOf(x)' = RefundOf(x)
  BY DEF RefundOf

LEMMA Stutter ==
  ASSUME \A x \in Sources : RefundOf(x)' = RefundOf(x)
  PROVE  Refunds' = Refunds
  BY DEF Refunds

\* One refund changes.
LEMMA RefundStep ==
  ASSUME NEW x \in Sources, \A y \in Sources \ {x} : RefundOf(y)' = RefundOf(y)
  PROVE  Refunds' = [Refunds EXCEPT ![x] = RefundOf(x)']
  BY DEF Refunds

\* Granted refunds are not recorded as FAILED.
LEMMA RefundFacts ==
  ASSUME Inv, NEW x \in Sources, operation[x].settlement \notin ConflictAnswers
  PROVE  /\ operation[x].state = "NONE" => RefundOf(x) = NoOperation
         /\ operation[x].state # "NONE" =>
               RefundOf(x) = [state |-> IF GrantedFor(x) THEN "GRANTED"
                                        ELSE IF operation[x].state = "FAILED" THEN "REFUSED"
                                        ELSE "RESERVED",
                              settlement |-> operation[x].settlement,
                              amount |-> operation[x].amount]
         /\ GrantedFor(x) => operation[x].state \notin {"NONE", "FAILED"}
  <1>1. operation[x] \in OperationRecord
    BY DEF Inv, TypeInv
  <1>2. operation[x] = [state |-> operation[x].state, settlement |-> operation[x].settlement,
                        amount |-> operation[x].amount]
    BY <1>1 DEF OperationRecord
  <1>3. ASSUME GrantedFor(x) PROVE operation[x].state \notin {"NONE", "FAILED"}
    <2>1. PICK d \in decisions : d.key = <<x>> /\ d.decision \in {"succeeded", "pending"}
      BY <1>3 DEF GrantedFor
    <2>2. PICK y \in Sources : d.key = <<y>> /\ OfRow(y, d.settlement, d.amount)
      BY <2>1 DEF Inv, DecisionInv
    <2>3. y = x
      BY <2>1, <2>2
    <2> QED
      BY <2>1, <2>2, <2>3, InvConsistent DEF OfRow, Consistent
  <1> QED
    BY <1>2, <1>3 DEF RefundOf

\* What refunds hold is what repository.claim counts.
LEMMA HeldUnits ==
  ASSUME Inv, NEW s, s \notin ConflictAnswers
  PROVE  Promise!Held(s) = ReservedUnits(s)
  <1>1. ASSUME NEW x \in Sources
        PROVE  /\ Promise!Holds(x, s) <=> Reserves(x, s)
               /\ Promise!Holds(x, s) => Refunds[x].amount = operation[x].amount
    <2>1. operation[x] \in OperationRecord /\ Refunds[x] = RefundOf(x)
      BY DEF Inv, TypeInv, Refunds
    <2>2. CASE operation[x].settlement \in ConflictAnswers
      BY <2>1, <2>2 DEF RefundOf, Promise!Holds, Reserves, NoOperation
    <2>3. CASE operation[x].settlement \notin ConflictAnswers
      BY <2>1, <2>3, RefundFacts DEF Promise!Holds, Reserves, NoOperation, OperationRecord
    <2> QED
      BY <2>2, <2>3
  <1> QED
    BY <1>1 DEF Promise!Held, ReservedUnits, Units

\* Nothing is asked for in vain.
PositiveInv == \A c \in Calls : call[c].pc = "claim" => call[c].amount \in Nat \ {0}

LEMMA PositiveInitInv == Init => PositiveInv
  <1>1. IdleCall.pc # "claim"
    BY DEF IdleCall
  <1> QED
    BY <1>1 DEF Init, PositiveInv

LEMMA PositiveNextInv ==
  ASSUME Inv, PositiveInv, [Next]_vars
  PROVE  PositiveInv'
  <1>1. call \in [Calls -> CallRecord]
    BY DEF Inv, TypeInv
  <1>2. ASSUME NEW c \in Calls, NEW l, Becomes(c, l), l.pc = "claim" => l.amount \in Nat \ {0}
        PROVE  PositiveInv'
    BY <1>1, <1>2 DEF PositiveInv, Becomes
  <1>3. ASSUME NEW c \in Calls, NEW x \in Sources, NEW s \in 1 .. recorded, NEW a \in Nat \ {0},
               Request(c, x, s, a)
        PROVE  PositiveInv'
    <2>1. Becomes(c, [IdleCall EXCEPT !.pc = "claim", !.source = x, !.settlement = s,
                                      !.amount = a])
      BY <1>3 DEF Request
    <2> QED
      BY <1>2, <1>3, <2>1 DEF IdleCall
  <1>4. ASSUME NEW c \in Calls, Initiate(c) \/ InitiateFullByCommercialReference(c)
        PROVE  PositiveInv'
    <2>1. CASE Initiate(c)
      BY <1>3, <2>1, RefundAssumption DEF Initiate
    <2>2. CASE InitiateFullByCommercialReference(c)
      <3>1. recorded \in 1 .. recorded /\ Settled[recorded] \in Nat \ {0}
        BY <2>2, SettledType DEF InitiateFullByCommercialReference, Inv, TypeInv
      <3> QED
        BY <1>3, <2>2, <3>1 DEF InitiateFullByCommercialReference
    <2> QED
      BY <1>4, <2>1, <2>2
  <1>5. ASSUME NEW c \in Calls, Return(c) PROVE PositiveInv'
    BY <1>2, <1>5 DEF Return, IdleCall
  <1>6. ASSUME NEW c \in Calls, Claim(c) PROVE PositiveInv'
    <2>1. CASE AskProvider(c)
      <3>1. Becomes(c, [call[c] EXCEPT !.pc = "calling"]) /\ call[c] \in CallRecord
        BY <1>1, <2>1 DEF AskProvider
      <3> QED
        BY <1>2, <3>1 DEF CallRecord
    <2> QED
      BY <1>5, <1>6, <2>1 DEF Claim
  <1>7. ASSUME NEW c \in Calls, Answer(c) \/ Conflict(c) PROVE PositiveInv'
    <2>1. PICK a : Becomes(c, [call[c] EXCEPT !.pc = "answered", !.answer = a])
      BY <1>7 DEF Answer, Conflict
    <2>2. call[c] \in CallRecord
      BY <1>1
    <2> QED
      BY <1>2, <2>1, <2>2 DEF CallRecord
  <1>8. ASSUME NEW c \in Calls, Mark(c) \/ Abandon(c) PROVE PositiveInv'
    BY <1>5, <1>8 DEF Mark, Abandon
  <1>9. CASE UNCHANGED call
    BY <1>9 DEF PositiveInv
  <1> QED
    BY <1>4, <1>6, <1>7, <1>8, <1>9 DEF Next, RecordSettlement, Decide, Replay, vars

LEMMA PromiseCardinality ==
  ASSUME NEW S
  PROVE  Promise!Cardinality(S) = Cardinality(S)
  BY DEF Promise!Cardinality, Cardinality

LEMMA PromiseClaim ==
  ASSUME Inv, PositiveInv, NEW c \in Calls, Claim(c)
  PROVE  [Promise!Next]_Refunds
  <1>0. PICK y, t, n : y = call[c].source /\ t = call[c].settlement /\ n = call[c].amount
    OBVIOUS
  <1> DEFINE row == [state |-> "CREATING", settlement |-> t, amount |-> n]
  <1>1. /\ y \in Sources /\ t \in 1 .. recorded /\ n \in Nat \ {0}
        /\ recorded \in 0 .. Len(Settled)
        /\ operation \in [Sources -> OperationRecord]
        /\ decisions' = decisions
    BY <1>0 DEF Inv, TypeInv, CallInv, LocalInv, PositiveInv, Claim
  <1>2. \A x \in Sources : GrantedFor(x)' <=> GrantedFor(x)
    BY <1>1 DEF GrantedFor
  <1>3. CASE operation' = operation
    BY <1>2, <1>3, SameRefund, Stutter
  <1>4. CASE /\ operation[y].state = "NONE" /\ Fits(c)
             /\ operation' = [operation EXCEPT ![y] = row]
    <2> HIDE DEF row
    <2>1. /\ operation'[y] = row
          /\ \A x \in Sources \ {y} : operation'[x] = operation[x]
      BY <1>1, <1>4
    <2>2. \A x \in Sources \ {y} : RefundOf(x)' = RefundOf(x)
      BY <1>2, <2>1, SameRefund
    <2>3. CASE t \in ConflictAnswers
      <3>1. RefundOf(y) = NoOperation /\ RefundOf(y)' = NoOperation
        BY <1>4, <2>1, <2>3 DEF RefundOf, row
      <3> QED
        BY <2>2, <3>1, Stutter
    <2>4. CASE t \notin ConflictAnswers
      <3>1. ~GrantedFor(y)
        <4>1. \A d \in decisions : d.key # <<y>>
          BY <1>4 DEF Inv, DecisionInv, OfRow
        <4> QED
          BY <4>1 DEF GrantedFor
      <3>2. RefundOf(y) = NoOperation
        BY <1>4 DEF RefundOf
      <3>3. RefundOf(y)' = [state |-> "RESERVED", settlement |-> t, amount |-> n]
        <4>1. row.state = "CREATING" /\ row.settlement = t
          BY DEF row
        <4>2. [row EXCEPT !.state = "RESERVED"]
                = [state |-> "RESERVED", settlement |-> t, amount |-> n]
          BY DEF row
        <4>3. RefundOf(y)' = [row EXCEPT !.state = "RESERVED"]
          BY <1>1, <1>2, <2>1, <2>4, <3>1, <4>1 DEF RefundOf
        <4> QED
          BY <4>2, <4>3
      <3>4. Refunds' = [Refunds EXCEPT ![y] = [state |-> "RESERVED", settlement |-> t,
                                               amount |-> n]]
        BY <1>1, <2>2, <3>3, RefundStep
      <3>5. Cardinality(Promise!Held(t)) + n <= Settled[t]
        BY <1>0, <1>4, <2>4, HeldUnits DEF Fits, TotalReserved
      <3>6. Refunds[y].state = "NONE"
        BY <1>1, <3>2 DEF Refunds, NoOperation
      <3>7. Promise!Reserve(y, t, n)
        BY <3>4, <3>5, <3>6, PromiseCardinality DEF Promise!Reserve
      <3>8. t \in DOMAIN Settled /\ n \in 1 .. Settled[t]
        <4>1. t \in 1 .. Len(Settled) /\ Settled[t] \in Nat
          BY <1>1, SettledType
        <4>2. t \in DOMAIN Settled
          BY <4>1, RefundAssumption
        <4>3. IsFiniteSet(ReservedUnits(t)) /\ Cardinality(ReservedUnits(t)) \in Nat
          BY <1>1, <2>4, FS_CardinalityType DEF Inv, CapacityInv
        <4>4. Cardinality(ReservedUnits(t)) + n <= Settled[t]
          BY <1>0, <1>4 DEF Fits, TotalReserved
        <4> QED
          BY <1>1, <4>1, <4>2, <4>3, <4>4
      <3> QED
        BY <1>1, <3>7, <3>8 DEF Promise!Next
    <2> QED
      BY <2>3, <2>4
  <1> QED
    BY <1>0, <1>3, <1>4 DEF Claim

LEMMA PromiseDecide ==
  ASSUME Inv, NEW r \in requests, Decide(r)
  PROVE  [Promise!Next]_Refunds
  <1>1. PICK x \in Sources : r.key = <<x>> /\ OfRow(x, r.settlement, r.amount)
    BY DEF Inv, RequestInv
  <1>2. PICK a \in Decision :
          decisions' = decisions \cup {[key |-> r.key, settlement |-> r.settlement,
                                        amount |-> r.amount, decision |-> a]}
    BY DEF Decide
  <1>3. Decided(<<x>>) = {} /\ operation' = operation
    BY <1>1 DEF Decide
  <1>4. \A y \in Sources \ {x} : GrantedFor(y)' <=> GrantedFor(y)
    BY <1>1, <1>2 DEF GrantedFor
  <1>5. ~GrantedFor(x) /\ (GrantedFor(x)' <=> a \in {"succeeded", "pending"})
    <2> DEFINE d == [key |-> r.key, settlement |-> r.settlement, amount |-> r.amount,
                     decision |-> a]
    <2>1. d.key = <<x>> /\ d.decision = a /\ decisions' = decisions \cup {d}
      BY <1>1, <1>2
    <2> HIDE DEF d
    <2>2. \A e \in decisions : e.key # <<x>>
      BY <1>3 DEF Decided
    <2> QED
      BY <2>1, <2>2 DEF GrantedFor
  <1>6. \A y \in Sources \ {x} : RefundOf(y)' = RefundOf(y)
    BY <1>3, <1>4, SameRefund
  <1>7. CASE GrantedFor(x)' /\ operation[x].settlement \notin ConflictAnswers
    <2>1. operation[x].state = "CREATING" /\ operation[x] \in OperationRecord
      BY <1>1, <1>3, <1>7 DEF Inv, TypeInv, RowInv, OfRow, OperationRecord
    <2>2. RefundOf(x).state = "RESERVED" /\ RefundOf(x)' = [RefundOf(x) EXCEPT !.state = "GRANTED"]
      BY <1>3, <1>5, <1>7, <2>1 DEF RefundOf, OperationRecord
    <2>3. Refunds' = [Refunds EXCEPT ![x].state = "GRANTED"] /\ Refunds[x].state = "RESERVED"
      BY <1>6, <2>2, RefundStep DEF Refunds
    <2> QED
      BY <2>3 DEF Promise!Next, Promise!Decide
  <1>8. CASE ~GrantedFor(x)'
    BY <1>3, <1>5, <1>6, <1>8, SameRefund, Stutter
  <1>9. CASE operation[x].settlement \in ConflictAnswers
    <2>1. RefundOf(x) = NoOperation /\ RefundOf(x)' = NoOperation
      BY <1>3, <1>9 DEF RefundOf
    <2> QED
      BY <1>6, <2>1, Stutter
  <1> QED
    BY <1>7, <1>8, <1>9

LEMMA PromiseMark ==
  ASSUME Inv, NEW c \in Calls, Mark(c)
  PROVE  [Promise!Next]_Refunds
  <1>0. PICK x, a : x = call[c].source /\ a = call[c].answer
    OBVIOUS
  <1>1. /\ x \in Sources /\ operation \in [Sources -> OperationRecord]
        /\ operation[x].state # "NONE" /\ operation[x].settlement = call[c].settlement
        /\ a \in Decision
        /\ call[c].settlement \in ConflictAnswers \/ \E d \in Decided(<<x>>) : d.decision = a
    <2>1. LocalInv(c) /\ call[c].pc = "answered"
      BY DEF Mark, Inv, CallInv
    <2> QED
      BY <1>0, <2>1 DEF LocalInv, Inv, TypeInv, OfRow
  <1>2. operation' = [operation EXCEPT ![x].state = Recorded(a)] /\ decisions' = decisions
    BY <1>0 DEF Mark
  <1>3. /\ operation'[x] = [operation[x] EXCEPT !.state = Recorded(a)]
        /\ operation'[x].settlement = operation[x].settlement
        /\ operation'[x].state = Recorded(a) /\ Recorded(a) # "NONE"
        /\ \A y \in Sources \ {x} : operation'[y] = operation[y]
    BY <1>1, <1>2 DEF OperationRecord, Recorded
  <1>4. \A y \in Sources : GrantedFor(y)' <=> GrantedFor(y)
    BY <1>2 DEF GrantedFor
  <1>5. \A y \in Sources \ {x} : RefundOf(y)' = RefundOf(y)
    BY <1>3, <1>4, SameRefund
  <1>6. CASE operation[x].settlement \in ConflictAnswers
    <2>1. RefundOf(x) = NoOperation /\ RefundOf(x)' = NoOperation
      BY <1>3, <1>6 DEF RefundOf
    <2> QED
      BY <1>5, <2>1, Stutter
  <1>7. CASE operation[x].settlement \notin ConflictAnswers
    <2>1. PICK d \in Decided(<<x>>) : d.decision = a
      BY <1>1, <1>7
    <2>2. GrantedFor(x) <=> a \in {"succeeded", "pending"}
      BY <2>1 DEF GrantedFor, Decided, Inv, DecisionInv
    <2>3. CASE GrantedFor(x)
      <3>1. RefundOf(x)' = RefundOf(x)
        BY <1>1, <1>3, <1>4, <1>7, <2>3 DEF RefundOf, OperationRecord
      <3> QED
        BY <1>5, <3>1, Stutter
    <2>4. CASE ~GrantedFor(x)
      <3>1. Recorded(a) = "FAILED"
        BY <1>1, <2>2, <2>4 DEF Recorded
      <3>2. CASE operation[x].state = "FAILED"
        <4>1. RefundOf(x)' = RefundOf(x)
          BY <1>1, <1>3, <1>4, <1>7, <2>4, <3>1, <3>2 DEF RefundOf, OperationRecord
        <4> QED
          BY <1>5, <4>1, Stutter
      <3>3. CASE operation[x].state # "FAILED"
        <4>1. /\ RefundOf(x).state = "RESERVED"
              /\ RefundOf(x)' = [RefundOf(x) EXCEPT !.state = "REFUSED"]
          BY <1>1, <1>3, <1>4, <1>7, <2>4, <3>1, <3>3 DEF RefundOf, OperationRecord
        <4>2. Refunds' = [Refunds EXCEPT ![x].state = "REFUSED"] /\ Refunds[x].state = "RESERVED"
          BY <1>1, <1>5, <4>1, RefundStep DEF Refunds
        <4> QED
          BY <1>1, <4>2 DEF Promise!Next, Promise!Decide
      <3> QED
        BY <3>2, <3>3
    <2> QED
      BY <2>3, <2>4
  <1> QED
    BY <1>6, <1>7

LEMMA PromiseNext == Inv /\ PositiveInv /\ [Next]_vars => [Promise!Next]_Refunds
  <1> SUFFICES ASSUME Inv, PositiveInv, [Next]_vars PROVE [Promise!Next]_Refunds
    OBVIOUS
  <1>1. CASE UNCHANGED <<operation, decisions>>
    <2>1. \A x \in Sources : RefundOf(x)' = RefundOf(x)
      BY <1>1 DEF RefundOf, GrantedFor
    <2> QED
      BY <2>1, Stutter
  <1>2. ASSUME NEW c \in Calls,
               \/ Initiate(c) \/ InitiateFullByCommercialReference(c)
               \/ Claim(c) \/ Answer(c) \/ Conflict(c) \/ Mark(c) \/ Abandon(c)
        PROVE  [Promise!Next]_Refunds
    BY <1>1, <1>2, PromiseClaim, PromiseMark
    DEF Initiate, InitiateFullByCommercialReference, Request, Answer, Conflict, Abandon
  <1>3. ASSUME NEW r \in requests, Decide(r) \/ Replay(r)
        PROVE  [Promise!Next]_Refunds
    BY <1>1, <1>3, PromiseDecide DEF Replay
  <1> QED
    BY <1>1, <1>2, <1>3 DEF Next, RecordSettlement, vars

\* refund-initiation.ts, its repository and the provider's idempotency keys implement the
\* promise: a refund fits when it is reserved, is granted or refused once and for good,
\* and only a refusal gives its amount to others.
THEOREM PromiseKept == Spec => KeepsPromise
  <1>1. Inv /\ PositiveInv /\ [Next]_vars => PositiveInv'
    BY PositiveNextInv
  <1> QED
    BY <1>1, PromiseInit, PositiveInitInv, PromiseNext, Invariance, PTL
    DEF Spec, KeepsPromise, Promise!Spec
=============================================================================
