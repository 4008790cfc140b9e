------------------------------ MODULE SaleProofs ------------------------------
(***************************************************************************)
(* Proofs about what is for sale and the hosted checkout it is sold by,    *)
(* for every value of the constants: first CheckoutAttempt, then           *)
(* PlanCatalog.  The two modules share no state.                           *)
(***************************************************************************)
EXTENDS CheckoutAttempt, PlanCatalog, FiniteSetTheorems, TLAPS

Typed ==
    /\ attempt \in Row
    /\ attempt.status = "NONE" <=> attempt.body = NoBody
    /\ call \in [Calls -> Local]
    /\ requests \subseteq [call : Calls, key : {"attempt"}, body : Bodies]
    /\ handedOut \subseteq [body : Bodies, id : Nat]
    /\ faults \in 0 .. MaxFaults

\* The only checkout the provider can have opened under the row's key.
TheCheckout == [id |-> 1, key |-> "attempt", body |-> attempt.body]

ProviderInv ==
    /\ attempt.body = NoBody => requests = {} /\ checkouts = {}
    /\ \A r \in requests : r.body = attempt.body
    /\ checkouts \subseteq {TheCheckout}

\* A call works for the body of the row, and carries a checkout only if there is one.
CallInv ==
    \A c \in Calls : call[c].pc # "idle" =>
        /\ call[c].body = attempt.body /\ attempt.body # NoBody
        /\ call[c].pc = "answered" => call[c].checkout = 1 /\ TheCheckout \in checkouts

RowInv ==
    /\ attempt.checkout = NoCheckout \/ (attempt.checkout = 1 /\ TheCheckout \in checkouts)
    /\ attempt.status = "PENDING" => attempt.checkout # NoCheckout
    /\ \A h \in handedOut : h = [body |-> attempt.body, id |-> attempt.checkout]
    /\ handedOut # {} => attempt.checkout = 1

Inv == Typed /\ ProviderInv /\ CallInv /\ RowInv

----------------------------------------------------------------------------

LEMMA IdleType == IdleCall \in Local
  BY DEF IdleCall, Local, NoCheckout

LEMMA InitInv == Init => Inv
  <1> SUFFICES ASSUME Init PROVE Inv
    OBVIOUS
  <1>1. Typed
    BY IdleType, CheckoutAssumption DEF Init, Typed, Row, NoCheckout
  <1>2. ProviderInv /\ CallInv /\ RowInv
    BY DEF Init, ProviderInv, CallInv, RowInv, IdleCall, NoCheckout
  <1> QED
    BY <1>1, <1>2 DEF Inv

\* A step of call c that leaves row and provider alone.
LEMMA LocalStep ==
  ASSUME Inv, NEW c \in Calls, NEW l \in Local, Becomes(c, l),
         UNCHANGED <<attempt, checkouts>>,
         requests' \subseteq requests,
         handedOut' = handedOut,
         faults' \in 0 .. MaxFaults,
         l.pc # "idle" => /\ l.body = attempt.body /\ attempt.body # NoBody
                          /\ l.pc = "answered" => l.checkout = 1 /\ TheCheckout \in checkouts
  PROVE  Inv'
  <1>1. Typed'
    BY DEF Inv, Typed, Becomes
  <1>2. ProviderInv' /\ RowInv'
    BY DEF Inv, ProviderInv, RowInv, TheCheckout
  <1>3. CallInv'
    BY DEF Inv, Typed, CallInv, Becomes, TheCheckout
  <1> QED
    BY <1>1, <1>2, <1>3 DEF Inv

LEMMA ClaimInv ==
  ASSUME Inv, NEW c \in Calls, NEW b \in Bodies, Claim(c, b)
  PROVE  Inv'
  <1> DEFINE claimed == [pc |-> "claimed", body |-> b, checkout |-> NoCheckout]
  <1>1. claimed \in Local /\ b # NoBody
    BY CheckoutAssumption DEF Local, NoCheckout
  <1>2. CASE attempt.status = "NONE"
    <2>1. /\ attempt' = [status |-> "CREATING", body |-> b, checkout |-> NoCheckout]
          /\ Becomes(c, claimed)
          /\ UNCHANGED <<requests, checkouts, handedOut, faults>>
      BY <1>2 DEF Claim
    <2>2. attempt.body = NoBody
      BY <1>2 DEF Inv, Typed
    <2>3. requests = {} /\ checkouts = {} /\ \A d \in Calls : call[d].pc = "idle"
      BY <2>2 DEF Inv, ProviderInv, CallInv
    <2>4. handedOut = {}
      BY <2>3 DEF Inv, RowInv, NoCheckout
    <2>5. Typed'
      BY <1>1, <2>1 DEF Inv, Typed, Becomes, Row, NoCheckout
    <2>6. CallInv'
      BY <1>1, <2>1, <2>3 DEF Inv, Typed, CallInv, Becomes, TheCheckout
    <2>7. ProviderInv' /\ RowInv'
      BY <1>1, <2>1, <2>3, <2>4 DEF ProviderInv, RowInv, TheCheckout
    <2> QED
      BY <2>5, <2>6, <2>7 DEF Inv
  <1>3. CASE attempt.status # "NONE" /\ SameRequest(b) /\ Bound
    <2>1. /\ handedOut' = handedOut \cup {[body |-> b, id |-> attempt.checkout]}
          /\ UNCHANGED <<attempt, call, requests, checkouts, faults>>
      BY <1>3 DEF Claim
    <2>2. attempt.checkout = 1 /\ attempt.body = b
      BY <1>3 DEF Bound, SameRequest, Inv, RowInv
    <2>3. Typed' /\ ProviderInv' /\ CallInv'
      BY <2>1, <2>2 DEF Inv, Typed, ProviderInv, CallInv, TheCheckout
    <2>4. RowInv'
      BY <2>1, <2>2 DEF Inv, RowInv, TheCheckout
    <2> QED
      BY <2>3, <2>4 DEF Inv
  <1>4. CASE attempt.status # "NONE" /\ SameRequest(b) /\ ~Bound
    <2>1. Becomes(c, claimed) /\ UNCHANGED <<attempt, requests, checkouts, handedOut, faults>>
      BY <1>4 DEF Claim
    <2> QED
      BY <1>1, <1>4, <2>1, LocalStep DEF SameRequest, Inv, Typed
  <1> QED
    BY <1>2, <1>3, <1>4 DEF Claim

LEMMA AskProviderInv ==
  ASSUME Inv, NEW c \in Calls, AskProvider(c)
  PROVE  Inv'
  <1> DEFINE l == [call[c] EXCEPT !.pc = "calling"]
             r == [call |-> c, key |-> "attempt", body |-> call[c].body]
  <1>1. /\ call[c].body = attempt.body /\ attempt.body # NoBody
        /\ call[c] \in Local /\ attempt.body \in Bodies
    BY DEF AskProvider, Inv, Typed, CallInv, Row
  <1>2. /\ l \in Local /\ l.body = attempt.body /\ l.pc = "calling"
        /\ r \in [call : Calls, key : {"attempt"}, body : Bodies] /\ r.body = attempt.body
    BY <1>1 DEF Local
  <1>3. /\ Becomes(c, l) /\ requests' = requests \cup {r}
        /\ UNCHANGED <<attempt, checkouts, handedOut, faults>>
    BY DEF AskProvider, IdempotencyKey
  <1> HIDE DEF l, r
  <1>4. Typed'
    BY <1>2, <1>3 DEF Inv, Typed, Becomes
  <1>5. ProviderInv' /\ RowInv'
    BY <1>1, <1>2, <1>3 DEF Inv, ProviderInv, RowInv, TheCheckout
  <1>6. CallInv'
    BY <1>1, <1>2, <1>3 DEF Inv, Typed, CallInv, Becomes, TheCheckout
  <1> QED
    BY <1>4, <1>5, <1>6 DEF Inv

\* The provider opens a first checkout, or finds the one it has.
LEMMA OpenInv ==
  ASSUME Inv, NEW r \in requests, Open(r)
  PROVE  Inv'
  <1>1. /\ r.key = "attempt" /\ r.body = attempt.body /\ attempt.body # NoBody
        /\ checkouts \subseteq {TheCheckout}
    BY DEF Inv, Typed, ProviderInv
  <1>2. checkouts' = {TheCheckout}
    <2>1. CASE checkouts = {}
      <3>1. checkouts' = checkouts \cup {[id |-> Cardinality(checkouts) + 1, key |-> r.key, body |-> r.body]}
        BY <2>1 DEF Open, Opened
      <3>2. Cardinality(checkouts) = 0
        BY <2>1, FS_EmptySet
      <3> QED
        BY <1>1, <2>1, <3>1, <3>2 DEF TheCheckout
    <2>2. CASE checkouts = {TheCheckout}
      <3>1. TheCheckout.key = r.key
        BY <1>1 DEF TheCheckout
      <3>2. TheCheckout \in Opened(r.key)
        BY <2>2, <3>1 DEF Opened
      <3> QED
        BY <2>2, <3>2 DEF Open
    <2> QED
      BY <1>1, <2>1, <2>2
  <1>3. UNCHANGED <<attempt, call, handedOut, faults>> /\ requests' \subseteq requests
    BY DEF Open
  <1>4. Typed' /\ ProviderInv'
    BY <1>1, <1>2, <1>3 DEF Inv, Typed, ProviderInv, TheCheckout
  <1>5. CallInv' /\ RowInv'
    BY <1>2, <1>3 DEF Inv, CallInv, RowInv, TheCheckout
  <1> QED
    BY <1>4, <1>5 DEF Inv

LEMMA AnswerInv ==
  ASSUME Inv, NEW c \in Calls, Answer(c)
  PROVE  Inv'
  <1>1. PICK k \in Opened("attempt") :
            Becomes(c, [call[c] EXCEPT !.pc = "answered", !.checkout = k.id])
    BY DEF Answer, IdempotencyKey
  <1>2. k = TheCheckout /\ k \in checkouts /\ k.id = 1
    BY <1>1 DEF Opened, Inv, ProviderInv, TheCheckout
  <1>3. call[c] \in Local /\ call[c].body = attempt.body /\ attempt.body # NoBody
    BY DEF Answer, Inv, Typed, CallInv
  <1> DEFINE l == [call[c] EXCEPT !.pc = "answered", !.checkout = 1]
  <1>4. l \in Local /\ l.body = attempt.body /\ l.checkout = 1
    BY <1>3 DEF Local
  <1>5. UNCHANGED <<attempt, requests, checkouts, handedOut, faults>> /\ faults \in 0 .. MaxFaults
    BY DEF Answer, Inv, Typed
  <1> HIDE DEF l
  <1>6. Becomes(c, l)
    BY <1>1, <1>2 DEF l
  <1> QED
    BY <1>2, <1>3, <1>4, <1>5, <1>6, LocalStep

LEMMA FaultType == faults \in 0 .. MaxFaults /\ Fault => faults' \in 0 .. MaxFaults
  BY CheckoutAssumption DEF Fault

LEMMA ProviderFailsInv ==
  ASSUME Inv, NEW c \in Calls, ProviderFails(c)
  PROVE  Inv'
  <1> DEFINE l == [call[c] EXCEPT !.pc = "failing"]
  <1>1. call[c] \in Local /\ call[c].body = attempt.body /\ attempt.body # NoBody
    BY DEF ProviderFails, Inv, Typed, CallInv
  <1>2. l \in Local /\ l.body = attempt.body /\ l.pc = "failing"
    BY <1>1 DEF Local
  <1>3. /\ Becomes(c, l) /\ UNCHANGED <<attempt, checkouts, handedOut>>
        /\ requests' \subseteq requests /\ faults' \in 0 .. MaxFaults
    BY FaultType DEF ProviderFails, Inv, Typed
  <1> QED
    BY <1>1, <1>2, <1>3, LocalStep

LEMMA BoundRow ==
  ASSUME NEW r \in Row, NEW b, b = [r EXCEPT !.status = "PENDING", !.checkout = 1]
  PROVE  b \in Row /\ b.body = r.body /\ b.status = "PENDING" /\ b.checkout = 1
  BY DEF Row

\* The row is bound, by a step of the call that carries the checkout.
LEMMA BindStep ==
  ASSUME Inv, NEW c \in Calls, call[c].pc = "answered",
         attempt' = Pending(call[c].checkout),
         NEW l \in Local, Becomes(c, l), l.pc \in {"idle", "failing"},
         l.pc = "failing" => l.body = attempt.body,
         UNCHANGED <<requests, checkouts>>,
         handedOut' \subseteq handedOut \cup {[body |-> attempt.body, id |-> 1]},
         faults' \in 0 .. MaxFaults
  PROVE  Inv'
  <1>1. /\ call[c].checkout = 1 /\ TheCheckout \in checkouts
        /\ attempt \in Row /\ attempt.body # NoBody
    BY DEF Inv, Typed, CallInv
  <1>2. /\ attempt' \in Row /\ attempt'.body = attempt.body
        /\ attempt'.status = "PENDING" /\ attempt'.checkout = 1
    <2>1. attempt' = [attempt EXCEPT !.status = "PENDING", !.checkout = 1]
      BY <1>1 DEF Pending
    <2> QED
      BY <1>1, <2>1, BoundRow
  <1>3. Typed'
    BY <1>1, <1>2 DEF Inv, Typed, Becomes, Row
  <1>4. TheCheckout' = TheCheckout
    BY <1>2 DEF TheCheckout
  <1>5. ProviderInv' /\ CallInv'
    BY <1>1, <1>2, <1>4 DEF Inv, Typed, ProviderInv, CallInv, Becomes
  <1>6. RowInv'
    BY <1>1, <1>2, <1>4 DEF Inv, RowInv, NoCheckout
  <1> QED
    BY <1>3, <1>5, <1>6 DEF Inv

LEMMA MarkPendingInv ==
  ASSUME Inv, NEW c \in Calls, MarkPending(c)
  PROVE  Inv'
  <1>1. call[c].body = attempt.body /\ call[c].checkout = 1 /\ attempt \in Row
    BY DEF MarkPending, Inv, Typed, CallInv
  <1>2. attempt'.checkout = 1
    BY <1>1 DEF MarkPending, Pending, Row
  <1>3. handedOut' \subseteq handedOut \cup {[body |-> attempt.body, id |-> 1]}
    BY <1>1, <1>2 DEF MarkPending
  <1>4. /\ Becomes(c, IdleCall) /\ IdleCall.pc = "idle"
        /\ call[c].pc = "answered" /\ attempt' = Pending(call[c].checkout)
        /\ UNCHANGED <<requests, checkouts, faults>> /\ faults \in 0 .. MaxFaults
    BY DEF MarkPending, Return, IdleCall, Inv, Typed
  <1> QED
    BY <1>3, <1>4, IdleType, BindStep

LEMMA BindingFailsInv ==
  ASSUME Inv, NEW c \in Calls, BindingFails(c)
  PROVE  Inv'
  <1> DEFINE l == [call[c] EXCEPT !.pc = "failing"]
  <1>1. call[c] \in Local /\ call[c].body = attempt.body /\ attempt.body # NoBody
    BY DEF BindingFails, Inv, Typed, CallInv
  <1>2. l \in Local /\ l.body = attempt.body /\ l.pc = "failing"
    BY <1>1 DEF Local
  <1>3. /\ Becomes(c, l) /\ call[c].pc = "answered"
        /\ UNCHANGED <<requests, checkouts, handedOut>> /\ faults' \in 0 .. MaxFaults
    BY FaultType DEF BindingFails, Inv, Typed
  <1> HIDE DEF l
  <1>4. CASE attempt' = attempt
    BY <1>1, <1>2, <1>3, <1>4, LocalStep
  <1>5. CASE attempt' = Pending(call[c].checkout)
    BY <1>2, <1>3, <1>5, BindStep
  <1> QED
    BY <1>4, <1>5 DEF BindingFails

\* An update of the status alone, to anything but PENDING.
LEMMA StatusStep ==
  ASSUME Inv, NEW status \in {"FAILED", "CANCELLED"}, attempt.body # NoBody,
         attempt' = [attempt EXCEPT !.status = status],
         \/ call' = call
         \/ \E c \in Calls : Return(c),
         UNCHANGED <<requests, checkouts, handedOut>>, faults' \in 0 .. MaxFaults
  PROVE  Inv'
  <1>1. /\ attempt' \in Row /\ attempt'.body = attempt.body
        /\ attempt'.status = status /\ attempt'.checkout = attempt.checkout
    BY DEF Inv, Typed, Row
  <1>2. TheCheckout' = TheCheckout
    BY <1>1 DEF TheCheckout
  <1>3. call' \in [Calls -> Local] /\ \A d \in Calls : call'[d] = call[d] \/ call'[d] = IdleCall
    BY IdleType DEF Return, Becomes, Inv, Typed
  <1>4. Typed'
    BY <1>1, <1>3 DEF Inv, Typed
  <1>5. ProviderInv' /\ RowInv'
    BY <1>1, <1>2 DEF Inv, ProviderInv, RowInv
  <1>6. CallInv'
    BY <1>1, <1>2, <1>3 DEF Inv, CallInv, IdleCall
  <1> QED
    BY <1>4, <1>5, <1>6 DEF Inv

LEMMA MarkFailedInv ==
  ASSUME Inv, NEW c \in Calls, MarkFailed(c)
  PROVE  Inv'
  <1>1. attempt.body # NoBody /\ faults' \in 0 .. MaxFaults
    BY DEF MarkFailed, Inv, Typed, CallInv
  <1> QED
    BY <1>1, StatusStep DEF MarkFailed, Failed

LEMMA CancelInv ==
  ASSUME Inv, Cancel
  PROVE  Inv'
  <1>1. attempt.body # NoBody /\ faults' \in 0 .. MaxFaults
    BY FaultType DEF Cancel, Inv, Typed
  <1> QED
    BY <1>1, StatusStep DEF Cancel

LEMMA AbandonInv ==
  ASSUME Inv, NEW c \in Calls, Abandon(c)
  PROVE  Inv'
  <1>1. /\ Becomes(c, IdleCall) /\ IdleCall.pc = "idle" /\ faults' \in 0 .. MaxFaults
        /\ UNCHANGED <<attempt, requests, checkouts, handedOut>>
    BY FaultType DEF Abandon, Return, IdleCall, Inv, Typed
  <1> QED
    BY <1>1, IdleType, LocalStep

LEMMA NextInv == Inv /\ [Next]_vars => Inv'
  <1> SUFFICES ASSUME Inv, [Next]_vars PROVE Inv'
    OBVIOUS
  <1>1. ASSUME NEW c \in Calls, \E b \in Bodies : Claim(c, b) PROVE Inv'
    BY <1>1, ClaimInv
  <1>2. ASSUME NEW c \in Calls,
               \/ AskProvider(c) \/ Answer(c) \/ ProviderFails(c) \/ MarkPending(c)
               \/ BindingFails(c) \/ MarkFailed(c) \/ Abandon(c)
        PROVE Inv'
    BY <1>2, AskProviderInv, AnswerInv, ProviderFailsInv, MarkPendingInv, BindingFailsInv,
       MarkFailedInv, AbandonInv
  <1>3. ASSUME NEW r \in requests, Open(r) PROVE Inv'
    BY <1>3, OpenInv
  <1>4. CASE Cancel
    BY <1>4, CancelInv
  <1>5. CASE UNCHANGED vars
    BY <1>5 DEF vars, Inv, Typed, ProviderInv, CallInv, RowInv, TheCheckout
  <1> QED
    BY <1>1, <1>2, <1>3, <1>4, <1>5 DEF Next

THEOREM Invariance == Spec => []Inv
  <1> QED
    BY InitInv, NextInv, PTL DEF Spec

----------------------------------------------------------------------------

\* The type invariant, and one open checkout at most, under the one key that all calls
\* and retries of create() use (checkout-attempt-repository's row id).
THEOREM ConsistentCorrect == Spec => []Consistent
  <1>1. Inv => TypeOK
    BY DEF Inv, Typed, ProviderInv, RowInv, TypeOK, NoCheckout, TheCheckout, Row
  <1>2. Inv => Cardinality(checkouts) <= 1
    <2> SUFFICES ASSUME Inv PROVE Cardinality(checkouts) <= 1
      OBVIOUS
    <2>1. checkouts = {} \/ checkouts = {TheCheckout}
      BY DEF Inv, ProviderInv
    <2>2. Cardinality({TheCheckout}) = 1 /\ Cardinality({}) = 0
      BY FS_EmptySet, FS_Singleton
    <2> QED
      BY <2>1, <2>2
  <1> QED
    BY <1>1, <1>2, Invariance, PTL DEF Consistent

\* A checkout handed out stays the one its row names and was opened for that request,
\* for any number of calls, bodies and faults.
THEOREM HandedOutIsBoundCorrect == Spec => []HandedOutIsBound
  <1>1. Inv => HandedOutIsBound
    BY DEF Inv, Typed, RowInv, HandedOutIsBound, TheCheckout, NoCheckout
  <1> QED
    BY <1>1, Invariance, PTL

----------------------------------------------------------------------------
\* PlanCatalog

Values == {Clean[i] : i \in Inputs} \cup {None}

RowStatus == {"NONE", "PRESENT", "DELETED"}

ProductRow == [status : RowStatus, slug : Values, code : Values, active : BOOLEAN,
               published : BOOLEAN, archived : BOOLEAN, requested : BOOLEAN]

EditionRow == [status : RowStatus, product : Products \cup {None}, slug : Values,
               active : BOOLEAN]

PlanRow == [there : BOOLEAN, amount : Nat, discount : Int \cup {None},
            source : Editions \cup {None}, active : BOOLEAN]

Valid == {s \in Selections : ValidSelection(s)}

Renaming == [pc : {"rename"}, product : Products, code : Values]

SettingCall == [pc : Kind, edition : Editions, selection : Valid, alone : BOOLEAN,
                expected : Nat \X Nat]

ProductTables ==
    /\ host \in Hosts
    /\ product \in [Products -> ProductRow]
    /\ edition \in [Editions -> EditionRow]
    /\ cleanup \in [Products -> {"NONE", "PENDING", "SUCCEEDED", "FAILED"}]
    /\ sold \in [Products -> SUBSET Values]
    /\ raced \subseteq Products
    /\ quote.edition \in Editions \cup {None}
    /\ deaths \in 0 .. MaxDeaths

PlanTables ==
    /\ plan \in [Editions -> [Kind -> PlanRow]]
    /\ \A e \in Editions, k \in Kind : plan[e][k].source \in {None, e}
    /\ DOMAIN settled = Editions

WorkTable == work \in [Administrators -> {Idle} \cup Renaming \cup SettingCall]

\* Editions belong to products that exist; only those are ordered, and the clean-up of
\* a deleted product is over.
ProductInv ==
    /\ \A p \in Products : product[p].slug = None <=> p \notin Ids(product)
    /\ \A e \in Ids(edition) : edition[e].product \in Ids(product)
    /\ \A p \in Products : p \notin Ids(product) => ~InUse(p)
    /\ \A p \in Products : product[p].status = "DELETED" => cleanup[p] = "SUCCEEDED"

\* Present products have codes of their own, and what a product was ordered under is the
\* code it has, and the one a decided change is about to give it.
CodeInv ==
    /\ \A p, q \in Ids(product) :
          p # q /\ product[p].code # None => product[q].code # product[p].code
    /\ \A p \in Products \ raced : sold[p] \subseteq {None, product[p].code}
    /\ \A a \in Administrators :
          work[a].pc = "rename" /\ work[a].product \notin raced
             => sold[work[a].product] \subseteq {None, work[a].code}

\* Row r of kind k says what selection s asks of edition e.
IsSet(r, e, k, s) ==
    /\ r.there
    /\ r.active <=> k \in s.enabled
    /\ k = "PERPETUAL" /\ s.perpetual # 0 => r.amount = s.perpetual
    /\ k = "MONTHLY" /\ s.monthly # 0 => r.amount = s.monthly
    /\ k = "ANNUAL" => r.source = e /\ (s.discount # None => r.discount = s.discount)

\* The amounts edition e will have after the upserts call w has left, if it is alone.
Remaining(rows, w) ==
    << IF w.pc = "PERPETUAL" THEN UpsertedAmount(rows["PERPETUAL"], w.selection.perpetual)
       ELSE rows["PERPETUAL"].amount,
       IF w.pc = "ANNUAL" THEN rows["MONTHLY"].amount
       ELSE UpsertedAmount(rows["MONTHLY"], w.selection.monthly) >>

\* A call that is alone on the plans of its edition has written the rows behind it.
AloneOn(e, a, w, rows) ==
    /\ Setting(e) = {a}
    /\ w.expected = Remaining(rows, w)
    /\ w.pc # "PERPETUAL" => IsSet(rows["PERPETUAL"], e, "PERPETUAL", w.selection)
    /\ w.pc = "ANNUAL" => IsSet(rows["MONTHLY"], e, "MONTHLY", w.selection)

SettingInv ==
    \A e \in Editions : \A a \in Setting(e) :
        /\ settled[e] = None
        /\ work[a].alone => AloneOn(e, a, work[a], plan[e])

SettledInv ==
    \A e \in Editions : settled[e] # None =>
        /\ settled[e].selection \in Valid
        /\ \A k \in Kind : IsSet(plan[e][k], e, k, settled[e].selection)
        /\ settled[e].amounts = <<plan[e]["PERPETUAL"].amount, plan[e]["MONTHLY"].amount>>

Tables == ProductTables /\ PlanTables /\ WorkTable

CatalogInv == Tables /\ ProductInv /\ CodeInv /\ SettingInv /\ SettledInv

----------------------------------------------------------------------------

LEMMA CatalogConstants ==
  /\ None \notin Products /\ None \notin Editions
  /\ DOMAIN Clean = Inputs
  /\ MaxDeaths \in Nat
  /\ Kind = {"PERPETUAL", "MONTHLY", "ANNUAL"}
  BY CatalogAssumption DEF Kind

LEMMA SelectionType ==
  ASSUME NEW s \in Selections
  PROVE  /\ s.enabled \subseteq Kind
         /\ s.perpetual \in Nat /\ s.monthly \in Nat
         /\ s.discount \in Int \cup {None}
  BY CatalogAssumption

LEMMA HostType ==
  ASSUME ProductTables
  PROVE  /\ host.administrators \subseteq Administrators
         /\ host.products \subseteq Products
         /\ host.editions \subseteq Editions
         /\ host.selections \subseteq Selections
         /\ host.inputs \subseteq Inputs
  BY CatalogAssumption DEF ProductTables

LEMMA WorkKinds ==
  ASSUME WorkTable, NEW a \in Administrators
  PROVE  /\ work[a].pc \in {"idle", "rename"} \cup Kind
         /\ work[a].pc \in Kind => work[a] \in SettingCall
         /\ work[a].pc = "rename" => work[a] \in Renaming
         /\ work[a].pc = "idle" => work[a] = Idle
  <1>1. CASE work[a] = Idle
    BY <1>1, CatalogConstants DEF Idle
  <1>2. CASE work[a] \in Renaming
    BY <1>2, CatalogConstants DEF Renaming
  <1>3. CASE work[a] \in SettingCall
    BY <1>3, CatalogConstants DEF SettingCall
  <1> QED
    BY <1>1, <1>2, <1>3 DEF WorkTable

----------------------------------------------------------------------------
\* What a step leaves alone

\* Plans: the rows and selections of edition e stay and no call starts on them; calls
\* may end.
LEMMA PlansKept ==
  ASSUME SettingInv, SettledInv, UNCHANGED <<plan, settled>>,
         \A a \in Administrators : work'[a] = work[a] \/ work'[a].pc \notin Kind
  PROVE  SettingInv' /\ SettledInv'
  <1>1. SettledInv'
    BY DEF SettledInv
  <1>2. ASSUME NEW e \in Editions, NEW a \in Setting(e)'
        PROVE  /\ settled'[e] = None
               /\ work'[a].alone => AloneOn(e, a, work[a], plan[e])'
    <2>1. a \in Administrators /\ work'[a] = work[a] /\ a \in Setting(e)
      BY <1>2 DEF Setting
    <2>2. settled[e] = None /\ (work[a].alone => AloneOn(e, a, work[a], plan[e]))
      BY <2>1 DEF SettingInv
    <2>3. ASSUME NEW b \in Setting(e)' PROVE b \in Setting(e)
      BY <2>3 DEF Setting
    <2>4. Setting(e) = {a} => Setting(e)' = {a}
      BY <1>2, <2>3
    <2> QED
      BY <2>1, <2>2, <2>4 DEF AloneOn
  <1> QED
    BY <1>1, <1>2 DEF SettingInv

\* Codes: nothing is ordered, no code changes and no change of one is decided.
LEMMA CodesKept ==
  ASSUME CodeInv, Ids(product)' = Ids(product), UNCHANGED <<sold, raced>>,
         \A p \in Products : product'[p].code = product[p].code,
         Ids(product) \subseteq Products,
         \A a \in Administrators : work'[a] = work[a] \/ work'[a].pc # "rename"
  PROVE  CodeInv'
  <1>1. \A p, q \in Ids(product)' :
          p # q /\ product'[p].code # None => product'[q].code # product'[p].code
    BY DEF CodeInv
  <1>2. \A p \in Products \ raced' : sold'[p] \subseteq {None, product'[p].code}
    BY DEF CodeInv
  <1>3. \A a \in Administrators :
          work'[a].pc = "rename" /\ work'[a].product \notin raced'
             => sold'[work'[a].product] \subseteq {None, work'[a].code}
    BY DEF CodeInv
  <1> QED
    BY <1>1, <1>2, <1>3 DEF CodeInv

\* One row of products changes, and neither its presence nor its code.
LEMMA ProductEdited ==
  ASSUME ProductTables, ProductInv, NEW p \in Ids(product), NEW row \in ProductRow,
         product' = [product EXCEPT ![p] = row],
         row.status = product[p].status, row.code = product[p].code,
         row.slug # None
  PROVE  /\ product' \in [Products -> ProductRow]
         /\ Ids(product)' = Ids(product)
         /\ Ids(product) \subseteq Products
         /\ \A q \in Products : /\ product'[q].code = product[q].code
                                /\ product'[q].status = product[q].status
                                /\ product'[q].slug = None <=> q \notin Ids(product)'
  <1>1. product \in [Products -> ProductRow] /\ Ids(product) \subseteq Products
    BY DEF ProductTables, Ids
  <1>2. \A q \in Products : product'[q] = IF q = p THEN row ELSE product[q]
    BY <1>1
  <1>3. product' \in [Products -> ProductRow]
    BY <1>1
  <1>4. Ids(product)' = Ids(product)
    BY <1>1, <1>2, <1>3 DEF Ids
  <1> QED
    BY <1>1, <1>2, <1>3, <1>4 DEF ProductInv

----------------------------------------------------------------------------
\* Products and editions

LEMMA IdsFacts ==
  ASSUME ProductTables
  PROVE  /\ Ids(product) = {p \in Products : product[p].status = "PRESENT"}
         /\ Ids(edition) = {e \in Editions : edition[e].status = "PRESENT"}
  BY DEF ProductTables, Ids

\* An edit of one product: its plans, its orders and the calls in progress stay.
LEMMA EditInv ==
  ASSUME CatalogInv, NEW p \in Ids(product), NEW row \in ProductRow,
         product' = [product EXCEPT ![p] = row],
         row.status = product[p].status, row.code = product[p].code,
         row.slug # None,
         UNCHANGED <<host, edition, plan, work, quote, sold, raced, settled, deaths>>,
         cleanup' = cleanup \/ cleanup' = [cleanup EXCEPT ![p] = "PENDING"]
  PROVE  CatalogInv'
  <1>1. Tables /\ ProductInv /\ CodeInv /\ SettingInv /\ SettledInv
    BY DEF CatalogInv
  <1>2. /\ product' \in [Products -> ProductRow]
        /\ Ids(product)' = Ids(product)
        /\ Ids(product) \subseteq Products
        /\ \A q \in Products : /\ product'[q].code = product[q].code
                               /\ product'[q].status = product[q].status
                               /\ product'[q].slug = None <=> q \notin Ids(product)'
    BY <1>1, ProductEdited DEF Tables
  <1>3. /\ cleanup' \in [Products -> {"NONE", "PENDING", "SUCCEEDED", "FAILED"}]
        /\ \A q \in Products : q # p => cleanup'[q] = cleanup[q]
    BY <1>1 DEF Tables, ProductTables
  <1>4. Tables'
    BY <1>1, <1>2, <1>3 DEF Tables, ProductTables, PlanTables, WorkTable
  <1>5. product[p].status = "PRESENT"
    BY <1>1, IdsFacts DEF Tables
  <1>6. ProductInv'
    BY <1>1, <1>2, <1>3, <1>5 DEF ProductInv, InUse, Ids
  <1>7. CodeInv' /\ SettingInv' /\ SettledInv'
    BY <1>1, <1>2, CodesKept, PlansKept
  <1> QED
    BY <1>4, <1>6, <1>7 DEF CatalogInv

LEMMA ProductFields ==
  ASSUME CatalogInv, NEW p \in Ids(product)
  PROVE  p \in Products /\ product[p] \in ProductRow /\ product[p].slug # None
  BY IdsFacts DEF CatalogInv, Tables, ProductTables, ProductInv

LEMMA CreateProductInv ==
  ASSUME CatalogInv, NEW p \in Products, NEW slug \in Inputs, NEW code \in Inputs \cup {None},
         CreateProduct(p, slug, code)
  PROVE  CatalogInv'
  <1> DEFINE row == [NoProduct EXCEPT !.status = "PRESENT", !.slug = Clean[slug],
                                      !.code = CleanCode(code), !.active = TRUE]
  <1>1. /\ Tables /\ ProductInv /\ CodeInv /\ SettingInv /\ SettledInv
        /\ product[p].status = "NONE"
        /\ Clean[slug] # None
        /\ Free("code", p, CleanCode(code))
        /\ product' = [product EXCEPT ![p] = row]
        /\ UNCHANGED <<host, edition, plan, work, cleanup, quote, sold, raced, settled, deaths>>
    BY DEF CatalogInv, CreateProduct, Unchanged
  <1>2. Clean[slug] \in Values /\ CleanCode(code) \in Values
    BY DEF Values, CleanCode
  <1>3. /\ row \in ProductRow
        /\ row.status = "PRESENT" /\ row.slug = Clean[slug] /\ row.code = CleanCode(code)
    BY <1>2 DEF NoProduct, ProductRow, RowStatus
  <1> HIDE DEF row
  <1>4. /\ product \in [Products -> ProductRow]
        /\ product' \in [Products -> ProductRow]
        /\ \A q \in Products : product'[q] = IF q = p THEN row ELSE product[q]
    BY <1>1, <1>3 DEF Tables, ProductTables
  <1>5. Tables'
    BY <1>1, <1>4 DEF Tables, ProductTables, PlanTables, WorkTable
  <1>6. /\ Ids(product) = {q \in Products : product[q].status = "PRESENT"}
        /\ Ids(product)' = Ids(product) \cup {p}
        /\ p \notin Ids(product)
    <2>1. Ids(product) = {q \in Products : product[q].status = "PRESENT"}
      BY <1>1, IdsFacts DEF Tables
    <2>2. Ids(product)' = {q \in Products : product'[q].status = "PRESENT"}
      BY <1>4 DEF Ids
    <2> QED
      BY <1>1, <1>3, <1>4, <2>1, <2>2
  <1>7. sold[p] = {}
    BY <1>1, <1>6 DEF ProductInv, InUse
  <1>8. ProductInv'
    <2>1. \A q \in Products : product'[q].slug = None <=> q \notin Ids(product)'
      BY <1>1, <1>3, <1>4, <1>6 DEF ProductInv
    <2>2. \A e \in Ids(edition)' : edition'[e].product \in Ids(product)'
      BY <1>1, <1>6 DEF ProductInv
    <2>3. \A q \in Products : q \notin Ids(product)' => ~InUse(q)'
      BY <1>1, <1>6 DEF ProductInv, InUse
    <2>4. \A q \in Products : product'[q].status = "DELETED" => cleanup'[q] = "SUCCEEDED"
      BY <1>1, <1>3, <1>4 DEF ProductInv
    <2> QED
      BY <2>1, <2>2, <2>3, <2>4 DEF ProductInv
  <1>9. CodeInv'
    <2>1. ASSUME NEW q \in Ids(product)', NEW r \in Ids(product)', q # r, product'[q].code # None
          PROVE  product'[r].code # product'[q].code
      <3>1. CASE q # p /\ r # p
        BY <1>1, <1>4, <1>6, <2>1, <3>1 DEF CodeInv
      <3>2. ASSUME NEW x \in Ids(product), CleanCode(code) # None
            PROVE  product[x].code # CleanCode(code)
        BY <1>1, <1>6, <3>2 DEF Free
      <3>3. CASE q = p
        BY <1>3, <1>4, <1>6, <2>1, <3>2, <3>3
      <3>4. CASE r = p
        BY <1>3, <1>4, <1>6, <2>1, <3>2, <3>4
      <3> QED
        BY <3>1, <3>3, <3>4
    <2>2. \A q \in Products \ raced' : sold'[q] \subseteq {None, product'[q].code}
      BY <1>1, <1>4, <1>7 DEF CodeInv
    <2> QED
      BY <1>1, <2>1, <2>2 DEF CodeInv
  <1>10. SettingInv' /\ SettledInv'
    BY <1>1, PlansKept
  <1> QED
    BY <1>5, <1>8, <1>9, <1>10 DEF CatalogInv

LEMMA EditProductInv ==
  ASSUME CatalogInv, NEW p \in Products,
         \/ \E slug \in Inputs : UpdateProduct(p, slug)
         \/ PublishProduct(p) \/ ArchiveProduct(p) \/ RequestDeletion(p)
  PROVE  CatalogInv'
  <1>1. p \in Ids(product)
    BY DEF UpdateProduct, PublishProduct, ArchiveProduct, RequestDeletion
  <1>2. product[p] \in ProductRow /\ product[p].slug # None /\ product \in [Products -> ProductRow]
    BY <1>1, ProductFields DEF CatalogInv, Tables, ProductTables
  <1>3. ASSUME NEW slug \in Inputs, UpdateProduct(p, slug) PROVE CatalogInv'
    <2> DEFINE row == [product[p] EXCEPT !.slug = Clean[slug]]
    <2>1. Clean[slug] \in Values /\ Clean[slug] # None
      BY <1>3 DEF Values, UpdateProduct
    <2>2. /\ row \in ProductRow /\ row.status = product[p].status
          /\ row.code = product[p].code /\ row.slug # None
      BY <1>2, <2>1 DEF ProductRow
    <2>3. /\ product' = [product EXCEPT ![p] = row]
          /\ UNCHANGED <<host, edition, plan, work, cleanup, quote, sold, raced, settled, deaths>>
      BY <1>2, <1>3 DEF UpdateProduct, Unchanged
    <2> HIDE DEF row
    <2> QED
      BY <1>1, <2>2, <2>3, EditInv
  <1>4. CASE PublishProduct(p)
    <2> DEFINE row == [product[p] EXCEPT !.active = TRUE, !.published = TRUE, !.archived = FALSE]
    <2>1. /\ row \in ProductRow /\ row.status = product[p].status
          /\ row.code = product[p].code /\ row.slug # None
      BY <1>2 DEF ProductRow
    <2>2. /\ product' = [product EXCEPT ![p] = row]
          /\ UNCHANGED <<host, edition, plan, work, cleanup, quote, sold, raced, settled, deaths>>
      BY <1>2, <1>4 DEF PublishProduct, Unchanged
    <2> HIDE DEF row
    <2> QED
      BY <1>1, <2>1, <2>2, EditInv
  <1>5. CASE ArchiveProduct(p)
    <2> DEFINE row == [product[p] EXCEPT !.active = FALSE, !.archived = TRUE]
    <2>1. /\ row \in ProductRow /\ row.status = product[p].status
          /\ row.code = product[p].code /\ row.slug # None
      BY <1>2 DEF ProductRow
    <2>2. /\ product' = [product EXCEPT ![p] = row]
          /\ UNCHANGED <<host, edition, plan, work, cleanup, quote, sold, raced, settled, deaths>>
      BY <1>2, <1>5 DEF ArchiveProduct, Unchanged
    <2> HIDE DEF row
    <2> QED
      BY <1>1, <2>1, <2>2, EditInv
  <1>6. CASE RequestDeletion(p)
    <2> DEFINE row == [product[p] EXCEPT !.requested = TRUE, !.active = FALSE]
    <2>1. /\ row \in ProductRow /\ row.status = product[p].status
          /\ row.code = product[p].code /\ row.slug # None
      BY <1>2 DEF ProductRow
    <2>2. /\ product' = [product EXCEPT ![p] = row]
          /\ cleanup' = [cleanup EXCEPT ![p] = "PENDING"]
          /\ UNCHANGED <<host, edition, plan, work, quote, sold, raced, settled, deaths>>
      BY <1>2, <1>6 DEF RequestDeletion, Unchanged
    <2> HIDE DEF row
    <2> QED
      BY <1>1, <2>1, <2>2, EditInv
  <1> QED
    BY <1>3, <1>4, <1>5, <1>6

\* One row of editions changes, and neither its presence nor its product.
LEMMA EditEditionInv ==
  ASSUME CatalogInv, NEW e \in Editions,
         \/ \E slug \in Inputs : UpdateEdition(e, slug)
         \/ \E on \in BOOLEAN : SetEditionActive(e, on)
  PROVE  CatalogInv'
  <1>1. /\ Tables /\ ProductInv /\ CodeInv /\ SettingInv /\ SettledInv
        /\ edition \in [Editions -> EditionRow]
        /\ UNCHANGED <<host, product, plan, work, cleanup, quote, sold, raced, settled, deaths>>
    BY DEF CatalogInv, Tables, ProductTables, UpdateEdition, SetEditionActive, Unchanged
  <1>2. PICK row \in EditionRow : /\ edition' = [edition EXCEPT ![e] = row]
                                  /\ row.status = edition[e].status
                                  /\ row.product = edition[e].product
    <2>1. ASSUME NEW slug \in Inputs, UpdateEdition(e, slug)
          PROVE  \E row \in EditionRow : /\ edition' = [edition EXCEPT ![e] = row]
                                         /\ row.status = edition[e].status
                                         /\ row.product = edition[e].product
      <3> DEFINE row == [edition[e] EXCEPT !.slug = Clean[slug]]
      <3>1. Clean[slug] \in Values
        BY DEF Values
      <3>2. row \in EditionRow /\ row.status = edition[e].status /\ row.product = edition[e].product
        BY <1>1, <3>1 DEF EditionRow
      <3>3. edition' = [edition EXCEPT ![e] = row]
        BY <1>1, <2>1 DEF UpdateEdition
      <3> QED
        BY <3>2, <3>3
    <2>2. ASSUME NEW on \in BOOLEAN, SetEditionActive(e, on)
          PROVE  \E row \in EditionRow : /\ edition' = [edition EXCEPT ![e] = row]
                                         /\ row.status = edition[e].status
                                         /\ row.product = edition[e].product
      <3> DEFINE row == [edition[e] EXCEPT !.active = on]
      <3>1. row \in EditionRow /\ row.status = edition[e].status /\ row.product = edition[e].product
        BY <1>1 DEF EditionRow
      <3>2. edition' = [edition EXCEPT ![e] = row]
        BY <1>1, <2>2 DEF SetEditionActive
      <3> QED
        BY <3>1, <3>2
    <2> QED
      BY <2>1, <2>2
  <1>3. /\ edition' \in [Editions -> EditionRow]
        /\ Ids(edition)' = Ids(edition)
        /\ \A f \in Editions : edition'[f].product = edition[f].product
    <2>1. /\ edition' \in [Editions -> EditionRow]
          /\ \A f \in Editions : edition'[f] = IF f = e THEN row ELSE edition[f]
      BY <1>1, <1>2
    <2>2. Ids(edition)' = Ids(edition)
      BY <1>1, <1>2, <2>1 DEF Ids
    <2> QED
      BY <1>2, <2>1, <2>2
  <1>4. Tables'
    BY <1>1, <1>3 DEF Tables, ProductTables, PlanTables, WorkTable
  <1>5. Ids(edition) \subseteq Editions /\ Ids(product)' = Ids(product)
    BY <1>1, IdsFacts DEF Tables, Ids
  <1>6. ProductInv'
    BY <1>1, <1>3, <1>5 DEF ProductInv, InUse
  <1>7. CodeInv' /\ SettingInv' /\ SettledInv'
    BY <1>1, <1>5, PlansKept, CodesKept, IdsFacts DEF Tables
  <1> QED
    BY <1>4, <1>6, <1>7 DEF CatalogInv

----------------------------------------------------------------------------
\* Codes

LEMMA WorkUpdate ==
  ASSUME WorkTable, NEW a \in Administrators, NEW w \in {Idle} \cup Renaming \cup SettingCall,
         work' = [work EXCEPT ![a] = w]
  PROVE  /\ WorkTable'
         /\ \A b \in Administrators : work'[b] = IF b = a THEN w ELSE work[b]
  BY DEF WorkTable

LEMMA IdlePc == Idle.pc = "idle" /\ "idle" \notin Kind /\ "rename" \notin Kind
  BY CatalogConstants DEF Idle

\* A call ends without a further effect.
LEMMA EndInv ==
  ASSUME CatalogInv, NEW a \in Administrators, work' = [work EXCEPT ![a] = Idle],
         UNCHANGED <<host, product, edition, plan, cleanup, quote, sold, raced, settled>>,
         deaths' \in 0 .. MaxDeaths
  PROVE  CatalogInv'
  <1>1. /\ Tables /\ ProductInv /\ CodeInv /\ SettingInv /\ SettledInv
        /\ Ids(product) \subseteq Products
        /\ Ids(product)' = Ids(product) /\ Ids(edition)' = Ids(edition)
    BY IdsFacts DEF CatalogInv, Tables, Ids
  <1>2. /\ WorkTable'
        /\ \A b \in Administrators : work'[b] = IF b = a THEN Idle ELSE work[b]
    BY <1>1, WorkUpdate DEF Tables
  <1>3. Tables'
    BY <1>1, <1>2 DEF Tables, ProductTables, PlanTables
  <1>4. ProductInv'
    BY <1>1 DEF ProductInv, InUse
  <1>5. SettingInv' /\ SettledInv'
    BY <1>1, <1>2, IdlePc, PlansKept
  <1>6. CodeInv'
    BY <1>1, <1>2, IdlePc, CodesKept
  <1> QED
    BY <1>3, <1>4, <1>5, <1>6 DEF CatalogInv

LEMMA DieInv == ASSUME CatalogInv, NEW a \in Administrators, Die(a) PROVE CatalogInv'
  <1>1. deaths' \in 0 .. MaxDeaths
    BY CatalogConstants DEF Die, CatalogInv, Tables, ProductTables
  <1> QED
    BY <1>1, EndInv DEF Die

\* The decision rests on a code that is not in use, not there or the same.
LEMMA DecideRenameInv ==
  ASSUME CatalogInv, NEW a \in Administrators, NEW p \in Products, NEW code \in Inputs,
         DecideRename(a, p, code)
  PROVE  CatalogInv'
  <1> DEFINE w == [pc |-> "rename", product |-> p, code |-> Clean[code]]
  <1>1. /\ Tables /\ ProductInv /\ CodeInv /\ SettingInv /\ SettledInv
        /\ ChangeAllowed(p, Clean[code])
        /\ work' = [work EXCEPT ![a] = w]
        /\ UNCHANGED <<host, product, edition, plan, cleanup, quote, sold, raced, settled, deaths>>
    BY DEF CatalogInv, DecideRename, Unchanged
  <1>2. w \in Renaming /\ w.pc = "rename" /\ w.product = p /\ w.code = Clean[code]
    BY DEF Renaming, Values
  <1> HIDE DEF w
  <1>3. /\ WorkTable'
        /\ \A b \in Administrators : work'[b] = IF b = a THEN w ELSE work[b]
    BY <1>1, <1>2, WorkUpdate DEF Tables
  <1>4. Tables'
    BY <1>1, <1>3 DEF Tables, ProductTables, PlanTables
  <1>5. ProductInv'
    BY <1>1 DEF ProductInv, InUse, Ids
  <1>6. SettingInv' /\ SettledInv'
    BY <1>1, <1>2, <1>3, IdlePc, PlansKept
  <1>7. CodeInv'
    <2>1. p \notin raced => sold[p] \subseteq {None, Clean[code]}
      BY <1>1 DEF CodeInv, ChangeAllowed, InUse
    <2>2. ASSUME NEW b \in Administrators, work'[b].pc = "rename", work'[b].product \notin raced
          PROVE  sold[work'[b].product] \subseteq {None, work'[b].code}
      BY <1>1, <1>2, <1>3, <2>1, <2>2 DEF CodeInv
    <2>3. Ids(product)' = Ids(product)
      BY <1>1 DEF Ids
    <2> QED
      BY <1>1, <2>2, <2>3 DEF CodeInv
  <1> QED
    BY <1>4, <1>5, <1>6, <1>7 DEF CatalogInv

LEMMA RenameInv == ASSUME CatalogInv, NEW a \in Administrators, Rename(a) PROVE CatalogInv'
  <1> DEFINE p == work[a].product
             code == work[a].code
  <1>1. /\ Tables /\ ProductInv /\ CodeInv /\ SettingInv /\ SettledInv
        /\ work[a].pc = "rename"
        /\ work' = [work EXCEPT ![a] = Idle]
        /\ UNCHANGED <<host, edition, plan, cleanup, quote, sold, raced, settled, deaths>>
    BY DEF CatalogInv, Rename, Unchanged
  <1>2. CASE product' = product
    BY <1>1, <1>2, EndInv DEF Tables, ProductTables
  <1>3. CASE /\ p \in Ids(product) /\ Free("code", p, code)
             /\ product' = [product EXCEPT ![p].code = code]
    <2>1. p \in Products /\ code \in Values
      BY <1>1, WorkKinds DEF Tables, Renaming
    <2>2. /\ product \in [Products -> ProductRow]
          /\ Ids(product) = {q \in Products : product[q].status = "PRESENT"}
      BY <1>1, IdsFacts DEF Tables, ProductTables
    <2>3. /\ product' \in [Products -> ProductRow]
          /\ \A q \in Products : /\ product'[q].status = product[q].status
                                 /\ product'[q].slug = product[q].slug
                                 /\ product'[q].code = IF q = p THEN code ELSE product[q].code
      BY <1>3, <2>1, <2>2 DEF ProductRow
    <2>4. Ids(product)' = Ids(product)
      BY <2>2, <2>3 DEF Ids
    <2>5. /\ WorkTable'
          /\ \A b \in Administrators : work'[b] = IF b = a THEN Idle ELSE work[b]
      BY <1>1, WorkUpdate DEF Tables
    <2>6. Tables'
      BY <1>1, <2>3, <2>5 DEF Tables, ProductTables, PlanTables
    <2>7. ProductInv'
      BY <1>1, <2>3, <2>4 DEF ProductInv, InUse, Ids
    <2>8. SettingInv' /\ SettledInv'
      BY <1>1, <2>5, IdlePc, PlansKept
    <2>9. CodeInv'
      <3>1. ASSUME NEW q \in Ids(product), NEW r \in Ids(product), q # r, product'[q].code # None
            PROVE  product'[r].code # product'[q].code
        <4>1. CASE q # p /\ r # p
          BY <1>1, <2>2, <2>3, <3>1, <4>1 DEF CodeInv
        <4>2. ASSUME NEW x \in Ids(product), x # p, code # None PROVE product[x].code # code
          BY <1>3, <4>2 DEF Free
        <4>3. CASE q = p
          BY <2>2, <2>3, <3>1, <4>2, <4>3
        <4>4. CASE r = p
          BY <2>2, <2>3, <3>1, <4>2, <4>4
        <4> QED
          BY <4>1, <4>3, <4>4
      <3>2. \A q \in Products \ raced : sold[q] \subseteq {None, product'[q].code}
        BY <1>1, <2>3 DEF CodeInv
      <3>3. ASSUME NEW b \in Administrators, work'[b].pc = "rename", work'[b].product \notin raced
            PROVE  sold[work'[b].product] \subseteq {None, work'[b].code}
        BY <1>1, <2>5, <3>3, IdlePc DEF CodeInv
      <3> QED
        BY <1>1, <2>4, <3>1, <3>2, <3>3 DEF CodeInv
    <2> QED
      BY <2>6, <2>7, <2>8, <2>9 DEF CatalogInv
  <1> QED
    BY <1>2, <1>3 DEF Rename

----------------------------------------------------------------------------
\* Sales and deletion

LEMMA SaleInv == ASSUME CatalogInv, Sale PROVE CatalogInv'
  <1>1. /\ Tables /\ ProductInv /\ CodeInv /\ SettingInv /\ SettledInv
        /\ UNCHANGED <<host, product, edition, plan, work, cleanup, settled, deaths>>
        /\ Ids(product)' = Ids(product) /\ Ids(edition)' = Ids(edition)
        /\ Ids(product) \subseteq Products
    BY IdsFacts DEF CatalogInv, Tables, Sale, Quote, Order, Leave, Ids
  <1>2. SettingInv' /\ SettledInv'
    BY <1>1, PlansKept
  <1>3. CASE \/ \E e \in host.editions, kind \in Kind : Quote(e, kind)
             \/ Leave
    <2>1. quote'.edition \in Editions \cup {None} /\ UNCHANGED <<sold, raced>>
      BY <1>1, <1>3, HostType DEF Quote, Leave, NoQuote, Tables
    <2>2. Tables'
      BY <1>1, <2>1 DEF Tables, ProductTables, PlanTables, WorkTable
    <2>3. ProductInv' /\ CodeInv'
      BY <1>1, <2>1, CodesKept DEF ProductInv, InUse
    <2> QED
      BY <1>2, <2>2, <2>3 DEF CatalogInv
  <1>4. CASE Order
    <2> DEFINE p == edition[quote.edition].product
    <2>1. /\ quote.edition \in Ids(edition)
          /\ sold' = [sold EXCEPT ![p] = @ \cup {product[p].code}]
          /\ raced' = IF \E a \in Administrators : work[a].pc = "rename" /\ work[a].product = p
                      THEN raced \cup {p} ELSE raced
          /\ quote' = NoQuote
      BY <1>4 DEF Order
    <2>2. p \in Ids(product) /\ p \in Products
      BY <1>1, <2>1 DEF ProductInv
    <2>3. product[p].code \in Values
      BY <1>1, <2>2 DEF Tables, ProductTables, ProductRow
    <2>4. /\ sold' \in [Products -> SUBSET Values]
          /\ \A q \in Products : sold'[q] = IF q = p THEN sold[q] \cup {product[p].code} ELSE sold[q]
      BY <1>1, <2>1, <2>2, <2>3 DEF Tables, ProductTables
    <2>5. Tables'
      BY <1>1, <2>1, <2>2, <2>4 DEF Tables, ProductTables, PlanTables, WorkTable, NoQuote
    <2>6. ProductInv'
      BY <1>1, <2>2, <2>4 DEF ProductInv, InUse
    <2>7. CodeInv'
      <3>1. raced \subseteq raced'
        BY <2>1
      <3>2. ASSUME NEW q \in Products \ raced' PROVE sold'[q] \subseteq {None, product[q].code}
        BY <1>1, <2>4, <3>1, <3>2 DEF CodeInv
      <3>3. ASSUME NEW a \in Administrators, work[a].pc = "rename", work[a].product \notin raced'
            PROVE  sold'[work[a].product] \subseteq {None, work[a].code}
        <4>1. work[a].product # p /\ work[a].product \notin raced
          BY <2>1, <3>1, <3>3
        <4>2. work[a].product \in Products
          BY <1>1, <3>3, WorkKinds DEF Tables, Renaming
        <4> QED
          BY <1>1, <2>4, <3>3, <4>1, <4>2 DEF CodeInv
      <3> QED
        BY <1>1, <3>2, <3>3 DEF CodeInv
    <2> QED
      BY <1>2, <2>5, <2>6, <2>7 DEF CatalogInv
  <1> QED
    BY <1>3, <1>4 DEF Sale

LEMMA CleanUpInv ==
  ASSUME CatalogInv, NEW p \in Products, NEW outcome \in {"SUCCEEDED", "FAILED"},
         CleanUp(p, outcome)
  PROVE  CatalogInv'
  <1>1. /\ Tables /\ ProductInv /\ CodeInv /\ SettingInv /\ SettledInv
        /\ UNCHANGED <<host, product, edition, plan, work, quote, sold, raced, settled, deaths>>
        /\ Ids(product)' = Ids(product) /\ Ids(edition)' = Ids(edition)
        /\ Ids(product) \subseteq Products
        /\ cleanup[p] \in {"PENDING", "FAILED"}
        /\ cleanup' = [cleanup EXCEPT ![p] = IF @ = "PENDING" THEN outcome ELSE "PENDING"]
    BY IdsFacts DEF CatalogInv, Tables, CleanUp, Unchanged, Ids
  <1>2. /\ cleanup' \in [Products -> {"NONE", "PENDING", "SUCCEEDED", "FAILED"}]
        /\ \A q \in Products : cleanup[q] = "SUCCEEDED" => cleanup'[q] = "SUCCEEDED"
    BY <1>1 DEF Tables, ProductTables
  <1>3. Tables'
    BY <1>1, <1>2 DEF Tables, ProductTables, PlanTables, WorkTable
  <1>4. ProductInv'
    BY <1>1, <1>2 DEF ProductInv, InUse
  <1>5. CodeInv' /\ SettingInv' /\ SettledInv'
    BY <1>1, CodesKept, PlansKept
  <1> QED
    BY <1>3, <1>4, <1>5 DEF CatalogInv

LEMMA NoPlansType == NoPlans \in [Kind -> PlanRow] /\ \A k \in Kind : NoPlans[k].source = None
  BY DEF NoPlans, NoPlan, PlanRow

\* Rows go with their product; a call still setting plans of it is alone no more.
LEMMA FinalizeDeletionInv ==
  ASSUME CatalogInv, NEW p \in Products, FinalizeDeletion(p)
  PROVE  CatalogInv'
  <1> DEFINE gone == {e \in Ids(edition) : edition[e].product = p}
             row == [NoProduct EXCEPT !.status = "DELETED"]
             erow == [NoEdition EXCEPT !.status = "DELETED"]
  <1>1. /\ Tables /\ ProductInv /\ CodeInv /\ SettingInv /\ SettledInv
        /\ p \in Ids(product)
        /\ cleanup[p] = "SUCCEEDED" /\ ~InUse(p)
        /\ product' = [product EXCEPT ![p] = row]
        /\ edition' = [e \in Editions |-> IF e \in gone THEN erow ELSE edition[e]]
        /\ plan' = [e \in Editions |-> IF e \in gone THEN NoPlans ELSE plan[e]]
        /\ settled' = [e \in Editions |-> IF e \in gone THEN None ELSE settled[e]]
        /\ work' = [a \in Administrators |->
              IF \E e \in gone : a \in Setting(e) THEN [work[a] EXCEPT !.alone = FALSE] ELSE work[a]]
        /\ UNCHANGED <<host, cleanup, quote, sold, raced, deaths>>
    BY DEF CatalogInv, FinalizeDeletion, Finalizable, Deletable, Unchanged
  <1>2. /\ row \in ProductRow /\ row.status = "DELETED" /\ row.slug = None
        /\ erow \in EditionRow /\ erow.status = "DELETED"
    BY DEF NoProduct, NoEdition, ProductRow, EditionRow, RowStatus, Values
  <1> HIDE DEF row, erow
  <1>3. /\ Ids(product) = {q \in Products : product[q].status = "PRESENT"}
        /\ Ids(edition) = {e \in Editions : edition[e].status = "PRESENT"}
    BY <1>1, IdsFacts DEF Tables
  <1>4. /\ product' \in [Products -> ProductRow]
        /\ \A q \in Products : product'[q] = IF q = p THEN row ELSE product[q]
        /\ edition' \in [Editions -> EditionRow]
        /\ \A e \in Editions : edition'[e] = IF e \in gone THEN erow ELSE edition[e]
    BY <1>1, <1>2 DEF Tables, ProductTables
  <1>5. /\ Ids(product)' = Ids(product) \ {p}
        /\ Ids(edition)' = Ids(edition) \ gone
    <2>1. /\ Ids(product)' = {q \in Products : product'[q].status = "PRESENT"}
          /\ Ids(edition)' = {e \in Editions : edition'[e].status = "PRESENT"}
      BY <1>4 DEF Ids
    <2> QED
      BY <1>2, <1>3, <1>4, <2>1
  <1>6. ASSUME NEW a \in Administrators
        PROVE  /\ work'[a] \in {Idle} \cup Renaming \cup SettingCall
               /\ work'[a].pc = work[a].pc
               /\ work[a].pc \in Kind => work'[a].edition = work[a].edition
               /\ work[a].pc \notin Kind => work'[a] = work[a]
               /\ work[a].pc \in Kind /\ work[a].edition \in gone => ~work'[a].alone
               /\ work[a].pc \in Kind /\ work[a].edition \notin gone => work'[a] = work[a]
    <2>1. CASE work[a].pc \in Kind /\ work[a].edition \in gone
      <3>1. work'[a] = [work[a] EXCEPT !.alone = FALSE]
        BY <1>1, <2>1 DEF Setting
      <3>2. work[a] \in SettingCall
        BY <1>1, <2>1, WorkKinds DEF Tables
      <3> QED
        BY <2>1, <3>1, <3>2 DEF SettingCall
    <2>2. CASE ~(work[a].pc \in Kind /\ work[a].edition \in gone)
      <3>1. work'[a] = work[a]
        BY <1>1, <2>2 DEF Setting
      <3> QED
        BY <1>1, <2>2, <3>1 DEF Tables, WorkTable
    <2> QED
      BY <2>1, <2>2
  <1>7. Tables'
    <2>1. ProductTables'
      BY <1>1, <1>4 DEF Tables, ProductTables
    <2>2. PlanTables'
      BY <1>1, NoPlansType DEF Tables, PlanTables
    <2>3. WorkTable'
      BY <1>1, <1>6 DEF WorkTable
    <2> QED
      BY <2>1, <2>2, <2>3 DEF Tables
  <1>8. ProductInv'
    <2>1. \A q \in Products : product'[q].slug = None <=> q \notin Ids(product)'
      BY <1>1, <1>2, <1>4, <1>5 DEF ProductInv
    <2>2. \A e \in Ids(edition)' : edition'[e].product \in Ids(product)'
      BY <1>1, <1>3, <1>4, <1>5 DEF ProductInv
    <2>3. \A q \in Products : q \notin Ids(product)' => ~InUse(q)'
      BY <1>1, <1>5 DEF ProductInv, InUse
    <2>4. \A q \in Products : product'[q].status = "DELETED" => cleanup'[q] = "SUCCEEDED"
      BY <1>1, <1>4 DEF ProductInv
    <2> QED
      BY <2>1, <2>2, <2>3, <2>4 DEF ProductInv
  <1>9. CodeInv'
    <2>1. \A q, r \in Ids(product)' :
            q # r /\ product'[q].code # None => product'[r].code # product'[q].code
      BY <1>1, <1>3, <1>4, <1>5 DEF CodeInv
    <2>2. \A q \in Products \ raced' : sold'[q] \subseteq {None, product'[q].code}
      BY <1>1, <1>4 DEF CodeInv, InUse
    <2>3. ASSUME NEW a \in Administrators, work'[a].pc = "rename", work'[a].product \notin raced'
          PROVE  sold'[work'[a].product] \subseteq {None, work'[a].code}
      BY <1>1, <1>6, <2>3, IdlePc DEF CodeInv
    <2> QED
      BY <2>1, <2>2, <2>3 DEF CodeInv
  <1>10. SettingInv'
    <2>1. SUFFICES ASSUME NEW f \in Editions, NEW a \in Setting(f)'
                   PROVE  /\ settled'[f] = None
                          /\ work'[a].alone => AloneOn(f, a, work[a], plan[f])'
      BY DEF SettingInv
    <2>2. a \in Administrators /\ work[a].pc \in Kind /\ work[a].edition = f /\ a \in Setting(f)
      BY <1>6, <2>1 DEF Setting
    <2>3. CASE f \in gone
      BY <1>1, <1>6, <2>2, <2>3
    <2>4. CASE f \notin gone
      <3>1. settled'[f] = settled[f] /\ plan'[f] = plan[f] /\ work'[a] = work[a]
        BY <1>1, <1>6, <2>2, <2>4
      <3>2. Setting(f)' = Setting(f)
        BY <1>6 DEF Setting
      <3> QED
        BY <1>1, <2>2, <3>1, <3>2 DEF SettingInv, AloneOn
    <2> QED
      BY <2>3, <2>4
  <1>11. SettledInv'
    BY <1>1 DEF SettledInv
  <1> QED
    BY <1>7, <1>8, <1>9, <1>10, <1>11 DEF CatalogInv

----------------------------------------------------------------------------
\* The plans of an edition

LEMMA ExpectedType ==
  ASSUME PlanTables, NEW e \in Editions, NEW s \in Selections
  PROVE  /\ Expected(e, s) \in Nat \X Nat
         /\ Expected(e, s) = << UpsertedAmount(plan[e]["PERPETUAL"], s.perpetual),
                                UpsertedAmount(plan[e]["MONTHLY"], s.monthly) >>
  <1>1. plan[e]["PERPETUAL"] \in PlanRow /\ plan[e]["MONTHLY"] \in PlanRow
    BY CatalogConstants DEF PlanTables
  <1>2. Expected(e, s) = << UpsertedAmount(plan[e]["PERPETUAL"], s.perpetual),
                            UpsertedAmount(plan[e]["MONTHLY"], s.monthly) >>
    BY DEF Expected, UpsertedAmount
  <1>3. /\ UpsertedAmount(plan[e]["PERPETUAL"], s.perpetual) \in Nat
        /\ UpsertedAmount(plan[e]["MONTHLY"], s.monthly) \in Nat
    BY <1>1, SelectionType DEF UpsertedAmount, PlanRow, MinAmount
  <1> QED
    BY <1>2, <1>3

\* A call starts on the upserts: whoever was alone on the edition is so no more.
LEMMA SetsInv ==
  ASSUME CatalogInv, NEW a \in Administrators, NEW e \in Editions, NEW s \in Selections,
         Sets(a, e, s), work[a] = Idle, ValidSelection(s), plan' = plan
  PROVE  /\ PlanTables' /\ WorkTable' /\ SettingInv' /\ SettledInv'
         /\ \A b \in Administrators : work'[b].pc = "rename" => work'[b] = work[b]
  <1> DEFINE w == [pc |-> "PERPETUAL", edition |-> e, selection |-> s,
                   alone |-> Setting(e) = {}, expected |-> Expected(e, s)]
  <1>1. /\ PlanTables /\ WorkTable /\ SettingInv /\ SettledInv
        /\ work' = [b \in Administrators |->
              IF b = a THEN w
              ELSE IF b \in Setting(e) THEN [work[b] EXCEPT !.alone = FALSE] ELSE work[b]]
        /\ settled' = [settled EXCEPT ![e] = None]
    BY DEF CatalogInv, Tables, Sets
  <1>2. /\ w \in SettingCall
        /\ w.pc = "PERPETUAL" /\ w.edition = e /\ w.selection = s
        /\ w.alone <=> Setting(e) = {}
        /\ w.expected = Expected(e, s)
    BY <1>1, ExpectedType, CatalogConstants DEF SettingCall, Valid
  <1> HIDE DEF w
  <1>3. /\ PlanTables'
        /\ settled'[e] = None
        /\ \A f \in Editions : f # e => settled'[f] = settled[f]
    BY <1>1 DEF PlanTables
  <1>4. ASSUME NEW b \in Administrators
        PROVE  /\ work'[b] \in {Idle} \cup Renaming \cup SettingCall
               /\ b = a => work'[b] = w
               /\ b # a => work'[b].pc = work[b].pc
               /\ b # a /\ work[b].pc \in Kind => work'[b].edition = work[b].edition
               /\ b # a /\ b \notin Setting(e) => work'[b] = work[b]
               /\ b # a /\ b \in Setting(e) => ~work'[b].alone
    <2>1. CASE b # a /\ b \in Setting(e)
      <3>1. work'[b] = [work[b] EXCEPT !.alone = FALSE]
        BY <1>1, <2>1
      <3>2. work[b] \in SettingCall
        BY <1>1, <2>1, WorkKinds DEF Setting
      <3> QED
        BY <2>1, <3>1, <3>2 DEF SettingCall
    <2>2. CASE b = a \/ b \notin Setting(e)
      <3>1. work'[b] = IF b = a THEN w ELSE work[b]
        BY <1>1, <2>2
      <3> QED
        BY <1>1, <1>2, <2>2, <3>1 DEF WorkTable
    <2> QED
      BY <2>1, <2>2
  <1>5. WorkTable'
    BY <1>1, <1>4 DEF WorkTable
  <1>6. work[a].pc \notin Kind /\ a \notin Setting(e)
    BY IdlePc DEF Setting
  <1>7. SettledInv'
    BY <1>1, <1>3 DEF SettledInv
  <1>8. SettingInv'
    <2>1. SUFFICES ASSUME NEW f \in Editions, NEW b \in Setting(f)'
                   PROVE  /\ settled'[f] = None
                          /\ work'[b].alone => AloneOn(f, b, work[b], plan[f])'
      BY DEF SettingInv
    <2>2. b \in Administrators /\ work'[b].pc \in Kind /\ work'[b].edition = f
      BY <2>1 DEF Setting
    <2>3. CASE b = a
      <3>1. f = e /\ settled'[f] = None /\ work'[b] = w
        BY <1>2, <1>3, <1>4, <2>2, <2>3
      <3>2. ASSUME work'[b].alone PROVE AloneOn(f, b, work[b], plan[f])'
        <4>1. Setting(e) = {}
          BY <1>2, <3>1, <3>2
        <4>2. Setting(f)' = {b}
          BY <1>4, <2>1, <2>3, <3>1, <4>1 DEF Setting
        <4>3. w.expected = Remaining(plan[e], w)
          BY <1>1, <1>2, ExpectedType DEF Remaining
        <4> QED
          BY <1>2, <2>3, <3>1, <4>2, <4>3 DEF AloneOn
      <3> QED
        BY <3>1, <3>2
    <2>4. CASE b # a
      <3>1. work[b].pc \in Kind /\ work[b].edition = f /\ b \in Setting(f)
        BY <1>4, <2>2, <2>4 DEF Setting
      <3>2. CASE f = e
        BY <1>3, <1>4, <2>2, <2>4, <3>1, <3>2
      <3>3. CASE f # e
        <4>1. settled'[f] = settled[f] /\ work'[b] = work[b]
          BY <1>3, <1>4, <2>2, <2>4, <3>1, <3>3 DEF Setting
        <4>2. Setting(f)' = Setting(f)
          BY <1>2, <1>4, <1>6, <3>3 DEF Setting
        <4> QED
          BY <1>1, <3>1, <4>1, <4>2 DEF SettingInv, AloneOn
      <3> QED
        BY <3>2, <3>3
    <2> QED
      BY <2>3, <2>4
  <1>9. \A b \in Administrators : work'[b].pc = "rename" => work'[b] = work[b]
    BY <1>2, <1>4, IdlePc, CatalogConstants DEF Setting
  <1> QED
    BY <1>3, <1>5, <1>7, <1>8, <1>9

LEMMA SynchronizeInv ==
  ASSUME CatalogInv, NEW a \in Administrators, NEW e \in Editions, NEW s \in Selections,
         \/ Synchronize(a, e, s)
         \/ \E p \in Products, slug \in Inputs : CreateEdition(a, e, p, slug, s)
  PROVE  CatalogInv'
  <1>1. /\ Sets(a, e, s) /\ work[a] = Idle /\ ValidSelection(s)
        /\ UNCHANGED <<host, product, plan, cleanup, quote, sold, raced, deaths>>
    BY DEF Synchronize, CreateEdition, Unchanged
  <1>2. /\ Tables /\ ProductInv /\ CodeInv
        /\ Ids(product) \subseteq Products /\ Ids(product)' = Ids(product)
    BY <1>1, IdsFacts DEF CatalogInv, Tables, Ids
  <1>3. /\ PlanTables' /\ WorkTable' /\ SettingInv' /\ SettledInv'
        /\ \A b \in Administrators : work'[b].pc = "rename" => work'[b] = work[b]
    BY <1>1, SetsInv
  <1>4. /\ edition' \in [Editions -> EditionRow]
        /\ \A f \in Ids(edition)' : edition'[f].product \in Ids(product)
    <2>1. CASE Synchronize(a, e, s)
      BY <1>2, <2>1 DEF Synchronize, Unchanged, Tables, ProductTables, ProductInv, Ids
    <2>2. ASSUME NEW p \in Products, NEW slug \in Inputs, CreateEdition(a, e, p, slug, s)
          PROVE  /\ edition' \in [Editions -> EditionRow]
                 /\ \A f \in Ids(edition)' : edition'[f].product \in Ids(product)
      <3> DEFINE row == [status |-> "PRESENT", product |-> p, slug |-> Clean[slug], active |-> TRUE]
      <3>1. row \in EditionRow /\ row.product = p
        BY DEF EditionRow, RowStatus, Values
      <3>2. edition' = [edition EXCEPT ![e] = row] /\ p \in Ids(product)
        BY <2>2 DEF CreateEdition
      <3> HIDE DEF row
      <3>3. /\ edition' \in [Editions -> EditionRow]
            /\ \A f \in Editions : edition'[f] = IF f = e THEN row ELSE edition[f]
        BY <1>2, <3>1, <3>2 DEF Tables, ProductTables
      <3>4. \A f \in Ids(edition)' : f \in Editions /\ (f # e => f \in Ids(edition))
        BY <1>2, <3>3, IdsFacts DEF Ids, Tables
      <3> QED
        BY <1>2, <3>1, <3>2, <3>3, <3>4 DEF ProductInv
    <2> QED
      BY <2>1, <2>2
  <1>5. Tables'
    BY <1>1, <1>2, <1>3, <1>4 DEF Tables, ProductTables
  <1>6. ProductInv'
    BY <1>1, <1>2, <1>4 DEF ProductInv, InUse
  <1>7. CodeInv'
    BY <1>1, <1>2, <1>3, CodesKept
  <1> QED
    BY <1>3, <1>5, <1>6, <1>7 DEF CatalogInv

LEMMA UpsertedRow ==
  ASSUME NEW k \in Kind, NEW old \in PlanRow, NEW e \in Editions, NEW s \in Valid
  PROVE  /\ Upserted(k, old, e, s) \in PlanRow
         /\ Upserted(k, old, e, s).source \in {None, e}
         /\ IsSet(Upserted(k, old, e, s), e, k, s)
         /\ k = "PERPETUAL" => Upserted(k, old, e, s).amount = UpsertedAmount(old, s.perpetual)
         /\ k = "MONTHLY" => Upserted(k, old, e, s).amount = UpsertedAmount(old, s.monthly)
  <1> DEFINE r == Upserted(k, old, e, s)
  <1>1. s \in Selections /\ s.perpetual \in Nat /\ s.monthly \in Nat /\ s.discount \in Int \cup {None}
    BY SelectionType DEF Valid
  <1>2. /\ UpsertedAmount(old, s.perpetual) \in Nat
        /\ UpsertedAmount(old, s.monthly) \in Nat
        /\ s.perpetual # 0 => UpsertedAmount(old, s.perpetual) = s.perpetual
        /\ s.monthly # 0 => UpsertedAmount(old, s.monthly) = s.monthly
    BY <1>1 DEF UpsertedAmount, PlanRow, MinAmount
  <1>3. /\ r.there = TRUE
        /\ r.active = (k \in s.enabled)
        /\ r.source = IF k = "ANNUAL" THEN e ELSE None
        /\ r.discount = IF k # "ANNUAL" THEN None ELSE IF s.discount = None THEN 0 ELSE s.discount
        /\ k = "PERPETUAL" => r.amount = UpsertedAmount(old, s.perpetual)
        /\ k = "MONTHLY" => r.amount = UpsertedAmount(old, s.monthly)
        /\ k = "ANNUAL" => r.amount = 0
    BY DEF Upserted
  <1>4. r.amount \in Nat /\ r.discount \in Int \cup {None} /\ r.source \in Editions \cup {None}
    BY <1>1, <1>2, <1>3, CatalogConstants
  <1>5. r \in PlanRow
    <2> DEFINE amount == CASE k = "PERPETUAL" -> UpsertedAmount(old, s.perpetual)
                           [] k = "MONTHLY" -> UpsertedAmount(old, s.monthly)
                           [] k = "ANNUAL" -> 0
               discount == IF k # "ANNUAL" THEN None
                           ELSE IF s.discount = None THEN 0 ELSE s.discount
               source == IF k = "ANNUAL" THEN e ELSE None
               active == k \in s.enabled
    <2>1. r = [there |-> TRUE, amount |-> amount, discount |-> discount, source |-> source,
               active |-> active]
      BY Zenon DEF Upserted
    <2>2. amount \in Nat /\ discount \in Int \cup {None} /\ source \in Editions \cup {None}
      BY <1>1, <1>2, CatalogConstants
    <2>3. active \in BOOLEAN
      OBVIOUS
    <2> HIDE DEF r, amount, discount, source, active
    <2> QED
      BY <2>1, <2>2, <2>3 DEF PlanRow
  <1>6. IsSet(r, e, k, s)
    BY <1>2, <1>3 DEF IsSet
  <1> QED
    BY <1>3, <1>5, <1>6

LEMMA UpsertInv == ASSUME CatalogInv, NEW a \in Administrators, Upsert(a) PROVE CatalogInv'
  <1> DEFINE w == work[a]
             e == w.edition
             s == w.selection
             row == Upserted(w.pc, plan[e][w.pc], e, s)
             rest == [w EXCEPT !.pc = IF @ = "PERPETUAL" THEN "MONTHLY" ELSE "ANNUAL"]
  <1>1. /\ Tables /\ ProductInv /\ CodeInv /\ SettingInv /\ SettledInv
        /\ w.pc \in Kind
        /\ plan' = [plan EXCEPT ![e][w.pc] = row]
        /\ work' = [work EXCEPT ![a] = IF w.pc = "ANNUAL" THEN Idle ELSE rest]
        /\ settled' = IF w.pc = "ANNUAL" /\ w.alone
                      THEN [settled EXCEPT ![e] = [selection |-> s, amounts |-> w.expected]]
                      ELSE settled
        /\ UNCHANGED <<host, product, edition, cleanup, quote, sold, raced, deaths>>
    BY DEF CatalogInv, Upsert, Unchanged
  <1>2. w \in SettingCall /\ e \in Editions /\ s \in Valid
    BY <1>1, WorkKinds DEF Tables, SettingCall
  <1>3. a \in Setting(e)
    BY <1>1 DEF Setting
  <1>4. settled[e] = None /\ (w.alone => AloneOn(e, a, w, plan[e]))
    BY <1>1, <1>2, <1>3 DEF SettingInv
  <1>5. /\ row \in PlanRow
        /\ row.source \in {None, e}
        /\ IsSet(row, e, w.pc, s)
        /\ w.pc = "PERPETUAL" => row.amount = UpsertedAmount(plan[e]["PERPETUAL"], s.perpetual)
        /\ w.pc = "MONTHLY" => row.amount = UpsertedAmount(plan[e]["MONTHLY"], s.monthly)
    <2>1. plan[e][w.pc] \in PlanRow
      BY <1>1, <1>2 DEF Tables, PlanTables
    <2> QED
      BY <1>1, <1>2, <2>1, UpsertedRow
  <1>6. w.pc # "ANNUAL" => /\ rest \in SettingCall
                           /\ rest.pc = IF w.pc = "PERPETUAL" THEN "MONTHLY" ELSE "ANNUAL"
                           /\ rest.edition = e /\ rest.selection = s
                           /\ rest.alone = w.alone /\ rest.expected = w.expected
    BY <1>2, CatalogConstants DEF SettingCall
  <1> HIDE DEF row, rest
  <1>7. /\ plan' \in [Editions -> [Kind -> PlanRow]]
        /\ \A f \in Editions : f # e => plan'[f] = plan[f]
        /\ \A k \in Kind : plan'[e][k] = IF k = w.pc THEN row ELSE plan[e][k]
    <2>1. plan \in [Editions -> [Kind -> PlanRow]]
      BY <1>1 DEF Tables, PlanTables
    <2>2. plan' = [plan EXCEPT ![e] = [plan[e] EXCEPT ![w.pc] = row]]
      BY <1>1, <1>2, <2>1
    <2>3. [plan[e] EXCEPT ![w.pc] = row] \in [Kind -> PlanRow]
      BY <1>1, <1>2, <1>5, <2>1
    <2> QED
      BY <1>1, <1>2, <2>1, <2>2, <2>3
  <1>8. /\ WorkTable'
        /\ \A b \in Administrators :
              work'[b] = IF b = a THEN (IF w.pc = "ANNUAL" THEN Idle ELSE rest) ELSE work[b]
    <2>1. (IF w.pc = "ANNUAL" THEN Idle ELSE rest) \in {Idle} \cup Renaming \cup SettingCall
      BY <1>6
    <2> QED
      BY <1>1, <2>1 DEF Tables, WorkTable
  <1>9. Tables'
    <2>1. DOMAIN settled' = Editions
      BY <1>1 DEF Tables, PlanTables
    <2>2. \A f \in Editions, k \in Kind : plan'[f][k].source \in {None, f}
      BY <1>1, <1>5, <1>7 DEF Tables, PlanTables
    <2>3. PlanTables'
      BY <1>7, <2>1, <2>2 DEF PlanTables
    <2>4. ProductTables'
      BY <1>1 DEF Tables, ProductTables
    <2> QED
      BY <1>8, <2>3, <2>4 DEF Tables
  <1>10. ProductInv' /\ CodeInv'
    <2>1. \A b \in Administrators : work'[b] = work[b] \/ work'[b].pc # "rename"
      BY <1>6, <1>8, IdlePc
    <2>2. /\ Ids(product)' = Ids(product) /\ Ids(edition)' = Ids(edition)
          /\ Ids(product) \subseteq Products
      BY <1>1, IdsFacts DEF Ids, Tables
    <2> QED
      BY <1>1, <2>1, <2>2, CodesKept DEF ProductInv, InUse
  <1>11. SettledInv'
    <2>1. SUFFICES ASSUME NEW f \in Editions, settled'[f] # None
                   PROVE  /\ settled'[f].selection \in Valid
                          /\ \A k \in Kind : IsSet(plan'[f][k], f, k, settled'[f].selection)
                          /\ settled'[f].amounts
                               = <<plan'[f]["PERPETUAL"].amount, plan'[f]["MONTHLY"].amount>>
      BY DEF SettledInv, Valid
    <2>2. CASE f # e
      <3>1. settled'[f] = settled[f] /\ plan'[f] = plan[f]
        BY <1>1, <1>7, <2>2 DEF Tables, PlanTables
      <3> QED
        BY <1>1, <2>1, <3>1 DEF SettledInv
    <2>3. CASE f = e
      <3>1. /\ w.pc = "ANNUAL" /\ w.alone
            /\ settled'[f] = [selection |-> s, amounts |-> w.expected]
        BY <1>1, <1>2, <1>4, <2>1, <2>3 DEF Tables, PlanTables
      <3>2. AloneOn(e, a, w, plan[e])
        BY <1>4, <3>1
      <3>3. \A k \in Kind : IsSet(plan'[e][k], e, k, s)
        BY <1>5, <1>7, <3>1, <3>2, CatalogConstants DEF AloneOn
      <3>4. w.expected = <<plan'[e]["PERPETUAL"].amount, plan'[e]["MONTHLY"].amount>>
        BY <1>7, <3>1, <3>2, CatalogConstants DEF AloneOn, Remaining
      <3> QED
        BY <1>2, <2>3, <3>1, <3>3, <3>4
    <2> QED
      BY <2>2, <2>3
  <1>12. SettingInv'
    <2>1. SUFFICES ASSUME NEW f \in Editions, NEW b \in Setting(f)'
                   PROVE  /\ settled'[f] = None
                          /\ work'[b].alone => AloneOn(f, b, work[b], plan[f])'
      BY DEF SettingInv
    <2>2. b \in Administrators /\ work'[b].pc \in Kind /\ work'[b].edition = f
      BY <2>1 DEF Setting
    <2>3. /\ \A c \in Administrators : work'[c].pc \in Kind =>
                work[c].pc \in Kind /\ work'[c].edition = work[c].edition
          /\ b \in Setting(f)
      <3>1. ASSUME NEW c \in Administrators, work'[c].pc \in Kind
            PROVE  work[c].pc \in Kind /\ work'[c].edition = work[c].edition
        BY <1>1, <1>6, <1>8, <3>1, IdlePc
      <3> QED
        BY <2>2, <3>1 DEF Setting
    <2>4. CASE f # e
      <3>1. /\ settled'[f] = settled[f] /\ plan'[f] = plan[f] /\ b # a
            /\ work'[b] = work[b]
        BY <1>1, <1>7, <1>8, <2>3, <2>4 DEF Tables, PlanTables, Setting
      <3>2. Setting(f)' = Setting(f)
        BY <1>6, <1>8, <2>3, <2>4, IdlePc DEF Setting
      <3> QED
        BY <1>1, <2>3, <3>1, <3>2 DEF SettingInv, AloneOn
    <2>5. CASE f = e /\ b # a
      <3>1. ~AloneOn(e, a, w, plan[e]) /\ ~work[b].alone
        BY <1>1, <1>3, <2>3, <2>5 DEF SettingInv, AloneOn
      <3> QED
        BY <1>1, <1>4, <1>8, <2>5, <3>1
    <2>6. CASE f = e /\ b = a
      <3>1. w.pc # "ANNUAL" /\ work'[b] = rest /\ settled' = settled
        BY <1>1, <1>8, <2>2, <2>6, IdlePc
      <3>2. ASSUME w.alone PROVE AloneOn(f, b, work[b], plan[f])'
        <4>1. AloneOn(e, a, w, plan[e])
          BY <1>4, <3>2
        <4>2. Setting(f)' = {b}
          BY <2>1, <2>3, <2>6, <4>1 DEF AloneOn, Setting
        <4>3. rest.expected = Remaining(plan'[e], rest)
          BY <1>1, <1>5, <1>6, <1>7, <3>1, <4>1, CatalogConstants DEF AloneOn, Remaining
        <4>4. IsSet(plan'[e]["PERPETUAL"], e, "PERPETUAL", s)
          BY <1>1, <1>5, <1>7, <3>1, <4>1, CatalogConstants DEF AloneOn
        <4>5. rest.pc = "ANNUAL" => IsSet(plan'[e]["MONTHLY"], e, "MONTHLY", s)
          BY <1>1, <1>5, <1>6, <1>7, <3>1, CatalogConstants
        <4> QED
          BY <1>6, <2>6, <3>1, <4>2, <4>3, <4>4, <4>5 DEF AloneOn
      <3> QED
        BY <1>4, <1>6, <2>6, <3>1, <3>2
    <2> QED
      BY <2>4, <2>5, <2>6
  <1> QED
    BY <1>9, <1>10, <1>11, <1>12 DEF CatalogInv

----------------------------------------------------------------------------

LEMMA CatalogInitInv == CatalogInit => CatalogInv
  <1> SUFFICES ASSUME CatalogInit PROVE CatalogInv
    OBVIOUS
  <1>1. ProductTables
    BY CatalogConstants
    DEF CatalogInit, ProductTables, NoProduct, NoEdition, ProductRow, EditionRow, RowStatus,
        Values, NoQuote
  <1>2. PlanTables
    BY NoPlansType DEF CatalogInit, PlanTables
  <1>3. WorkTable
    BY DEF CatalogInit, WorkTable
  <1>4. Ids(product) = {} /\ Ids(edition) = {}
    BY DEF CatalogInit, Ids, NoProduct, NoEdition
  <1>5. ProductInv
    BY <1>4 DEF CatalogInit, ProductInv, InUse, NoProduct
  <1>6. CodeInv
    BY <1>4, IdlePc DEF CatalogInit, CodeInv
  <1>7. SettingInv /\ SettledInv
    BY IdlePc DEF CatalogInit, SettingInv, SettledInv, Setting
  <1> QED
    BY <1>1, <1>2, <1>3, <1>5, <1>6, <1>7 DEF CatalogInv, Tables

LEMMA CatalogNextInv == CatalogInv /\ [CatalogNext]_catalogVars => CatalogInv'
  <1> SUFFICES ASSUME CatalogInv, [CatalogNext]_catalogVars PROVE CatalogInv'
    OBVIOUS
  <1>1. /\ host.administrators \subseteq Administrators
        /\ host.products \subseteq Products
        /\ host.editions \subseteq Editions
        /\ host.selections \subseteq Selections
        /\ host.inputs \subseteq Inputs
    BY HostType DEF CatalogInv, Tables
  <1>2. CASE Catalog
    BY <1>1, <1>2, CreateProductInv, EditProductInv DEF Catalog
  <1>3. CASE Codes
    BY <1>1, <1>3, CreateProductInv, EditProductInv, EditEditionInv, DecideRenameInv, RenameInv
    DEF Codes
  <1>4. CASE Plans
    BY <1>1, <1>4, SynchronizeInv, UpsertInv, EditEditionInv, DieInv DEF Plans
  <1>5. CASE Deletion
    BY <1>1, <1>5, EditProductInv, CleanUpInv, FinalizeDeletionInv DEF Deletion
  <1>6. CASE Sale
    BY <1>6, SaleInv
  <1>7. CASE UNCHANGED catalogVars
    BY <1>7 DEF catalogVars, CatalogInv, Tables, ProductTables, PlanTables, WorkTable, ProductInv,
                CodeInv, SettingInv, SettledInv, Ids, InUse, Setting, AloneOn
  <1> QED
    BY <1>2, <1>3, <1>4, <1>5, <1>6, <1>7 DEF CatalogNext

THEOREM CatalogInvariance == CatalogSpec => []CatalogInv
  BY CatalogInitInv, CatalogNextInv, PTL DEF CatalogSpec

----------------------------------------------------------------------------

\* The type invariant, and: a product that anyone ordered is never deleted, nor one
\* whose stored objects are left, for any number of products, editions, administrators,
\* codes and selections.
THEOREM NeverDeletedInUseCorrect == CatalogSpec => []NeverDeletedInUse
  <1> SUFFICES ASSUME CatalogInv PROVE NeverDeletedInUse
    BY CatalogInvariance, PTL
  <1>1. Tables /\ ProductInv
    BY DEF CatalogInv
  <1>2. RowsOK
    <2>1. \A p \in Products :
             /\ product[p].status \in {"NONE", "PRESENT", "DELETED"}
             /\ product[p].slug = None <=> p \notin Ids(product)
             /\ cleanup[p] \in {"NONE", "PENDING", "SUCCEEDED", "FAILED"}
      BY <1>1 DEF Tables, ProductTables, ProductInv, ProductRow, RowStatus
    <2>2. \A e \in Editions, k \in Kind : plan[e][k].amount \in Nat /\ plan[e][k].source \in {None, e}
      BY <1>1 DEF Tables, PlanTables, PlanRow
    <2>3. \A a \in Administrators : work[a].pc \in {"idle", "rename"} \cup Kind
      BY <1>1, WorkKinds DEF Tables
    <2> QED
      BY <1>1, <2>1, <2>2, <2>3 DEF RowsOK, Tables, ProductTables, ProductInv
  <1>3. ASSUME NEW p \in Products, product[p].status = "DELETED"
        PROVE  ~InUse(p) /\ cleanup[p] = "SUCCEEDED"
    BY <1>1, <1>3, IdsFacts DEF ProductInv, Tables
  <1> QED
    BY <1>2, <1>3 DEF NeverDeletedInUse

\* A public code stands for one product, through renames, deletions and late codes,
\* except where an order came between a decision and the update it allows.
THEOREM CodeNamesOneProductCorrect == CatalogSpec => []CodeNamesOneProduct
  <1> SUFFICES ASSUME CatalogInv PROVE CodeNamesOneProduct
    BY CatalogInvariance, PTL
  <1>1. ProductInv /\ CodeInv
    BY DEF CatalogInv
  <1>2. ASSUME NEW p \in Products \ raced, NEW q \in Products \ raced, p # q,
               NEW code \in sold[p] \cap sold[q], code # None
        PROVE  FALSE
    <2>1. p \in Ids(product) /\ q \in Ids(product)
      BY <1>1, <1>2 DEF ProductInv, InUse
    <2>2. code = product[p].code /\ code = product[q].code
      BY <1>1, <1>2 DEF CodeInv
    <2> QED
      BY <1>1, <1>2, <2>1, <2>2 DEF CodeInv
  <1> QED
    BY <1>1, <1>2 DEF CodeNamesOneProduct, CodeInv

----------------------------------------------------------------------------
\* Prices

\* Twelve months m less discount d, in ten-thousandths.
Months(m, d) == m * 12 * (10000 - d)

LEMMA TwelveMonths ==
  ASSUME NEW m \in Nat, NEW d \in 0 .. MaxDiscount
  PROVE  /\ Months(m, d) \in Nat
         /\ 108000 * m <= Months(m, d)
         /\ Months(m, d) <= 120000 * m
  <1>1. d \in Nat /\ d <= 1000
    BY DEF MaxDiscount
  <1>2. m * d \in Nat /\ m * d <= 1000 * m
    BY <1>1
  <1>3. Months(m, d) = 120000 * m - 12 * (m * d)
    BY <1>1 DEF Months
  <1> QED
    BY <1>2, <1>3

\* A half-up quotient is the nearest one: what is left, to the nearest minor unit.
LEMMA YearlyPrice ==
  ASSUME NEW m \in Nat, NEW d \in 0 .. MaxDiscount,
         NEW q, q = HalfUp(Months(m, d), 10000)
  PROVE  /\ q \in Nat
         /\ -5000 < q * 10000 - Months(m, d) /\ q * 10000 - Months(m, d) <= 5000
         /\ q <= 12 * m
         /\ 10 * q + 5 >= 9 * 12 * m
         /\ m >= 1 => q > 0
  <1>1. PICK n \in Nat : n = Months(m, d)
    BY TwelveMonths
  <1>2. 108000 * m <= n /\ n <= 120000 * m
    BY <1>1, TwelveMonths
  <1>3. /\ HalfUp(n, 10000) \in Nat
        /\ 10000 * HalfUp(n, 10000) <= n + 5000
        /\ n + 5000 < 10000 * HalfUp(n, 10000) + 10000
    BY DEF HalfUp
  <1>4. q = HalfUp(n, 10000)
    BY <1>1
  <1> QED
    BY <1>1, <1>2, <1>3, <1>4

\* The rows of a selection that was set are priced at what it asks for.
LEMMA PricesOf ==
  ASSUME CatalogInv, NEW e \in Editions, settled[e] # None
  PROVE  LET s == settled[e].selection IN
         /\ s \in Valid
         /\ \A k \in Kind : plan[e][k].there /\ (plan[e][k].active <=> k \in s.enabled)
         /\ "PERPETUAL" \in s.enabled => s.perpetual # 0 /\ plan[e]["PERPETUAL"].amount = s.perpetual
         /\ "MONTHLY" \in s.enabled => s.monthly # 0 /\ plan[e]["MONTHLY"].amount = s.monthly
         /\ "ANNUAL" \in s.enabled =>
               /\ "MONTHLY" \in s.enabled
               /\ plan[e]["ANNUAL"].discount = s.discount
               /\ s.discount \in 0 .. MaxDiscount
               /\ Sourced(e)
  <1> DEFINE s == settled[e].selection
  <1>1. /\ s \in Valid
        /\ \A k \in Kind : IsSet(plan[e][k], e, k, s)
    BY DEF CatalogInv, SettledInv
  <1>2. ValidSelection(s) /\ s.perpetual \in Nat /\ s.monthly \in Nat
    BY <1>1, SelectionType DEF Valid
  <1>3. \A k \in Kind : plan[e][k].there /\ (plan[e][k].active <=> k \in s.enabled)
    BY <1>1 DEF IsSet
  <1>4. "PERPETUAL" \in s.enabled => s.perpetual # 0 /\ plan[e]["PERPETUAL"].amount = s.perpetual
    BY <1>1, <1>2, CatalogConstants DEF IsSet, ValidSelection
  <1>5. "MONTHLY" \in s.enabled => s.monthly # 0 /\ plan[e]["MONTHLY"].amount = s.monthly
    BY <1>1, <1>2, CatalogConstants DEF IsSet, ValidSelection
  <1>6. ASSUME "ANNUAL" \in s.enabled
        PROVE  /\ "MONTHLY" \in s.enabled
               /\ plan[e]["ANNUAL"].discount = s.discount
               /\ s.discount \in 0 .. MaxDiscount
               /\ Sourced(e)
    <2>1. "MONTHLY" \in s.enabled /\ s.discount # None /\ s.discount \in 0 .. MaxDiscount
      BY <1>2, <1>6 DEF ValidSelection
    <2>2. plan[e]["ANNUAL"].source = e /\ plan[e]["ANNUAL"].discount = s.discount
      BY <1>1, <2>1, CatalogConstants DEF IsSet
    <2>3. Sourced(e)
      BY <1>2, <1>3, <1>5, <2>1, <2>2, CatalogConstants DEF Sourced
    <2> QED
      BY <2>1, <2>2, <2>3
  <1> QED
    BY <1>1, <1>3, <1>4, <1>5, <1>6

\* A call that overlapped no other leaves exactly the selection it was asked for, and
\* every plan of it can be bought, for any selections and any number of calls.
THEOREM PlansAreTheLastSelectionCorrect == CatalogSpec => []PlansAreTheLastSelection
  <1> SUFFICES ASSUME CatalogInv, NEW e \in Editions, settled[e] # None
               PROVE  LET s == settled[e].selection IN
                      /\ {k \in Kind : plan[e][k].active} = s.enabled
                      /\ <<plan[e]["PERPETUAL"].amount, plan[e]["MONTHLY"].amount>>
                           = settled[e].amounts
                      /\ \A k \in s.enabled : Resolve(e, k) > 0
                      /\ \E k \in {"PERPETUAL", "MONTHLY"} : plan[e][k].active
    <2>1. CatalogInv => PlansAreTheLastSelection
      BY DEF PlansAreTheLastSelection
    <2> QED
      BY <2>1, CatalogInvariance, PTL
  <1> DEFINE s == settled[e].selection
  <1>1. /\ s \in Valid
        /\ s.enabled \subseteq Kind
        /\ s.perpetual \in Nat /\ s.monthly \in Nat
        /\ s.enabled \cap {"PERPETUAL", "MONTHLY"} # {}
    BY PricesOf, SelectionType DEF Valid, ValidSelection
  <1>2. {k \in Kind : plan[e][k].active} = s.enabled
    BY <1>1, PricesOf
  <1>3. settled[e].amounts = <<plan[e]["PERPETUAL"].amount, plan[e]["MONTHLY"].amount>>
    BY DEF CatalogInv, SettledInv
  <1>4. \E k \in {"PERPETUAL", "MONTHLY"} : plan[e][k].active
    BY <1>1, <1>2
  <1>5. ASSUME NEW k \in s.enabled PROVE Resolve(e, k) > 0
    <2>1. plan[e][k].there /\ k \in Kind
      BY <1>1, <1>5, PricesOf
    <2>2. CASE k = "ANNUAL"
      <3> DEFINE m == plan[e]["MONTHLY"].amount
                 d == plan[e]["ANNUAL"].discount
      <3>1. Sourced(e) /\ d \in 0 .. MaxDiscount /\ m \in Nat /\ m >= 1
        BY <1>1, <1>5, <2>2, PricesOf DEF Sourced
      <3>2. Resolve(e, k) = HalfUp(Months(m, d), 10000)
        BY <2>1, <2>2, <3>1 DEF Resolve, Months
      <3> HIDE DEF m, d
      <3> QED
        BY <3>1, <3>2, YearlyPrice
    <2>3. CASE k = "PERPETUAL"
      BY <1>1, <1>5, <2>1, <2>3, PricesOf DEF Resolve
    <2>4. CASE k = "MONTHLY"
      BY <1>1, <1>5, <2>1, <2>4, PricesOf DEF Resolve
    <2> QED
      BY <2>1, <2>2, <2>3, <2>4, CatalogConstants
  <1> QED
    BY <1>2, <1>3, <1>4, <1>5

\* Only a quote tells the customer a price.
LEMMA OnlyQuotes ==
  ASSUME CatalogInv, [CatalogNext]_catalogVars, quote' # quote, quote' # NoQuote
  PROVE  \E e \in Editions, kind \in Kind : Quote(e, kind)
  <1>1. CASE Catalog
    BY <1>1 DEF Catalog, CreateProduct, PublishProduct, ArchiveProduct, Unchanged
  <1>2. CASE Codes
    BY <1>2 DEF Codes, CreateProduct, UpdateProduct, UpdateEdition, DecideRename, Rename, Unchanged
  <1>3. CASE Plans
    BY <1>3 DEF Plans, CreateEdition, Upsert, Synchronize, SetEditionActive, Die, Unchanged
  <1>4. CASE Deletion
    BY <1>4 DEF Deletion, RequestDeletion, CleanUp, FinalizeDeletion, Unchanged
  <1>5. CASE Sale
    BY <1>5, HostType DEF Sale, Order, Leave, CatalogInv, Tables
  <1>6. CASE UNCHANGED catalogVars
    BY <1>6 DEF catalogVars
  <1> QED
    BY <1>1, <1>2, <1>3, <1>4, <1>5, <1>6 DEF CatalogNext

LEMMA QuoteTold ==
  ASSUME CatalogInv, NEW e \in Editions, NEW kind \in Kind, Quote(e, kind)
  PROVE  Told
  <1> DEFINE s == settled[e].selection
             m == plan[e]["MONTHLY"].amount
             d == plan[e]["ANNUAL"].discount
  <1>1. /\ quote'.edition = e /\ quote'.kind = kind /\ quote'.amount = Resolve(e, kind)
        /\ plan[e][kind].active
        /\ Resolve(e, kind) # 0
    BY DEF Quote
  <1>2. m \in Nat
    BY CatalogConstants DEF CatalogInv, Tables, PlanTables, PlanRow
  <1>3. kind # "ANNUAL" => Resolve(e, kind) = plan[e][kind].amount
    BY <1>1 DEF Resolve
  <1>4. ASSUME kind = "ANNUAL"
        PROVE  /\ Sourced(e)
               /\ -5000 < Resolve(e, kind) * 10000 - Months(m, d)
               /\ Resolve(e, kind) * 10000 - Months(m, d) <= 5000
               /\ Resolve(e, kind) <= 12 * m
               /\ 10 * Resolve(e, kind) + 5 >= 9 * 12 * m
    <2>1. /\ Sourced(e) /\ d \in 0 .. MaxDiscount
          /\ Resolve(e, kind) = HalfUp(Months(m, d), 10000)
      BY <1>1, <1>4 DEF Resolve, Months
    <2> HIDE DEF m, d
    <2> QED
      BY <1>2, <2>1, YearlyPrice
  <1>5. ASSUME settled[e] # None
        PROVE  /\ kind = "PERPETUAL" => Resolve(e, kind) = s.perpetual
               /\ kind = "MONTHLY" => Resolve(e, kind) = s.monthly
               /\ kind = "ANNUAL" =>
                     LET error == Resolve(e, kind) * 10000 - 12 * s.monthly * (10000 - s.discount)
                     IN  -5000 < error /\ error <= 5000
    <2>1. kind \in s.enabled
      BY <1>1, <1>5, PricesOf
    <2>2. CASE kind = "PERPETUAL"
      BY <1>3, <1>5, <2>1, <2>2, PricesOf
    <2>3. CASE kind = "MONTHLY"
      BY <1>3, <1>5, <2>1, <2>3, PricesOf
    <2>4. CASE kind = "ANNUAL"
      <3>1. s.monthly = m /\ s.discount = d
        BY <1>5, <2>1, <2>4, PricesOf
      <3>2. s.monthly \in Nat /\ s.discount \in Int
        <4>1. s \in Selections /\ s.discount \in 0 .. MaxDiscount
          BY <1>5, <2>1, <2>4, PricesOf DEF Valid
        <4> QED
          BY <4>1, SelectionType DEF MaxDiscount
      <3> HIDE DEF s, m, d
      <3>3. Months(m, d) = 12 * s.monthly * (10000 - s.discount)
        BY <3>1, <3>2 DEF Months
      <3> QED
        BY <1>4, <2>4, <3>3
    <2> QED
      BY <2>2, <2>3, <2>4, CatalogConstants
  <1>6. ASSUME kind = "ANNUAL"
        PROVE  /\ plan[e]["MONTHLY"].active
               /\ Resolve(e, kind) <= 12 * m
               /\ 10 * Resolve(e, kind) + 5 >= 9 * 12 * m
    BY <1>4, <1>6 DEF Sourced
  <1> QED
    BY <1>1, <1>5, <1>6 DEF Told

\* A price told is one its administrator asked for, and a yearly one is twelve months on
\* sale with at most a tenth off, to the nearest minor unit, for any amounts and
\* discounts.
THEOREM QuotesAreSelectionsCorrect == CatalogSpec => QuotesAreSelections
  <1>1. CatalogInv /\ [CatalogNext]_catalogVars
           => [quote' # quote /\ quote' # NoQuote => Told]_catalogVars
    BY OnlyQuotes, QuoteTold
  <1> QED
    BY <1>1, CatalogInvariance, PTL DEF CatalogSpec, QuotesAreSelections
=============================================================================
