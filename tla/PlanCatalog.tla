----------------------------- MODULE PlanCatalog -----------------------------
(***************************************************************************)
(* What is for sale: products and editions of @bke/catalog, the purchase   *)
(* plans @bke/commerce keeps for every edition and the prices it resolves  *)
(* from them.  Administrators edit the catalog, set the plans of an        *)
(* edition (three upserts, one after the other), change a product's public *)
(* code and delete products; a customer is quoted a price and orders.      *)
(***************************************************************************)
EXTENDS Integers, FiniteSets

CONSTANTS
    Administrators, \* slots for concurrent calls of the host's administration
    Products,       \* CatalogProduct ids
    Editions,       \* CatalogEdition ids
    Inputs,         \* slugs and codes as typed
    Clean,          \* the slug or code each input is cleaned to, None when it is refused
    Selections,     \* what an administrator may ask of the plans of an edition
    Hosts,          \* what is administered: any of "plans", "codes", "deletion", by whom, of
                    \* which products and editions, with which selections and inputs
    None,           \* no product, edition, slug, code or discount
    MaxDeaths       \* bound on calls that die

Kind == {"PERPETUAL", "MONTHLY", "ANNUAL"}

MinAmount == 100
MaxAmount == 2000000000
MaxDiscount == 1000

\* An amount of 0 is one that is not given.
ASSUME CatalogAssumption ==
    /\ None \notin Products \cup Editions
    /\ DOMAIN Clean = Inputs
    /\ Selections \subseteq [enabled : SUBSET Kind, perpetual : Nat, monthly : Nat,
                             discount : Int \cup {None}]
    /\ Hosts \subseteq [duties : SUBSET {"plans", "codes", "deletion"},
                        administrators : SUBSET Administrators, products : SUBSET Products,
                        editions : SUBSET Editions, selections : SUBSET Selections,
                        inputs : SUBSET Inputs]
    /\ MaxDeaths \in Nat

VARIABLES
    host,           \* a member of Hosts
    product,        \* the CatalogProduct rows and the host's deletionRequestedAt
    edition,        \* the CatalogEdition rows
    plan,           \* the PurchasePlan rows, unique per edition and kind
    work,           \* the local state of every administrator's call
    cleanup,        \* the host's storage clean-up of every product
    quote,          \* the price the customer was last told
    sold,           \* the codes every product was ordered under
    raced,          \* products ordered while a change of their code was under way
    settled,        \* the selection every edition's plans were last set to by a call alone
    deaths

catalogVars == <<host, product, edition, plan, work, cleanup, quote, sold, raced, settled, deaths>>

NoProduct == [status |-> "NONE", slug |-> None, code |-> None, active |-> FALSE,
              published |-> FALSE, archived |-> FALSE, requested |-> FALSE]

NoEdition == [status |-> "NONE", product |-> None, slug |-> None, active |-> FALSE]

NoPlan == [there |-> FALSE, amount |-> 0, discount |-> None, source |-> None, active |-> FALSE]

NoPlans == [k \in Kind |-> NoPlan]

NoQuote == [edition |-> None, amount |-> 0]

Idle == [pc |-> "idle"]

Ids(rows) == {r \in DOMAIN rows : rows[r].status = "PRESENT"}

RowsOK ==
    /\ \A p \in Products :
          /\ product[p].status \in {"NONE", "PRESENT", "DELETED"}
          /\ product[p].slug = None <=> p \notin Ids(product)
          /\ cleanup[p] \in {"NONE", "PENDING", "SUCCEEDED", "FAILED"}
    /\ \A e \in Ids(edition) : edition[e].product \in Ids(product)
    /\ \A e \in Editions, k \in Kind :
          /\ plan[e][k].amount \in Nat
          /\ plan[e][k].source \in {None, e}
    /\ \A a \in Administrators : work[a].pc \in {"idle", "rename"} \cup Kind
    /\ raced \subseteq Products
    /\ deaths \in 0 .. MaxDeaths

CatalogInit ==
    /\ host \in Hosts
    /\ product = [p \in Products |-> NoProduct]
    /\ edition = [e \in Editions |-> NoEdition]
    /\ plan = [e \in Editions |-> NoPlans]
    /\ work = [a \in Administrators |-> Idle]
    /\ cleanup = [p \in Products |-> "NONE"]
    /\ quote = NoQuote
    /\ sold = [p \in Products |-> {}]
    /\ raced = {}
    /\ settled = [e \in Editions |-> None]
    /\ deaths = 0

----------------------------------------------------------------------------
\* Products and editions: one statement each; a refused call changes nothing

Unchanged(others) == UNCHANGED others /\ UNCHANGED <<host, quote, sold, raced, deaths>>

\* Slugs and codes are unique; null codes do not collide.
Free(field, p, value) ==
    \A q \in Ids(product) \ {p} : value = None \/ product[q][field] # value

\* The code is optional, but must be one that cleans when it is given.
CleanCode(code) == IF code = None THEN None ELSE Clean[code]

CreateProduct(p, slug, code) ==
    /\ product[p].status = "NONE"
    /\ Clean[slug] # None
    /\ CleanCode(code) = None <=> code = None
    /\ Free("slug", p, Clean[slug])
    /\ Free("code", p, CleanCode(code))
    /\ product' = [product EXCEPT ![p] = [NoProduct EXCEPT !.status = "PRESENT",
          !.slug = Clean[slug], !.code = CleanCode(code), !.active = TRUE]]
    /\ Unchanged(<<edition, plan, work, cleanup, settled>>)

UpdateProduct(p, slug) ==
    /\ p \in Ids(product)
    /\ Clean[slug] # None
    /\ Free("slug", p, Clean[slug])
    /\ product' = [product EXCEPT ![p].slug = Clean[slug]]
    /\ Unchanged(<<edition, plan, work, cleanup, settled>>)

PublishProduct(p) ==
    /\ p \in Ids(product)
    /\ product' = [product EXCEPT ![p] =
          [@ EXCEPT !.active = TRUE, !.published = TRUE, !.archived = FALSE]]
    /\ Unchanged(<<edition, plan, work, cleanup, settled>>)

ArchiveProduct(p) ==
    /\ p \in Ids(product)
    /\ product' = [product EXCEPT ![p] = [@ EXCEPT !.active = FALSE, !.archived = TRUE]]
    /\ Unchanged(<<edition, plan, work, cleanup, settled>>)

FreeInProduct(e, p, slug) ==
    \A f \in Ids(edition) \ {e} : edition[f].product = p => edition[f].slug # slug

UpdateEdition(e, slug) ==
    /\ e \in Ids(edition)
    /\ Clean[slug] # None
    /\ FreeInProduct(e, edition[e].product, Clean[slug])
    /\ edition' = [edition EXCEPT ![e].slug = Clean[slug]]
    /\ Unchanged(<<product, plan, work, cleanup, settled>>)

SetEditionActive(e, active) ==
    /\ e \in Ids(edition)
    /\ edition' = [edition EXCEPT ![e].active = active]
    /\ Unchanged(<<product, plan, work, cleanup, settled>>)

Available(p) ==
    /\ p \in Ids(product)
    /\ product[p].active /\ product[p].published /\ ~product[p].archived

----------------------------------------------------------------------------
\* The public code of a product: the host reads the product and whether it is in use,
\* asks the policy, and updates the row

InUse(p) == sold[p] # {}

\* mutant: only a code that is not set is protected
ChangeAllowedInUse(p, code) == product[p].code = None \/ Clean[code] # None

ChangeAllowed(p, code) ==
    product[p].code = None \/ product[p].code = code \/ ~InUse(p)

DecideRename(a, p, code) ==
    /\ work[a] = Idle
    /\ p \in Ids(product)
    /\ Clean[code] # None
    /\ ChangeAllowed(p, Clean[code])
    /\ work' = [work EXCEPT ![a] = [pc |-> "rename", product |-> p, code |-> Clean[code]]]
    /\ Unchanged(<<product, edition, plan, cleanup, settled>>)

Rename(a) ==
    LET p == work[a].product IN
    /\ work[a].pc = "rename"
    /\ work' = [work EXCEPT ![a] = Idle]
    /\ product' = IF p \in Ids(product) /\ Free("code", p, work[a].code)
                  THEN [product EXCEPT ![p].code = work[a].code] ELSE product
    /\ Unchanged(<<edition, plan, cleanup, settled>>)

----------------------------------------------------------------------------
\* The plans of an edition

InRange(amount) == amount # 0 => amount \in MinAmount .. MaxAmount

ValidSelection(s) ==
    /\ InRange(s.perpetual) /\ InRange(s.monthly)
    /\ "PERPETUAL" \in s.enabled => s.perpetual # 0
    /\ "MONTHLY" \in s.enabled => s.monthly # 0
    /\ "ANNUAL" \in s.enabled => "MONTHLY" \in s.enabled /\ s.discount # None
    /\ s.discount # None => s.discount \in 0 .. MaxDiscount
    /\ s.enabled \cap {"PERPETUAL", "MONTHLY"} # {}

Setting(e) == {a \in Administrators : work[a].pc \in Kind /\ work[a].edition = e}

\* The amounts a call that is alone leaves.
Expected(e, s) ==
    LET After(old, given) ==
            IF given # 0 THEN given ELSE IF old.there THEN old.amount ELSE MinAmount
    IN <<After(plan[e]["PERPETUAL"], s.perpetual), After(plan[e]["MONTHLY"], s.monthly)>>

\* The call starts on the three upserts; it is alone when it overlaps no other.
Sets(a, e, s) ==
    /\ work' = [b \in Administrators |->
          IF b = a THEN [pc |-> "PERPETUAL", edition |-> e, selection |-> s,
                         alone |-> Setting(e) = {}, expected |-> Expected(e, s)]
          ELSE IF b \in Setting(e) THEN [work[b] EXCEPT !.alone = FALSE] ELSE work[b]]
    /\ settled' = [settled EXCEPT ![e] = None]

CreateEdition(a, e, p, slug, s) ==
    /\ work[a] = Idle
    /\ edition[e].status = "NONE"
    /\ p \in Ids(product)
    /\ Clean[slug] # None
    /\ FreeInProduct(e, p, Clean[slug])
    /\ ValidSelection(s)
    /\ edition' = [edition EXCEPT ![e] = [status |-> "PRESENT", product |-> p,
                                          slug |-> Clean[slug], active |-> TRUE]]
    /\ Sets(a, e, s)
    /\ Unchanged(<<product, plan, cleanup>>)

Synchronize(a, e, s) ==
    /\ work[a] = Idle
    /\ e \in Ids(edition)
    /\ ValidSelection(s)
    /\ Sets(a, e, s)
    /\ Unchanged(<<product, edition, plan, cleanup>>)

\* mutant: an update writes what a new row would get
InsertedAmount(old, given) == IF given # 0 THEN given ELSE MinAmount

\* An amount is written when it is given; a new row gets at least the minimum.
UpsertedAmount(old, given) ==
    IF given # 0 THEN given ELSE IF old.there THEN old.amount ELSE MinAmount

Upserted(kind, old, e, s) ==
    [there |-> TRUE,
     amount |-> CASE kind = "PERPETUAL" -> UpsertedAmount(old, s.perpetual)
                  [] kind = "MONTHLY" -> UpsertedAmount(old, s.monthly)
                  [] kind = "ANNUAL" -> 0,
     discount |-> IF kind # "ANNUAL" THEN None ELSE IF s.discount = None THEN 0 ELSE s.discount,
     source |-> IF kind = "ANNUAL" THEN e ELSE None,
     active |-> kind \in s.enabled]

\* The monthly row an annual plan names must exist, or the upsert fails.
Upsert(a) ==
    LET w == work[a]
        e == w.edition
        done == w.pc = "ANNUAL"
    IN
    /\ w.pc \in Kind
    /\ done => plan[e]["MONTHLY"].there
    /\ plan' = [plan EXCEPT ![e][w.pc] = Upserted(w.pc, @, e, w.selection)]
    /\ work' = [work EXCEPT ![a] =
          IF done THEN Idle
          ELSE [w EXCEPT !.pc = IF @ = "PERPETUAL" THEN "MONTHLY" ELSE "ANNUAL"]]
    /\ settled' = IF done /\ w.alone
                  THEN [settled EXCEPT ![e] = [selection |-> w.selection, amounts |-> w.expected]]
                  ELSE settled
    /\ Unchanged(<<product, edition, cleanup>>)

\* The host's process dies or a statement fails: what was written stays.
Die(a) ==
    /\ work[a] # Idle
    /\ deaths < MaxDeaths
    /\ deaths' = deaths + 1
    /\ work' = [work EXCEPT ![a] = Idle]
    /\ UNCHANGED <<host, product, edition, plan, cleanup, quote, sold, raced, settled>>

----------------------------------------------------------------------------
\* Prices

HalfUp(numerator, denominator) == (numerator + denominator \div 2) \div denominator

\* mutant: the monthly plan need not be on sale
SourcedAnyhow(e) ==
    plan[e]["ANNUAL"].source = e /\ plan[e]["MONTHLY"].there

Sourced(e) ==
    LET source == plan[e]["MONTHLY"] IN
    /\ plan[e]["ANNUAL"].source = e
    /\ source.there /\ source.active /\ source.amount >= 1

\* 0 when no price is resolved; a plan is looked up and resolved in one statement.
Resolve(e, kind) ==
    CASE ~plan[e][kind].there -> 0
      [] kind = "ANNUAL" ->
            IF Sourced(e) /\ plan[e][kind].discount \in 0 .. MaxDiscount
            THEN HalfUp(plan[e]["MONTHLY"].amount * 12 * (10000 - plan[e][kind].discount), 10000)
            ELSE 0
      [] OTHER -> plan[e][kind].amount

Quote(e, kind) ==
    /\ quote = NoQuote
    /\ e \in Ids(edition)
    /\ Available(edition[e].product)
    /\ edition[e].active /\ plan[e][kind].active
    /\ Resolve(e, kind) # 0
    /\ quote' = [edition |-> e, kind |-> kind, amount |-> Resolve(e, kind)]
    /\ UNCHANGED <<host, product, edition, plan, work, cleanup, sold, raced, settled, deaths>>

\* The customer orders at the price told, whatever became of the plans since, or leaves.
Order ==
    LET p == edition[quote.edition].product IN
    /\ quote.edition \in Ids(edition)
    /\ sold' = [sold EXCEPT ![p] = @ \cup {product[p].code}]
    /\ raced' = IF \E a \in Administrators : work[a].pc = "rename" /\ work[a].product = p
                THEN raced \cup {p} ELSE raced
    /\ quote' = NoQuote
    /\ UNCHANGED <<host, product, edition, plan, work, cleanup, settled, deaths>>

Leave ==
    /\ quote # NoQuote
    /\ quote' = NoQuote
    /\ UNCHANGED <<host, product, edition, plan, work, cleanup, sold, raced, settled, deaths>>

----------------------------------------------------------------------------
\* Deletion of a product: the host gathers the facts, asks the policy and carries the
\* plan out in one transaction

Deletable(p) == product[p].archived /\ ~InUse(p)

RequestDeletion(p) ==
    /\ p \in Ids(product)
    /\ Deletable(p)
    /\ product' = [product EXCEPT ![p] = [@ EXCEPT !.requested = TRUE, !.active = FALSE]]
    /\ cleanup' = [cleanup EXCEPT ![p] = "PENDING"]
    /\ Unchanged(<<edition, plan, work, settled>>)

CleanUp(p, outcome) ==
    /\ cleanup[p] \in {"PENDING", "FAILED"}
    /\ cleanup' = [cleanup EXCEPT ![p] = IF @ = "PENDING" THEN outcome ELSE "PENDING"]
    /\ Unchanged(<<product, edition, plan, work, settled>>)

\* mutant: the eligibility found at the request is trusted
RequestedAndCleaned(p) == product[p].requested /\ cleanup[p] = "SUCCEEDED"

Finalizable(p) ==
    /\ product[p].requested
    /\ cleanup[p] = "SUCCEEDED"
    /\ Deletable(p)

\* Editions go with their product, and the host removes their plans.
FinalizeDeletion(p) ==
    LET gone == {e \in Ids(edition) : edition[e].product = p} IN
    /\ p \in Ids(product)
    /\ Finalizable(p)
    /\ product' = [product EXCEPT ![p] = [NoProduct EXCEPT !.status = "DELETED"]]
    /\ edition' = [e \in Editions |->
          IF e \in gone THEN [NoEdition EXCEPT !.status = "DELETED"] ELSE edition[e]]
    /\ plan' = [e \in Editions |-> IF e \in gone THEN NoPlans ELSE plan[e]]
    /\ settled' = [e \in Editions |-> IF e \in gone THEN None ELSE settled[e]]
    /\ work' = [a \in Administrators |->
          IF \E e \in gone : a \in Setting(e) THEN [work[a] EXCEPT !.alone = FALSE] ELSE work[a]]
    /\ Unchanged(<<cleanup>>)

----------------------------------------------------------------------------
Catalog ==
    \E p \in host.products :
       \/ \E slug \in host.inputs : CreateProduct(p, slug, None)
       \/ PublishProduct(p)
       \/ ArchiveProduct(p)

Codes ==
    /\ "codes" \in host.duties
    /\ \E p \in host.products :
          \/ \E slug, code \in host.inputs : CreateProduct(p, slug, code)
          \/ \E slug \in host.inputs : UpdateProduct(p, slug)
          \/ \E e \in host.editions, slug \in host.inputs : UpdateEdition(e, slug)
          \/ \E a \in host.administrators, code \in host.inputs : DecideRename(a, p, code)
          \/ \E a \in host.administrators : Rename(a)

Plans ==
    \E a \in host.administrators, e \in host.editions :
       \/ \E s \in host.selections, p \in host.products, slug \in host.inputs :
             CreateEdition(a, e, p, slug, s)
       \/ Upsert(a)
       \/ /\ "plans" \in host.duties
          /\ \/ \E s \in host.selections : Synchronize(a, e, s)
             \/ \E active \in BOOLEAN : SetEditionActive(e, active)
             \/ Die(a)

Deletion ==
    /\ "deletion" \in host.duties
    /\ \E p \in host.products :
          \/ RequestDeletion(p)
          \/ \E outcome \in {"SUCCEEDED", "FAILED"} : CleanUp(p, outcome)
          \/ FinalizeDeletion(p)

Sale ==
    \/ \E e \in host.editions, kind \in Kind : Quote(e, kind)
    \/ Order
    \/ Leave

CatalogNext == Catalog \/ Codes \/ Plans \/ Deletion \/ Sale

CatalogSpec == CatalogInit /\ [][CatalogNext]_catalogVars

----------------------------------------------------------------------------
\* Properties

\* Once a call of synchronizeCommerceEditionPlans that overlapped no other is through,
\* the three rows say what it was asked for: exactly the enabled plans are on sale, an
\* amount that was not given is the one the row had before, the annual plan follows the
\* edition's monthly plan, and something can be bought.  It holds again after calls that
\* died halfway or were interleaved, as soon as one call is alone.
PlansAreTheLastSelection ==
    \A e \in Editions : settled[e] # None =>
        LET s == settled[e].selection IN
        /\ {k \in Kind : plan[e][k].active} = s.enabled
        /\ <<plan[e]["PERPETUAL"].amount, plan[e]["MONTHLY"].amount>> = settled[e].amounts
        /\ \A k \in s.enabled : Resolve(e, k) > 0
        /\ \E k \in {"PERPETUAL", "MONTHLY"} : plan[e][k].active

\* A price told to a customer is one its administrator asked for: outside an update it is
\* the perpetual or the monthly amount of the last selection, or twelve of its months less
\* its discount to the nearest minor unit.  Between the upserts of an update, or after one
\* that died, a yearly price is still one of twelve months on sale at that moment with at
\* most a tenth off, again to the nearest minor unit.
Told ==
    LET e == quote'.edition
        amount == quote'.amount
        monthly == plan[e]["MONTHLY"]
    IN
    /\ settled[e] # None =>
          LET s == settled[e].selection
              error == amount * 10000 - 12 * s.monthly * (10000 - s.discount)
          IN
          /\ quote'.kind = "PERPETUAL" => amount = s.perpetual
          /\ quote'.kind = "MONTHLY" => amount = s.monthly
          /\ quote'.kind = "ANNUAL" => -5000 < error /\ error <= 5000
    /\ quote'.kind = "ANNUAL" =>
          /\ monthly.active
          /\ amount <= 12 * monthly.amount
          /\ 10 * amount + 5 >= 9 * 12 * monthly.amount

QuotesAreSelections == [][quote' # quote /\ quote' # NoQuote => Told]_catalogVars

\* The type invariant, and: a product that anyone ordered is never deleted, although it
\* may have been requested, cleaned up, published again and ordered in between, or ordered
\* at a price told before the request; and none is deleted before its stored objects are.
NeverDeletedInUse ==
    /\ RowsOK
    /\ \A p \in Products : product[p].status = "DELETED" => ~InUse(p) /\ cleanup[p] = "SUCCEEDED"

\* A public code stands for one product: the orders of a product all carry the code it
\* still has, and no two products were ever ordered under one code, through renames,
\* deletions that free a code, and codes given late.  Except where the order came between
\* the policy's decision on a new code and the update that writes it.
CodeNamesOneProduct ==
    /\ \A p \in Products \ raced : sold[p] \subseteq {None, product[p].code}
    /\ \A p, q \in Products \ raced : p # q => sold[p] \cap sold[q] \subseteq {None}
=============================================================================
