------------------------ MODULE PaymentIntentPromise ------------------------
(***************************************************************************)
(* What a Payment Intent attempt promises its callers: it is bound to at   *)
(* most one intent of the provider and for good, only that intent's client *)
(* key is handed out, and a final outcome is never taken back.             *)
(***************************************************************************)
CONSTANTS Intents, None

VARIABLES intent, outcome, released

promiseVars == <<intent, outcome, released>>

Init ==
    /\ intent = None
    /\ outcome = "OPEN"
    /\ released = {}

\* The client key may be handed out with the step or withheld.
MayRelease(i) == released' \in {released, released \cup {i}}

Bind(i) ==
    /\ intent = None
    /\ outcome = "OPEN"
    /\ intent' = i
    /\ outcome' \in {"OPEN", "SUCCEEDED", "CANCELLED"}
    /\ MayRelease(i)

Observe ==
    /\ intent # None
    /\ outcome' \in IF outcome = "OPEN" THEN {"OPEN", "SUCCEEDED", "CANCELLED"} ELSE {outcome}
    /\ MayRelease(intent)
    /\ UNCHANGED intent

Refuse ==
    /\ intent = None
    /\ outcome = "OPEN"
    /\ outcome' = "FAILED"
    /\ UNCHANGED <<intent, released>>

Next == (\E i \in Intents : Bind(i)) \/ Observe \/ Refuse

Spec == Init /\ [][Next]_promiseVars
=============================================================================
