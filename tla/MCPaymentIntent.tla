-------------------------- MODULE MCPaymentIntent --------------------------
(* Small instances of PaymentIntent for TLC. *)
EXTENDS PaymentIntent, TLC

\* Interchangeable model values; hosts differ, since one of them does not create.
SymmetryOfNames == UNION {Permutations(S) : S \in {Calls, Tokens, Intents}}
=============================================================================
