-------------------------- MODULE MCCheckoutAttempt --------------------------
(* Small instances of CheckoutAttempt for TLC. *)
EXTENDS CheckoutAttempt, TLC

Symmetry == Permutations(Calls) \cup Permutations(Bodies)
=============================================================================
