--------------------------- MODULE MCRefundLedger ---------------------------
(* Small instances of RefundLedger for TLC. *)
EXTENDS RefundLedger, TLC

\* Two settlements, the later one smaller.
SettledTwice == <<2, 1>>
=============================================================================
