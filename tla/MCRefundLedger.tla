--------------------------- MODULE MCRefundLedger ---------------------------
(* Small instances of RefundLedger for TLC. *)
EXTENDS RefundLedger, TLC

Symmetry == Permutations(Keys) \cup Permutations(Workers)
=============================================================================
