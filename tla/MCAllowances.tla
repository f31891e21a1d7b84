---------------------------- MODULE MCAllowances ----------------------------
(* Small instance of Allowances for TLC. *)
EXTENDS Allowances

MCMonths == 0 .. 3
=============================================================================
