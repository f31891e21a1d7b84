------------------------ MODULE MCMonthlySettlements ------------------------
(* Small instance of MonthlySettlements for TLC. *)
EXTENDS MonthlySettlements, TLC

CONSTANTS s1, s2, visit, pool

SomeCorrections == {[kind |-> "calculation_correction", delta |-> -1]}

SomeKinds == [e \in {visit, pool} |-> IF e = pool THEN "customer_pool" ELSE "visit"]

SomeCents == [e \in {visit, pool} |-> IF e = pool THEN 1 ELSE 2]

Symmetry == Permutations({s1, s2})
=============================================================================
