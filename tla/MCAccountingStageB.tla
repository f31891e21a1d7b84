------------------------- MODULE MCAccountingStageB -------------------------
(* A small instance of AccountingStageB for TLC. *)
EXTENDS AccountingStageB, TLC

CONSTANTS own, mgr, i1, i2, w1, w2, nobody, nothing

MCActors == {own, mgr}
MCIntents == {i1, i2}
MCWorkers == {w1, w2}

Symmetry == Permutations(MCIntents) \cup Permutations(MCWorkers)
=============================================================================
