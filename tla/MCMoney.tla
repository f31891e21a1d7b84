------------------------------ MODULE MCMoney ------------------------------
(***************************************************************************)
(* Small instances of InvoiceSync, CancellationAssessments,                *)
(* EarningsAdjustments and Allowances for TLC, in one run: they share no   *)
(* state, so one moves while the others rest in an initial state, always   *)
(* the same one.                                                           *)
(***************************************************************************)
EXTENDS InvoiceSync, CancellationAssessments, EarningsAdjustments, Allowances, TLC

CONSTANTS i1, i2, i3, w1, w2, none, shaleanBooks, bokkieBooks, p1, transport, hours

(* InvoiceSync *)
MCInvoices == {i1, i2}
MCWorkers == {w1, w2}

(* CancellationAssessments: every combination of small amounts for one       *)
(* cleaner, every small team for a simple assessment, and amounts on both    *)
(* sides of what a column holds for teams on both sides of it.               *)
MoneyFacts ==
  [cause : {"customer", "business"}, action : {"cancel", "reschedule"}, stage : {"accepted"},
   late : BOOLEAN, waived : BOOLEAN, labour : {1, 5}, loss : {0, 3}, receipts : 0 .. 3,
   performed : {0, 1}, completed : {0, 1}, pending : {0, 1}, fee : 0 .. 3, pool : {0, 1, 2},
   price : {0, 1, 2}, team : {<<0>>, <<2>>}, expenses : {<<1>>}]

TeamFacts ==
  [cause : {"customer", "business"}, action : {"cancel"}, stage : Stages,
   late : {TRUE}, waived : {FALSE}, labour : {20}, loss : {10}, receipts : {9},
   performed : {0}, completed : {0}, pending : {0}, fee : 0 .. 8, pool : 0 .. 8,
   price : {0}, team : [1..3 -> 0 .. 3], expenses : {<<0, 2, 1>>}]

LargeTeams ==
  {<< >>, <<0, 0>>, <<10, 10>>, <<11, 10>>, <<21, 0>>, <<20, 20>>, <<20, 20, 1>>, <<7, 6, 7>>, <<2, 2, 2, 2>>}

LargeFacts ==
  UNION {[cause : {"customer", "business"}, action : {"cancel", "reschedule"},
          stage : {"accepted", "travelling", "arrived"}, late : BOOLEAN, waived : {FALSE},
          labour : {20, 21}, loss : {3}, receipts : {20, 21}, performed : {0}, completed : {0},
          pending : {0}, fee : {0, 3}, pool : {0, 3}, price : {20, 21}, team : {t},
          expenses : {[w \in DOMAIN t |-> n] : n \in {0, 10, 21}}] : t \in LargeTeams}

AllFacts == MoneyFacts \cup TeamFacts \cup LargeFacts

(* EarningsAdjustments *)
MCItems == {i1, i2, i3}

SomeCorrections ==
  {[kind |-> "calculation_correction", delta |-> -2],
   [kind |-> "additional_agreed_work", delta |-> 1],
   [kind |-> "reimbursement", delta |-> 1]}

(* Allowances *)
MCMonths == 0 .. 2

RestingFacts == CHOOSE f \in Facts : TRUE

InvoicesRest == Init /\ UNCHANGED vars
AssessmentsRest == AssessmentInit /\ facts = RestingFacts /\ UNCHANGED assessmentVars
AdjustmentsRest == AdjustmentInit /\ UNCHANGED adjustmentVars
AllowancesRest == AllowanceInit /\ UNCHANGED allowanceVars

MCInit == Init /\ AssessmentInit /\ AdjustmentInit /\ AllowanceInit

MCNext ==
  \/ AssessmentsRest /\ AdjustmentsRest /\ AllowancesRest /\ Next
  \/ InvoicesRest /\ AdjustmentsRest /\ AllowancesRest /\ AssessmentNext
  \/ InvoicesRest /\ AssessmentsRest /\ AllowancesRest /\ AdjustmentNext
  \/ InvoicesRest /\ AssessmentsRest /\ AdjustmentsRest /\ AllowanceNext

MCSpec == MCInit /\ [][MCNext]_<<vars, assessmentVars, adjustmentVars, allowanceVars>>

Symmetry == Permutations(MCInvoices) \cup Permutations(MCWorkers)
=============================================================================
