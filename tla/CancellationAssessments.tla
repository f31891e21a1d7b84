----------------------- MODULE CancellationAssessments -----------------------
(***************************************************************************)
(* Preparing one assessment: the office enters reviewed facts, the page    *)
(* assesses them and the database checks them again before it records      *)
(* them.                                                                   *)
(***************************************************************************)
EXTENDS CancellationRules

VARIABLES
  facts,    \* what the office entered
  saved     \* whether the assessment was recorded

assessmentVars == <<facts, saved>>

AssessmentTypeOK == facts \in Facts /\ saved \in BOOLEAN

AssessmentInit == facts \in Facts /\ saved = FALSE

Prepare ==
  /\ ~saved
  /\ JsAccepts(facts)
  /\ SqlAccepts(facts)
  /\ saved' = TRUE
  /\ UNCHANGED facts

AssessmentNext == Prepare

AssessmentSpec == AssessmentInit /\ [][AssessmentNext]_assessmentVars

-----------------------------------------------------------------------------
(* What a cancellation assessment must be, whatever facts the office enters. *)

(* The page and the database, written apart in two languages: what the       *)
(* database accepts the page can show, with the same refundable amount, so   *)
(* that no refund is offered and then refused. What the page accepts the     *)
(* database accepts too, with one exception: it bounds the sum of the agreed *)
(* earnings also where the business pays half of it or nothing.              *)
WritersAgree ==
  /\ SqlAccepts(facts) => JsAccepts(facts) /\ Refundable(facts) = SqlAvailable(facts)
  /\ JsAccepts(facts) => SqlAccepts(facts) \/ OnlyShareFits(facts)

(* A recorded assessment never promises more than was verified as received:  *)
(* the retained charge, earlier refunds, those pending and what is left to   *)
(* refund fit into the receipts, and the cleaners' pool into the charge. It  *)
(* never tells a customer both that money is due and that money is           *)
(* refundable, and a replacement visit settles the credit exactly: what is   *)
(* left is spent on the new price, paid on top or returned.                  *)
MoneyAccounted ==
  saved =>
    /\ RetainedFee(facts) + facts.completed + facts.pending + Remaining(facts) <= facts.receipts
    /\ facts.pool <= RetainedFee(facts)
    /\ Refundable(facts) = 0 \/ BalanceDue(facts) = 0
    /\ facts.action = "reschedule" =>
         Remaining(facts) + NewBalance(facts) = facts.price + Refundable(facts)

(* The pool is divided to the cent: nothing is created or lost and nobody is *)
(* a whole cent away from the exact share. Whoever pays, a cleaner who had   *)
(* agreed to nothing gets nothing, and one who had agreed to more never gets *)
(* less than a colleague.                                                    *)
PoolDivided ==
  LET team == facts.team
      total == AgreedTotal(team)
  IN  saved =>
        /\ facts.cause = "customer" /\ total > 0 =>
             /\ SumOver([w \in DOMAIN team |-> Compensation(facts, w)], DOMAIN team) = facts.pool
             /\ \A w \in DOMAIN team :
                  total * Compensation(facts, w) - Weight(facts.pool, team, w) \in 1 - total..total - 1
        /\ \A w \in DOMAIN team : team[w] = 0 => Compensation(facts, w) = 0
        /\ \A v, w \in DOMAIN team :
             team[v] > team[w] => Compensation(facts, v) >= Compensation(facts, w)
=============================================================================
