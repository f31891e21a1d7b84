-------------------------- MODULE CancellationRules --------------------------
(***************************************************************************)
(* The arithmetic of a cancellation review, twice: as the page computes it *)
(* (assessCancellation in src/cancellation-review.js) and as the database  *)
(* checks it (append_cancellation_review), and the division of a collected *)
(* pool among the cleaners of the visit.                                   *)
(*                                                                         *)
(* An assessment is a record of cents, of the facts they depend on, and of *)
(* the team: functions from cleaners (numbers, in the order of their ids)  *)
(* to what each had agreed to earn and to each one's approved expenses.    *)
(* Evidence, dates and texts are left out.                                 *)
(***************************************************************************)
EXTENDS Integers, FiniteSetsExt

CONSTANTS
  FeeCap,      \* R300 in cents
  MaxAmount,   \* the largest amount a column holds, 2147483647 cents
  MaxTeam,     \* the largest team, 100 cleaners
  Facts        \* the assessments the office may enter

Stages == {"accepted", "travelling", "arrived", "started"}

\* The fields on which money depends are cents, of any size.
Assessed(a) ==
  /\ a.cause \in {"customer", "business"} /\ a.action \in {"cancel", "reschedule"}
  /\ a.stage \in Stages
  /\ a.late \in BOOLEAN /\ a.waived \in BOOLEAN
  /\ a.labour \in Nat /\ a.loss \in Nat /\ a.receipts \in Nat /\ a.performed \in Nat
  /\ a.completed \in Nat /\ a.pending \in Nat /\ a.fee \in Nat /\ a.pool \in Nat
  /\ a.price \in Nat

\* The cleaners of the visit, and the cents each had agreed to earn.
TeamOfCents(team) ==
  /\ IsFiniteSet(DOMAIN team) /\ DOMAIN team \subseteq Nat
  /\ \A w \in DOMAIN team : team[w] \in Nat

TeamAssessed(a) ==
  TeamOfCents(a.team) /\ TeamOfCents(a.expenses) /\ DOMAIN a.expenses = DOMAIN a.team

ASSUME RulesAssumption ==
  /\ FeeCap \in Nat /\ MaxAmount \in Nat /\ MaxTeam \in Nat
  /\ \A a \in Facts : Assessed(a) /\ TeamAssessed(a)

Smaller(a, b) == IF a < b THEN a ELSE b
OrZero(n) == IF n < 0 THEN 0 ELSE n

SumOver(f, S) == MapThenSumSet(LAMBDA x : f[x], S)

AgreedTotal(team) == SumOver(team, DOMAIN team)

ExpenseTotal(a) == SumOver(a.expenses, DOMAIN a.expenses)

\* Both programs bound every amount, the new price only if there is one.
AmountsFit(a) ==
  /\ \A n \in {a.labour, a.loss, a.receipts, a.performed, a.completed, a.pending, a.fee, a.pool} :
       n <= MaxAmount
  /\ a.action = "reschedule" => a.price <= MaxAmount

TeamSizeFits(a) == Cardinality(DOMAIN a.team) \in 1..MaxTeam

-----------------------------------------------------------------------------
(* The database *)

SqlCeiling(a) ==
  IF a.cause = "customer" /\ ~a.waived /\ a.late
  THEN Smaller(Smaller(a.labour \div 2, FeeCap), a.loss)
  ELSE 0

\* Mutant: the charge is taken from the receipts twice.
PoolAfterFee(a) ==
  Smaller(a.fee, OrZero(a.receipts - a.performed - a.fee - a.completed - a.pending))

SqlPoolCeiling(a) == Smaller(a.fee, OrZero(a.receipts - a.performed - a.completed - a.pending))

\* The cleaners' amounts are bounded by their sums, whoever pays.
SqlAccepts(a) ==
  /\ AmountsFit(a)
  /\ a.fee <= SqlCeiling(a)
  /\ a.pool <= SqlPoolCeiling(a)
  /\ a.completed + a.pending <= a.receipts
  /\ TeamSizeFits(a)
  /\ AgreedTotal(a.team) <= MaxAmount /\ ExpenseTotal(a) <= MaxAmount
  /\ a.pool > 0 => AgreedTotal(a.team) > 0

SqlAvailable(a) ==
  LET unspent == OrZero(a.receipts - a.performed - a.fee - a.completed - a.pending)
  IN  IF a.action = "reschedule" THEN OrZero(unspent - a.price) ELSE unspent

-----------------------------------------------------------------------------
(* The page *)

FeeCeiling(a) ==
  IF a.cause = "customer" /\ a.late /\ ~a.waived
  THEN Smaller(a.labour \div 2, Smaller(FeeCap, a.loss))
  ELSE 0

\* Mutant: the whole charge counts as retained, collected or not.
FeeAsRetained(a) == a.fee

RetainedFee(a) == Smaller(a.fee, OrZero(a.receipts - a.performed - a.completed - a.pending))

\* What the business pays of the agreed earnings when it cancels, in percent.
BusinessTier(a) ==
  IF a.stage \in {"arrived", "started"} THEN 100
  ELSE IF a.stage = "travelling" \/ a.late THEN 50 ELSE 0

CompanyShare(a, w) == (a.team[w] * BusinessTier(a) + 99) \div 100

PaidByCompany(a) == SumOver([w \in DOMAIN a.team |-> CompanyShare(a, w)], DOMAIN a.team)

\* Every cleaner's amount is bounded, and what is paid to all of them. What was
\* agreed with all of them is bounded only where a pool is divided by it, which
\* then pays exactly the pool.
JsAccepts(a) ==
  /\ TeamSizeFits(a)
  /\ \A w \in DOMAIN a.team : a.team[w] <= MaxAmount /\ a.expenses[w] <= MaxAmount
  /\ AmountsFit(a)
  /\ a.fee <= FeeCeiling(a)
  /\ a.completed + a.pending <= a.receipts
  /\ a.pool <= RetainedFee(a)
  /\ a.cause = "business" => a.pool = 0 /\ PaidByCompany(a) <= MaxAmount
  /\ a.cause = "customer" => AgreedTotal(a.team) <= MaxAmount
  /\ a.cause = "customer" /\ a.pool > 0 => AgreedTotal(a.team) > 0
  /\ ExpenseTotal(a) <= MaxAmount

\* Mutant: refunds that are still pending are forgotten.
RemainingUnsettled(a) == OrZero(a.receipts - a.performed - RetainedFee(a) - a.completed)

Remaining(a) == OrZero(a.receipts - a.performed - RetainedFee(a) - a.completed - a.pending)

Refundable(a) ==
  IF a.action = "cancel" THEN Remaining(a) ELSE OrZero(Remaining(a) - a.price)

NewBalance(a) == OrZero(a.price - Remaining(a))

BalanceDue(a) == OrZero(a.performed + a.fee - a.receipts + a.completed + a.pending)

-----------------------------------------------------------------------------
(* Largest-remainder division of a pool: allocateCancellationPool *)

Weight(pool, team, w) == pool * team[w]
Floor(pool, team, w) == Weight(pool, team, w) \div AgreedTotal(team)
Remainder(pool, team, w) == Weight(pool, team, w) % AgreedTotal(team)

\* Mutant: the smallest remainder is served first.
RanksAfter(pool, team, v, w) ==
  \/ Remainder(pool, team, v) < Remainder(pool, team, w)
  \/ Remainder(pool, team, v) = Remainder(pool, team, w) /\ v < w

\* Whether v is served before w when the cents left over are given out.
RanksBefore(pool, team, v, w) ==
  \/ Remainder(pool, team, v) > Remainder(pool, team, w)
  \/ Remainder(pool, team, v) = Remainder(pool, team, w) /\ v < w

Rank(pool, team, w) ==
  Cardinality({v \in DOMAIN team : RanksBefore(pool, team, v, w)})

LeftOver(pool, team) ==
  pool - SumOver([w \in DOMAIN team |-> Floor(pool, team, w)], DOMAIN team)

PoolShare(pool, team, w) ==
  IF AgreedTotal(team) = 0 THEN 0
  ELSE Floor(pool, team, w) + IF Rank(pool, team, w) < LeftOver(pool, team) THEN 1 ELSE 0

Compensation(a, w) ==
  IF a.cause = "business" THEN CompanyShare(a, w) ELSE PoolShare(a.pool, a.team, w)

-----------------------------------------------------------------------------
(* Where the two programs differ *)

\* A business cancels early, and pays half of what was agreed or nothing: that
\* fits, while the sum of what was agreed does not.
OnlyShareFits(a) ==
  /\ a.cause = "business" /\ BusinessTier(a) < 100
  /\ PaidByCompany(a) <= MaxAmount /\ AgreedTotal(a.team) > MaxAmount
=============================================================================
