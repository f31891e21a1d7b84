-------------------------- MODULE MonthlySettlements --------------------------
(***************************************************************************)
(* The monthly statements of one cleaner: the statements, transfers and    *)
(* claims of database/monthly-settlements-draft.sql, with the corrections  *)
(* they may claim (EarningsAdjustments), whose rows they lock and mark.    *)
(* One SQL function makes every change; it locks the statement and refuses *)
(* a version that is not the saved one, so what it is asked is about the   *)
(* statement as it is. A post that is refused or repeated is not a step.   *)
(*                                                                         *)
(* What a line is worth is what the office enters as outstanding. Roles,   *)
(* evidence texts, periods and the dates of the month are left out.        *)
(***************************************************************************)
EXTENDS EarningsAdjustments

CONSTANTS
  Statements,    \* one per closed month
  Earnings,      \* visits, cancelled bookings, pools and costs a line may be about
  KindOf,        \* the kind of each
  CentsOf,       \* what is outstanding of each
  MaxLines,      \* of a statement: 200 in the code
  MaxTransfers   \* bound on the transfers of all statements together

LineKinds == {"visit", "company_cancellation", "customer_pool", "reimbursement"}

ASSUME MonthlySettlementsAssumption ==
  /\ Earnings \cap Items = {}
  /\ KindOf \in [Earnings -> LineKinds]
  /\ CentsOf \in [Earnings -> Nat]
  /\ MaxLines \in Nat
  /\ MaxTransfers \in Nat

VARIABLES
  statement,   \* settlement_review_statements.state
  claims       \* settlement_review_claims: what is in some statement

statementVars == <<statement, claims>>
vars == <<source, item, page, statement, claims>>

-----------------------------------------------------------------------------
(* A statement *)

Outcomes == {"submitted", "unknown", "failed", "partial", "cleared"}

\* about: what the line pays, an earning or a correction. collected: FALSE
\* only for a pool the customers have not paid yet.
Line ==
  [about : Earnings \cup Items, correction : BOOLEAN, cents : Int,
   collected : BOOLEAN, disputed : BOOLEAN]

Freezes == [total : Int, linked : UNION {[S -> Nat] : S \in SUBSET Items}]

\* remaining and allocations: cents of each line in the transfer, by its number.
TransferOK(t) ==
  /\ DOMAIN t = {"amount", "cleared", "outcome", "uncertain", "remaining", "allocations"}
  /\ t.amount \in Int /\ t.cleared \in Int
  /\ t.outcome \in Outcomes
  /\ t.uncertain \in BOOLEAN

StatementOK(st) ==
  /\ DOMAIN st = {"created", "lines", "transfers", "freeze", "approval", "provided"}
  /\ st.created \in BOOLEAN /\ st.provided \in BOOLEAN
  /\ st.lines \in Seq(Line)
  /\ Len(st.transfers) \in Nat /\ DOMAIN st.transfers = 1..Len(st.transfers)
  /\ \A k \in DOMAIN st.transfers : TransferOK(st.transfers[k])
  /\ st.freeze \in Freezes \cup {None}
  /\ st.approval \in Int \cup {None}

TypeOK ==
  /\ AdjustmentTypeOK
  /\ DOMAIN statement = Statements
  /\ \A s \in Statements : StatementOK(statement[s])
  /\ claims \subseteq Earnings \cup Items

NoStatement ==
  [created |-> FALSE, lines |-> <<>>, transfers |-> <<>>,
   freeze |-> None, approval |-> None, provided |-> FALSE]

Init ==
  /\ AdjustmentInit
  /\ statement = [s \in Statements |-> NoStatement]
  /\ claims = {}

\* Lines that are paid now: not disputed, and collected.
Eligible(lines) == {n \in DOMAIN lines : ~lines[n].disputed /\ lines[n].collected}

\* Mutant: only what the last transfer cleared of a line counts.
AllocatedLast(transfers, n) ==
  LET t == transfers[Len(transfers)] IN
  IF transfers # <<>> /\ n \in DOMAIN t.allocations THEN t.allocations[n] ELSE 0

\* What transfers so far have cleared of a line.
Allocated(transfers, n) ==
  MapThenSumSet(LAMBDA t : transfers[t].allocations[n],
                {t \in DOMAIN transfers : n \in DOMAIN transfers[t].allocations})

Total(lines) == MapThenSumSet(LAMBDA n : lines[n].cents, Eligible(lines))

Credited(st) == MapThenSumSet(LAMBDA n : Allocated(st.transfers, n), Eligible(st.lines))

\* What a transfer sent now would pay of each line.
RemainingLines(st) ==
  [n \in {k \in Eligible(st.lines) : st.lines[k].cents # Allocated(st.transfers, k)} |->
     st.lines[n].cents - Allocated(st.transfers, n)]

Linked(lines) == {lines[n].about : n \in {k \in Eligible(lines) : lines[k].correction}}

\* The corrections to be paid are as they were when they were claimed.
LinkedIntact(lines) ==
  \A n \in Eligible(lines) :
    lines[n].correction =>
      LET a == item[lines[n].about] IN
      a.status = "approved" /\ ~a.disputed /\ a.frozen /\ ~a.simulated /\ a.delta = lines[n].cents

LinkedVersions(lines) == [i \in Linked(lines) |-> source.version]

\* Common to freezing, approving and submitting.
Payable(st) ==
  /\ LinkedIntact(st.lines)
  /\ Total(st.lines) \in 0..MaxCents
  /\ Total(st.lines) >= Credited(st)

-----------------------------------------------------------------------------
(* Preparing *)

Saved(s, st) == statement' = [statement EXCEPT ![s] = st]

Create(s) ==
  /\ ~statement[s].created
  /\ Saved(s, [statement[s] EXCEPT !.created = TRUE])
  /\ UNCHANGED <<source, item, page, claims>>

\* Lines are prepared before the freeze and before any transfer.
OpenForLines(st) ==
  st.created /\ st.freeze = None /\ st.transfers = <<>> /\ Len(st.lines) < MaxLines

WithLine(st, line) ==
  [st EXCEPT !.lines = Append(@, line), !.approval = None, !.provided = FALSE]

\* Mutant: a claim binds the statement only.
UnclaimedHere(s, o) == \A n \in DOMAIN statement[s].lines : statement[s].lines[n].about # o

\* The primary key of settlement_review_claims spans the statements.
Unclaimed(s, o) == o \notin claims

\* Only a pool may still have to be collected.
AddLine(s, e, collected) ==
  /\ OpenForLines(statement[s])
  /\ KindOf[e] # "customer_pool" => collected
  /\ Unclaimed(s, e)
  /\ Saved(s, WithLine(statement[s],
       [about |-> e, correction |-> FALSE, cents |-> CentsOf[e],
        collected |-> collected, disputed |-> FALSE]))
  /\ claims' = claims \cup {e}
  /\ UNCHANGED <<source, item, page>>

\* Mutant: a correction that was settled alone may still be claimed.
ClaimableTwice(i) ==
  item[i].status = "approved" /\ ~item[i].disputed /\ item[i].frozen /\ ~item[i].claimed

Claimable(i) ==
  /\ item[i].status = "approved"
  /\ ~item[i].disputed
  /\ item[i].frozen
  /\ ~item[i].simulated
  /\ ~item[i].claimed

AddCorrection(s, i) ==
  /\ OpenForLines(statement[s])
  /\ Claimable(i)
  /\ Unclaimed(s, i)
  /\ Saved(s, WithLine(statement[s],
       [about |-> i, correction |-> TRUE, cents |-> item[i].delta,
        collected |-> TRUE, disputed |-> FALSE]))
  /\ item' = [item EXCEPT ![i].claimed = TRUE]
  /\ claims' = claims \cup {i}
  /\ UNCHANGED <<source, page>>

\* Mutant: what the owner approved survives the change.
StillApproved(st) == [st EXCEPT !.freeze = None, !.provided = FALSE]

\* A change to what is eligible undoes the freeze, the approval and the evidence.
Reopened(st) == [st EXCEPT !.freeze = None, !.approval = None, !.provided = FALSE]

CollectPool(s, n) ==
  /\ n \in DOMAIN statement[s].lines
  /\ ~statement[s].lines[n].collected
  /\ Saved(s, Reopened([statement[s] EXCEPT !.lines[n].collected = TRUE]))
  /\ UNCHANGED <<source, item, page, claims>>

Dispute(s, n) ==
  /\ n \in DOMAIN statement[s].lines
  /\ Saved(s, Reopened([statement[s] EXCEPT !.lines[n].disputed = TRUE]))
  /\ UNCHANGED <<source, item, page, claims>>

Resolve(s, n) ==
  /\ n \in DOMAIN statement[s].lines
  /\ statement[s].lines[n].disputed
  /\ Saved(s, Reopened([statement[s] EXCEPT !.lines[n].disputed = FALSE]))
  /\ UNCHANGED <<source, item, page, claims>>

-----------------------------------------------------------------------------
(* Paying *)

Freeze(s) ==
  LET st == statement[s] IN
  /\ st.lines # <<>>
  /\ Payable(st)
  /\ Saved(s, [st EXCEPT
       !.freeze = [total |-> Total(st.lines), linked |-> LinkedVersions(st.lines)],
       !.approval = None, !.provided = FALSE])
  /\ UNCHANGED <<source, item, page, claims>>

\* The freeze is of the statement, and of the linked corrections, as they are now.
FreezeCurrent(st) ==
  /\ st.freeze # None
  /\ st.freeze.total = Total(st.lines)
  /\ st.freeze.linked = LinkedVersions(st.lines)

Approve(s) ==
  LET st == statement[s] IN
  /\ Payable(st)
  /\ FreezeCurrent(st)
  /\ Saved(s, [st EXCEPT !.approval = Total(st.lines)])
  /\ UNCHANGED <<source, item, page, claims>>

\* Mutant: an uncertain transfer does not hold up the next one.
NeverWaits(st) == TRUE

NothingUncertain(st) == \A t \in DOMAIN st.transfers : ~st.transfers[t].uncertain

MaySubmit(st, amount) ==
  /\ Payable(st)
  /\ st.freeze # None
  /\ st.approval = Total(st.lines)
  /\ st.freeze.linked = LinkedVersions(st.lines)
  /\ NothingUncertain(st)
  /\ amount \in 1..MaxCents
  /\ amount = Total(st.lines) - Credited(st)

Transfers == MapThenSumSet(LAMBDA s : Len(statement[s].transfers), Statements)

Submit(s) ==
  LET st == statement[s]
      amount == Total(st.lines) - Credited(st)
  IN
  /\ Transfers < MaxTransfers
  /\ MaySubmit(st, amount)
  /\ Saved(s, [st EXCEPT !.provided = FALSE, !.transfers = Append(@,
       [amount |-> amount, cleared |-> 0, outcome |-> "submitted", uncertain |-> TRUE,
        remaining |-> RemainingLines(st), allocations |-> <<>>])])
  /\ UNCHANGED <<source, item, page, claims>>

Previously(t, n) == IF n \in DOMAIN t.allocations THEN t.allocations[n] ELSE 0

\* Mutant: what was allocated to a line may be taken back.
UpToSent(t, n) == IF t.remaining[n] >= 0 THEN 0..t.remaining[n] ELSE t.remaining[n]..0

\* What has cleared of a line is never taken back, nor more cleared than was sent.
MayClear(t, n) ==
  IF t.remaining[n] >= 0 THEN Previously(t, n)..t.remaining[n]
  ELSE t.remaining[n]..Previously(t, n)

Allocations(t) ==
  {f \in [DOMAIN t.remaining -> UNION {MayClear(t, n) : n \in DOMAIN t.remaining}] :
     \A n \in DOMAIN f : f[n] \in MayClear(t, n)}

\* What the bank says agrees with the amount it cleared and the lines it went to.
Consistent(t, outcome, failed, cleared, allocations) ==
  /\ cleared \in t.cleared..t.amount
  /\ CASE outcome \in {"unknown", "failed"} -> cleared = 0
       [] outcome = "partial" -> cleared > 0 /\ cleared < t.amount
       [] outcome = "cleared" -> cleared = t.amount /\ allocations = t.remaining
  /\ outcome \in {"unknown", "cleared"} => ~failed
  /\ outcome = "failed" => failed
  /\ cleared = 0 => \A n \in DOMAIN allocations : allocations[n] = 0

StaysUncertain(outcome, failed) == outcome = "unknown" \/ (outcome = "partial" /\ ~failed)

Reconciled(st, k, new) == [st EXCEPT !.transfers[k] = new, !.provided = FALSE]

\* A transfer that is no longer uncertain is never changed.
Reconcile(s, k, outcome, failed) ==
  LET t == statement[s].transfers[k] IN
  /\ k \in DOMAIN statement[s].transfers
  /\ t.uncertain
  /\ \E allocations \in Allocations(t) :
       LET cleared == MapThenSumSet(LAMBDA n : allocations[n], DOMAIN allocations) IN
       /\ Consistent(t, outcome, failed, cleared, allocations)
       /\ Saved(s, Reconciled(statement[s], k,
            [t EXCEPT !.cleared = cleared, !.allocations = allocations,
                      !.outcome = outcome, !.uncertain = StaysUncertain(outcome, failed)]))
  /\ UNCHANGED <<source, item, page, claims>>

ProvideStatement(s) ==
  /\ statement[s].approval # None
  /\ Saved(s, [statement[s] EXCEPT !.provided = TRUE])
  /\ UNCHANGED <<source, item, page, claims>>

-----------------------------------------------------------------------------
Prepare(s) ==
  \/ Create(s)
  \/ \E e \in Earnings, collected \in BOOLEAN : AddLine(s, e, collected)
  \/ \E i \in Items : AddCorrection(s, i)
  \/ \E n \in 1..MaxLines :
       CollectPool(s, n) \/ Dispute(s, n) \/ Resolve(s, n)

Pay(s) ==
  \/ Freeze(s) \/ Approve(s) \/ Submit(s) \/ ProvideStatement(s)
  \/ \E k \in 1..MaxTransfers, outcome \in Outcomes \ {"submitted"}, failed \in BOOLEAN :
       Reconcile(s, k, outcome, failed)

Next ==
  \/ AdjustmentNext /\ UNCHANGED statementVars
  \/ \E s \in Statements : Prepare(s) \/ Pay(s)

Spec == Init /\ [][Next]_vars

-----------------------------------------------------------------------------
(* settlementSummary of src/monthly-settlements.js *)

ShownTotal(st) ==
  FoldLeft(LAMBDA sum, l : IF ~l.disputed /\ l.collected THEN sum + l.cents ELSE sum, 0, st.lines)

ShownCredited(st) ==
  FoldLeft(LAMBDA sum, t :
             sum + MapThenSumSet(LAMBDA n : Previously(t, n), Eligible(st.lines)),
           0, st.transfers)

ShownOutstanding(st) == ShownTotal(st) - ShownCredited(st)

\* When the page offers a transfer, filled in with what is outstanding.
OffersTransfer(st) ==
  /\ st.approval # None
  /\ ~\E t \in DOMAIN st.transfers : st.transfers[t].uncertain
  /\ ShownOutstanding(st) > 0

-----------------------------------------------------------------------------
(* What monthly statements must guarantee. *)

LinesAbout(o) ==
  UNION {{<<s, n>> : n \in {k \in DOMAIN statement[s].lines : statement[s].lines[k].about = o}} :
           s \in Statements}

\* What the statements have recorded as cleared of o.
ClearedOf(o) ==
  MapThenSumSet(LAMBDA l : Allocated(statement[l[1]].transfers, l[2]), LinesAbout(o))

SettledAlone(o) == IF o \in Items /\ item[o].simulated THEN item[o].delta ELSE 0

DueOf(o) ==
  IF o \in Earnings THEN CentsOf[o]
  ELSE IF item[o].status = "approved" THEN item[o].delta ELSE 0

Ledger ==
  INSTANCE PayLedger WITH
    Owed <- Earnings \cup Items,
    due <- [o \in Earnings \cup Items |-> DueOf(o)],
    paid <- [o \in Earnings \cup Items |-> SettledAlone(o) + ClearedOf(o)]

\* Nothing is paid twice or too much: over all statements, transfers that fail,
\* clear in part or stay unknown, disputes that take lines out and put them back,
\* and corrections settled on their own, what has cleared of each visit, pool or
\* correction only moves towards what it is worth and never past it.
PaysOnce == Ledger!Spec

\* What the owner approved is what the statement says: as long as an approval
\* stands, the lines that are eligible add up to the approved total, also after
\* disputes, resolutions and collections in between.
ApprovalCurrent ==
  \A s \in Statements :
    statement[s].approval # None =>
      /\ statement[s].freeze # None
      /\ statement[s].approval = statement[s].freeze.total
      /\ statement[s].approval = Total(statement[s].lines)

\* The evidence that the cleaner was given the statement never outlives its
\* figures: while it stands no line and no transfer has changed.
EvidenceIsCurrent ==
  [][\A s \in Statements :
       statement[s].provided /\ statement'[s].provided =>
         /\ statement'[s].lines = statement[s].lines
         /\ statement'[s].transfers = statement[s].transfers]_vars

\* A transfer the page offers, with the amount it fills in from its own sums, is
\* accepted by the database, unless a linked correction was touched since the freeze
\* or the amount is none a transfer can have: more than the statement is outstanding
\* where a reduction was paid with a line that is disputed since.
OfferIsAccepted ==
  \A s \in Statements :
    LET st == statement[s] IN
    /\ OffersTransfer(st)
    /\ ShownOutstanding(st) <= MaxCents
    /\ LinkedIntact(st.lines)
    /\ st.freeze # None => st.freeze.linked = LinkedVersions(st.lines)
    => MaySubmit(st, ShownOutstanding(st))
=============================================================================
