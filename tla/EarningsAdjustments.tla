------------------------ MODULE EarningsAdjustments ------------------------
(***************************************************************************)
(* Corrections of one cleaner's earnings for one booking: the rows of      *)
(* database/earnings-adjustments-draft.sql and its one function, which     *)
(* locks the source, refuses a version that is not the saved one, changes  *)
(* the rows and appends an event. A post that is refused is not a step.    *)
(*                                                                         *)
(* `page` is what replaying the journal gives (AdjustmentReplay). Roles,   *)
(* evidence texts and the original period are left out.                    *)
(***************************************************************************)
EXTENDS AdjustmentReplay, FiniteSetsExt

CONSTANTS
  Corrections,  \* records [kind, delta] the office may propose
  MaxJournal    \* bound on the events of the source

ASSUME EarningsAdjustmentsAssumption ==
  /\ Corrections \subseteq [kind : Kinds, delta : Int]
  /\ MaxJournal \in Nat

VARIABLES
  source,   \* adjustment_review_sources: version 0 is not registered
  item,     \* adjustment_review_items
  page      \* what a page reads from the journal

adjustmentVars == <<source, item, page>>

Statuses == {"none", "proposed", "approved", "rejected"}

\* at: the version of the event that proposed it.
Item ==
  [status : Statuses, kind : Kinds, delta : Int, occurrence : Occurrences \cup {None},
   old : Int, new : Int, revision : Nat, at : Nat,
   disputed : BOOLEAN, frozen : BOOLEAN, simulated : BOOLEAN, claimed : BOOLEAN]

NoItem ==
  [status |-> "none", kind |-> "reimbursement", delta |-> 0, occurrence |-> None,
   old |-> 0, new |-> 0, revision |-> 0, at |-> 0,
   disputed |-> FALSE, frozen |-> FALSE, simulated |-> FALSE, claimed |-> FALSE]

AdjustmentTypeOK ==
  /\ source \in [version : Nat, revision : Nat]
  /\ item \in [Items -> Item]

AdjustmentInit ==
  /\ source = [version |-> 0, revision |-> 0]
  /\ item = [i \in Items |-> NoItem]
  /\ page = NothingRead

Exists(i) == item[i].status # "none"

\* The event is appended and the version of the source goes up in the same transaction.
Recorded(e, revision) ==
  /\ source.version < MaxJournal
  /\ source' = [version |-> source.version + 1, revision |-> revision]
  /\ page' = Replayed(page, e)

RegisterSource ==
  /\ source.version = 0
  /\ Recorded([type |-> "register_source"], 0)
  /\ UNCHANGED item

ApprovedDeltas == {i \in Items : item[i].status = "approved" /\ item[i].kind # "reimbursement"}

\* What the cleaner earns with the corrections approved so far.
Earned == Original + MapThenSumSet(LAMBDA i : item[i].delta, ApprovedDeltas)

About(occurrence) == {i \in Items : Exists(i) /\ item[i].occurrence = occurrence}

\* i is the latest proposal about its occurrence.
Latest(i) == \A j \in About(item[i].occurrence) : item[j].at <= item[i].at

\* Only the rejected latest proposal about an occurrence is replaced, and by name.
LinkedReplacement(occurrence, supersedes) ==
  IF About(occurrence) = {} THEN supersedes = None
  ELSE /\ supersedes \in About(occurrence)
       /\ Latest(supersedes)
       /\ item[supersedes].status = "rejected"

\* What it starts from and what it leads to fit the columns old_cents and new_cents.
Propose(i, c, occurrence, supersedes) ==
  LET old == IF c.kind = "reimbursement" THEN 0 ELSE Earned IN
  /\ source.version > 0
  /\ ~Exists(i)
  /\ c.delta # 0
  /\ c.kind # "calculation_correction" => c.delta > 0
  /\ LinkedReplacement(occurrence, supersedes)
  /\ old \in (-MaxCents - 1)..MaxCents
  /\ old + c.delta \in 0..MaxCents
  /\ item' = [item EXCEPT ![i] =
       [status |-> "proposed", kind |-> c.kind, delta |-> c.delta, occurrence |-> occurrence,
        old |-> old, new |-> old + c.delta, revision |-> source.revision,
        at |-> source.version + 1, disputed |-> FALSE, frozen |-> FALSE,
        simulated |-> FALSE, claimed |-> FALSE]]
  /\ Recorded([type |-> "propose", item |-> i, kind |-> c.kind, delta |-> c.delta,
               occurrence |-> occurrence, supersedes |-> supersedes], source.revision)

\* raise_dispute and request_review: whatever the status, the freeze is gone.
RaiseDispute(i) ==
  /\ Exists(i)
  /\ item' = [item EXCEPT ![i].disputed = TRUE, ![i].frozen = FALSE]
  /\ Recorded([type |-> "raise_dispute", item |-> i], source.revision)

ResolveDispute(i) ==
  /\ Exists(i)
  /\ item[i].disputed
  /\ item' = [item EXCEPT ![i].disputed = FALSE, ![i].frozen = FALSE]
  /\ Recorded([type |-> "resolve_dispute", item |-> i], source.revision)

\* Mutant: the proposal may have been made before another correction was approved.
StaleBasis(i) == item[i].status = "proposed" /\ ~item[i].disputed

\* An undisputed proposal made against the source as it is now.
CurrentProposal(i) ==
  /\ item[i].status = "proposed"
  /\ ~item[i].disputed
  /\ item[i].revision = source.revision

\* Named apart from the approval of a statement.
ApproveCorrection(i) ==
  /\ CurrentProposal(i)
  /\ item' = [item EXCEPT ![i].status = "approved"]
  /\ Recorded([type |-> "approve", item |-> i], source.revision + 1)

Reject(i) ==
  /\ item[i].status = "proposed"
  /\ item' = [item EXCEPT ![i].status = "rejected"]
  /\ Recorded([type |-> "reject", item |-> i], source.revision)

FreezeReview(i) ==
  /\ item[i].status = "approved"
  /\ ~item[i].disputed
  /\ ~item[i].simulated
  /\ item' = [item EXCEPT ![i].frozen = TRUE]
  /\ Recorded([type |-> "freeze_review", item |-> i], source.revision)

\* Settled alone (simulate_settlement), unless a monthly statement has claimed it:
\* the trigger audit.guard_monthly_adjustment_simulation.
Simulate(i) ==
  /\ item[i].status = "approved"
  /\ ~item[i].disputed
  /\ item[i].frozen
  /\ ~item[i].simulated
  /\ ~item[i].claimed
  /\ item' = [item EXCEPT ![i].simulated = TRUE]
  /\ Recorded([type |-> "simulate_settlement", item |-> i], source.revision)

\* A post sent again, or twice, finds its key in the journal and changes nothing.
RepeatedPost ==
  /\ source.version > 0
  /\ UNCHANGED adjustmentVars

AdjustmentNext ==
  \/ RegisterSource \/ RepeatedPost
  \/ \E i \in Items :
       \/ \E c \in Corrections, occurrence \in Occurrences, supersedes \in Items \cup {None} :
            Propose(i, c, occurrence, supersedes)
       \/ RaiseDispute(i) \/ ResolveDispute(i)
       \/ ApproveCorrection(i) \/ Reject(i)
       \/ FreezeReview(i) \/ Simulate(i)

AdjustmentSpec == AdjustmentInit /\ [][AdjustmentNext]_adjustmentVars

-----------------------------------------------------------------------------
(* What reviewing corrections must guarantee. *)

\* However corrections are proposed, rejected, replaced and approved, and in
\* whatever order, those that are approved never take the cleaner's earnings
\* below zero or beyond the column that holds them, although each was only
\* checked against the corrections approved when it was proposed.
EarningsStayInRange == Earned \in 0..MaxCents

\* What happened once is corrected once: an occurrence has at most one proposal
\* that is not rejected, whatever chain of replacements came before it.
CorrectedOnce ==
  \A i, j \in Items :
    /\ Exists(i) /\ Exists(j) /\ i # j
    /\ item[i].occurrence = item[j].occurrence
    => "rejected" \in {item[i].status, item[j].status}

\* Every history the database accepts can be opened, and the page that replays
\* it shows each correction with the amounts and the state its row has.
HistoryReads ==
  /\ page.readable
  /\ page.revision = source.revision
  /\ Len(page.adjustments) = Cardinality({i \in Items : Exists(i)})
  /\ \A n \in DOMAIN page.adjustments :
       LET a == page.adjustments[n]
           r == item[a.id]
       IN /\ Exists(a.id)
          /\ <<a.status, a.kind, a.delta, a.occurrence, a.revision>>
               = <<r.status, r.kind, r.delta, r.occurrence, r.revision>>
          /\ <<a.old, a.new, a.disputed, a.frozen, a.simulated>>
               = <<r.old, r.new, r.disputed, r.frozen, r.simulated>>
=============================================================================
