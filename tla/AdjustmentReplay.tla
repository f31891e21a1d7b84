-------------------------- MODULE AdjustmentReplay --------------------------
(***************************************************************************)
(* How a page makes an earnings correction out of its journal:             *)
(* earningsAdjustmentEvent of src/earnings-adjustments.js, one event at a  *)
(* time. The rows of the database are made by other code                   *)
(* (EarningsAdjustments); a journal this code refuses cannot be opened.    *)
(* One source of earnings; its registration is the first event.            *)
(***************************************************************************)
EXTENDS Integers, SequencesExt

CONSTANTS
  Items,        \* keys of the events that propose corrections
  Occurrences,  \* what a correction is about
  None,
  Original,     \* cents earned before any correction
  MaxCents      \* stands for 2147483647

ASSUME AdjustmentReplayAssumption ==
  /\ IsFiniteSet(Items)
  /\ None \notin Items
  /\ MaxCents \in Nat
  /\ Original \in 0..MaxCents

Kinds == {"calculation_correction", "reimbursement", "additional_agreed_work"}

\* What readAdjustmentSource starts from; adjustments are in the order proposed.
NothingRead == [readable |-> TRUE, registered |-> FALSE, revision |-> 0, adjustments |-> <<>>]

IndexOf(page, item) == SelectInSeq(page.adjustments, LAMBDA a : a.id = item)

LastAbout(page, occurrence) ==
  SelectLastInSeq(page.adjustments, LAMBDA a : a.occurrence = occurrence)

\* Mutant: a reimbursement counts as earnings.
TotalWithReimbursements(page) ==
  FoldLeft(LAMBDA sum, a : IF a.status = "approved" THEN sum + a.delta ELSE sum,
           Original, page.adjustments)

CurrentTotal(page) ==
  FoldLeft(LAMBDA sum, a :
             IF a.status = "approved" /\ a.kind # "reimbursement" THEN sum + a.delta ELSE sum,
           Original, page.adjustments)

OldCents(page, e) == IF e.kind = "reimbursement" THEN 0 ELSE CurrentTotal(page)

\* An occurrence is proposed once, and again only as the replacement of its rejected proposal.
ReplacesRejected(page, e) ==
  LET p == LastAbout(page, e.occurrence) IN
  IF p = 0 THEN e.supersedes = None
  ELSE /\ page.adjustments[p].status = "rejected"
       /\ e.supersedes = page.adjustments[p].id

AcceptsProposal(page, e) ==
  /\ e.delta # 0
  /\ e.kind # "calculation_correction" => e.delta > 0
  /\ ReplacesRejected(page, e)
  /\ OldCents(page, e) \in -MaxCents..MaxCents
  /\ OldCents(page, e) + e.delta \in 0..MaxCents

AcceptsChange(page, e) ==
  LET i == IndexOf(page, e.item)
      a == page.adjustments[i]
  IN /\ i # 0
     /\ CASE e.type = "raise_dispute" -> TRUE
          [] e.type = "resolve_dispute" -> a.disputed
          [] e.type = "approve" ->
               a.status = "proposed" /\ ~a.disputed /\ a.revision = page.revision
          [] e.type = "reject" -> a.status = "proposed"
          [] e.type = "freeze_review" ->
               a.status = "approved" /\ ~a.disputed /\ ~a.simulated
          [] e.type = "simulate_settlement" ->
               a.status = "approved" /\ ~a.disputed /\ a.frozen /\ ~a.simulated

Accepts(page, e) ==
  CASE e.type = "register_source" -> ~page.registered
    [] e.type = "propose" -> page.registered /\ AcceptsProposal(page, e)
    [] OTHER -> page.registered /\ AcceptsChange(page, e)

Proposed(page, e) ==
  [id |-> e.item, kind |-> e.kind, delta |-> e.delta, occurrence |-> e.occurrence,
   old |-> OldCents(page, e), new |-> OldCents(page, e) + e.delta,
   revision |-> page.revision, status |-> "proposed",
   disputed |-> FALSE, frozen |-> FALSE, simulated |-> FALSE]

\* A dispute, and its resolution, undo the freeze.
Changed(a, type) ==
  CASE type = "raise_dispute" -> [a EXCEPT !.disputed = TRUE, !.frozen = FALSE]
    [] type = "resolve_dispute" -> [a EXCEPT !.disputed = FALSE, !.frozen = FALSE]
    [] type = "approve" -> [a EXCEPT !.status = "approved"]
    [] type = "reject" -> [a EXCEPT !.status = "rejected"]
    [] type = "freeze_review" -> [a EXCEPT !.frozen = TRUE]
    [] type = "simulate_settlement" -> [a EXCEPT !.simulated = TRUE]

Applied(page, e) ==
  CASE e.type = "register_source" -> [page EXCEPT !.registered = TRUE]
    [] e.type = "propose" -> [page EXCEPT !.adjustments = Append(@, Proposed(page, e))]
    [] OTHER ->
         [page EXCEPT
            !.adjustments[IndexOf(page, e.item)] = Changed(@, e.type),
            !.revision = IF e.type = "approve" THEN @ + 1 ELSE @]

\* An event this code refuses makes the whole history unreadable.
Replayed(page, e) ==
  IF page.readable /\ Accepts(page, e) THEN Applied(page, e)
  ELSE [page EXCEPT !.readable = FALSE]
=============================================================================
