----------------------------- MODULE InvoiceSync -----------------------------
(***************************************************************************)
(* Checking the invoices of one business against its accounting provider:  *)
(* the invoice and connection rows of database/invoices-draft.sql, the     *)
(* office's attempts (syncInvoice in src/invoices.js), which claim, ask    *)
(* the provider and finish, and the adapter of src/zoho-books.js between.  *)
(*                                                                         *)
(* There is no lease to renew and no fence before the POST: a claim older  *)
(* than two minutes is taken over while the first attempt may still run.   *)
(* SQL functions lock the rows they read, so each is one step; so is each  *)
(* HTTP exchange. Invoices that carry VAT are never claimed and left out.  *)
(***************************************************************************)
EXTENDS Naturals, FiniteSets

CONSTANTS
  Invoices,        \* one per booking
  Organisations,   \* accounting organisations the owner may configure
  Customers,       \* provider customers the office may choose
  Workers,         \* concurrent attempts
  Unbound, NoInvoice,
  MaxAttempts, MaxVersion   \* bounds on claims of an invoice and on saves of the connection

ASSUME InvoiceSyncAssumption ==
  /\ Unbound \notin Organisations \cup Customers
  /\ NoInvoice \notin Invoices
  /\ MaxAttempts \in Nat /\ MaxVersion \in Nat

VARIABLES
  cancelled,   \* invoices whose booking is cancelled
  connection,  \* business_accounting_connections: version 0 is no row
  invoice,     \* business_invoices
  worker,      \* local state of each attempt
  drafts       \* drafts the provider has recorded for each invoice, ever

vars == <<cancelled, connection, invoice, worker, drafts>>

SyncStatuses == {"none", "not_synced", "syncing", "matched", "failed", "review_required"}
Outcomes == {"matched", "failed", "review_required"}
Modes == {"create", "reconcile"}

\* late: the attempt started two minutes ago or more. linked: external_invoice_id is set.
Invoice ==
  [status : SyncStatuses, organisation : Organisations \cup {Unbound},
   customer : Customers \cup {Unbound}, linked : BOOLEAN, attempt : Nat, late : BOOLEAN]

Worker ==
  [at : {"idle", "claimed", "posting", "answered"}, invoice : Invoices \cup {NoInvoice},
   attempt : Nat, mode : Modes, linked : BOOLEAN, outcome : Outcomes]

Connection ==
  [version : Nat, organisation : Organisations \cup {Unbound}, enabled : BOOLEAN]

TypeOK ==
  /\ cancelled \subseteq Invoices
  /\ connection \in Connection
  /\ invoice \in [Invoices -> Invoice]
  /\ worker \in [Workers -> Worker]
  /\ drafts \in [Invoices -> Nat]

NewInvoice ==
  [status |-> "none", organisation |-> Unbound, customer |-> Unbound, linked |-> FALSE,
   attempt |-> 0, late |-> FALSE]

Idle ==
  [at |-> "idle", invoice |-> NoInvoice, attempt |-> 0, mode |-> "reconcile",
   linked |-> FALSE, outcome |-> "review_required"]

Init ==
  /\ cancelled = {}
  /\ connection = [version |-> 0, organisation |-> Unbound, enabled |-> FALSE]
  /\ invoice = [i \in Invoices |-> NewInvoice]
  /\ worker = [w \in Workers |-> Idle]
  /\ drafts = [i \in Invoices |-> 0]

-----------------------------------------------------------------------------
(* The office *)

BookingCancelled(i) ==
  /\ cancelled' = cancelled \cup {i}
  /\ UNCHANGED <<connection, invoice, worker, drafts>>

\* Preparing again returns the invoice there is.
PrepareInvoice(i) ==
  /\ invoice[i].status = "none"
  /\ i \notin cancelled
  /\ invoice' = [invoice EXCEPT ![i].status = "not_synced"]
  /\ UNCHANGED <<cancelled, connection, worker, drafts>>

\* An attempt, even a failed one, pins the identity of the connection.
Pinned == \E i \in Invoices : invoice[i].organisation # Unbound

ConfigureAccounting(version, organisation, enabled) ==
  /\ version = connection.version
  /\ version < MaxVersion
  /\ organisation # connection.organisation => ~Pinned
  /\ connection' = [version |-> version + 1, organisation |-> organisation, enabled |-> enabled]
  /\ UNCHANGED <<cancelled, invoice, worker, drafts>>

-----------------------------------------------------------------------------
(* An attempt *)

\* Mutant: an attempt that never finished is started over.
ModeOfFinished(v) ==
  IF v.status \in {"matched", "review_required"} \/ v.linked THEN "reconcile" ELSE "create"

\* Only an invoice no draft can exist for is created.
ModeOf(v) ==
  IF v.status \in {"matched", "review_required", "syncing"} \/ v.linked
  THEN "reconcile" ELSE "create"

Claim(w, i, customer) ==
  LET v == invoice[i] IN
  /\ worker[w].at = "idle"
  /\ connection.version > 0
  /\ connection.enabled
  /\ v.status # "none"
  /\ i \notin cancelled
  /\ ~(v.status = "syncing" /\ ~v.late)
  /\ v.organisation # Unbound =>
       v.organisation = connection.organisation /\ v.customer = customer
  /\ v.attempt < MaxAttempts
  /\ invoice' = [invoice EXCEPT ![i] =
       [v EXCEPT !.status = "syncing", !.organisation = connection.organisation,
                 !.customer = customer, !.attempt = v.attempt + 1, !.late = FALSE]]
  /\ worker' = [worker EXCEPT ![w] =
       [Idle EXCEPT !.at = "claimed", !.invoice = i, !.attempt = v.attempt + 1,
                    !.mode = ModeOf(v), !.linked = v.linked]]
  /\ UNCHANGED <<cancelled, connection, drafts>>

\* Two minutes pass on the database clock.
TurnsLate(i) ==
  /\ invoice[i].status = "syncing"
  /\ ~invoice[i].late
  /\ invoice' = [invoice EXCEPT ![i].late = TRUE]
  /\ UNCHANGED <<cancelled, connection, worker, drafts>>

\* Mutant: what happened is judged by the error alone.
OutcomeByError(mode, posted, uncertain) == IF uncertain THEN "review_required" ELSE "failed"

\* The catch of sync: only an attempt that neither posted nor met anything
\* uncertain may say "failed".
OutcomeOf(mode, posted, uncertain) ==
  IF posted \/ uncertain \/ mode = "reconcile" THEN "review_required" ELSE "failed"

Answer(w, outcome) == worker' = [worker EXCEPT ![w].at = "answered", ![w].outcome = outcome]

\* verifiedReceipt: the record read equals the saved agreement, or is a mismatch.
Verified(w, posted) ==
  Answer(w, "matched") \/ Answer(w, OutcomeOf(worker[w].mode, posted, TRUE))

\* Credentials, organisation or customer are wrong, or the provider is down.
Unavailable(w) ==
  /\ worker[w].at = "claimed"
  /\ Answer(w, OutcomeOf(worker[w].mode, FALSE, FALSE))
  /\ UNCHANGED <<cancelled, connection, invoice, drafts>>

\* A linked invoice is read by its provider identity.
ReadLinked(w) ==
  /\ worker[w].at = "claimed"
  /\ worker[w].linked
  /\ Verified(w, FALSE)
  /\ UNCHANGED <<cancelled, connection, invoice, drafts>>

\* Otherwise drafts are searched by reference: the search may lag behind what
\* was recorded, and staff may have deleted a draft.
Search(w) ==
  LET i == worker[w].invoice IN
  /\ worker[w].at = "claimed"
  /\ ~worker[w].linked
  /\ \E found \in {0, drafts[i]} :
       \/ found > 1 /\ Answer(w, OutcomeOf(worker[w].mode, FALSE, TRUE))
       \/ found = 1 /\ Verified(w, FALSE)
       \/ /\ found = 0 /\ worker[w].mode = "reconcile"
          /\ Answer(w, OutcomeOf(worker[w].mode, FALSE, TRUE))
       \/ /\ found = 0 /\ worker[w].mode = "create"
          /\ worker' = [worker EXCEPT ![w].at = "posting"]
  /\ UNCHANGED <<cancelled, connection, invoice, drafts>>

\* The POST is lost on the way, or recorded and its answer lost or read back.
Post(w) ==
  LET i == worker[w].invoice IN
  /\ worker[w].at = "posting"
  /\ \/ Answer(w, OutcomeOf(worker[w].mode, TRUE, FALSE)) /\ UNCHANGED drafts
     \/ /\ drafts' = [drafts EXCEPT ![i] = @ + 1]
        /\ Verified(w, TRUE) \/ Answer(w, OutcomeOf(worker[w].mode, TRUE, FALSE))
  /\ UNCHANGED <<cancelled, connection, invoice>>

\* The server process dies, or finish_invoice_sync refuses the attempt: it was
\* taken over, or its actor lost access. The row keeps what was committed.
Abandon(w) ==
  /\ worker[w].at # "idle"
  /\ worker' = [worker EXCEPT ![w] = Idle]
  /\ UNCHANGED <<cancelled, connection, invoice, drafts>>

\* Mutant: whoever answers while the invoice is being checked decides.
UnfencedFinish(w) == invoice[worker[w].invoice].status = "syncing"

FinishFence(w) ==
  LET v == invoice[worker[w].invoice] IN
  v.status = "syncing" /\ v.attempt = worker[w].attempt

Finish(w) ==
  /\ worker[w].at = "answered"
  /\ FinishFence(w)
  /\ invoice' = [invoice EXCEPT
       ![worker[w].invoice].status = worker[w].outcome,
       ![worker[w].invoice].linked = @ \/ worker[w].outcome = "matched"]
  /\ worker' = [worker EXCEPT ![w] = Idle]
  /\ UNCHANGED <<cancelled, connection, drafts>>

Next ==
  \/ \E i \in Invoices :
       \/ BookingCancelled(i) \/ PrepareInvoice(i) \/ TurnsLate(i)
       \/ \E w \in Workers, c \in Customers : Claim(w, i, c)
  \/ \E n \in 0..MaxVersion, o \in Organisations, e \in BOOLEAN : ConfigureAccounting(n, o, e)
  \/ \E w \in Workers :
       Unavailable(w) \/ ReadLinked(w) \/ Search(w) \/ Post(w) \/ Abandon(w) \/ Finish(w)

Spec == Init /\ [][Next]_vars

-----------------------------------------------------------------------------
(* What checking invoices must guarantee. *)

\* However attempts hang past their two minutes, are taken over, crash or lose
\* the answer of a POST, the provider records at most one draft per invoice.
AtMostOneDraft == \A i \in Invoices : drafts[i] <= 1

\* An invoice reads "matched" only when its draft was really recorded.
MatchedIsReal ==
  \A i \in Invoices : invoice[i].status = "matched" \/ invoice[i].linked => drafts[i] = 1

\* A recorded draft is never hidden behind "not synced" or "failed", the states
\* from which the office may create: it is being checked, matched or in review.
DraftStaysVisible ==
  \A i \in Invoices :
    drafts[i] > 0 => invoice[i].status \in {"syncing", "matched", "review_required"}

\* Every attempt was made against the organisation the business has now, so no
\* draft is ever stranded in an organisation that is no longer asked.
AttemptsShareConnection ==
  \A i \in Invoices :
    invoice[i].organisation # Unbound => invoice[i].organisation = connection.organisation

\* Whatever was decided about an invoice was decided by its latest attempt: an
\* attempt that was taken over never overwrites the verdict of its successor.
LatestAttemptDecides ==
  [][\A i \in Invoices :
       invoice[i].status = "syncing" /\ invoice'[i].status # "syncing" =>
         \E w \in Workers :
           /\ worker[w].at = "answered"
           /\ worker[w].invoice = i
           /\ worker[w].attempt = invoice[i].attempt
           /\ invoice'[i].status = worker[w].outcome]_vars

-----------------------------------------------------------------------------
(* Why it holds: the inductive invariant *)

Running(w) == worker[w].at # "idle"
Creating(w) == Running(w) /\ worker[w].mode = "create"

\* A running attempt to create is the only one of its invoice, and the invoice
\* is not open to another; until it answers nothing has been posted.
SoleCreator ==
  \A w \in Workers :
    Creating(w) =>
      /\ worker[w].invoice \in Invoices
      /\ invoice[worker[w].invoice].status \in {"syncing", "matched", "review_required"}
      /\ worker[w].at # "answered" => drafts[worker[w].invoice] = 0
      /\ \A v \in Workers \ {w} :
           Creating(v) => worker[v].invoice # worker[w].invoice

\* What an answer says is true: "failed" means nothing was posted.
AnswersAreTrue ==
  \A w \in Workers :
    /\ Running(w) => worker[w].invoice \in Invoices
    /\ Running(w) /\ worker[w].linked => drafts[worker[w].invoice] = 1
    /\ worker[w].at = "posting" => worker[w].mode = "create"
    /\ worker[w].at = "answered" =>
         /\ worker[w].outcome = "matched" => drafts[worker[w].invoice] = 1
         /\ worker[w].outcome = "failed" => Creating(w) /\ drafts[worker[w].invoice] = 0

\* Untouched invoices have no draft.
UnclaimedInvoices ==
  \A i \in Invoices :
    /\ invoice[i].status \in {"none", "not_synced", "failed"} =>
         drafts[i] = 0 /\ ~invoice[i].linked
    /\ invoice[i].organisation # Unbound => connection.version > 0

\* The inductive invariant of the check.
IInv ==
  /\ TypeOK
  /\ AtMostOneDraft
  /\ MatchedIsReal
  /\ AttemptsShareConnection
  /\ SoleCreator
  /\ AnswersAreTrue
  /\ UnclaimedInvoices
=============================================================================
