-------------------------- MODULE AccountingStageB --------------------------
(***************************************************************************)
(* The durable accounting boundary of one business: the connection row and *)
(* the operations queue of database/accounting-stage-b.sql, the workers of *)
(* src/accounting-stage-b.js that claim, dispatch, call the provider and   *)
(* finish, and the provider, which records every create it receives and    *)
(* may lose the response, answer wrongly, or hide or double what it finds. *)
(*                                                                         *)
(* Every SQL function locks the connection row, then the operation row, so *)
(* a call that commits is one step. A call that raises rolls back and      *)
(* changes nothing but the worker that made it. An operation is named by   *)
(* its intent: unique(business_id,local_id,action,revision) with action    *)
(* and revision fixed allows only one.                                     *)
(***************************************************************************)
EXTENDS Naturals

CONSTANTS
  Actors,          \* users with a membership row in the business
  Intents,         \* local ids of financial intents
  Workers,         \* concurrent runs of the synthetic accounting worker
  NoActor, NoIntent,
  MaxConnectionGeneration,   \* bound on connection generations
  MaxAttempts      \* bound on claims of one operation

ASSUME StageBAssumption ==
  /\ MaxConnectionGeneration \in Nat
  /\ MaxAttempts \in Nat
  /\ NoActor \notin Actors
  /\ NoIntent \notin Intents

VARIABLES
  role,        \* role of each actor: "owner", "manager" or "none" (no active membership)
  account,  \* [generation, status]; status "none" until connect
  registered,  \* intents with a row
  operation,   \* the operation row of each intent
  issued,      \* claims made so far of each operation: fresh attempt ids
  worker,      \* local state of each worker run
  records      \* remote drafts the provider holds for each operation

vars == <<role, account, registered, operation, issued, worker, records>>

Roles == {"owner", "manager", "none"}
ConnectionStatuses == {"none", "connected", "disconnected", "quarantined"}
OperationStates == {"none", "pending", "claimed", "dispatched", "uncertain",
                    "verified", "cancelled", "review_required"}
Leases == {"null", "live", "expired"}
Results == {"verified", "uncertain", "mismatch"}

\* attempt 0 stands for a null attempt_id.
Operation ==
  [state: OperationStates, generation: Nat, by: Actors \cup {NoActor}, attempt: Nat,
   lease: Leases, dispatched: BOOLEAN, receipt: {"null", "own", "foreign"}]

\* result and receiptOk are meaningful at "answered".
Worker ==
  [at: {"idle", "claimed", "dispatched", "answered"}, op: Intents \cup {NoIntent},
   attempt: Nat, mode: {"create", "reconcile"}, result: Results, receiptOk: BOOLEAN]

NoOperation ==
  [state |-> "none", generation |-> 0, by |-> NoActor, attempt |-> 0,
   lease |-> "null", dispatched |-> FALSE, receipt |-> "null"]

Idle ==
  [at |-> "idle", op |-> NoIntent, attempt |-> 0, mode |-> "create",
   result |-> "uncertain", receiptOk |-> FALSE]

TypeOK ==
  /\ role \in [Actors -> Roles]
  /\ account \in [generation: Nat, status: ConnectionStatuses]
  /\ registered \subseteq Intents
  /\ operation \in [Intents -> Operation]
  /\ issued \in [Intents -> Nat]
  /\ worker \in [Workers -> Worker]
  /\ records \in [Intents -> Nat]

Init ==
  /\ role \in [Actors -> Roles]
  /\ account = [generation |-> 0, status |-> "none"]
  /\ registered = {}
  /\ operation = [i \in Intents |-> NoOperation]
  /\ issued = [i \in Intents |-> 0]
  /\ worker = [w \in Workers |-> Idle]
  /\ records = [i \in Intents |-> 0]

-----------------------------------------------------------------------------
(* Authority and the connection *)

Allowed(u) == role[u] \in {"owner", "manager"}

\* Memberships are administered elsewhere and may change at any time.
ChangeMembership(u, r) ==
  /\ role[u] # r
  /\ role' = [role EXCEPT ![u] = r]
  /\ UNCHANGED <<account, registered, operation, issued, worker, records>>

ConnectAccount(u) ==
  /\ role[u] = "owner"
  /\ account.status = "none"
  /\ account' = [generation |-> 1, status |-> "connected"]
  /\ UNCHANGED <<role, registered, operation, issued, worker, records>>

Live == {"pending", "claimed", "dispatched", "uncertain"}

\* What change_connection leaves of a live operation of the old generation.
Withdrawn(o) ==
  IF o.state \in Live
  THEN [o EXCEPT !.state = IF o.dispatched THEN "uncertain" ELSE "cancelled"]
  ELSE o

\* Mutant: a disconnect clears the quarantine.
StatusAfterAction(action) == IF action = "disconnect" THEN "disconnected" ELSE "connected"

StatusAfter(action) ==
  IF account.status = "quarantined" THEN "quarantined" ELSE StatusAfterAction(action)

ChangeConnection(u, expected, action) ==
  /\ role[u] = "owner"
  /\ account.status # "none"
  /\ expected = account.generation
  /\ ~(account.status = "quarantined" /\ action = "reauthorise")
  /\ account.generation < MaxConnectionGeneration
  /\ account' =
       [generation |-> account.generation + 1,
        status |-> StatusAfter(action)]
  /\ operation' = [i \in Intents |-> Withdrawn(operation[i])]
  /\ UNCHANGED <<role, registered, issued, worker, records>>

-----------------------------------------------------------------------------
(* Intents and operations *)

RegisterIntent(u, i) ==
  /\ Allowed(u)
  /\ registered' = registered \cup {i}
  /\ UNCHANGED <<role, account, operation, issued, worker, records>>

\* Replaying the enqueue of an operation of this generation returns it, and
\* one of an older generation is refused: neither changes anything.
Enqueue(u, i, expected) ==
  /\ Allowed(u)
  /\ account.status = "connected"
  /\ expected = account.generation
  /\ i \in registered
  /\ operation[i].state = "none"
  /\ operation' = [operation EXCEPT ![i] =
       [NoOperation EXCEPT !.state = "pending", !.generation = expected, !.by = u]]
  /\ UNCHANGED <<role, account, registered, issued, worker, records>>

\* The shared fence of claim and dispatch: authority of the enqueuing actor,
\* a connected connection, and the operation's own generation.
OperationCurrent(i) ==
  /\ operation[i].state # "none"
  /\ Allowed(operation[i].by)
  /\ account.status = "connected"
  /\ account.generation = operation[i].generation

\* Mutant: only an uncertain operation is reconciled.
ModeByState(o) == IF o.state = "uncertain" THEN "reconcile" ELSE "create"

\* Once dispatched, an operation may only ever be looked up.
Mode(o) == IF o.dispatched THEN "reconcile" ELSE "create"

ClaimOperation(w, i) ==
  /\ worker[w].at = "idle"
  /\ OperationCurrent(i)
  /\ operation[i].state \in Live
  /\ ~(operation[i].state \in {"claimed", "dispatched"} /\ operation[i].lease = "live")
  /\ issued[i] < MaxAttempts
  /\ issued' = [issued EXCEPT ![i] = @ + 1]
  /\ operation' = [operation EXCEPT
       ![i].state = "claimed", ![i].attempt = issued[i] + 1, ![i].lease = "live"]
  /\ worker' = [worker EXCEPT ![w] =
       [Idle EXCEPT !.at = "claimed", !.op = i, !.attempt = issued[i] + 1,
                    !.mode = Mode(operation[i])]]
  /\ UNCHANGED <<role, account, registered, records>>

\* Thirty seconds pass on the database clock.
OperationLeaseExpires(i) ==
  /\ operation[i].lease = "live"
  /\ operation' = [operation EXCEPT ![i].lease = "expired"]
  /\ UNCHANGED <<role, account, registered, issued, worker, records>>

DispatchFence(w) ==
  LET i == worker[w].op IN
  /\ OperationCurrent(i)
  /\ operation[i].state = "claimed"
  /\ operation[i].attempt = worker[w].attempt
  /\ operation[i].lease = "live"

\* The linearisation point: after it the request may reach the provider.
DispatchOperation(w) ==
  LET i == worker[w].op IN
  /\ worker[w].at = "claimed"
  /\ DispatchFence(w)
  /\ operation' = [operation EXCEPT ![i].state = "dispatched", ![i].dispatched = TRUE]
  /\ worker' = [worker EXCEPT ![w].at = "dispatched"]
  /\ UNCHANGED <<role, account, registered, issued, records>>

\* The process dies, the vault has no envelope for the generation, or dispatch
\* is fenced: the run ends and the row keeps whatever was committed.
Abandon(w) ==
  /\ worker[w].at # "idle"
  /\ worker' = [worker EXCEPT ![w] = Idle]
  /\ UNCHANGED <<role, account, registered, operation, issued, records>>

-----------------------------------------------------------------------------
(* The provider, and the worker's reading of its answer *)

Answered(w, result, receiptOk) ==
  worker' = [worker EXCEPT ![w].at = "answered", ![w].result = result,
                           ![w].receiptOk = receiptOk]

\* The provider does not deduplicate. A recorded create answers with its own
\* receipt, with a foreign one, or not at all.
Create(w) ==
  LET i == worker[w].op IN
  /\ worker[w].at = "dispatched"
  /\ worker[w].mode = "create"
  /\ records' = [records EXCEPT ![i] = @ + 1]
  /\ \/ \E ok \in BOOLEAN : Answered(w, "verified", ok)
     \/ Answered(w, "uncertain", FALSE)
  /\ UNCHANGED <<role, account, registered, operation, issued>>

\* The token does not cover the organisation: nothing is recorded.
CreateRejected(w) ==
  /\ worker[w].at = "dispatched"
  /\ worker[w].mode = "create"
  /\ Answered(w, "uncertain", FALSE)
  /\ UNCHANGED <<role, account, registered, operation, issued, records>>

\* find answers truthfully, hides the records, or doubles them; one match is
\* taken for the receipt, several are a mismatch, none or an error uncertain.
Find(w) ==
  LET i == worker[w].op IN
  /\ worker[w].at = "dispatched"
  /\ worker[w].mode = "reconcile"
  /\ \E matches \in {records[i], 0, 2 * records[i]} :
       Answered(w, IF matches = 1 THEN "verified"
                   ELSE IF matches > 1 THEN "mismatch" ELSE "uncertain",
                matches = 1)
  /\ UNCHANGED <<role, account, registered, operation, issued, records>>

\* Mutant: the receipt is stored as it came.
OutcomeUnchecked(w) == worker[w].result

\* The receipt is compared field by field: a foreign one turns into a mismatch.
Outcome(w) ==
  IF worker[w].result = "verified" /\ ~worker[w].receiptOk
  THEN "mismatch" ELSE worker[w].result

FinishFence(w) ==
  LET o == operation[worker[w].op] IN
  /\ worker[w].at = "answered"
  /\ o.attempt = worker[w].attempt
  /\ o.dispatched
  /\ o.state \in {"dispatched", "uncertain"}

\* A late answer, or one to a connection that moved on, settles nothing.
NextState(w) ==
  LET i == worker[w].op IN
  IF ~OperationCurrent(i) \/ operation[i].lease = "expired" THEN "uncertain"
  ELSE IF Outcome(w) = "mismatch" THEN "review_required" ELSE Outcome(w)

Finish(w) ==
  LET i == worker[w].op IN
  /\ FinishFence(w)
  /\ account' =
       IF Outcome(w) = "mismatch" /\ account.generation = operation[i].generation
       THEN [account EXCEPT !.status = "quarantined"] ELSE account
  /\ operation' = [operation EXCEPT
       ![i].state = NextState(w), ![i].attempt = 0, ![i].lease = "null",
       ![i].receipt = IF NextState(w) # "verified" THEN @
                      ELSE IF worker[w].receiptOk THEN "own" ELSE "foreign"]
  /\ worker' = [worker EXCEPT ![w] = Idle]
  /\ UNCHANGED <<role, registered, issued, records>>

Next ==
  \/ \E u \in Actors :
       \/ \E r \in Roles : ChangeMembership(u, r)
       \/ ConnectAccount(u)
       \/ \E g \in 1..MaxConnectionGeneration, a \in {"reauthorise", "disconnect"} :
            ChangeConnection(u, g, a)
       \/ \E i \in Intents : RegisterIntent(u, i)
       \/ \E i \in Intents, g \in 1..MaxConnectionGeneration : Enqueue(u, i, g)
  \/ \E i \in Intents : OperationLeaseExpires(i)
  \/ \E w \in Workers :
       \/ \E i \in Intents : ClaimOperation(w, i)
       \/ DispatchOperation(w) \/ Abandon(w)
       \/ Create(w) \/ CreateRejected(w) \/ Find(w)
       \/ Finish(w)

Spec == Init /\ [][Next]_vars

-----------------------------------------------------------------------------
(* What the accounting boundary must guarantee. *)

\* However workers crash, stall past their lease, race each other or lose the
\* answer of a create, the provider never holds a second draft for an
\* operation: the provider does not deduplicate, the queue has to.
AtMostOneDraft == \A i \in Intents : records[i] <= 1

\* An operation reads "verified" only when exactly one remote draft exists and
\* the stored receipt is the one issued for this operation; a receipt is
\* stored for verified operations only.
VerifiedIsReal ==
  \A i \in Intents :
    /\ operation[i].state = "verified" => records[i] = 1 /\ operation[i].receipt = "own"
    /\ operation[i].receipt # "null" => operation[i].state = "verified"

\* An operation that change_connection cancelled has no remote draft and no
\* worker that may still create one: cancelling is never a lost posting.
CancelledNeverPosted ==
  \A i \in Intents :
    operation[i].state = "cancelled" =>
      /\ records[i] = 0
      /\ \A w \in Workers : worker[w].op = i => worker[w].at \notin {"dispatched", "answered"}

\* Whatever an old generation left behind is settled or uncertain: nothing
\* enqueued under earlier credentials waits to be run under the current ones.
OldGenerationSettled ==
  \A i \in Intents :
    operation[i].state \in {"pending", "claimed", "dispatched"} =>
      operation[i].generation = account.generation

\* An operation that needs review keeps its connection quarantined from then on:
\* neither a disconnect nor a reauthorisation lets further work past the mismatch.
ReviewKeepsQuarantine ==
  (\E i \in Intents : operation[i].state = "review_required") =>
    account.status = "quarantined"

-----------------------------------------------------------------------------
(* Why it holds: the inductive invariant *)

\* w has been authorised to create and has not called the provider yet.
MayCreate(w) == worker[w].at = "dispatched" /\ worker[w].mode = "create"

\* dispatched_at splits the states in two, and is set before any draft exists.
DispatchedStates ==
  \A i \in Intents :
    /\ operation[i].state \in (IF operation[i].dispatched
         THEN {"claimed", "dispatched", "uncertain", "verified", "review_required"}
         ELSE {"none", "pending", "claimed", "cancelled"})
    /\ records[i] > 0 => operation[i].dispatched
    /\ operation[i].state \in {"verified", "review_required"} => records[i] = 1

\* Nothing is enqueued before the business connects.
Unconnected ==
  account.status = "none" => \A i \in Intents : operation[i].state = "none"

\* Attempt ids are issued once, and a run names an operation.
AttemptsIssued ==
  \A w \in Workers :
    worker[w].at # "idle" =>
      worker[w].op \in Intents /\ worker[w].attempt <= issued[worker[w].op]

\* The holder of the current claim in create mode holds a never-dispatched operation.
ClaimMode ==
  \A w \in Workers :
    /\ worker[w].at = "claimed"
    /\ worker[w].mode = "create"
    /\ operation[worker[w].op].state = "claimed"
    /\ operation[worker[w].op].attempt = worker[w].attempt
    => ~operation[worker[w].op].dispatched

\* Only one worker is ever authorised to create, before any draft exists.
SoleCreator ==
  \A w \in Workers :
    MayCreate(w) =>
      /\ operation[worker[w].op].dispatched
      /\ records[worker[w].op] = 0
      /\ \A v \in Workers : MayCreate(v) /\ worker[v].op = worker[w].op => v = w

\* An answer other than "uncertain" means the draft exists.
AnswersHold ==
  \A w \in Workers :
    /\ worker[w].at \in {"dispatched", "answered"} => operation[worker[w].op].dispatched
    /\ worker[w].at = "answered" /\ worker[w].result # "uncertain" =>
         records[worker[w].op] = 1

\* The inductive invariant of the boundary: the properties above and the
\* bookkeeping of attempts and modes they rest on.
IInv ==
  /\ TypeOK
  /\ AtMostOneDraft
  /\ VerifiedIsReal
  /\ OldGenerationSettled
  /\ ReviewKeepsQuarantine
  /\ DispatchedStates
  /\ Unconnected
  /\ AttemptsIssued
  /\ ClaimMode
  /\ SoleCreator
  /\ AnswersHold

-----------------------------------------------------------------------------
(* The refinement mapping to OnceOnlyPosting *)

\* dispatched_at is the point of no return; leases, attempts and generations
\* are invisible.
Phase(o) ==
  IF o.state = "verified" THEN "confirmed"
  ELSE IF o.state = "review_required" THEN "review"
  ELSE IF o.state \in {"none", "cancelled"} THEN o.state
  ELSE IF o.dispatched THEN "sent" ELSE "queued"

Promise == INSTANCE OnceOnlyPosting WITH
  phase <- [i \in Intents |-> Phase(operation[i])], posted <- records

\* The boundary implements once-only posting: every claim, lease expiry, retry
\* and finish is a step of OnceOnlyPosting or none at all.
KeepsPromise == Promise!Spec
=============================================================================
