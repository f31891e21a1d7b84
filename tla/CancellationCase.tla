-------------------------- MODULE CancellationCase --------------------------
(***************************************************************************)
(* The journal of one cancellation review, of one booking at its original  *)
(* start: the events of public.cancellation_review_events, which           *)
(* audit.append_cancellation_review accepts from the events before them,   *)
(* and which the page accepts by replaying them (cancellationEvent).       *)
(*                                                                         *)
(* A post is one request on its way: the page has read the role and the    *)
(* journal and found the event valid, or a signed-in client calls the      *)
(* function itself. Between that and the append other requests, changes of *)
(* role and of the booking, and crashes happen. The case row is locked     *)
(* during an append, so the append is one step; an append that raises      *)
(* changes nothing.                                                        *)
(*                                                                         *)
(* Texts and times of evidence are left out: the two programs measure a    *)
(* text in bytes and in characters, and read a clock each.                 *)
(***************************************************************************)
EXTENDS CancellationRules, SequencesExt

CONSTANTS
  Users, Keys,       \* event keys; a refund is known by the key of its reservation
  Teams,             \* the teams the booking may have, sets of cleaners
  Amounts,           \* the refunds it may ask for
  Posts,
  NoKey, NoFacts,
  MaxEvents          \* bound on the journal

ASSUME CaseAssumption ==
  /\ NoKey \notin Keys
  /\ NoFacts \notin Facts
  /\ Amounts \subseteq Nat
  /\ MaxEvents \in Nat

VARIABLES
  role,       \* each user's role in the business
  policy,     \* whether an owner has approved the business's policy
  booking,    \* whether it is a visit of a schedule, is at the original start, its team
  journal,    \* the events of the case, in the order of their versions
  post        \* the requests on their way

vars == <<role, policy, booking, journal, post>>

Moves == {"submit_refund", "complete_refund", "release_refund"}
EventTypes == {"prepare", "acknowledge", "approve", "reserve_refund"} \cup Moves
Roles == {"owner", "manager", "none"}
Spellings == {"stored", "other"}   \* how the payload spells the refund's key

Booking == [recurring : BOOLEAN, original : BOOLEAN, team : Teams]

Event ==
  {e \in [type : EventTypes, key : Keys, by : Users, role : Roles, facts : Facts \cup {NoFacts},
           amount : Nat, refund : Keys \cup {NoKey}, spelled : Spellings] :
     e.type = "prepare" => e.facts \in Facts}

\* seen is the version the request expects; page says that the page checked it.
Sent == [at : {"sent"}, page : BOOLEAN, seen : Nat, event : Event]
Idle == [at |-> "idle"]

TypeOK ==
  /\ role \in [Users -> Roles] /\ policy \in BOOLEAN /\ booking \in Booking
  /\ journal \in Seq(Event)
  /\ post \in [Posts -> {Idle} \cup Sent]

Init ==
  /\ role \in [Users -> Roles] /\ policy \in BOOLEAN /\ booking \in Booking
  /\ journal = <<>>
  /\ post = [p \in Posts |-> Idle]

InFlight == {p \in Posts : post[p].at = "sent"}

Events == {journal[i] : i \in DOMAIN journal} \cup {post[p].event : p \in InFlight}

Refunds == {x.key : x \in {y \in Events : y.type = "reserve_refund"}}

\* What a user may enter: every event has its own payload.
Entry(k, u, t, f, n, r, s) ==
  [type |-> t, key |-> k, by |-> u, role |-> role[u], facts |-> f, amount |-> n,
   refund |-> r, spelled |-> s]

Entries(k, u) ==
  {Entry(k, u, "prepare", f, 0, NoKey, "stored") : f \in Facts} \cup
  {Entry(k, u, t, NoFacts, 0, NoKey, "stored") : t \in {"acknowledge", "approve"}} \cup
  {Entry(k, u, "reserve_refund", NoFacts, n, NoKey, "stored") : n \in Amounts} \cup
  {Entry(k, u, t, NoFacts, 0, r, s) : t \in Moves, r \in Refunds, s \in Spellings}

\* The assessment names the start and the team the booking has now.
FitsBooking(a) == booking.original /\ DOMAIN a.team = booking.team

\* What the database asks of a new case besides its amounts.
Reviewable(a) == policy /\ ~booking.recurring /\ FitsBooking(a)

Permitted(type, r) == r \in {"owner", "manager"} /\ (type # "prepare" => r = "owner")

-----------------------------------------------------------------------------
(* The page: a fold over the journal *)

Unread ==
  [ok |-> TRUE, status |-> "none", facts |-> NoFacts, acknowledged |-> FALSE,
   phase |-> [k \in Keys |-> "none"], amount |-> [k \in Keys |-> 0]]

JsReserved(s) == SumOver(s.amount, {k \in Keys : s.phase[k] \notin {"none", "released"}})

JsAllows(s, e) ==
  /\ Permitted(e.type, e.role)
  /\ CASE e.type = "prepare" -> s.status = "none" /\ JsAccepts(e.facts)
       [] e.type = "approve" -> s.status = "prepared"
       [] e.type = "acknowledge" -> s.status \in {"prepared", "approved"} /\ ~s.acknowledged
       [] e.type = "reserve_refund" ->
            s.status = "approved" /\ e.amount \in 1..Refundable(s.facts) - JsReserved(s)
       [] e.type \in {"submit_refund", "release_refund"} ->
            e.spelled = "stored" /\ s.phase[e.refund] = "reserved"
       [] e.type = "complete_refund" -> e.spelled = "stored" /\ s.phase[e.refund] = "submitted"

PhaseAfter == [submit_refund |-> "submitted", complete_refund |-> "completed", release_refund |-> "released"]

JsApply(s, e) ==
  CASE e.type = "prepare" -> [s EXCEPT !.status = "prepared", !.facts = e.facts]
    [] e.type = "approve" -> [s EXCEPT !.status = "approved"]
    [] e.type = "acknowledge" -> [s EXCEPT !.acknowledged = TRUE]
    [] e.type = "reserve_refund" ->
         [s EXCEPT !.phase[e.key] = "reserved", !.amount[e.key] = e.amount]
    [] e.type \in Moves -> [s EXCEPT !.phase[e.refund] = PhaseAfter[e.type]]

\* cancellationEvent: the first event it refuses makes the journal unreadable.
JsStep(s, e) == IF s.ok /\ JsAllows(s, e) THEN JsApply(s, e) ELSE [s EXCEPT !.ok = FALSE]

Read(j) == FoldLeft(JsStep, Unread, j)

-----------------------------------------------------------------------------
(* The database: queries over the journal *)

Known(j, k) == \E i \in DOMAIN j : j[i].key = k
Has(j, type) == \E i \in DOMAIN j : j[i].type = type
FactsOf(j) == j[CHOOSE i \in DOMAIN j : j[i].type = "prepare"].facts

Reservation(j, k) == {i \in DOMAIN j : j[i].type = "reserve_refund" /\ j[i].key = k}
AmountOf(j, k) ==
  IF Reservation(j, k) = {} THEN 0 ELSE j[CHOOSE i \in Reservation(j, k) : TRUE].amount

MovesOf(j, k) == {i \in DOMAIN j : j[i].type \in Moves /\ j[i].refund = k}
Moved(j, k, type) == \E i \in MovesOf(j, k) : j[i].type = type

\* Mutant: what has been paid out no longer counts.
Unsettled(j) ==
  {k \in Keys : Reservation(j, k) # {} /\ ~Moved(j, k, "release_refund")
                /\ ~Moved(j, k, "complete_refund")}

Outstanding(j) ==
  {k \in Keys : Reservation(j, k) # {} /\ ~Moved(j, k, "release_refund")}

Reserved(j) == SumOver([k \in Keys |-> AmountOf(j, k)], Outstanding(j))

\* The latest move of a refund (order by version desc limit 1).
LastMove(j, k, type) ==
  \E i \in MovesOf(j, k) : j[i].type = type /\ \A n \in MovesOf(j, k) : n <= i

Unmoved(j, k) == MovesOf(j, k) = {}

SqlAllows(j, e) ==
  /\ Permitted(e.type, e.role)
  /\ CASE e.type = "prepare" -> j = <<>> /\ Reviewable(e.facts) /\ SqlAccepts(e.facts)
       [] e.type = "approve" -> Has(j, "prepare") /\ ~Has(j, "approve")
       [] e.type = "acknowledge" -> Has(j, "prepare") /\ ~Has(j, "acknowledge")
       [] e.type = "reserve_refund" ->
            Has(j, "approve") /\ e.amount \in 1..SqlAvailable(FactsOf(j)) - Reserved(j)
       [] e.type \in {"submit_refund", "release_refund"} ->
            Reservation(j, e.refund) # {} /\ Unmoved(j, e.refund)
       [] e.type = "complete_refund" ->
            Reservation(j, e.refund) # {} /\ LastMove(j, e.refund, "submit_refund")

\* Mutant: the refund's key is stored as it was spelled.
AsSpelled(e) == e

\* The refund's key is brought into its stored form before anything else.
Canonical(e) == [e EXCEPT !.spelled = "stored"]

-----------------------------------------------------------------------------
(* Requests *)

UnusedKeys == Keys \ {x.key : x \in Events}

\* A rendered form carries a key of its own; sent again, it is the same form.
FormKey(e) ==
  \/ UnusedKeys # {} /\ e.key = CHOOSE k \in UnusedKeys : TRUE
  \/ \E x \in Events : x.key = e.key /\ x.type = e.type /\ x.refund = e.refund

Send(p, e, page) ==
  /\ post' = [post EXCEPT ![p] =
       [at |-> "sent", page |-> page, seen |-> Len(journal), event |-> e]]
  /\ UNCHANGED <<role, policy, booking, journal>>

SameEvent(x, e) == [x EXCEPT !.role = e.role] = e

\* The page: a repeat of a recorded event passes, anything else must follow
\* from the history it has read. A new assessment is of the booking it has read.
Submit(p) ==
  LET s == Read(journal)
  IN  /\ post[p].at = "idle"
      /\ s.ok
      /\ \E u \in Users, k \in Keys : \E e \in Entries(k, u) :
           /\ FormKey(e) /\ e.spelled = "stored"
           /\ e.type = "prepare" => FitsBooking(e.facts)
           /\ \/ \E i \in DOMAIN journal : SameEvent(journal[i], e)
              \/ ~Known(journal, k) /\ JsAllows(s, e)
           /\ Send(p, e, TRUE)

\* A signed-in client of the database calls the function with any payload.
\* It knows the version; an older one is refused now and ever after.
Call(p) ==
  /\ post[p].at = "idle"
  /\ \E u \in Users, k \in Keys : \E e \in Entries(k, u) : FormKey(e) /\ Send(p, e, FALSE)

\* The event as it is stored: the role is read again.
Stored(p) == [Canonical(post[p].event) EXCEPT !.role = role[post[p].event.by]]

Record(p) ==
  /\ post[p].at = "sent"
  /\ Len(journal) < MaxEvents
  /\ ~Known(journal, Stored(p).key)
  /\ post[p].seen = Len(journal)
  /\ SqlAllows(journal, Stored(p))
  /\ journal' = Append(journal, Stored(p))
  /\ post' = [post EXCEPT ![p] = Idle]
  /\ UNCHANGED <<role, policy, booking>>

\* The append raises, finds the event recorded already, or never happens.
Drop(p) ==
  /\ post[p].at = "sent"
  /\ post' = [post EXCEPT ![p] = Idle]
  /\ UNCHANGED <<role, policy, booking, journal>>

ChangeRole(u, r) ==
  /\ role' = [role EXCEPT ![u] = r]
  /\ UNCHANGED <<policy, booking, journal, post>>

\* An approval is entered once, and never withdrawn.
ApprovePolicy(u) ==
  /\ role[u] = "owner"
  /\ policy' = TRUE
  /\ UNCHANGED <<role, booking, journal, post>>

\* While the booking is at the start under review its team stays, and it moves
\* only to the accepted replacement.
ChangeBooking(b) ==
  /\ b.recurring = booking.recurring
  /\ booking.original /\ journal # <<>> =>
       /\ b.team = booking.team
       /\ b.original \/ (Has(journal, "approve") /\ FactsOf(journal).action = "reschedule")
  /\ booking' = b
  /\ UNCHANGED <<role, policy, journal, post>>

Next ==
  \/ \E p \in Posts : Submit(p) \/ Call(p) \/ Record(p) \/ Drop(p)
  \/ \E u \in Users : ApprovePolicy(u) \/ \E r \in Roles : ChangeRole(u, r)
  \/ \E b \in Booking : ChangeBooking(b)

Spec == Init /\ [][Next]_vars

-----------------------------------------------------------------------------
(* What the journal of a cancellation review must be. *)

PhaseOf(k) ==
  IF Reservation(journal, k) = {} THEN "none"
  ELSE IF Moved(journal, k, "release_refund") THEN "released"
  ELSE IF Moved(journal, k, "complete_refund") THEN "completed"
  ELSE IF Moved(journal, k, "submit_refund") THEN "submitted"
  ELSE "reserved"

(* Every journal the database accepts, also from clients that pass the page  *)
(* by, can be replayed by the page, which then finds the same refundable     *)
(* amount and the same money set aside: no case becomes unreadable.          *)
Readable ==
  LET s == Read(journal)
  IN  /\ s.ok
      /\ s.status = "approved" =>
           Refundable(s.facts) - JsReserved(s) = SqlAvailable(FactsOf(journal)) - Reserved(journal)

(* What the page has checked on the current history, the database accepts,   *)
(* from a user who still may enter it, whatever has become of the booking    *)
(* and of the policy. Only a new assessment may still be refused: before the *)
(* policy is approved and for a visit of a schedule, which the page does not *)
(* check, after the booking was moved or its team changed, and for a team    *)
(* whose agreed earnings the database cannot add up, though the part of them *)
(* that the business pays fits.                                              *)
PageAgrees ==
  \A p \in InFlight :
    LET e == Stored(p)
    IN  post[p].page /\ post[p].seen = Len(journal) /\ ~Known(journal, e.key) /\ Permitted(e.type, e.role)
        => \/ SqlAllows(journal, e)
           \/ e.type = "prepare" /\ (~Reviewable(e.facts) \/ OnlyShareFits(e.facts))

(* A refund is moved by an owner, after an owner approved the assessment; it *)
(* is submitted or released but not both, each once, and completed only      *)
(* after it was submitted: uncertain money is never free for a second try.   *)
Lifecycle ==
  \A i, n \in DOMAIN journal :
    /\ journal[i].type = "reserve_refund" =>
         \E m \in 1..i - 1 : journal[m].type = "approve" /\ journal[m].role = "owner"
    /\ journal[i].type \in Moves =>
         /\ \E m \in 1..i - 1 : journal[m].type = "reserve_refund" /\ journal[m].key = journal[i].refund
         /\ journal[i].role = "owner"
    /\ i < n /\ {journal[i].type, journal[n].type} \subseteq Moves /\ journal[i].refund = journal[n].refund =>
         journal[i].type = "submit_refund" /\ journal[n].type = "complete_refund"
    /\ journal[i].type = "complete_refund" =>
         \E m \in 1..i - 1 : journal[m].type = "submit_refund" /\ journal[m].refund = journal[i].refund

\* Event keys are recorded once, and a case has one assessment and one approval.
RecordedOnce ==
  \A i, n \in DOMAIN journal : i < n =>
    /\ journal[i].key # journal[n].key
    /\ journal[i].type = journal[n].type =>
         journal[i].type \in Moves \cup {"reserve_refund"}

\* A case begins with its assessment, and owners approve it.
PrepareFirst ==
  /\ \A i \in DOMAIN journal : journal[i].type = "prepare" <=> i = 1
  /\ \A i \in DOMAIN journal : journal[i].type = "approve" => journal[i].role = "owner"

\* The inductive invariant of the proofs.
IInv == TypeOK /\ RecordedOnce /\ PrepareFirst /\ Lifecycle

-----------------------------------------------------------------------------
(* The refinement *)

LimitOf == IF Has(journal, "approve") THEN SqlAvailable(FactsOf(journal)) ELSE -1

Ledger == INSTANCE RefundLedger WITH
  Refunds <- Keys, limit <- LimitOf, phase <- [k \in Keys |-> PhaseOf(k)],
  amount <- [k \in Keys |-> AmountOf(journal, k)]

(* The journal, its pages and its retries implement the ledger: refunds move *)
(* only forward, within the approved amount.                                 *)
KeepsLedger == Ledger!Spec
=============================================================================
