--------------------------- MODULE BookingSessions ---------------------------
(***************************************************************************)
(* Concurrent office sessions that change the reserved work of bookings:   *)
(* each reads a booking with its version, submits an UPDATE ... WHERE      *)
(* version = seen, waits for the row, locks the cleaners of the old and    *)
(* the new team one at a time in stable order, checks the workload against *)
(* what has been committed, and commits or rolls back. This opens up the   *)
(* transaction that Bookings takes as one step. A statement may fail at    *)
(* any time: another trigger refuses it, or the connection is lost.        *)
(*                                                                         *)
(* The exclusion constraint is part of CanHold; it never has to wait for   *)
(* an uncommitted row, because inserts for a cleaner hold the cleaner.     *)
(***************************************************************************)
EXTENDS WorkloadRules

CONSTANTS
  Bookings, Sessions,
  Cleaners,        \* ordered as their ids are
  Works,           \* [team, from, to]: what a form may ask for; team {} releases
  Limits,          \* daily limits the settings may hold; 0 is none
  ZoneOf,          \* the zone of each booking
  NoBooking,
  MaxVersion       \* bound on booking versions

ASSUME SessionsAssumption ==
  /\ Cleaners \subseteq Nat /\ IsFiniteSet(Cleaners)
  /\ Works \subseteq [team : SUBSET Cleaners, from : Int, to : Int]
  /\ \A k \in Works : k.from < k.to
  /\ Limits \subseteq Nat /\ 0 \in Limits
  /\ ZoneOf \in [Bookings -> Nat]
  /\ NoBooking \notin Bookings
  /\ MaxVersion \in Nat

VARIABLES
  version,   \* version of each booking row
  work,      \* the committed team, interval and recorded limit of each booking
  slots,     \* the committed reservations, joined with their policies
  session    \* local state of each office session

vars == <<version, work, slots, session>>

Work0 == [team : SUBSET Cleaners, from : Int, to : Int, limit : Limits]

Session ==
  [at : {"idle", "form", "queued", "locking", "checked"},
   booking : Bookings \cup {NoBooking}, seen : Nat, asks : Work0,
   locks : SUBSET Cleaners]

NoWork == [team |-> {}, from |-> 0, to |-> 1, limit |-> 0]

Idle ==
  [at |-> "idle", booking |-> NoBooking, seen |-> 0, asks |-> NoWork, locks |-> {}]

TypeOK ==
  /\ version \in [Bookings -> Nat]
  /\ work \in [Bookings -> Work0]
  /\ session \in [Sessions -> Session]

Init ==
  /\ version = [b \in Bookings |-> 1]
  /\ work = [b \in Bookings |-> NoWork]
  /\ slots = {}
  /\ session = [s \in Sessions |-> Idle]

SlotsOf(b, k) ==
  {[booking |-> b, cleaner |-> c, from |-> k.from, to |-> k.to, limit |-> k.limit,
    zone |-> ZoneOf[b], reviewed |-> TRUE] : c \in k.team}

Others(b) == {t \in slots : t.booking # b}

-----------------------------------------------------------------------------
(* Forms *)

\* The booking page is read with its version, outside any transaction.
Open(s, b) ==
  /\ session[s].at = "idle"
  /\ session' = [session EXCEPT ![s] =
       [Idle EXCEPT !.at = "form", !.booking = b, !.seen = version[b]]]
  /\ UNCHANGED <<version, work, slots>>

Submit(s, k) ==
  /\ session[s].at = "form"
  /\ session[s].seen < MaxVersion
  /\ session' = [session EXCEPT
       ![s].at = "queued",
       ![s].asks = [team |-> k.team, from |-> k.from, to |-> k.to, limit |-> 0]]
  /\ UNCHANGED <<version, work, slots>>

\* The form is left, or the statement fails and its transaction rolls back.
Leave(s) ==
  /\ session[s].at # "idle"
  /\ session' = [session EXCEPT ![s] = Idle]
  /\ UNCHANGED <<version, work, slots>>

-----------------------------------------------------------------------------
(* The transaction *)

RowFree(b, s) ==
  \A t \in Sessions \ {s} :
    ~(session[t].booking = b /\ session[t].at \in {"locking", "checked"})

\* The predicate is evaluated again on the row that was waited for.
SeenCurrent(s) == session[s].seen = version[session[s].booking]

\* Zero rows updated: the office gets a conflict and reopens the booking.
Conflict(s) ==
  /\ session[s].at = "queued"
  /\ RowFree(session[s].booking, s)
  /\ ~SeenCurrent(s)
  /\ session' = [session EXCEPT ![s] = Idle]
  /\ UNCHANGED <<version, work, slots>>

\* The work as it will be written: a recorded limit stays, otherwise that of
\* the settings at this moment is recorded for an active booking.
Limited(s, limit) ==
  LET o == work[session[s].booking] IN
  [session[s].asks EXCEPT !.limit =
     IF o.limit # 0 \/ session[s].asks.team = {} THEN o.limit ELSE limit]

\* A change that leaves the work alone skips the reservation trigger.
Begin(s, limit) ==
  LET b == session[s].booking IN
  /\ session[s].at = "queued"
  /\ RowFree(b, s)
  /\ SeenCurrent(s)
  /\ session' = [session EXCEPT
       ![s].asks = Limited(s, limit),
       ![s].at = IF Limited(s, limit) = work[b] THEN "checked" ELSE "locking"]
  /\ UNCHANGED <<version, work, slots>>

\* Mutant: only the old team is locked.
AffectedOld(s) == work[session[s].booking].team

\* Cleaners of the old and the new team.
Affected(s) == work[session[s].booking].team \cup session[s].asks.team

Needs(s) == Affected(s) \ session[s].locks

\* Mutant: cleaners are locked as the array lists them.
NextAny(S, c) == c \in S

\* order by x
NextInOrder(S, c) == c \in S /\ \A d \in S : c <= d

CleanerFree(c, s) == \A t \in Sessions \ {s} : c \notin session[t].locks

LockCleaner(s, c) ==
  /\ session[s].at = "locking"
  /\ NextInOrder(Needs(s), c)
  /\ CleanerFree(c, s)
  /\ session' = [session EXCEPT ![s].locks = @ \cup {c}]
  /\ UNCHANGED <<version, work, slots>>

\* All locks held: the workload and the exclusion constraint decide.
Fits(s) ==
  LET b == session[s].booking IN CanHold(SlotsOf(b, session[s].asks), Others(b))

Check(s) ==
  /\ session[s].at = "locking"
  /\ Needs(s) = {}
  /\ session' = [session EXCEPT ![s] = IF Fits(s) THEN [@ EXCEPT !.at = "checked"] ELSE Idle]
  /\ UNCHANGED <<version, work, slots>>

Commit(s) ==
  LET b == session[s].booking IN
  /\ session[s].at = "checked"
  /\ version' = [version EXCEPT ![b] = @ + 1]
  /\ work' = [work EXCEPT ![b] = session[s].asks]
  /\ slots' = Others(b) \cup SlotsOf(b, session[s].asks)
  /\ session' = [session EXCEPT ![s] = Idle]

Next ==
  \E s \in Sessions :
    \/ \E b \in Bookings : Open(s, b)
    \/ \E k \in Works : Submit(s, k)
    \/ Leave(s) \/ Conflict(s) \/ Check(s) \/ Commit(s)
    \/ \E l \in Limits : Begin(s, l)
    \/ \E c \in Cleaners : LockCleaner(s, c)

Spec == Init /\ [][Next]_vars

\* PostgreSQL grants a lock in the order of its queue and runs what is granted:
\* a session that can take its lock again and again takes it. Nobody is obliged
\* to leave, so progress never rests on timeouts or on the deadlock detector.
Fairness ==
  \A s \in Sessions :
    /\ SF_vars(Conflict(s) \/ \E l \in Limits : Begin(s, l))
    /\ SF_vars(\E c \in Cleaners : LockCleaner(s, c))
    /\ WF_vars(Check(s))
    /\ WF_vars(Commit(s))

FairSpec == Spec /\ Fairness

-----------------------------------------------------------------------------
(* What concurrent sessions must guarantee. *)

Calendar == INSTANCE CleanerCalendar

\* Two sessions never both approve the same remaining capacity or the same
\* hour of a cleaner: what is committed is free of double bookings and within
\* every recorded limit, although each session checked on its own.
NoDoubleBooking == Calendar!NoDoubleBooking
LimitsKept == Calendar!LimitsKept

\* Every commit changes the calendar as CleanerCalendar allows.
KeepsCalendar == Calendar!Spec

\* A commit replaces exactly the version its form was opened with, so no
\* session overwrites a change it has not seen.
NoLostUpdate ==
  [][\A b \in Bookings :
       version'[b] # version[b] =>
         \E s \in Sessions :
           /\ session[s].at = "checked"
           /\ session[s].booking = b
           /\ session[s].seen = version[b]
           /\ version'[b] = session[s].seen + 1]_vars

\* A submitted change is always decided: waiting for rows and cleaners never
\* turns into a circle.
Decided == \A s \in Sessions : session[s].at = "queued" ~> session[s].at = "idle"

-----------------------------------------------------------------------------
(* Why it holds: the inductive invariant *)

\* A session in its transaction, its row locked and its version current.
InTransaction(s) == session[s].at \in {"locking", "checked"}

RowsExclusive ==
  \A s \in Sessions :
    /\ session[s].at # "idle" => session[s].booking \in Bookings
    /\ InTransaction(s) =>
         /\ session[s].seen = version[session[s].booking]
         /\ \A t \in Sessions \ {s} :
              InTransaction(t) => session[t].booking # session[s].booking

CleanersExclusive ==
  \A s \in Sessions :
    /\ session[s].locks # {} => InTransaction(s)
    /\ \A t \in Sessions \ {s} : session[s].locks \cap session[t].locks = {}

\* The committed reservations are those of the committed work.
SlotsMatchWork == slots = UNION {SlotsOf(b, work[b]) : b \in Bookings}

\* A session that is about to commit a change holds the cleaners of the old
\* and of the new team.
CheckedHoldsTeam ==
  \A s \in Sessions :
    session[s].at = "checked" =>
      \/ session[s].asks = work[session[s].booking]
      \/ Affected(s) \subseteq session[s].locks

\* The verdict of the check still stands at the commit.
VerdictStands ==
  \A s \in Sessions :
    session[s].at = "checked" =>
      \A t \in SlotsOf(session[s].booking, session[s].asks), u \in slots :
        u.cleaner = t.cleaner /\ u.booking # session[s].booking => ~Meets(u, t.from, t.to)

\* The inductive invariant of the sessions.
IInv ==
  /\ TypeOK
  /\ RowsExclusive
  /\ CleanersExclusive
  /\ SlotsMatchWork
  /\ CheckedHoldsTeam
  /\ VerdictStands
  /\ NoDoubleBooking
=============================================================================
