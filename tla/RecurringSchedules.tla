------------------------- MODULE RecurringSchedules -------------------------
(***************************************************************************)
(* A recurring schedule and the visits made from it. Office users change   *)
(* the rule, pause and cancel, generate visits through a date and insert   *)
(* visits directly, from pages of any earlier version and again after lost *)
(* answers, while days pass and visits are moved or cancelled. Each call   *)
(* holds the schedule's row and is one step. A rule stands for a           *)
(* frequency, weekdays, end date and time; DueOn is what recurring_due     *)
(* says of it. The audit log, which keeps every row a call replaced, is    *)
(* part of the state because the promises are about earlier versions.      *)
(***************************************************************************)
EXTENDS Naturals, Sequences

CONSTANTS
  Days,            \* 0 .. n; the agreed booking is on day 0
  Rules, DueOn,    \* [Rules -> SUBSET Days]
  HourOf, EndOf,   \* [Rules -> {0, 1}]: half of the day; [Rules -> Days]
  Closures,        \* the sets of days no booking may be accepted on
  Ahead,           \* how far ahead visits may be made
  MaxRevision,     \* bound on the schedule's versions
  NoSchedule

ScheduleRow ==
  [rule : Rules, status : {"active", "paused", "cancelled"}, through : Nat, version : Nat \ {0}]

ASSUME SchedulesAssumption ==
  /\ Days \subseteq Nat /\ NoSchedule \notin ScheduleRow
  /\ DueOn \in [Rules -> SUBSET Days]
  /\ HourOf \in [Rules -> {0, 1}] /\ EndOf \in [Rules -> Days]
  /\ {} \in Closures /\ Closures \subseteq SUBSET Days
  /\ \A r \in Rules : \A d \in DueOn[r] : d <= EndOf[r]

VARIABLES
  schedule,        \* the row of recurring_schedules
  events,          \* audit.events: [row, on], the row of each version and its day
  visit,           \* rows of one_off_bookings: [day, revision, status]
  now,             \* half days since the agreed booking's midnight
  closed           \* days no booking is accepted on now
recurringVars == <<schedule, events, visit, now, closed>>

Today == now \div 2
Started == schedule # NoSchedule

RecurringInit ==
  /\ schedule = NoSchedule /\ events = <<>> /\ visit = {}
  /\ now = 0 /\ closed = {}

Save(row) ==
  /\ schedule' = row
  /\ events' = Append(events, [row |-> row, on |-> Today])

CreateRecurring(r) ==
  /\ ~Started /\ 0 \in DueOn[r]
  /\ Save([rule |-> r, status |-> "active", through |-> 0, version |-> 1])
  /\ UNCHANGED <<visit, now, closed>>

ChangeRecurring(version, r, status) ==
  /\ Started /\ version = schedule.version
  /\ schedule.status # "cancelled"
  /\ EndOf[r] >= schedule.through
  /\ version < MaxRevision
  /\ Save([schedule EXCEPT !.rule = r, !.status = status, !.version = @ + 1])
  /\ UNCHANGED <<visit, now, closed>>

StartOn(d) == 2 * d + HourOf[schedule.rule]

NewVisit(d) ==
  [day |-> d, revision |-> schedule.version, status |-> "draft"]

Exists(d) == \E v \in visit : v.day = d

\* Mutant: a generation starts from today, wherever the last one ended.
FirstDayToday == Today

FirstDay == IF schedule.through + 1 > Today THEN schedule.through + 1 ELSE Today

\* Mutant: the last day asked for is left out.
MissingBefore(through) ==
  {d \in FirstDay .. through - 1 : d \in DueOn[schedule.rule] /\ StartOn(d) > now /\ ~Exists(d)}

Missing(through) ==
  {d \in FirstDay .. through : d \in DueOn[schedule.rule] /\ StartOn(d) > now /\ ~Exists(d)}

\* All visits and the new boundary, or nothing: one refused visit (hours,
\* an inactive customer or address) undoes the call. A date that was already
\* reached is answered before the version is looked at and changes nothing.
GenerateRecurring(version, through) ==
  /\ Started /\ schedule.status = "active"
  /\ through \in Today .. Today + Ahead
  /\ through > schedule.through
  /\ version = schedule.version /\ version < MaxRevision
  /\ Missing(through) \cap closed = {}
  /\ visit' = visit \cup {NewVisit(d) : d \in Missing(through)}
  /\ Save([schedule EXCEPT !.through = through, !.version = @ + 1])
  /\ UNCHANGED <<now, closed>>

\* The visit's own insert is checked by the same trigger; the schedule's row
\* and its version stay.
InsertVisit(revision, d) ==
  /\ Started /\ schedule.status = "active"
  /\ revision = schedule.version
  /\ d > schedule.through /\ d <= Today + Ahead
  /\ d \in DueOn[schedule.rule] /\ StartOn(d) > now
  /\ ~Exists(d)
  /\ d \notin closed
  /\ visit' = visit \cup {NewVisit(d)}
  /\ UNCHANGED <<schedule, events, now, closed>>

\* The visit's own life: cancelled, it keeps its date of origin and its
\* revision. A moved visit keeps both too, and nothing here reads its time.
CancelVisit(v) ==
  /\ v.status # "cancelled"
  /\ visit' = (visit \ {v}) \cup {[v EXCEPT !.status = "cancelled"]}
  /\ UNCHANGED <<schedule, events, now, closed>>

TimePasses ==
  /\ (now + 1) \div 2 \in Days
  /\ now' = now + 1
  /\ UNCHANGED <<schedule, events, visit, closed>>

\* The working hours change, or the customer or the address is deactivated.
AcceptanceChanges ==
  /\ closed' \in Closures \ {closed}
  /\ UNCHANGED <<schedule, events, visit, now>>

SeenRevisions == IF Started THEN 1 .. schedule.version ELSE {}

RecurringNext ==
  \/ \E r \in Rules : CreateRecurring(r)
  \/ \E version \in SeenRevisions :
       \/ \E r \in Rules, status \in {"active", "paused", "cancelled"} :
            ChangeRecurring(version, r, status)
       \/ \E d \in Days : GenerateRecurring(version, d) \/ InsertVisit(version, d)
  \/ \E v \in visit : CancelVisit(v)
  \/ TimePasses \/ AcceptanceChanges

RecurringSpec == RecurringInit /\ [][RecurringNext]_recurringVars

-----------------------------------------------------------------------------
(* What generation guarantees *)

RowOf(k) == events[k].row

\* No promised visit is ever skipped: of every generation the log shows, each
\* due date from the day it ran, or from the boundary it continued, through
\* the boundary it set has a visit, whatever was changed, moved, cancelled or
\* retried since. The date of that day itself may have been past its hour.
NothingSkipped ==
  \A k \in 2 .. Len(events) :
    \A d \in RowOf(k - 1).through + 1 .. RowOf(k).through :
      d > events[k].on /\ d \in DueOn[RowOf(k - 1).rule] => Exists(d)

\* A change reaches only what was not processed: every visit is due under the
\* rule of the revision it names and beyond the boundary that revision had,
\* and no date is ever visited twice, a cancelled or moved visit included.
ChangesApplyAhead ==
  /\ \A v \in visit :
       /\ v.day \in DueOn[RowOf(v.revision).rule]
       /\ v.day > RowOf(v.revision).through
  /\ \A v, w \in visit : v.day = w.day => v = w

\* The calendar follows the schedule: nothing promised is skipped and nothing
\* processed is touched.
VisitsFollowSchedule == NothingSkipped /\ ChangesApplyAhead
=============================================================================
