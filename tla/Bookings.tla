------------------------------ MODULE Bookings ------------------------------
(***************************************************************************)
(* One-off bookings of several businesses that share cleaners: the booking *)
(* rows, the trigger pipeline every write runs through (cancellation guard,*)
(* validate_booking, booking_workload_metadata, reserve_booking_staff) and *)
(* the private reservation table. The pipeline runs in one transaction, so *)
(* a write that commits is one step here; BookingSessions opens it up.     *)
(*                                                                         *)
(* The office always enters the reasons the code asks for, durations meet  *)
(* the saved blocks, and prices, contacts and audit rows are left out.     *)
(***************************************************************************)
EXTENDS WorkloadRules

CONSTANTS
  Bookings, Businesses, Cleaners,
  BusinessOf,      \* the business of each booking
  TeamSize,        \* cleaners the service of each booking requires
  NewTerms,        \* bookings whose customer accepted the reviewed cancellation terms
  Starts,          \* local start times the office picks from
  Durations,
  Plans,           \* [lead, reviewed]: setup plus travel, and whether both were entered
  Limits,          \* daily limits an owner may configure; 0 is none
  Zones,           \* offsets of the supported time zones
  Nowhere          \* in a review: no start is agreed, or not at the old price

ASSUME BookingsAssumption ==
  /\ BusinessOf \in [Bookings -> Businesses]
  /\ IsFiniteSet(Cleaners)
  /\ TeamSize \in [Bookings -> Nat \ {0}]
  /\ NewTerms \subseteq Bookings
  /\ Starts \subseteq Nat
  /\ Durations \subseteq Nat \ {0}
  /\ Plans \subseteq [lead : Nat, reviewed : BOOLEAN]
  /\ [lead |-> 0, reviewed |-> FALSE] \in Plans
  /\ Limits \subseteq Nat /\ 0 \in Limits
  /\ Zones \subseteq Nat /\ Zones # {}
  /\ Nowhere \notin Starts

VARIABLES
  row,        \* public.one_off_bookings
  held,       \* audit.cleaner_reservations
  settings,   \* limit and zone in public.business_settings
  roster,     \* active staff members of each business
  cases       \* cancellation review cases with their decisive events

vars == <<row, held, settings, roster, cases>>

Statuses == {"none", "draft", "confirmed", "assigned", "en_route", "arrived",
             "in_progress", "completed", "cancelled"}

\* The statuses whose team is reserved.
Active == {"assigned", "en_route", "arrived", "in_progress", "completed"}

Row ==
  [status : Statuses, team : SUBSET Cleaners, start : Starts, duration : Durations,
   plan : Plans, limit : Limits, zone : Zones]

Reservation == [booking : Bookings, cleaner : Cleaners, from : Int, to : Int]

Case ==
  [booking : Bookings, slot : Int, action : {"cancel", "reschedule"},
   to : Starts \cup {Nowhere}, approved : BOOLEAN]

TypeOK ==
  /\ row \in [Bookings -> Row]
  /\ held \subseteq Reservation
  /\ settings \in [Businesses -> [limit : Limits, zone : Zones]]
  /\ roster \in [Businesses -> SUBSET Cleaners]
  /\ cases \subseteq Case

\* starts_at and ends_at
StartsAt(r) == r.start - r.zone
EndsAt(r) == StartsAt(r) + r.duration

\* The reservation of a cleaner begins before the visit by its setup and travel.
Hold(b, c, r) ==
  [booking |-> b, cleaner |-> c, from |-> StartsAt(r) - r.plan.lead, to |-> EndsAt(r)]

\* A reservation joined with the booking it belongs to.
Slot(h, r) ==
  [booking |-> h.booking, cleaner |-> h.cleaner, from |-> h.from, to |-> h.to,
   limit |-> r.limit, zone |-> r.zone, reviewed |-> r.plan.reviewed]

Slots(holds) == {Slot(h, row[h.booking]) : h \in holds}

Init ==
  /\ \E s \in Starts, d \in Durations, z \in Zones :
       row = [b \in Bookings |->
                [status |-> "none", team |-> {}, start |-> s, duration |-> d,
                 plan |-> [lead |-> 0, reviewed |-> FALSE], limit |-> 0, zone |-> z]]
  /\ held = {}
  /\ settings \in [Businesses -> [limit : Limits, zone : Zones]]
  /\ roster = [z \in Businesses |-> Cleaners]
  /\ cases = {}

-----------------------------------------------------------------------------
(* The triggers of a write that turns row[b] into r *)

\* The review of the slot that row[b] occupies.
CaseOf(b) == {k \in cases : k.booking = b /\ k.slot = StartsAt(row[b])}

\* Mutant: only the status and the start are looked at.
ReviewPermitsTeam(b, r) ==
  LET o == row[b] IN
  \/ r.start = o.start /\ r.status # "cancelled"
  \/ \E k \in CaseOf(b) :
       /\ k.approved
       /\ r.status = "cancelled" => k.action = "cancel"
       /\ r.start # o.start => k.action = "reschedule" /\ r.start = k.to
  \/ CaseOf(b) = {} /\ ~(o.status = "in_progress" /\ r.status = "cancelled")

\* guard_cancellation_review
ReviewPermits(b, r) ==
  LET o == row[b] IN
  \/ r.start = o.start /\ r.team = o.team /\ r.status # "cancelled"
  \/ \E k \in CaseOf(b) :
       /\ r.team = o.team
       /\ k.approved
       /\ r.status = "cancelled" => k.action = "cancel"
       /\ r.start # o.start => k.action = "reschedule" /\ r.start = k.to
  \/ CaseOf(b) = {} /\ ~(o.status = "in_progress" /\ r.status = "cancelled")

After(s) ==
  CASE s = "draft" -> {"confirmed", "cancelled"}
    [] s = "confirmed" -> {"assigned", "cancelled"}
    [] s = "assigned" -> {"en_route", "cancelled"}
    [] s = "en_route" -> {"arrived", "cancelled"}
    [] s = "arrived" -> {"in_progress", "cancelled"}
    [] s = "in_progress" -> {"completed", "cancelled"}
    [] OTHER -> {}

PreStart == {"draft", "confirmed", "assigned", "en_route", "arrived"}

\* validate_booking
ValidBooking(b, r) ==
  LET o == row[b] IN
  /\ o.status \notin {"none", "completed", "cancelled"}
  /\ r.status # o.status => r.status \in After(o.status)
  /\ r.start # o.start \/ r.duration # o.duration => o.status \in PreStart /\ r.status = o.status
  /\ r.team # o.team => o.status \in {"confirmed", "assigned"}
  /\ r.team # o.team \/ (r.status # o.status /\ r.status # "cancelled") =>
       r.team \subseteq roster[BusinessOf[b]]
  /\ r.status \in Active => Cardinality(r.team) >= TeamSize[b]
  /\ r.status \in {"draft", "confirmed"} => r.team = {}

WorkChanged(o, r) ==
  r.team # o.team \/ r.start # o.start \/ r.duration # o.duration \/ r.plan # o.plan

\* booking_workload_metadata: the limit is recorded once, at the first change
\* of the work of an active booking while one is configured.
Stamped(b, r) ==
  IF WorkChanged(row[b], r) /\ r.status \in Active /\ r.limit = 0
  THEN [r EXCEPT !.limit = settings[BusinessOf[b]].limit] ELSE r

PlanAllowed(b, r) ==
  /\ r.plan # row[b].plan => row[b].status \in {"draft", "confirmed", "assigned"}
  /\ WorkChanged(row[b], r) /\ r.status \in Active /\ r.limit # 0 => r.plan.reviewed

\* Mutant: cancelling does not count as a change of the reservation.
KeepsWork(o, r) == ~WorkChanged(o, r)

\* The early return of reserve_booking_staff.
KeepsHold(o, r) == ~WorkChanged(o, r) /\ (r.status = "cancelled") = (o.status = "cancelled")

\* reserve_booking_staff: what b holds is deleted and, for an active booking,
\* checked against the rest and inserted for the whole team.
Holds(b, r) == IF r.status \in Active THEN {Hold(b, c, r) : c \in r.team} ELSE {}

Others(b) == {h \in held : h.booking # b}

Reservable(b, r) == CanHold({Slot(h, r) : h \in Holds(b, r)}, Slots(Others(b)))

Write(b, new) ==
  LET r == Stamped(b, new) IN
  /\ ReviewPermits(b, r)
  /\ ValidBooking(b, r)
  /\ PlanAllowed(b, r)
  /\ row' = [row EXCEPT ![b] = r]
  /\ IF KeepsHold(row[b], r)
     THEN UNCHANGED held
     ELSE Reservable(b, r) /\ held' = Others(b) \cup Holds(b, r)
  /\ UNCHANGED <<settings, roster, cases>>

-----------------------------------------------------------------------------
(* What the office does: createBooking and the actions of updateBooking *)

Create(b, start, duration) ==
  /\ row[b].status = "none"
  /\ row' = [row EXCEPT ![b] =
       [status |-> "draft", team |-> {}, start |-> start, duration |-> duration,
        plan |-> [lead |-> 0, reviewed |-> FALSE], limit |-> 0,
        zone |-> settings[BusinessOf[b]].zone]]
  /\ UNCHANGED <<held, settings, roster, cases>>

Assign(b, team, plan) ==
  /\ row[b].status = "confirmed"
  /\ Write(b, [row[b] EXCEPT !.status = "assigned", !.team = team, !.plan = plan])

Advance(b, status) ==
  /\ status \notin {"assigned", row[b].status}
  /\ Write(b, [row[b] EXCEPT !.status = status])

Reassign(b, team, plan) ==
  /\ Cardinality(team) >= TeamSize[b]
  /\ Write(b, [row[b] EXCEPT !.team = team, !.plan = plan])

Reschedule(b, start, duration, plan) ==
  Write(b, [row[b] EXCEPT !.start = start, !.duration = duration, !.plan = plan])

ChangeSettings(z, limit, zone) ==
  /\ settings' = [settings EXCEPT ![z] = [limit |-> limit, zone |-> zone]]
  /\ UNCHANGED <<row, held, roster, cases>>

\* Staff memberships are administered elsewhere and may change at any time.
ChangeRoster(z, staff) ==
  /\ roster' = [roster EXCEPT ![z] = staff]
  /\ UNCHANGED <<row, held, settings, cases>>

\* The "prepare" event: one review per booking and original start, of a team.
Prepare(b, action, to) ==
  /\ b \in NewTerms
  /\ row[b].team # {}
  /\ CaseOf(b) = {}
  /\ action = "cancel" => to = Nowhere
  /\ cases' = cases \cup
       {[booking |-> b, slot |-> StartsAt(row[b]), action |-> action, to |-> to,
         approved |-> FALSE]}
  /\ UNCHANGED <<row, held, settings, roster>>

\* The owner's "approve" event.
Approve(k) ==
  /\ k \in cases
  /\ ~k.approved
  /\ cases' = (cases \ {k}) \cup {[k EXCEPT !.approved = TRUE]}
  /\ UNCHANGED <<row, held, settings, roster>>

Next ==
  \/ \E b \in Bookings :
       \/ \E s \in Starts, d \in Durations : Create(b, s, d)
       \/ \E team \in SUBSET Cleaners, p \in Plans : Assign(b, team, p) \/ Reassign(b, team, p)
       \/ \E s \in Statuses : Advance(b, s)
       \/ \E s \in Starts, d \in Durations, p \in Plans : Reschedule(b, s, d, p)
       \/ \E a \in {"cancel", "reschedule"}, to \in Starts \cup {Nowhere} : Prepare(b, a, to)
  \/ \E z \in Businesses :
       \/ \E l \in Limits, o \in Zones : ChangeSettings(z, l, o)
       \/ \E staff \in SUBSET Cleaners : ChangeRoster(z, staff)
  \/ \E k \in cases : Approve(k)

Spec == Init /\ [][Next]_vars

-----------------------------------------------------------------------------
(* The advisory reader audit.staff_availability *)

\* Mutant: the preview forgets the limit and the zone a booking has recorded.
PreviewOfSettings(b, r) ==
  [r EXCEPT !.limit = settings[BusinessOf[b]].limit, !.zone = settings[BusinessOf[b]].zone]

\* The candidate visit the preview judges: the recorded limit and its zone if
\* there is one, otherwise the current settings.
Preview(b, r) ==
  IF r.limit # 0 THEN r
  ELSE [r EXCEPT !.limit = settings[BusinessOf[b]].limit, !.zone = settings[BusinessOf[b]].zone]

\* Cleaner c is shown as free for booking b at its saved time and plan.
ShownFree(b, c) ==
  LET r == Preview(b, row[b])
      s == Slot(Hold(b, c, r), r)
  IN CanHold({s}, Slots(Others(b)))

-----------------------------------------------------------------------------
(* What bookings and their reservations must guarantee. *)

Calendar == INSTANCE CleanerCalendar WITH slots <- Slots(held)

\* The reservation table is exactly what the booking rows call for, although
\* the trigger returns early, deletes and re-inserts: a cancelled visit holds
\* nobody, an active one its whole team for setup, travel and visit.
HeldMatchesRows == held = UNION {Holds(b, row[b]) : b \in Bookings}

\* No cleaner is due at two bookings at once, whichever businesses they belong to.
NoDoubleBooking == Calendar!NoDoubleBooking

\* Once a booking has recorded a daily limit, the work of its cleaners on its
\* days stays reviewed and within it, over all businesses, including those
\* without a limit, whatever is booked, moved or reconfigured later.
LimitsKept == Calendar!LimitsKept

\* Every write changes the calendar as CleanerCalendar allows.
KeepsCalendar == Calendar!Spec

\* The limit a booking has recorded survives every later edit of the booking
\* and of the settings.
LimitRecordedOnce ==
  [][\A b \in Bookings : row[b].limit # 0 => row'[b].limit = row[b].limit]_vars

\* A slot under cancellation review is frozen until the owner approves: its
\* team stays, it is cancelled only by an approved cancellation, and it moves
\* only to the approved start. Work in progress stops only by such an approval.
ReviewRespected ==
  [][\A b \in Bookings :
       LET o == row[b]
           r == row'[b]
           approved == {k \in CaseOf(b) : k.approved}
           cancels == o.status # "cancelled" /\ r.status = "cancelled"
       IN /\ CaseOf(b) # {} => r.team = o.team
          /\ CaseOf(b) # {} /\ r.start # o.start => \E k \in approved : k.to = r.start
          /\ cancels /\ (CaseOf(b) # {} \/ o.status = "in_progress") =>
               \E k \in approved : k.action = "cancel"]_vars

\* Cleaner c can take booking b over, or on, at its saved time and plan.
Bookable(b, c) ==
  LET r == Stamped(b, [row[b] EXCEPT !.status = "assigned", !.team = {c}])
  IN PlanAllowed(b, r) /\ Reservable(b, r)

\* The availability preview of a saved booking agrees with what saving would
\* decide, for a cleaner who would join or once a limit is recorded, and as long
\* as the business keeps the zone of a booking that has recorded no limit.
PreviewAgrees ==
  \A b \in Bookings, c \in Cleaners :
    /\ row[b].status \in {"confirmed", "assigned"}
    /\ c \notin row[b].team \/ row[b].limit # 0
    /\ row[b].limit = 0 => settings[BusinessOf[b]].zone = row[b].zone
    => (ShownFree(b, c) <=> Bookable(b, c))

\* docs/cleaning-duration-and-workload.md: "Policy/day boundaries use the saved
\* booking time zone." The preview of a confirmed booking under a configured
\* limit counts the days in the zone the business has now.
PreviewUsesSavedZone ==
  \A b \in Bookings :
    row[b].status = "confirmed" /\ Preview(b, row[b]).limit # 0 =>
      Preview(b, row[b]).zone = row[b].zone

-----------------------------------------------------------------------------
(* The inductive invariant *)

Unassigned == {"none", "draft", "confirmed"}

\* Before a visit is assigned nobody is on its team, it has recorded no limit
\* and it is not under review.
UnassignedRows ==
  /\ \A b \in Bookings : row[b].status \in Unassigned => row[b].team = {} /\ row[b].limit = 0
  /\ \A k \in cases : row[k.booking].status \notin Unassigned

\* What every write relies on and restores, of the rows and the reservations.
IInv ==
  /\ TypeOK
  /\ UnassignedRows
  /\ HeldMatchesRows
  /\ NoDoubleBooking
=============================================================================
