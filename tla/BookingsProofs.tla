--------------------------- MODULE BookingsProofs ---------------------------
(***************************************************************************)
(* Bookings and their reservations, for every set of bookings and          *)
(* businesses, every finite staff and every team and time: the reservation *)
(* table never drifts from the booking rows, nobody is booked twice, every *)
(* recorded daily limit is kept, and the whole is CleanerCalendar. What a  *)
(* day's work adds up to is proved with the lemmas of WorkloadFacts.       *)
(***************************************************************************)
EXTENDS Bookings, WorkloadFacts, TLAPS

\* What a row reserves.
LEMMA HoldFields ==
  ASSUME NEW b, NEW r, NEW h \in Holds(b, r)
  PROVE  /\ h.booking = b /\ h.cleaner \in r.team /\ r.status \in Active
         /\ h.from = StartsAt(r) - r.plan.lead /\ h.to = EndsAt(r)
BY DEF Holds, Hold

LEMMA HoldTypes ==
  ASSUME NEW b \in Bookings, NEW r \in Row
  PROVE  Holds(b, r) \subseteq Reservation
<1>1. /\ r.start \in Nat /\ r.zone \in Nat /\ r.duration \in Nat /\ r.team \subseteq Cleaners
      /\ r.plan \in [lead : Nat, reviewed : BOOLEAN]
  BY BookingsAssumption DEF Row
<1>2. StartsAt(r) - r.plan.lead \in Int /\ EndsAt(r) \in Int
  BY <1>1 DEF StartsAt, EndsAt
<1>3. QED
  BY <1>1, <1>2 DEF Holds, Hold, Reservation

\* A slot keeps the booking, the cleaner and the interval of its reservation.
LEMMA SlotKeeps ==
  ASSUME NEW h, NEW r
  PROVE  /\ Slot(h, r).booking = h.booking /\ Slot(h, r).cleaner = h.cleaner
         /\ Slot(h, r).from = h.from /\ Slot(h, r).to = h.to
BY DEF Slot

\* No double booking, said of the reservations themselves.
HeldApart ==
  \A g, h \in held :
    g.cleaner = h.cleaner /\ g.booking # h.booking => ~Meets(h, g.from, g.to)

LEMMA ApartIsNoDoubleBooking == HeldApart <=> NoDoubleBooking
<1>1. ASSUME HeldApart
      PROVE  NoDoubleBooking
  BY <1>1, SlotKeeps DEF HeldApart, NoDoubleBooking, Calendar!NoDoubleBooking, Calendar!Meets, Meets, Slots
<1>2. ASSUME NoDoubleBooking, NEW g \in held, NEW h \in held,
             g.cleaner = h.cleaner, g.booking # h.booking
      PROVE  ~Meets(h, g.from, g.to)
  <2>1. Slot(g, row[g.booking]) \in Slots(held) /\ Slot(h, row[h.booking]) \in Slots(held)
    BY <1>2 DEF Slots
  <2>2. QED
    BY <1>2, <2>1, SlotKeeps DEF NoDoubleBooking, Calendar!NoDoubleBooking, Calendar!Meets, Meets
<1>3. QED
  BY <1>1, <1>2 DEF HeldApart

\* The reservations of a booking are those its row calls for.
LEMMA HeldOfBooking ==
  ASSUME HeldMatchesRows
  PROVE  /\ \A h \in held : h.booking \in Bookings /\ h \in Holds(h.booking, row[h.booking])
         /\ \A b \in Bookings : Holds(b, row[b]) \subseteq held
<1>1. ASSUME NEW h \in held
      PROVE  h.booking \in Bookings /\ h \in Holds(h.booking, row[h.booking])
  <2>1. PICK b \in Bookings : h \in Holds(b, row[b])
    BY <1>1 DEF HeldMatchesRows
  <2>2. h.booking = b
    BY <2>1, HoldFields
  <2>3. QED
    BY <2>1, <2>2
<1>2. QED
  BY <1>1 DEF HeldMatchesRows

LEMMA InitIInv == Init => IInv
<1> SUFFICES ASSUME Init PROVE IInv
  OBVIOUS
<1>1. PICK s \in Starts, d \in Durations, z \in Zones :
        row = [b \in Bookings |->
                [status |-> "none", team |-> {}, start |-> s, duration |-> d,
                 plan |-> [lead |-> 0, reviewed |-> FALSE], limit |-> 0, zone |-> z]]
  BY DEF Init
<1>2. row \in [Bookings -> Row]
  BY <1>1, BookingsAssumption DEF Row, Statuses
<1>3. TypeOK
  BY <1>2 DEF Init, TypeOK
<1>4. \A b \in Bookings : Holds(b, row[b]) = {}
  BY <1>1 DEF Holds, Active
<1>5. HeldMatchesRows
  BY <1>4 DEF Init, HeldMatchesRows
<1>6. NoDoubleBooking
  BY ApartIsNoDoubleBooking DEF Init, HeldApart
<1>7. UnassignedRows
  BY <1>1 DEF Init, UnassignedRows
<1>8. QED
  BY <1>3, <1>5, <1>6, <1>7 DEF IInv

-----------------------------------------------------------------------------
(* The triggers *)

LEMMA StampedType ==
  ASSUME TypeOK, NEW b \in Bookings, NEW r \in Row
  PROVE  /\ Stamped(b, r) \in Row /\ Stamped(b, r).status = r.status
         /\ Stamped(b, r).team = r.team /\ Stamped(b, r).start = r.start
         /\ Stamped(b, r).zone = r.zone
<1>1. settings[BusinessOf[b]].limit \in Limits
  BY BookingsAssumption DEF TypeOK
<1>2. \A l \in Limits : /\ [r EXCEPT !.limit = l] \in Row
                        /\ [r EXCEPT !.limit = l].status = r.status
                        /\ [r EXCEPT !.limit = l].team = r.team
                        /\ [r EXCEPT !.limit = l].start = r.start
  BY DEF Row
<1>3. QED
  BY <1>1, <1>2 DEF Stamped

\* A recorded limit stays; one is recorded for active bookings only.
LEMMA StampedLimit ==
  ASSUME TypeOK, NEW b \in Bookings, NEW r \in Row, r.limit # 0 \/ r.status \notin Active
  PROVE  Stamped(b, r).limit = r.limit
BY DEF Stamped

\* The early return is right: what the row called for it still calls for.
LEMMA KeptHolds ==
  ASSUME IInv, NEW b \in Bookings, NEW r \in Row, r.zone = row[b].zone,
         ValidBooking(b, r), KeepsHold(row[b], r)
  PROVE  Holds(b, r) = Holds(b, row[b])
<1> DEFINE o == row[b]
<1>1. o \in Row
  BY DEF IInv, TypeOK
<1>2. r.team = o.team /\ r.start = o.start /\ r.duration = o.duration /\ r.plan = o.plan
  BY DEF KeepsHold, WorkChanged
<1>3. CASE o.status \in {"draft", "confirmed"}
  <2>1. r.team = {}
    BY <1>2, <1>3 DEF IInv, UnassignedRows, Unassigned
  <2>2. QED
    BY <1>2, <2>1 DEF Holds
<1>4. CASE o.status \in Active \ {"completed"}
  <2>1. r.status \in Active \/ r.status = "cancelled"
    BY <1>4 DEF ValidBooking, After, Active
  <2>2. r.status # "cancelled"
    BY <1>4 DEF KeepsHold, Active
  <2>3. QED
    BY <1>2, <1>4, <2>1, <2>2 DEF Holds, Hold, StartsAt, EndsAt
<1>5. QED
  BY <1>1, <1>3, <1>4 DEF ValidBooking, Row, Statuses, Active

\* A row that is refused a double booking meets no other reservation.
LEMMA ReservableApart ==
  ASSUME NEW b, NEW r, Reservable(b, r), NEW g \in Holds(b, r), NEW h \in Others(b),
         g.cleaner = h.cleaner
  PROVE  ~Meets(h, g.from, g.to)
<1>1. Slot(g, r) \in {Slot(k, r) : k \in Holds(b, r)}
  OBVIOUS
<1>2. Disjoint(Slot(g, r), OfCleaner(Slots(Others(b)), Slot(g, r).cleaner))
  BY <1>1 DEF Reservable, CanHold
<1>3. Slot(h, row[h.booking]) \in OfCleaner(Slots(Others(b)), Slot(g, r).cleaner)
  BY SlotKeeps DEF OfCleaner, Slots
<1>4. QED
  BY <1>2, <1>3, SlotKeeps DEF Disjoint, Meets

\* The whole trigger pipeline restores the invariant.
LEMMA WriteKeepsIInv ==
  ASSUME IInv, NEW b \in Bookings, NEW new \in Row, new.zone = row[b].zone,
         new.limit = row[b].limit, Write(b, new)
  PROVE  IInv'
<1> DEFINE r == Stamped(b, new)
<1>1. r \in Row /\ r.zone = row[b].zone
  BY StampedType DEF IInv
<1>2. /\ ValidBooking(b, r)
      /\ row' = [row EXCEPT ![b] = r]
      /\ IF KeepsHold(row[b], r)
         THEN UNCHANGED held
         ELSE Reservable(b, r) /\ held' = Others(b) \cup Holds(b, r)
      /\ UNCHANGED <<settings, roster, cases>>
  BY DEF Write
<1> HIDE DEF r
<1>3. row'[b] = r /\ \A a \in Bookings \ {b} : row'[a] = row[a]
  BY <1>2 DEF IInv, TypeOK
<1>4. \/ UNCHANGED held /\ Holds(b, r) = Holds(b, row[b])
      \/ Reservable(b, r) /\ held' = Others(b) \cup Holds(b, r)
  BY <1>1, <1>2, KeptHolds
<1>5. TypeOK'
  <2>1. held' \subseteq Reservation
    BY <1>1, <1>4, HoldTypes DEF IInv, TypeOK, Others
  <2>2. QED
    BY <1>1, <1>2, <2>1 DEF IInv, TypeOK
<1>6. UnassignedRows'
  <2>1. r.status \in Unassigned => row[b].status \in Unassigned /\ r.team = {} /\ r.limit = 0
    <3>1. r.status \in Unassigned => row[b].status \in Unassigned
      BY <1>2 DEF ValidBooking, After, Unassigned
    <3>2. r.status \in Unassigned => r.team = {}
      BY <1>1, <1>2 DEF ValidBooking, Unassigned, After
    <3>3. r.status \in Unassigned => r.limit = row[b].limit
      <4>1. r.status = new.status
        BY StampedType DEF r, IInv
      <4>2. new.status \in Unassigned => new.status \notin Active
        BY DEF Unassigned, Active
      <4>3. QED
        BY <4>1, <4>2, StampedLimit DEF r, IInv
    <3>4. QED
      BY <3>1, <3>2, <3>3 DEF IInv, UnassignedRows
  <2>2. \A k \in cases : row[k.booking].status \notin Unassigned /\ k.booking \in Bookings
    BY DEF IInv, UnassignedRows, TypeOK, Case
  <2>3. QED
    BY <1>2, <1>3, <2>1, <2>2 DEF IInv, UnassignedRows
<1>7. HeldMatchesRows'
  <2>1. \A a \in Bookings \ {b} : Holds(a, row'[a]) = Holds(a, row[a])
    BY <1>3
  <2>2. CASE UNCHANGED held /\ Holds(b, r) = Holds(b, row[b])
    <3>1. \A a \in Bookings : Holds(a, row'[a]) = Holds(a, row[a])
      BY <1>3, <2>1, <2>2
    <3>2. QED
      BY <2>2, <3>1 DEF IInv, HeldMatchesRows, Holds, Hold
  <2>3. CASE held' = Others(b) \cup Holds(b, r)
    <3>1. \A h \in held' : \E a \in Bookings : h \in Holds(a, row'[a])
      BY <1>3, <2>1, <2>3, HeldOfBooking DEF IInv, Others
    <3>2. \A a \in Bookings : Holds(a, row'[a]) \subseteq held'
      <4> SUFFICES ASSUME NEW a \in Bookings PROVE Holds(a, row'[a]) \subseteq held'
        OBVIOUS
      <4>1. CASE a = b
        BY <4>1, <1>3, <2>3
      <4>2. CASE a # b
        BY <4>2, <2>1, <2>3, HeldOfBooking, HoldFields DEF IInv, Others
      <4>3. QED
        BY <4>1, <4>2
    <3>3. held' = UNION {Holds(a, row'[a]) : a \in Bookings}
      BY <3>1, <3>2
    <3>4. QED
      BY <3>3 DEF HeldMatchesRows, Holds, Hold
  <2>4. QED
    BY <1>4, <2>2, <2>3
<1>8. NoDoubleBooking'
  <2>1. \A g, h \in held :
          g.cleaner = h.cleaner /\ g.booking # h.booking => ~Meets(h, g.from, g.to)
    BY ApartIsNoDoubleBooking DEF IInv, HeldApart
  <2>2. \A g, h \in held' :
          g.cleaner = h.cleaner /\ g.booking # h.booking => ~Meets(h, g.from, g.to)
    <3>1. CASE UNCHANGED held
      BY <2>1, <3>1
    <3>2. CASE Reservable(b, r) /\ held' = Others(b) \cup Holds(b, r)
      <4> SUFFICES ASSUME NEW g \in held', NEW h \in held',
                          g.cleaner = h.cleaner, g.booking # h.booking
                   PROVE  ~Meets(h, g.from, g.to)
        OBVIOUS
      <4>1. /\ g.from \in Int /\ g.to \in Int /\ h.from \in Int /\ h.to \in Int
        BY <1>5 DEF TypeOK, Reservation
      <4>2. CASE g \in Others(b) /\ h \in Others(b)
        BY <2>1, <4>2 DEF Others
      <4>3. CASE g \in Holds(b, r)
        <5>1. h \in Others(b)
          BY <3>2, <4>3, HoldFields
        <5>2. QED
          BY <3>2, <4>3, <5>1, ReservableApart
      <4>4. CASE h \in Holds(b, r)
        <5>1. g \in Others(b)
          BY <3>2, <4>4, HoldFields
        <5>2. ~Meets(g, h.from, h.to)
          BY <3>2, <4>4, <5>1, ReservableApart
        <5>3. QED
          BY <4>1, <5>2 DEF Meets
      <4>5. QED
        BY <3>2, <4>2, <4>3, <4>4
    <3>3. QED
      BY <1>4, <3>1, <3>2
  <2>3. HeldApart'
    BY <2>2 DEF HeldApart, Meets
  <2>4. (HeldApart <=> NoDoubleBooking)'
    BY ApartIsNoDoubleBooking, PTL
  <2>5. QED
    BY <2>3, <2>4
<1>9. QED
  BY <1>5, <1>6, <1>7, <1>8 DEF IInv

-----------------------------------------------------------------------------
(* The actions *)

\* A new booking reserves nobody.
LEMMA CreateKeepsIInv ==
  ASSUME IInv, NEW b \in Bookings, NEW start \in Starts, NEW duration \in Durations,
         Create(b, start, duration)
  PROVE  IInv'
<1> DEFINE r == [status |-> "draft", team |-> {}, start |-> start, duration |-> duration,
                 plan |-> [lead |-> 0, reviewed |-> FALSE], limit |-> 0,
                 zone |-> settings[BusinessOf[b]].zone]
<1>1. r \in Row /\ r.status = "draft" /\ r.team = {} /\ r.limit = 0
  BY BookingsAssumption DEF Row, Statuses, IInv, TypeOK
<1>2. /\ row[b].status = "none" /\ row' = [row EXCEPT ![b] = r]
      /\ UNCHANGED <<held, settings, roster, cases>>
  BY DEF Create
<1> HIDE DEF r
<1>3. row'[b] = r /\ \A a \in Bookings \ {b} : row'[a] = row[a]
  BY <1>2 DEF IInv, TypeOK
<1>4. TypeOK'
  BY <1>1, <1>2 DEF IInv, TypeOK
<1>5. UnassignedRows'
  <2>1. \A k \in cases : row[k.booking].status \notin Unassigned /\ k.booking \in Bookings
    BY DEF IInv, UnassignedRows, TypeOK, Case
  <2>2. row[b].status \in Unassigned
    BY <1>2 DEF Unassigned
  <2>3. QED
    BY <1>1, <1>2, <1>3, <2>1, <2>2 DEF IInv, UnassignedRows
<1>6. Holds(b, r) = {} /\ Holds(b, row[b]) = {}
  BY <1>1, <1>2 DEF Holds, Active
<1>7. \A a \in Bookings : Holds(a, row'[a]) = Holds(a, row[a])
  BY <1>3, <1>6
<1>8. HeldMatchesRows'
  BY <1>2, <1>7 DEF IInv, HeldMatchesRows, Holds, Hold
<1>9. NoDoubleBooking'
  <2>1. HeldApart'
    BY <1>2, ApartIsNoDoubleBooking DEF IInv, HeldApart, Meets
  <2>2. (HeldApart <=> NoDoubleBooking)'
    BY ApartIsNoDoubleBooking, PTL
  <2>3. QED
    BY <2>1, <2>2
<1>10. QED
  BY <1>4, <1>5, <1>8, <1>9 DEF IInv

\* Steps that leave rows and reservations alone.
LEMMA ElsewhereKeepsIInv ==
  ASSUME IInv, UNCHANGED <<row, held>>, TypeOK', UnassignedRows'
  PROVE  IInv'
<1>1. HeldMatchesRows' /\ HeldApart'
  BY ApartIsNoDoubleBooking DEF IInv, HeldMatchesRows, HeldApart, Holds, Hold, Meets
<1>2. (HeldApart <=> NoDoubleBooking)'
  BY ApartIsNoDoubleBooking, PTL
<1>3. QED
  BY <1>1, <1>2 DEF IInv

\* A review that is prepared or approved is a case.
LEMMA CasesTyped ==
  ASSUME TypeOK, NEW b \in Bookings, NEW a \in {"cancel", "reschedule"},
         NEW to \in Starts \cup {Nowhere}
  PROVE  /\ [booking |-> b, slot |-> StartsAt(row[b]), action |-> a, to |-> to,
             approved |-> FALSE] \in Case
         /\ \A k \in Case : [k EXCEPT !.approved = TRUE] \in Case
<1>1. row[b].start \in Nat /\ row[b].zone \in Nat
  BY BookingsAssumption DEF TypeOK, Row
<1>2. StartsAt(row[b]) \in Int
  BY <1>1 DEF StartsAt
<1>3. QED
  BY <1>2 DEF Case

\* Every edit of the office is a write of a row that keeps the zone and the
\* recorded limit.
EditOf(b) ==
  \/ \E team \in SUBSET Cleaners, p \in Plans : Assign(b, team, p) \/ Reassign(b, team, p)
  \/ \E s \in Statuses : Advance(b, s)
  \/ \E s \in Starts, d \in Durations, p \in Plans : Reschedule(b, s, d, p)

LEMMA EditsWrite ==
  ASSUME IInv, NEW b \in Bookings, EditOf(b)
  PROVE  \E new \in Row : new.zone = row[b].zone /\ new.limit = row[b].limit /\ Write(b, new)
<1>1. row[b] \in Row /\ "assigned" \in Statuses
  BY DEF IInv, TypeOK, Statuses
<1>2. ASSUME NEW team \in SUBSET Cleaners, NEW p \in Plans,
             Assign(b, team, p) \/ Reassign(b, team, p)
      PROVE  \E new \in Row :
               new.zone = row[b].zone /\ new.limit = row[b].limit /\ Write(b, new)
  <2> DEFINE n == [row[b] EXCEPT !.status = "assigned", !.team = team, !.plan = p]
             m == [row[b] EXCEPT !.team = team, !.plan = p]
  <2>1. n \in Row /\ n.zone = row[b].zone /\ n.limit = row[b].limit
    BY <1>1 DEF Row
  <2>2. m \in Row /\ m.zone = row[b].zone /\ m.limit = row[b].limit
    BY <1>1 DEF Row
  <2>3. Write(b, n) \/ Write(b, m)
    BY <1>2 DEF Assign, Reassign
  <2> HIDE DEF n, m
  <2>4. QED
    BY <2>1, <2>2, <2>3
<1>3. ASSUME NEW s \in Statuses, Advance(b, s)
      PROVE  \E new \in Row :
               new.zone = row[b].zone /\ new.limit = row[b].limit /\ Write(b, new)
  <2> DEFINE n == [row[b] EXCEPT !.status = s]
  <2>1. n \in Row /\ n.zone = row[b].zone /\ n.limit = row[b].limit
    BY <1>1 DEF Row
  <2>2. Write(b, n)
    BY <1>3 DEF Advance
  <2> HIDE DEF n
  <2>3. QED
    BY <2>1, <2>2
<1>4. ASSUME NEW s \in Starts, NEW d \in Durations, NEW p \in Plans, Reschedule(b, s, d, p)
      PROVE  \E new \in Row :
               new.zone = row[b].zone /\ new.limit = row[b].limit /\ Write(b, new)
  <2> DEFINE n == [row[b] EXCEPT !.start = s, !.duration = d, !.plan = p]
  <2>1. n \in Row /\ n.zone = row[b].zone /\ n.limit = row[b].limit
    BY <1>1 DEF Row
  <2>2. Write(b, n)
    BY <1>4 DEF Reschedule
  <2> HIDE DEF n
  <2>3. QED
    BY <2>1, <2>2
<1>5. QED
  BY <1>2, <1>3, <1>4 DEF EditOf

LEMMA NextIInv == IInv /\ [Next]_vars => IInv'
<1> SUFFICES ASSUME IInv, [Next]_vars PROVE IInv'
  OBVIOUS
<1>1. ASSUME NEW b \in Bookings, NEW s \in Starts, NEW d \in Durations, Create(b, s, d)
      PROVE  IInv'
  BY <1>1, CreateKeepsIInv
<1>2. ASSUME NEW b \in Bookings, EditOf(b) PROVE IInv'
  BY <1>2, EditsWrite, WriteKeepsIInv
<1>3. ASSUME NEW b \in Bookings, NEW a \in {"cancel", "reschedule"},
             NEW to \in Starts \cup {Nowhere}, Prepare(b, a, to)
      PROVE  IInv'
  <2> DEFINE k == [booking |-> b, slot |-> StartsAt(row[b]), action |-> a, to |-> to,
                   approved |-> FALSE]
  <2>1. k \in Case /\ k.booking = b
    BY <1>3, CasesTyped DEF IInv
  <2>2. row[b].team # {} /\ cases' = cases \cup {k} /\ UNCHANGED <<row, held, settings, roster>>
    BY <1>3 DEF Prepare
  <2> HIDE DEF k
  <2>3. TypeOK' /\ UnassignedRows'
    BY <2>1, <2>2 DEF IInv, TypeOK, UnassignedRows
  <2>4. QED
    BY <2>2, <2>3, ElsewhereKeepsIInv
<1>4. ASSUME NEW z \in Businesses, NEW l \in Limits, NEW o \in Zones, ChangeSettings(z, l, o)
      PROVE  IInv'
  BY <1>4, ElsewhereKeepsIInv DEF ChangeSettings, IInv, TypeOK, UnassignedRows
<1>5. ASSUME NEW z \in Businesses, NEW staff \in SUBSET Cleaners, ChangeRoster(z, staff)
      PROVE  IInv'
  BY <1>5, ElsewhereKeepsIInv DEF ChangeRoster, IInv, TypeOK, UnassignedRows
<1>6. ASSUME NEW k \in cases, Approve(k) PROVE IInv'
  <2> DEFINE a == [k EXCEPT !.approved = TRUE]
  <2>1. a \in Case /\ a.booking = k.booking
    BY <1>6 DEF IInv, TypeOK, Case
  <2>2. k \in cases /\ cases' = (cases \ {k}) \cup {a} /\ UNCHANGED <<row, held, settings, roster>>
    BY <1>6 DEF Approve
  <2> HIDE DEF a
  <2>3. TypeOK' /\ UnassignedRows'
    BY <2>1, <2>2 DEF IInv, TypeOK, UnassignedRows
  <2>4. QED
    BY <2>2, <2>3, ElsewhereKeepsIInv
<1>7. CASE UNCHANGED vars
  BY <1>7, ElsewhereKeepsIInv DEF vars, IInv, TypeOK, UnassignedRows
<1>8. QED
  BY <1>1, <1>2, <1>3, <1>4, <1>5, <1>6, <1>7 DEF Next, EditOf

-----------------------------------------------------------------------------
(* The theorems *)

\* Rows and reservations stay typed and consistent.
LEMMA Inductive == Spec => []IInv
<1>1. QED
  BY InitIInv, NextIInv, PTL DEF Spec

\* The reservation table is always exactly what the booking rows call for.
THEOREM HeldAlwaysMatchesRows == Spec => []HeldMatchesRows
<1>1. IInv => HeldMatchesRows
  BY DEF IInv
<1>2. QED
  BY <1>1, Inductive, PTL

\* No sequence of office actions books a cleaner twice.
THEOREM NeverDoubleBooked == Spec => []NoDoubleBooking
<1>1. IInv => NoDoubleBooking
  BY DEF IInv
<1>2. QED
  BY <1>1, Inductive, PTL

\* What a step may do to the rows.
LEMMA RowSteps ==
  ASSUME IInv, [Next]_vars
  PROVE  \/ UNCHANGED row
         \/ \E b \in Bookings, s \in Starts, d \in Durations : Create(b, s, d)
         \/ \E b \in Bookings : EditOf(b)
BY DEF Next, vars, EditOf, Prepare, Approve, ChangeSettings, ChangeRoster

\* A recorded limit outlives every edit of the booking and of the settings.
THEOREM LimitStaysRecorded == Spec => LimitRecordedOnce
<1> DEFINE Stays == \A b \in Bookings : row[b].limit # 0 => row'[b].limit = row[b].limit
<1>1. IInv /\ [Next]_vars => [Stays]_vars
  <2> SUFFICES ASSUME IInv, [Next]_vars, NEW b \in Bookings, row[b].limit # 0
               PROVE  row'[b].limit = row[b].limit
    OBVIOUS
  <2>1. ASSUME NEW a \in Bookings, NEW s \in Starts, NEW d \in Durations, Create(a, s, d)
        PROVE  row'[b].limit = row[b].limit
    <3>1. a # b
      BY <2>1 DEF Create, IInv, UnassignedRows, Unassigned
    <3>2. QED
      BY <2>1, <3>1 DEF Create, IInv, TypeOK
  <2>2. ASSUME NEW a \in Bookings, EditOf(a) PROVE row'[b].limit = row[b].limit
    <3>1. PICK new \in Row : new.limit = row[a].limit /\ Write(a, new)
      BY <2>2, EditsWrite
    <3>2. row' = [row EXCEPT ![a] = Stamped(a, new)]
      BY <3>1 DEF Write
    <3>3. a = b => Stamped(a, new).limit = row[b].limit
      BY <3>1, StampedLimit DEF IInv
    <3>4. QED
      BY <3>2, <3>3 DEF IInv, TypeOK
  <2>3. QED
    BY <2>1, <2>2, RowSteps
<1>2. QED
  BY <1>1, Inductive, PTL DEF Spec, LimitRecordedOnce

\* A slot under review is frozen until the owner approves, whoever edits the
\* booking and in whatever order the review's events and the edits come.
THEOREM ReviewAlwaysRespected == Spec => ReviewRespected
<1> DEFINE Kept(b) ==
      LET o == row[b]
          r == row'[b]
          approved == {k \in CaseOf(b) : k.approved}
          cancels == o.status # "cancelled" /\ r.status = "cancelled"
      IN /\ CaseOf(b) # {} => r.team = o.team
         /\ CaseOf(b) # {} /\ r.start # o.start => \E k \in approved : k.to = r.start
         /\ cancels /\ (CaseOf(b) # {} \/ o.status = "in_progress") =>
              \E k \in approved : k.action = "cancel"
<1>1. IInv /\ [Next]_vars => [\A b \in Bookings : Kept(b)]_vars
  <2> SUFFICES ASSUME IInv, [Next]_vars, NEW b \in Bookings PROVE Kept(b)
    OBVIOUS
  <2>1. CASE row'[b] = row[b]
    BY <2>1
  <2>2. ASSUME NEW a \in Bookings, NEW s \in Starts, NEW d \in Durations, Create(a, s, d)
        PROVE  Kept(b)
    <3>1. CASE a = b
      <4>1. CaseOf(b) = {} /\ row[b].status = "none"
        BY <2>2, <3>1 DEF Create, CaseOf, IInv, UnassignedRows, Unassigned
      <4>2. QED
        BY <4>1
    <3>2. CASE a # b
      BY <2>1, <2>2, <3>2 DEF Create, IInv, TypeOK
    <3>3. QED
      BY <3>1, <3>2
  <2>3. ASSUME NEW a \in Bookings, EditOf(a) PROVE Kept(b)
    <3>1. PICK new \in Row : Write(a, new)
      BY <2>3, EditsWrite
    <3>2. row' = [row EXCEPT ![a] = Stamped(a, new)] /\ ReviewPermits(a, Stamped(a, new))
      BY <3>1 DEF Write
    <3>3. CASE a = b
      <4>1. row'[b] = Stamped(b, new) /\ ReviewPermits(b, row'[b])
        BY <3>2, <3>3 DEF IInv, TypeOK
      <4>2. QED
        BY <4>1 DEF ReviewPermits
    <3>4. CASE a # b
      BY <2>1, <3>2, <3>4 DEF IInv, TypeOK
    <3>5. QED
      BY <3>3, <3>4
  <2>4. QED
    BY <2>1, <2>2, <2>3, RowSteps
<1>2. QED
  BY <1>1, Inductive, PTL DEF Spec, ReviewRespected

-----------------------------------------------------------------------------
(* The limits, and the calendar *)

\* The limits of the reservations, cleaner by cleaner.
LimitsOfHeld == \A c \in Cleaners : WithinOwnLimits(OfCleaner(Slots(held), c))

\* The slots of reservations under given rows.
SlotsUnder(holds, rows) == {Slot(h, rows[h.booking]) : h \in holds}

\* CleanerCalendar counts the work of a day as the trigger does.
LEMMA SameWork ==
  ASSUME NEW S, NEW d, NEW zone
  PROVE  Calendar!Work(S, d, zone) = Work(S, d, zone)
BY DEF Calendar!Work, Calendar!MapThenSumSet, Calendar!MapThenFoldSet, Calendar!MinutesOn,
       Calendar!OnDay, Calendar!Meets, Calendar!DayStart, Calendar!Earlier, Calendar!Later,
       Work, MapThenSumSet, MapThenFoldSet, MinutesOn, OnDay, Meets, DayStart, Earlier, Later

LEMMA SameDays ==
  ASSUME NEW S, NEW d, NEW zone, NEW s
  PROVE  /\ Calendar!OnDay(S, d, zone) = OnDay(S, d, zone)
         /\ Calendar!Days(s, zone) = Days(s, zone)
         /\ Calendar!OfCleaner(S, s.cleaner) = OfCleaner(S, s.cleaner)
BY DEF Calendar!OnDay, Calendar!Meets, Calendar!DayStart, Calendar!Days, Calendar!Day,
       Calendar!OfCleaner, OnDay, Meets, DayStart, Days, Day, OfCleaner

LEMMA RowTypes ==
  ASSUME NEW r \in Row
  PROVE  /\ r.start \in Nat /\ r.zone \in Nat /\ r.limit \in Nat
         /\ r.duration \in Nat /\ r.duration > 0 /\ r.plan.lead \in Nat /\ r.team \subseteq Cleaners
<1>1. r.plan \in [lead : Nat, reviewed : BOOLEAN]
  BY BookingsAssumption DEF Row
<1>2. r.duration \in Nat \ {0} /\ r.start \in Nat /\ r.zone \in Nat /\ r.limit \in Nat /\ r.team \subseteq Cleaners
  BY BookingsAssumption DEF Row
<1> QED
  BY <1>1, <1>2

LEMMA SlotTypes ==
  ASSUME IInv, IsFiniteSet(held)
  PROVE  /\ SlotSet(Slots(held))
         /\ \A s \in Slots(held) : s.cleaner \in Cleaners
<1>1. IsFiniteSet(Slots(held))
  <2> DEFINE f == [h \in held |-> Slot(h, row[h.booking])]
  <2>1. f \in Surjection(held, Slots(held))
    BY DEF Surjection, Slots
  <2> QED
    BY <2>1, FS_Surjection
<1>2. ASSUME NEW h \in held
      PROVE  LET s == Slot(h, row[h.booking])
             IN  /\ s.from \in Int /\ s.to \in Int /\ s.from < s.to
                 /\ s.limit \in Nat /\ s.zone \in Int /\ s.cleaner \in Cleaners
  <2> DEFINE r == row[h.booking]
  <2>1. h.booking \in Bookings /\ h \in Holds(h.booking, r)
    BY HeldOfBooking DEF IInv
  <2>2. r \in Row
    BY <2>1 DEF IInv, TypeOK
  <2> HIDE DEF r
  <2>3. /\ r.start \in Nat /\ r.zone \in Nat /\ r.limit \in Nat
        /\ r.duration \in Nat /\ r.duration > 0 /\ r.plan.lead \in Nat /\ r.team \subseteq Cleaners
    BY <2>2, RowTypes
  <2>4. h.from = (r.start - r.zone) - r.plan.lead /\ h.to = (r.start - r.zone) + r.duration /\ h.cleaner \in r.team
    BY <2>1, HoldFields DEF StartsAt, EndsAt
  <2>5. h.from \in Int /\ h.to \in Int /\ h.from < h.to /\ h.cleaner \in Cleaners
    BY <2>3, <2>4
  <2>6. /\ Slot(h, r).from = h.from /\ Slot(h, r).to = h.to /\ Slot(h, r).limit = r.limit
        /\ Slot(h, r).zone = r.zone /\ Slot(h, r).cleaner = h.cleaner
    BY DEF Slot
  <2>7. Slot(h, r).zone \in Int
    BY <2>3, <2>6
  <2> QED
    BY <2>3, <2>5, <2>6, <2>7 DEF r
<1>3. \A s \in Slots(held) :
        /\ s.from \in Int /\ s.to \in Int /\ s.from < s.to
        /\ s.limit \in Nat /\ s.zone \in Int /\ s.cleaner \in Cleaners
  BY <1>2 DEF Slots
<1> QED
  BY <1>1, <1>3 DEF SlotSet

LEMMA LimitsOfCalendar ==
  ASSUME IInv, IsFiniteSet(held)
  PROVE  LimitsOfHeld => LimitsKept
<1> SUFFICES ASSUME LimitsOfHeld, NEW s \in Slots(held), s.limit # 0,
                    NEW d \in Calendar!Days(s, s.zone)
             PROVE  /\ \A t \in Calendar!OnDay(Calendar!OfCleaner(Slots(held), s.cleaner), d, s.zone) : t.reviewed
                    /\ Calendar!Work(Calendar!OfCleaner(Slots(held), s.cleaner), d, s.zone) <= s.limit
  BY DEF LimitsKept, Calendar!LimitsKept
<1> DEFINE S == OfCleaner(Slots(held), s.cleaner)
<1>1. s.cleaner \in Cleaners
  BY SlotTypes
<1>2. WithinOwnLimits(S) /\ s \in S
  BY <1>1 DEF LimitsOfHeld, OfCleaner
<1>3. d \in Days(s, s.zone)
  BY SameDays
<1>4. /\ Calendar!OfCleaner(Slots(held), s.cleaner) = S
      /\ Calendar!OnDay(S, d, s.zone) = OnDay(S, d, s.zone)
      /\ Calendar!Work(S, d, s.zone) = Work(S, d, s.zone)
  BY SameDays, SameWork
<1> HIDE DEF S
<1>5. (\A t \in OnDay(S, d, s.zone) : t.reviewed) /\ Work(S, d, s.zone) <= s.limit
  BY <1>2, <1>3 DEF WithinOwnLimits
<1> QED
  BY <1>4, <1>5

\* The slots b gets, and what they are added to.
NewSlots(b, r) == {Slot(h, r) : h \in Holds(b, r)}

\* Whatever the triggers let through keeps every limit, those of the bookings
\* saved before included.
LEMMA ReservableKeepsLimits ==
  ASSUME IInv, IsFiniteSet(held), LimitsOfHeld, NEW b \in Bookings, NEW r \in Row,
         Reservable(b, r), NEW c \in Cleaners
  PROVE  WithinOwnLimits(OfCleaner(Slots(Others(b)) \cup NewSlots(b, r), c))
<1> DEFINE A == OfCleaner(Slots(held), c)
           S == OfCleaner(Slots(Others(b)), c)
           N == OfCleaner(NewSlots(b, r), c)
           n == Slot(Hold(b, c, r), r)
<1>1. SlotSet(A) /\ S \in SUBSET A
  <2>1. A \subseteq Slots(held) /\ S \in SUBSET A
    BY DEF OfCleaner, Slots, Others
  <2>2. IsFiniteSet(A)
    BY <2>1, SlotTypes, FS_Subset DEF SlotSet
  <2> QED
    BY <2>1, <2>2, SlotTypes DEF SlotSet
<1>2. WithinOwnLimits(A)
  BY DEF LimitsOfHeld
<1>3. OfCleaner(Slots(Others(b)) \cup NewSlots(b, r), c) = S \cup N
  BY DEF OfCleaner
<1>4. /\ n.booking = b /\ n.cleaner = c /\ n.from = StartsAt(r) - r.plan.lead /\ n.to = EndsAt(r)
      /\ n.limit = r.limit /\ n.zone = r.zone
  BY DEF Slot, Hold
<1>5. N = {} \/ (N = {n} /\ n \in NewSlots(b, r))
  <2>1. ASSUME NEW s \in N PROVE s = n
    <3>1. PICK h \in Holds(b, r) : s = Slot(h, r)
      BY DEF NewSlots, OfCleaner
    <3>2. PICK e \in r.team : h = Hold(b, e, r)
      BY DEF Holds
    <3>3. e = c
      BY <3>1, <3>2 DEF Slot, Hold, OfCleaner
    <3> QED
      BY <3>1, <3>2, <3>3
  <2>2. N \subseteq NewSlots(b, r)
    BY DEF OfCleaner
  <2> HIDE DEF N, n
  <2> QED
    BY <2>1, <2>2
<1> HIDE DEF A, S, N, n
<1>6. SlotSet(S) /\ WithinOwnLimits(S)
  <2>1. WithinOwnLimits(S)
    BY <1>1, <1>2, ReleasedKeepsLimits
  <2> QED
    BY <1>1, <2>1, FS_Subset DEF SlotSet
<1>7. CASE N = {}
  <2>1. S \cup N = S
    BY <1>7
  <2> QED
    BY <1>3, <1>6, <2>1
<1>8. CASE N = {n} /\ n \in NewSlots(b, r)
  <2>1. WithinLimits(n, S)
    BY <1>4, <1>8 DEF Reservable, CanHold, NewSlots, S
  <2>2. SlotSet({n})
    <3>1. /\ r.start \in Nat /\ r.zone \in Nat /\ r.limit \in Nat
          /\ r.duration \in Nat /\ r.duration > 0 /\ r.plan.lead \in Nat
      BY RowTypes
    <3>2. n.from = (r.start - r.zone) - r.plan.lead /\ n.to = (r.start - r.zone) + r.duration
      BY <1>4 DEF StartsAt, EndsAt
    <3>3. n.from \in Int /\ n.to \in Int /\ n.from < n.to
      BY <3>1, <3>2
    <3>4. n.limit \in Nat /\ n.zone \in Int
      BY <1>4, <3>1
    <3>5. IsFiniteSet({n})
      BY FS_Singleton
    <3> QED
      BY <3>3, <3>4, <3>5 DEF SlotSet
  <2>3. n \notin S
    BY <1>4, SlotKeeps DEF S, OfCleaner, Slots, Others
  <2>4. WithinOwnLimits(S \cup {n})
    BY <1>6, <2>1, <2>2, <2>3, HeldWithinLimits
  <2> QED
    BY <1>3, <1>8, <2>4
<1> QED
  BY <1>5, <1>7, <1>8

\* What the reservations of b become, and the slots with them.
Rebooked(b, r) ==
  /\ Reservable(b, r)
  /\ held' = Others(b) \cup Holds(b, r)
  /\ Slots(held)' = Slots(Others(b)) \cup NewSlots(b, r)

\* A write leaves the calendar alone or rebooks one booking.
LEMMA WriteSlots ==
  ASSUME IInv, NEW b \in Bookings, NEW new \in Row, new.zone = row[b].zone,
         new.limit = row[b].limit, Write(b, new)
  PROVE  \/ UNCHANGED <<held, Slots(held)>>
         \/ \E r \in Row : Rebooked(b, r)
<1> DEFINE r == Stamped(b, new)
<1>1. r \in Row /\ r.zone = row[b].zone
  BY StampedType DEF IInv
<1>2. /\ row' = [row EXCEPT ![b] = r]
      /\ IF KeepsHold(row[b], r)
         THEN UNCHANGED held
         ELSE Reservable(b, r) /\ held' = Others(b) \cup Holds(b, r)
  BY DEF Write
<1>3. row'[b] = r /\ \A a \in Bookings \ {b} : row'[a] = row[a]
  BY <1>2 DEF IInv, TypeOK
<1>4. Slots(held)' = SlotsUnder(held', row')
  BY DEF Slots, SlotsUnder
<1>5. \A h \in held : h.booking \in Bookings
  BY HeldOfBooking DEF IInv
<1>6. CASE KeepsHold(row[b], r)
  <2>1. ~WorkChanged(row[b], r)
    BY <1>6 DEF KeepsHold
  <2>2. ~WorkChanged(row[b], new)
    <3>1. \A l \in Limits : /\ [new EXCEPT !.limit = l].team = new.team
                            /\ [new EXCEPT !.limit = l].start = new.start
                            /\ [new EXCEPT !.limit = l].duration = new.duration
                            /\ [new EXCEPT !.limit = l].plan = new.plan
      BY DEF Row
    <3>2. settings[BusinessOf[b]].limit \in Limits
      BY BookingsAssumption DEF IInv, TypeOK
    <3> QED
      BY <2>1, <3>1, <3>2 DEF WorkChanged, Stamped
  <2>3. r = new
    BY <2>2 DEF Stamped
  <2>4. r.limit = row[b].limit /\ r.zone = row[b].zone /\ r.plan = row[b].plan
    BY <2>2, <2>3 DEF WorkChanged
  <2> HIDE DEF r
  <2>5. \A h \in held : Slot(h, row'[h.booking]) = Slot(h, row[h.booking])
    BY <1>3, <1>5, <2>4 DEF Slot
  <2>6. held' = held
    BY <1>2, <1>6
  <2>7. SlotsUnder(held', row') = Slots(held)
    BY <2>5, <2>6 DEF SlotsUnder, Slots
  <2> QED
    BY <1>4, <2>6, <2>7
<1>7. CASE ~KeepsHold(row[b], r)
  <2>1. Reservable(b, r) /\ held' = Others(b) \cup Holds(b, r)
    BY <1>2, <1>7
  <2> HIDE DEF r
  <2>2. \A h \in Others(b) : Slot(h, row'[h.booking]) = Slot(h, row[h.booking])
    BY <1>3, <1>5 DEF Others
  <2>3. \A h \in Holds(b, r) : Slot(h, row'[h.booking]) = Slot(h, r)
    BY <1>3, HoldFields
  <2>4. SlotsUnder(held', row') = Slots(Others(b)) \cup NewSlots(b, r)
    BY <2>1, <2>2, <2>3 DEF SlotsUnder, Slots, NewSlots
  <2> QED
    BY <1>1, <1>4, <2>1, <2>4 DEF Rebooked
<1> QED
  BY <1>6, <1>7

\* So does every step.
LEMMA SlotSteps ==
  ASSUME IInv, [Next]_vars
  PROVE  \/ UNCHANGED <<held, Slots(held)>>
         \/ \E b \in Bookings, r \in Row : Rebooked(b, r)
<1>1. ASSUME NEW b \in Bookings, NEW s \in Starts, NEW d \in Durations, Create(b, s, d)
      PROVE  UNCHANGED <<held, Slots(held)>>
  <2>1. row[b].status = "none" /\ UNCHANGED held /\ \A a \in Bookings \ {b} : row'[a] = row[a]
    BY <1>1 DEF Create, IInv, TypeOK
  <2>2. \A h \in held : h.booking \in Bookings \ {b}
    <3>1. Holds(b, row[b]) = {}
      BY <2>1 DEF Holds, Active
    <3> QED
      BY <3>1, HeldOfBooking DEF IInv
  <2>3. \A h \in held : Slot(h, row'[h.booking]) = Slot(h, row[h.booking])
    BY <2>1, <2>2
  <2>4. SlotsUnder(held', row') = Slots(held)
    BY <2>1, <2>3 DEF SlotsUnder, Slots
  <2>5. Slots(held)' = SlotsUnder(held', row')
    BY DEF Slots, SlotsUnder
  <2> QED
    BY <2>1, <2>4, <2>5
<1>2. ASSUME NEW b \in Bookings, EditOf(b)
      PROVE  UNCHANGED <<held, Slots(held)>> \/ \E r \in Row : Rebooked(b, r)
  BY <1>2, EditsWrite, WriteSlots
<1>3. CASE UNCHANGED <<row, held>>
  BY <1>3 DEF Slots
<1>4. \/ UNCHANGED <<row, held>>
      \/ \E b \in Bookings, s \in Starts, d \in Durations : Create(b, s, d)
      \/ \E b \in Bookings : EditOf(b)
  BY DEF Next, vars, EditOf, Prepare, Approve, ChangeSettings, ChangeRoster
<1> QED
  BY <1>1, <1>2, <1>3, <1>4

-----------------------------------------------------------------------------
(* The theorems about the calendar *)

CalendarInv == IInv /\ IsFiniteSet(held) /\ LimitsOfHeld

LEMMA InitCalendar == Init => CalendarInv
<1> SUFFICES ASSUME Init PROVE CalendarInv
  OBVIOUS
<1>1. held = {}
  BY DEF Init
<1>2. IsFiniteSet(held)
  BY <1>1, FS_EmptySet
<1>3. LimitsOfHeld
  BY <1>1 DEF LimitsOfHeld, OfCleaner, Slots, WithinOwnLimits
<1> QED
  BY <1>2, <1>3, InitIInv DEF CalendarInv

LEMMA HoldsFinite ==
  ASSUME NEW b, NEW r \in Row
  PROVE  IsFiniteSet(Holds(b, r))
<1>1. IsFiniteSet(r.team)
  <2>1. r.team \subseteq Cleaners /\ IsFiniteSet(Cleaners)
    BY BookingsAssumption, RowTypes
  <2> QED
    BY <2>1, FS_Subset
<1> DEFINE f == [c \in r.team |-> Hold(b, c, r)]
           T == {Hold(b, c, r) : c \in r.team}
<1>2. f \in Surjection(r.team, T)
  BY DEF Surjection
<1>3. IsFiniteSet(T)
  BY <1>1, <1>2, FS_Surjection
<1> QED
  BY <1>3, FS_EmptySet DEF Holds

LEMMA NextCalendar == CalendarInv /\ [Next]_vars => CalendarInv'
<1> SUFFICES ASSUME CalendarInv, [Next]_vars PROVE CalendarInv'
  OBVIOUS
<1>1. IInv /\ IsFiniteSet(held) /\ LimitsOfHeld
  BY DEF CalendarInv
<1>2. IInv'
  BY <1>1, NextIInv
<1>3. CASE UNCHANGED <<held, Slots(held)>>
  <2>1. LimitsOfHeld'
    BY <1>1, <1>3 DEF LimitsOfHeld
  <2> QED
    BY <1>1, <1>2, <1>3, <2>1 DEF CalendarInv
<1>4. ASSUME NEW b \in Bookings, NEW r \in Row, Rebooked(b, r) PROVE CalendarInv'
  <2>1. /\ Reservable(b, r) /\ held' = Others(b) \cup Holds(b, r)
        /\ Slots(held)' = Slots(Others(b)) \cup NewSlots(b, r)
    BY <1>4 DEF Rebooked
  <2>2. IsFiniteSet(held')
    <3>1. Others(b) \subseteq held
      BY DEF Others
    <3>2. IsFiniteSet(Others(b))
      BY <1>1, <3>1, FS_Subset
    <3> QED
      BY <2>1, <3>2, HoldsFinite, FS_Union
  <2>3. \A c \in Cleaners : WithinOwnLimits(OfCleaner(Slots(Others(b)) \cup NewSlots(b, r), c))
    BY <1>1, <2>1, ReservableKeepsLimits
  <2>4. LimitsOfHeld'
    BY <2>1, <2>3 DEF LimitsOfHeld
  <2> QED
    BY <1>2, <2>2, <2>4 DEF CalendarInv
<1> QED
  BY <1>1, <1>3, <1>4, SlotSteps

LEMMA CalendarInductive == Spec => []CalendarInv
<1> QED
  BY InitCalendar, NextCalendar, PTL DEF Spec

\* A recorded daily limit holds for all that is ever booked, moved or released,
\* by any business, before or after it was recorded.
THEOREM LimitsAlwaysKept == Spec => []LimitsKept
<1>1. CalendarInv => LimitsKept
  BY LimitsOfCalendar DEF CalendarInv
<1> QED
  BY <1>1, CalendarInductive, PTL

\* A rebooking is a step of CleanerCalendar.
LEMMA RebookedRebooks ==
  ASSUME CalendarInv, CalendarInv', NEW b \in Bookings, NEW r \in Row, Rebooked(b, r),
         Slots(held)' # Slots(held)
  PROVE  Calendar!Rebook(b)
<1>1. /\ Slots(held)' = Slots(Others(b)) \cup NewSlots(b, r)
      /\ IInv /\ IsFiniteSet(held)
  BY DEF Rebooked, CalendarInv
<1>2. /\ \A s \in NewSlots(b, r) : /\ s.booking = b
                                   /\ s.from = StartsAt(r) - r.plan.lead /\ s.to = EndsAt(r)
      /\ \A s \in Slots(Others(b)) : s.booking # b
  BY SlotKeeps, HoldFields DEF NewSlots, Slots, Others
<1>3. \A s \in Slots(held) : s.booking # b => s \in Slots(Others(b))
  BY SlotKeeps DEF Slots, Others
<1>4. Slots(Others(b)) \subseteq Slots(held)
  BY DEF Slots, Others
<1>5. {s \in Slots(held)' : s.booking # b} = {s \in Slots(held) : s.booking # b}
  BY <1>1, <1>2, <1>3, <1>4
<1>6. ASSUME NEW s \in Slots(held)', NEW t \in Slots(held)', s.booking = b, t.booking = b
      PROVE  s.from = t.from /\ s.to = t.to /\ s.from < s.to
  <2>1. s \in NewSlots(b, r) /\ t \in NewSlots(b, r)
    BY <1>1, <1>2, <1>6
  <2>2. /\ r.start \in Nat /\ r.zone \in Nat /\ r.plan.lead \in Nat
        /\ r.duration \in Nat /\ r.duration > 0
    BY RowTypes
  <2>3. /\ s.from = (r.start - r.zone) - r.plan.lead /\ s.to = (r.start - r.zone) + r.duration
        /\ t.from = s.from /\ t.to = s.to
    BY <1>2, <2>1 DEF StartsAt, EndsAt
  <2> QED
    BY <2>2, <2>3
<1>7. (IInv /\ IsFiniteSet(held) /\ LimitsOfHeld => LimitsKept)'
  BY LimitsOfCalendar, PTL
<1>8. Calendar!Valid'
  BY <1>7 DEF Calendar!Valid, CalendarInv, IInv, NoDoubleBooking, LimitsKept
<1> QED
  BY <1>5, <1>6, <1>8 DEF Calendar!Rebook

\* Bookings, with their lifecycles, reviews and triggers, implement the calendar
\* they promise: it changes one booking and its whole team at a time.
THEOREM ImplementsCalendar == Spec => KeepsCalendar
<1>1. Init => Calendar!Init
  BY DEF Init, Calendar!Init, Slots
<1>2. CalendarInv /\ CalendarInv' /\ [Next]_vars => [Calendar!Next]_(Slots(held))
  <2> SUFFICES ASSUME CalendarInv, CalendarInv', [Next]_vars, Slots(held)' # Slots(held)
               PROVE  Calendar!Next
    OBVIOUS
  <2>1. PICK b \in Bookings, r \in Row : Rebooked(b, r)
    BY SlotSteps DEF CalendarInv
  <2> QED
    BY <2>1, RebookedRebooks DEF Calendar!Next
<1> QED
  BY <1>1, <1>2, CalendarInductive, PTL DEF Spec, KeepsCalendar, Calendar!Spec

-----------------------------------------------------------------------------
(* The preview *)

\* A visit that the triggers let through under a limit of its own is reviewed.
LEMMA LimitNeedsReview ==
  ASSUME NEW s, SlotSet({s}), NEW O, WithinLimits(s, O), s.limit # 0
  PROVE  s.reviewed
<1> DEFINE d == Day(s.from, s.zone)
<1>1. s.from \in Int /\ s.to \in Int /\ s.from < s.to /\ s.zone \in Int
  BY DEF SlotSet
<1>2. d \in Int /\ DayStart(d, s.zone) \in Int /\ DayStart(d, s.zone) <= s.from
  <2>1. d \in Int
    BY <1>1, DayOfInstant
  <2>2. d <= d
    BY <2>1
  <2> HIDE DEF d
  <2>3. d = Day(s.from, s.zone)
    BY DEF d
  <2> QED
    BY <1>1, <2>1, <2>2, <2>3, DayOfInstant
<1>3. d \in Days(s, s.zone)
  <2>1. s.to - 1 \in Int /\ DayStart(d, s.zone) <= s.to - 1
    BY <1>1, <1>2
  <2>2. d <= Day(s.to - 1, s.zone) /\ Day(s.to - 1, s.zone) \in Int
    BY <1>1, <1>2, <2>1, DayOfInstant
  <2> QED
    BY <1>2, <2>2 DEF Days
<1> HIDE DEF d
<1>4. s \in OnDay(O \cup {s}, d, s.zone)
  BY <1>1, <1>2, <1>3, DaysMet DEF OnDay
<1>5. Policy(s) \in NearPolicies(s, O) /\ Policy(s).zone = s.zone
  <2>1. Meets(s, s.from - DayLength, s.to + DayLength)
    BY <1>1, WorkloadAssumption DEF Meets
  <2> QED
    BY <2>1 DEF NearPolicies, Policy
<1>6. Binds(Policy(s), d, O \cup {s})
  BY <1>4, <1>5 DEF Binds
<1> QED
  BY <1>3, <1>4, <1>5, <1>6 DEF WithinLimits

\* The preview tries c in the very slot that saving would reserve.
LEMMA SamePreview ==
  ASSUME IInv, NEW b \in Bookings, NEW c \in Cleaners,
         row[b].status \in {"confirmed", "assigned"},
         c \notin row[b].team \/ row[b].limit # 0,
         row[b].limit = 0 => settings[BusinessOf[b]].zone = row[b].zone
  PROVE  ShownFree(b, c) <=> Bookable(b, c)
<1> DEFINE o == row[b]
           n == [row[b] EXCEPT !.status = "assigned", !.team = {c}]
           r == Stamped(b, n)
           p == Preview(b, row[b])
           s == Slot(Hold(b, c, r), r)
<1>1. /\ o \in Row /\ settings[BusinessOf[b]].limit \in Limits
      /\ settings[BusinessOf[b]].zone \in Zones
  BY BookingsAssumption DEF IInv, TypeOK
<1>2. /\ n \in Row /\ n.status = "assigned" /\ n.team = {c}
      /\ n.start = o.start /\ n.duration = o.duration /\ n.plan = o.plan
      /\ n.limit = o.limit /\ n.zone = o.zone
  BY <1>1 DEF Row, Statuses
<1>3. r = n \/ (o.limit = 0 /\ r = [n EXCEPT !.limit = settings[BusinessOf[b]].limit])
  BY <1>2 DEF Stamped
<1>4. o.limit = 0 => r = [n EXCEPT !.limit = settings[BusinessOf[b]].limit]
  <2>1. o.limit = 0 => {c} # o.team
    OBVIOUS
  <2>2. o.limit = 0 => WorkChanged(row[b], n)
    BY <1>2, <2>1 DEF WorkChanged
  <2> QED
    BY <1>2, <2>2 DEF Stamped, Active
<1>5. /\ r \in Row /\ r.status = "assigned" /\ r.team = {c}
      /\ r.start = o.start /\ r.duration = o.duration /\ r.plan = o.plan /\ r.zone = o.zone
      /\ o.limit = 0 => r.limit = settings[BusinessOf[b]].limit
      /\ o.limit # 0 => r.limit = o.limit
  <2> DEFINE m == [n EXCEPT !.limit = settings[BusinessOf[b]].limit]
  <2>1. /\ m \in Row /\ m.status = n.status /\ m.team = n.team /\ m.start = n.start
        /\ m.duration = n.duration /\ m.plan = n.plan /\ m.zone = n.zone
        /\ m.limit = settings[BusinessOf[b]].limit
    BY <1>1, <1>2 DEF Row
  <2>2. (o.limit # 0 /\ r = n) \/ (o.limit = 0 /\ r = m)
    BY <1>3, <1>4
  <2> HIDE DEF m, n, r
  <2> QED
    BY <1>2, <2>1, <2>2
<1>6. /\ p.start = o.start /\ p.duration = o.duration /\ p.plan = o.plan
      /\ p.limit = r.limit /\ p.zone = r.zone
  <2> DEFINE m == [o EXCEPT !.limit = settings[BusinessOf[b]].limit,
                            !.zone = settings[BusinessOf[b]].zone]
  <2>1. /\ m.start = o.start /\ m.duration = o.duration /\ m.plan = o.plan
        /\ m.limit = settings[BusinessOf[b]].limit /\ m.zone = settings[BusinessOf[b]].zone
    BY <1>1 DEF Row
  <2>2. (o.limit # 0 /\ p = o) \/ (o.limit = 0 /\ p = m)
    BY DEF Preview
  <2> HIDE DEF m, r, p
  <2> QED
    BY <1>5, <2>1, <2>2
<1> HIDE DEF n, r, p
<1>7. Slot(Hold(b, c, p), p) = s
  BY <1>5, <1>6 DEF Slot, Hold, StartsAt, EndsAt
<1>8. {Slot(h, r) : h \in Holds(b, r)} = {s}
  BY <1>5 DEF Holds, Active
<1>9. ShownFree(b, c) <=> CanHold({s}, Slots(Others(b)))
  BY <1>7 DEF ShownFree, p
<1>10. Bookable(b, c) <=> PlanAllowed(b, r) /\ CanHold({s}, Slots(Others(b)))
  BY <1>8 DEF Bookable, Reservable, r, n
<1>11. CanHold({s}, Slots(Others(b))) => PlanAllowed(b, r)
  <2> SUFFICES ASSUME CanHold({s}, Slots(Others(b))), r.limit # 0 PROVE r.plan.reviewed
    BY <1>5 DEF PlanAllowed
  <2>1. /\ s.from = (r.start - r.zone) - r.plan.lead /\ s.to = (r.start - r.zone) + r.duration
        /\ s.limit = r.limit /\ s.zone = r.zone /\ s.reviewed = r.plan.reviewed
    BY DEF Slot, Hold, StartsAt, EndsAt
  <2>2. /\ r.start \in Nat /\ r.zone \in Nat /\ r.limit \in Nat
        /\ r.duration \in Nat /\ r.duration > 0 /\ r.plan.lead \in Nat
    BY <1>5, RowTypes
  <2> HIDE DEF s
  <2>3. s.from \in Int /\ s.to \in Int /\ s.from < s.to
    BY <2>1, <2>2
  <2>4. s.limit \in Nat /\ s.zone \in Int
    BY <2>1, <2>2
  <2>5. SlotSet({s})
    BY <2>3, <2>4, FS_Singleton DEF SlotSet
  <2>6. WithinLimits(s, OfCleaner(Slots(Others(b)), s.cleaner)) /\ s.limit # 0
    BY <2>1 DEF CanHold
  <2> QED
    BY <2>1, <2>5, <2>6, LimitNeedsReview
<1> QED
  BY <1>9, <1>10, <1>11

\* What the office is shown about a saved booking is what saving decides: it
\* counts the same work, under the limit and the zone that would bind.
THEOREM PreviewAlwaysAgrees == Spec => []PreviewAgrees
<1>1. IInv => PreviewAgrees
  BY SamePreview DEF PreviewAgrees
<1> QED
  BY <1>1, Inductive, PTL
=============================================================================
