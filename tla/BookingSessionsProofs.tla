------------------------ MODULE BookingSessionsProofs ------------------------
(***************************************************************************)
(* Concurrent booking sessions, for every number of bookings, sessions and *)
(* cleaners: rows and cleaners are locked exclusively, so the verdict of a *)
(* session's check still stands when it commits, no cleaner is ever booked *)
(* twice, every recorded daily limit is kept, and what is committed is     *)
(* CleanerCalendar.                                                        *)
(***************************************************************************)
EXTENDS BookingSessions, WorkloadFacts, TLAPS

\* A slot of a booking's work.
LEMMA SlotFields ==
  ASSUME NEW b, NEW k, NEW t \in SlotsOf(b, k)
  PROVE  /\ t.booking = b /\ t.cleaner \in k.team
         /\ t.from = k.from /\ t.to = k.to
BY DEF SlotsOf

\* The committed slots of a booking are those of its committed work.
LEMMA CommittedSlots ==
  ASSUME SlotsMatchWork
  PROVE  /\ \A t \in slots : t.booking \in Bookings /\ t \in SlotsOf(t.booking, work[t.booking])
         /\ \A b \in Bookings : SlotsOf(b, work[b]) \subseteq slots
<1>1. ASSUME NEW t \in slots
      PROVE  t.booking \in Bookings /\ t \in SlotsOf(t.booking, work[t.booking])
  <2>1. PICK b \in Bookings : t \in SlotsOf(b, work[b])
    BY <1>1 DEF SlotsMatchWork
  <2>2. t.booking = b
    BY <2>1, SlotFields
  <2>3. QED
    BY <2>1, <2>2
<1>2. \A b \in Bookings : SlotsOf(b, work[b]) \subseteq slots
  BY DEF SlotsMatchWork
<1>3. QED
  BY <1>1, <1>2

\* Types of what the actions write.
LEMMA SessionTypes ==
  /\ Idle \in Session /\ Idle.at = "idle" /\ Idle.locks = {} /\ Idle.booking = NoBooking
  /\ NoWork \in Work0
  /\ \A k \in Works : [team |-> k.team, from |-> k.from, to |-> k.to, limit |-> 0] \in Work0
BY SessionsAssumption DEF Idle, Session, NoWork, Work0

LEMMA InitIInv == Init => IInv
<1> SUFFICES ASSUME Init PROVE IInv
  OBVIOUS
<1>1. TypeOK
  BY SessionTypes DEF Init, TypeOK
<1>2. \A s \in Sessions : session[s].at = "idle" /\ session[s].locks = {}
  BY SessionTypes DEF Init
<1>3. \A b \in Bookings : SlotsOf(b, work[b]) = {}
  BY DEF Init, SlotsOf, NoWork
<1>4. SlotsMatchWork
  BY <1>3 DEF SlotsMatchWork, Init
<1>5. QED
  BY <1>1, <1>2, <1>4 DEF IInv, RowsExclusive, CleanersExclusive, CheckedHoldsTeam,
     VerdictStands, NoDoubleBooking, Calendar!NoDoubleBooking, InTransaction, Init

-----------------------------------------------------------------------------
(* Steps that leave the committed state alone *)

\* A session that ends, or is not in a transaction yet, disturbs nothing.
LEMMA OutsideKeepsIInv ==
  ASSUME IInv, NEW s \in Sessions, NEW x \in Session,
         x.at \in {"idle", "form", "queued"}, x.locks = {},
         x.at # "idle" => x.booking \in Bookings,
         session' = [session EXCEPT ![s] = x], UNCHANGED <<version, work, slots>>
  PROVE  IInv'
<1>1. TypeOK'
  BY DEF IInv, TypeOK
<1>2. session'[s] = x /\ \A t \in Sessions \ {s} : session'[t] = session[t]
  BY DEF IInv, TypeOK
<1>3. RowsExclusive' /\ CleanersExclusive'
  BY <1>2 DEF IInv, RowsExclusive, CleanersExclusive, InTransaction
<1>4. CheckedHoldsTeam' /\ VerdictStands'
  BY <1>2 DEF IInv, CheckedHoldsTeam, VerdictStands, Affected, SlotsOf
<1>5. QED
  BY <1>1, <1>3, <1>4 DEF IInv, SlotsMatchWork, NoDoubleBooking, Calendar!NoDoubleBooking

LEMMA OpenKeepsIInv ==
  ASSUME IInv, NEW s \in Sessions, NEW b \in Bookings, Open(s, b)
  PROVE  IInv'
<1> DEFINE x == [Idle EXCEPT !.at = "form", !.booking = b, !.seen = version[b]]
<1>1. version[b] \in Nat
  BY DEF IInv, TypeOK
<1>2. x \in Session /\ x.at = "form" /\ x.locks = {} /\ x.booking = b
  <2>1. \A i \in Session : /\ [i EXCEPT !.at = "form", !.booking = b, !.seen = version[b]] \in Session
                           /\ [i EXCEPT !.at = "form", !.booking = b, !.seen = version[b]].at = "form"
                           /\ [i EXCEPT !.at = "form", !.booking = b, !.seen = version[b]].locks = i.locks
                           /\ [i EXCEPT !.at = "form", !.booking = b, !.seen = version[b]].booking = b
    BY <1>1 DEF Session
  <2>2. QED
    BY <2>1, SessionTypes
<1>3. session' = [session EXCEPT ![s] = x] /\ UNCHANGED <<version, work, slots>>
  BY DEF Open
<1> HIDE DEF x
<1>4. QED
  BY <1>2, <1>3, OutsideKeepsIInv

LEMMA SubmitKeepsIInv ==
  ASSUME IInv, NEW s \in Sessions, NEW k \in Works, Submit(s, k)
  PROVE  IInv'
<1> DEFINE a == [team |-> k.team, from |-> k.from, to |-> k.to, limit |-> 0]
           x == [session[s] EXCEPT !.at = "queued", !.asks = a]
<1>1. a \in Work0
  BY SessionTypes
<1>2. session' = [session EXCEPT ![s] = x] /\ UNCHANGED <<version, work, slots>>
  BY DEF Submit, IInv, TypeOK
<1> HIDE DEF a
<1>3. x \in Session /\ x.at = "queued" /\ x.locks = session[s].locks /\ x.booking = session[s].booking
  BY <1>1 DEF IInv, TypeOK, Session
<1>4. session[s].locks = {} /\ session[s].booking \in Bookings
  BY DEF Submit, IInv, CleanersExclusive, RowsExclusive, InTransaction
<1> HIDE DEF x
<1>5. QED
  BY <1>2, <1>3, <1>4, OutsideKeepsIInv

LEMMA EndKeepsIInv ==
  ASSUME IInv, NEW s \in Sessions,
         session' = [session EXCEPT ![s] = Idle], UNCHANGED <<version, work, slots>>
  PROVE  IInv'
BY SessionTypes, OutsideKeepsIInv

LEMMA LimitedType ==
  ASSUME IInv, NEW s \in Sessions, NEW l \in Limits, session[s].booking \in Bookings
  PROVE  Limited(s, l) \in Work0
<1>1. session[s].asks \in Work0 /\ work[session[s].booking].limit \in Limits
  BY DEF IInv, TypeOK, Session, Work0
<1>2. \A k \in Work0, m \in Limits : [k EXCEPT !.limit = m] \in Work0
  BY DEF Work0
<1>3. QED
  BY <1>1, <1>2 DEF Limited

\* Beginning: the row was free and its version is the one the form was opened
\* with. Unchanged work needs no check, its slots are committed already.
LEMMA BeginKeepsIInv ==
  ASSUME IInv, NEW s \in Sessions, NEW l \in Limits, Begin(s, l)
  PROVE  IInv'
<1> DEFINE b == session[s].booking
           k == Limited(s, l)
           y == IF k = work[b] THEN "checked" ELSE "locking"
           x == [session[s] EXCEPT !.asks = k, !.at = y]
<1>1. k \in Work0
  BY LimitedType DEF Begin, IInv, RowsExclusive
<1>2. session' = [session EXCEPT ![s] = x]
  BY DEF Begin, IInv, TypeOK
<1>3. RowFree(b, s) /\ SeenCurrent(s) /\ session[s].at = "queued" /\ UNCHANGED <<version, work, slots>>
  BY DEF Begin
<1> HIDE DEF k
<1>4. /\ x \in Session /\ x.at = y /\ x.asks = k /\ x.locks = session[s].locks
      /\ x.booking = b /\ x.seen = session[s].seen
  BY <1>1 DEF IInv, TypeOK, Session
<1> HIDE DEF x
<1>5. session'[s] = x /\ \A t \in Sessions \ {s} : session'[t] = session[t]
  BY <1>2 DEF IInv, TypeOK
<1>6. TypeOK'
  BY <1>2, <1>3, <1>4 DEF IInv, TypeOK
<1>7. RowsExclusive'
  BY <1>3, <1>4, <1>5 DEF IInv, RowsExclusive, InTransaction, RowFree, SeenCurrent
<1>8. CleanersExclusive'
  BY <1>3, <1>4, <1>5 DEF IInv, CleanersExclusive, InTransaction
<1>9. CheckedHoldsTeam'
  BY <1>3, <1>4, <1>5 DEF IInv, CheckedHoldsTeam, Affected
<1>10. VerdictStands'
  <2> SUFFICES ASSUME NEW t \in Sessions, session'[t].at = "checked",
                      NEW u \in SlotsOf(session'[t].booking, session'[t].asks), NEW v \in slots,
                      v.cleaner = u.cleaner, v.booking # session'[t].booking
               PROVE  ~Meets(v, u.from, u.to)
    BY <1>3 DEF VerdictStands, SlotsOf
  <2>1. CASE t = s
    <3>1. u \in slots /\ u.booking = b
      BY <2>1, <1>3, <1>4, <1>5, CommittedSlots, SlotFields DEF IInv, RowsExclusive
    <3>2. QED
      BY <2>1, <3>1, <1>4, <1>5
         DEF IInv, NoDoubleBooking, Calendar!NoDoubleBooking, Calendar!Meets, Meets
  <2>2. CASE t # s
    BY <2>2, <1>3, <1>5 DEF IInv, VerdictStands
  <2>3. QED
    BY <2>1, <2>2
<1>11. QED
  BY <1>3, <1>6, <1>7, <1>8, <1>9, <1>10 DEF IInv, SlotsMatchWork, NoDoubleBooking,
     Calendar!NoDoubleBooking

\* One more cleaner of the teams is locked, and nobody else holds it.
LEMMA LockCleanerKeepsIInv ==
  ASSUME IInv, NEW s \in Sessions, NEW c \in Cleaners, LockCleaner(s, c)
  PROVE  IInv'
<1> DEFINE x == [session[s] EXCEPT !.locks = @ \cup {c}]
<1>1. session' = [session EXCEPT ![s] = x]
  BY DEF LockCleaner, IInv, TypeOK
<1>2. CleanerFree(c, s) /\ session[s].at = "locking" /\ UNCHANGED <<version, work, slots>>
  BY DEF LockCleaner
<1>3. /\ x \in Session /\ x.at = session[s].at /\ x.asks = session[s].asks
      /\ x.locks = session[s].locks \cup {c}
      /\ x.booking = session[s].booking /\ x.seen = session[s].seen
  BY DEF IInv, TypeOK, Session
<1> HIDE DEF x
<1>4. session'[s] = x /\ \A t \in Sessions \ {s} : session'[t] = session[t]
  BY <1>1 DEF IInv, TypeOK
<1>5. TypeOK'
  BY <1>1, <1>2, <1>3 DEF IInv, TypeOK
<1>6. RowsExclusive'
  BY <1>2, <1>3, <1>4 DEF IInv, RowsExclusive, InTransaction
<1>7. CleanersExclusive'
  BY <1>2, <1>3, <1>4 DEF IInv, CleanersExclusive, InTransaction, CleanerFree
<1>8. CheckedHoldsTeam' /\ VerdictStands'
  BY <1>2, <1>3, <1>4 DEF IInv, CheckedHoldsTeam, VerdictStands, Affected, SlotsOf
<1>9. QED
  BY <1>2, <1>5, <1>6, <1>7, <1>8 DEF IInv, SlotsMatchWork, NoDoubleBooking,
     Calendar!NoDoubleBooking

\* A team found free is clear of every committed slot, at that moment.
LEMMA CheckKeepsIInv ==
  ASSUME IInv, NEW s \in Sessions, Check(s)
  PROVE  IInv'
<1> DEFINE b == session[s].booking
           x == [session[s] EXCEPT !.at = "checked"]
<1>1. CASE ~Fits(s)
  BY <1>1, EndKeepsIInv DEF Check
<1>2. CASE Fits(s)
  <2>1. session' = [session EXCEPT ![s] = x] /\ UNCHANGED <<version, work, slots>>
    BY <1>2 DEF Check, IInv, TypeOK
  <2>2. /\ x \in Session /\ x.at = "checked" /\ x.asks = session[s].asks
        /\ x.locks = session[s].locks
        /\ x.booking = session[s].booking /\ x.seen = session[s].seen
    BY DEF IInv, TypeOK, Session
  <2> HIDE DEF x
  <2>3. session'[s] = x /\ \A t \in Sessions \ {s} : session'[t] = session[t]
    BY <2>1 DEF IInv, TypeOK
  <2>4. session[s].at = "locking" /\ Affected(s) \subseteq session[s].locks
    BY DEF Check, Needs
  <2>5. TypeOK'
    BY <2>1, <2>2 DEF IInv, TypeOK
  <2>6. RowsExclusive' /\ CleanersExclusive'
    BY <2>1, <2>2, <2>3, <2>4 DEF IInv, RowsExclusive, CleanersExclusive, InTransaction
  <2>7. CheckedHoldsTeam'
    BY <2>1, <2>2, <2>3, <2>4 DEF IInv, CheckedHoldsTeam, Affected
  <2>8. \A t \in SlotsOf(b, session[s].asks), u \in slots :
          u.cleaner = t.cleaner /\ u.booking # b => ~Meets(u, t.from, t.to)
    BY <1>2 DEF Fits, CanHold, Disjoint, OfCleaner, Others
  <2>9. VerdictStands'
    BY <2>1, <2>2, <2>3, <2>8 DEF IInv, VerdictStands, SlotsOf
  <2>10. QED
    BY <2>1, <2>5, <2>6, <2>7, <2>9 DEF IInv, SlotsMatchWork, NoDoubleBooking,
       Calendar!NoDoubleBooking
<1>3. QED
  BY <1>1, <1>2

-----------------------------------------------------------------------------
(* The commit *)

\* A slot that a commit leaves alone or writes.
LEMMA CommitSlots ==
  ASSUME IInv, NEW s \in Sessions, Commit(s)
  PROVE  /\ session[s].booking \in Bookings
         /\ TypeOK' /\ SlotsMatchWork'
         /\ \A u \in slots' : \/ u \in slots /\ u.booking # session[s].booking
                              \/ /\ u \in SlotsOf(session[s].booking, session[s].asks)
                                 /\ u.booking = session[s].booking
<1> DEFINE b == session[s].booking
           k == session[s].asks
<1>1. b \in Bookings /\ k \in Work0 /\ version[b] \in Nat
  BY DEF Commit, IInv, RowsExclusive, InTransaction, TypeOK, Session
<1>2. version' = [version EXCEPT ![b] = @ + 1] /\ work' = [work EXCEPT ![b] = k]
      /\ slots' = Others(b) \cup SlotsOf(b, k) /\ session' = [session EXCEPT ![s] = Idle]
  BY DEF Commit
<1> HIDE DEF b, k
<1>3. TypeOK'
  BY <1>1, <1>2, SessionTypes DEF IInv, TypeOK
<1>4. work'[b] = k /\ \A a \in Bookings \ {b} : work'[a] = work[a]
  BY <1>1, <1>2 DEF IInv, TypeOK
<1>5. \A u \in slots' : \E a \in Bookings : u \in SlotsOf(a, work'[a])
  <2> SUFFICES ASSUME NEW u \in slots' PROVE \E a \in Bookings : u \in SlotsOf(a, work'[a])
    OBVIOUS
  <2>1. CASE u \in SlotsOf(b, k)
    BY <2>1, <1>1, <1>4
  <2>2. CASE u \in slots /\ u.booking # b
    BY <2>2, <1>4, CommittedSlots DEF IInv
  <2>3. QED
    BY <2>1, <2>2, <1>2 DEF Others
<1>6. \A a \in Bookings : SlotsOf(a, work'[a]) \subseteq slots'
  <2> SUFFICES ASSUME NEW a \in Bookings PROVE SlotsOf(a, work'[a]) \subseteq slots'
    OBVIOUS
  <2>1. CASE a = b
    BY <2>1, <1>2, <1>4
  <2>2. CASE a # b
    BY <2>2, <1>2, <1>4, CommittedSlots, SlotFields DEF Others, IInv
  <2>3. QED
    BY <2>1, <2>2
<1>7. SlotsMatchWork'
  BY <1>5, <1>6 DEF SlotsMatchWork, SlotsOf
<1>8. QED
  BY <1>1, <1>2, <1>3, <1>7, SlotFields DEF Others, b, k

\* The committed slots stay free of double bookings: old against old they were,
\* and the new ones meet none of the others by the verdict of the check.
LEMMA CommitKeepsNoDoubleBooking ==
  ASSUME IInv, NEW s \in Sessions, Commit(s)
  PROVE  NoDoubleBooking'
<1> DEFINE b == session[s].booking
           k == session[s].asks
<1>1. \A u \in slots' : \/ u \in slots /\ u.booking # b
                        \/ u \in SlotsOf(b, k) /\ u.booking = b
  BY CommitSlots
<1>2. \A t \in SlotsOf(b, k), u \in slots :
        u.cleaner = t.cleaner /\ u.booking # b => t.to <= u.from \/ u.to <= t.from
  <2>1. \A t \in SlotsOf(b, k), u \in slots :
          u.cleaner = t.cleaner /\ u.booking # b => ~Meets(u, t.from, t.to)
    BY DEF IInv, VerdictStands, Commit
  <2>2. b \in Bookings /\ k \in Work0
    BY DEF Commit, IInv, RowsExclusive, InTransaction, TypeOK, Session
  <2>3. \A t \in SlotsOf(b, k) : t.from \in Int /\ t.to \in Int
    BY <2>2, SlotFields DEF Work0
  <2>4. \A u \in slots : u.from \in Int /\ u.to \in Int
    <3> SUFFICES ASSUME NEW u \in slots PROVE u.from \in Int /\ u.to \in Int
      OBVIOUS
    <3>1. u.booking \in Bookings /\ u \in SlotsOf(u.booking, work[u.booking])
      BY CommittedSlots DEF IInv
    <3>2. work[u.booking] \in Work0
      BY <3>1 DEF IInv, TypeOK
    <3>3. QED
      BY <3>1, <3>2, SlotFields DEF Work0
  <2>5. QED
    BY <2>1, <2>3, <2>4 DEF Meets
<1> HIDE DEF b, k
<1> SUFFICES ASSUME NEW u \in slots', NEW v \in slots',
                    u.cleaner = v.cleaner, u.booking # v.booking
             PROVE  ~Calendar!Meets(v, u.from, u.to)
  BY DEF NoDoubleBooking, Calendar!NoDoubleBooking
<1>3. \A w \in slots' : w.from \in Int /\ w.to \in Int
  <2> SUFFICES ASSUME NEW w \in slots' PROVE w.from \in Int /\ w.to \in Int
    OBVIOUS
  <2>1. PICK a \in Bookings : w \in SlotsOf(a, work'[a])
    BY CommitSlots DEF SlotsMatchWork, SlotsOf
  <2>2. work'[a] \in Work0
    BY CommitSlots DEF TypeOK
  <2>3. QED
    BY <2>1, <2>2, SlotFields DEF Work0
<1>4. CASE u \in slots /\ v \in slots
  BY <1>4 DEF IInv, NoDoubleBooking, Calendar!NoDoubleBooking
<1>5. CASE u \in SlotsOf(b, k) /\ u.booking = b
  <2>1. v \in slots /\ v.booking # b
    BY <1>1, <1>5
  <2>2. QED
    BY <1>2, <1>3, <1>5, <2>1 DEF Calendar!Meets
<1>6. CASE v \in SlotsOf(b, k) /\ v.booking = b
  <2>1. u \in slots /\ u.booking # b
    BY <1>1, <1>6
  <2>2. QED
    BY <1>2, <1>3, <1>6, <2>1 DEF Calendar!Meets
<1>7. QED
  BY <1>1, <1>4, <1>5, <1>6

\* The verdicts of the other sessions survive a commit: a slot it adds is of a
\* cleaner only the committing session has locked, unless it was there before.
LEMMA CommitKeepsVerdicts ==
  ASSUME IInv, NEW s \in Sessions, Commit(s)
  PROVE  VerdictStands'
<1>1. session'[s] = Idle /\ \A t \in Sessions \ {s} : session'[t] = session[t]
  BY DEF Commit, IInv, TypeOK
<1> SUFFICES ASSUME NEW t \in Sessions, session'[t].at = "checked",
                    NEW u \in SlotsOf(session'[t].booking, session'[t].asks), NEW v \in slots',
                    v.cleaner = u.cleaner, v.booking # session'[t].booking
             PROVE  ~Meets(v, u.from, u.to)
  BY DEF VerdictStands, SlotsOf
<1>2. t # s /\ session'[t] = session[t]
  BY <1>1, SessionTypes
<1>3. CASE v \in slots
  BY <1>2, <1>3 DEF IInv, VerdictStands
<1>4. CASE v \in SlotsOf(session[s].booking, session[s].asks)
  <2>1. CASE session[s].asks = work[session[s].booking]
    <3>1. v \in slots
      BY <1>4, <2>1, CommitSlots, CommittedSlots DEF IInv
    <3>2. QED
      BY <1>3, <3>1
  <2>2. CASE session[t].asks = work[session[t].booking]
    <3>1. u \in slots /\ u.booking = session[t].booking
      BY <1>2, <2>2, CommittedSlots, SlotFields DEF IInv, RowsExclusive, InTransaction
    <3>2. v.booking = session[s].booking
      BY <1>4, SlotFields
    <3>3. ~Meets(u, v.from, v.to)
      BY <1>2, <1>4, <3>1, <3>2 DEF IInv, VerdictStands, Commit
    <3>4. /\ u.from \in Int /\ u.to \in Int /\ v.from \in Int /\ v.to \in Int
      BY <1>2, <1>4, SlotFields DEF IInv, TypeOK, Session, Work0
    <3>5. QED
      BY <3>3, <3>4 DEF Meets
  <2>3. CASE Affected(s) \subseteq session[s].locks /\ Affected(t) \subseteq session[t].locks
    <3>1. v.cleaner \in session[s].locks /\ u.cleaner \in session[t].locks
      BY <1>2, <1>4, <2>3, SlotFields DEF Affected
    <3>2. QED
      BY <1>2, <3>1 DEF IInv, CleanersExclusive
  <2>4. QED
    BY <1>2, <2>1, <2>2, <2>3 DEF IInv, CheckedHoldsTeam, Commit
<1>5. QED
  BY <1>3, <1>4, CommitSlots

LEMMA CommitKeepsIInv ==
  ASSUME IInv, NEW s \in Sessions, Commit(s)
  PROVE  IInv'
<1>1. session'[s] = Idle /\ \A t \in Sessions \ {s} : session'[t] = session[t]
  BY DEF Commit, IInv, TypeOK
<1>2. /\ \A a \in Bookings \ {session[s].booking} : version'[a] = version[a] /\ work'[a] = work[a]
      /\ session[s].at = "checked"
  BY DEF Commit, IInv, TypeOK
<1>3. RowsExclusive'
  BY <1>1, <1>2, SessionTypes DEF IInv, RowsExclusive, InTransaction
<1>4. CleanersExclusive'
  BY <1>1, SessionTypes DEF IInv, CleanersExclusive, InTransaction
<1>5. CheckedHoldsTeam'
  BY <1>1, <1>2, SessionTypes DEF IInv, CheckedHoldsTeam, Affected, RowsExclusive, InTransaction
<1>6. QED
  BY <1>3, <1>4, <1>5, CommitSlots, CommitKeepsNoDoubleBooking, CommitKeepsVerdicts DEF IInv

-----------------------------------------------------------------------------
(* The theorems *)

LEMMA NextIInv == IInv /\ [Next]_vars => IInv'
<1> SUFFICES ASSUME IInv, [Next]_vars PROVE IInv'
  OBVIOUS
<1>1. ASSUME NEW s \in Sessions, NEW b \in Bookings, Open(s, b) PROVE IInv'
  BY <1>1, OpenKeepsIInv
<1>2. ASSUME NEW s \in Sessions, NEW k \in Works, Submit(s, k) PROVE IInv'
  BY <1>2, SubmitKeepsIInv
<1>3. ASSUME NEW s \in Sessions, Leave(s) \/ Conflict(s) PROVE IInv'
  BY <1>3, EndKeepsIInv DEF Leave, Conflict
<1>4. ASSUME NEW s \in Sessions, NEW l \in Limits, Begin(s, l) PROVE IInv'
  BY <1>4, BeginKeepsIInv
<1>5. ASSUME NEW s \in Sessions, NEW c \in Cleaners, LockCleaner(s, c) PROVE IInv'
  BY <1>5, LockCleanerKeepsIInv
<1>6. ASSUME NEW s \in Sessions, Check(s) PROVE IInv'
  BY <1>6, CheckKeepsIInv
<1>7. ASSUME NEW s \in Sessions, Commit(s) PROVE IInv'
  BY <1>7, CommitKeepsIInv
<1>8. CASE UNCHANGED vars
  BY <1>8 DEF vars, IInv, TypeOK, RowsExclusive, CleanersExclusive, SlotsMatchWork,
     CheckedHoldsTeam, VerdictStands, NoDoubleBooking, Calendar!NoDoubleBooking,
     InTransaction, Affected, SlotsOf
<1>9. QED
  BY <1>1, <1>2, <1>3, <1>4, <1>5, <1>6, <1>7, <1>8 DEF Next

\* Rows and cleaners are locked exclusively, and every verdict stands until its
\* commit, for any number of sessions, bookings and cleaners.
THEOREM VerdictsStand == Spec => []IInv
<1>1. QED
  BY InitIInv, NextIInv, PTL DEF Spec

\* No interleaving of office sessions commits two bookings of a cleaner that
\* overlap, whatever the forms ask for and whenever a transaction fails.
THEOREM NeverDoubleBooked == Spec => []NoDoubleBooking
<1>1. IInv => NoDoubleBooking
  BY DEF IInv
<1>2. QED
  BY <1>1, VerdictsStand, PTL

\* No session overwrites a change it has not seen.
THEOREM NeverLostUpdate == Spec => NoLostUpdate
<1> DEFINE Replaces ==
      \A b \in Bookings :
        version'[b] # version[b] =>
          \E s \in Sessions :
            /\ session[s].at = "checked"
            /\ session[s].booking = b
            /\ session[s].seen = version[b]
            /\ version'[b] = session[s].seen + 1
<1>1. IInv /\ [Next]_vars => [Replaces]_vars
  <2> SUFFICES ASSUME IInv, Next, NEW b \in Bookings, version'[b] # version[b]
               PROVE  \E s \in Sessions : /\ session[s].at = "checked"
                                          /\ session[s].booking = b
                                          /\ session[s].seen = version[b]
                                          /\ version'[b] = session[s].seen + 1
    OBVIOUS
  <2>1. PICK s \in Sessions : Commit(s)
    BY DEF Next, Open, Submit, Leave, Conflict, Begin, LockCleaner, Check
  <2>2. session[s].at = "checked" /\ version' = [version EXCEPT ![session[s].booking] = @ + 1]
    BY <2>1 DEF Commit
  <2>3. session[s].booking = b /\ version'[b] = version[b] + 1
    BY <2>2 DEF IInv, TypeOK
  <2>4. session[s].seen = version[b]
    BY <2>2, <2>3 DEF IInv, RowsExclusive, InTransaction
  <2>5. QED
    BY <2>2, <2>3, <2>4
<1>2. QED
  BY <1>1, VerdictsStand, PTL DEF Spec, NoLostUpdate

-----------------------------------------------------------------------------
(* The limits, and the calendar *)

\* All work has a positive length, also work that is only asked for.
WorkSpans ==
  /\ \A b \in Bookings : work[b].from < work[b].to
  /\ \A s \in Sessions : session[s].asks.from < session[s].asks.to

\* The limits of what is committed, cleaner by cleaner.
LimitsOfSlots == \A c \in Cleaners : WithinOwnLimits(OfCleaner(slots, c))

\* The work k of b is within every limit, beside the other slots of S.
FitsIn(b, k, S) ==
  \A n \in SlotsOf(b, k) : WithinLimits(n, OfCleaner({t \in S : t.booking # b}, n.cleaner))

\* The part of a check's verdict that concerns limits still stands at the commit.
LimitVerdicts ==
  \A s \in Sessions :
    session[s].at = "checked" =>
      \/ session[s].asks = work[session[s].booking]
      \/ FitsIn(session[s].booking, session[s].asks, slots)

\* The inductive invariant of the calendar.
CalendarInv == IInv /\ WorkSpans /\ IsFiniteSet(slots) /\ LimitsOfSlots /\ LimitVerdicts

\* A slot of work for one of its cleaners.
LEMMA SlotOfWork ==
  ASSUME NEW b \in Bookings, NEW k \in Work0, k.from < k.to, NEW n \in SlotsOf(b, k)
  PROVE  /\ n.from \in Int /\ n.to \in Int /\ n.from < n.to
         /\ n.limit \in Nat /\ n.zone \in Int /\ n.cleaner \in Cleaners
<1>1. /\ n.from = k.from /\ n.to = k.to /\ n.limit = k.limit /\ n.zone = ZoneOf[b] /\ n.cleaner \in k.team
  BY DEF SlotsOf
<1>2. k.from \in Int /\ k.to \in Int /\ k.limit \in Nat /\ k.team \subseteq Cleaners /\ ZoneOf[b] \in Nat
  BY SessionsAssumption DEF Work0
<1> QED
  BY <1>1, <1>2

\* Work has one slot for each of its cleaners.
LEMMA OneSlotEach ==
  ASSUME NEW b, NEW k, NEW m \in SlotsOf(b, k), NEW n \in SlotsOf(b, k), m.cleaner = n.cleaner
  PROVE  m = n
<1>1. PICK c \in k.team :
        m = [booking |-> b, cleaner |-> c, from |-> k.from, to |-> k.to, limit |-> k.limit,
             zone |-> ZoneOf[b], reviewed |-> TRUE]
  BY DEF SlotsOf
<1>2. PICK d \in k.team :
        n = [booking |-> b, cleaner |-> d, from |-> k.from, to |-> k.to, limit |-> k.limit,
             zone |-> ZoneOf[b], reviewed |-> TRUE]
  BY DEF SlotsOf
<1>3. c = d
  BY <1>1, <1>2
<1> QED
  BY <1>1, <1>2, <1>3

LEMMA SlotsOfFinite ==
  ASSUME NEW b, NEW k \in Work0
  PROVE  IsFiniteSet(SlotsOf(b, k))
<1>1. IsFiniteSet(k.team)
  BY SessionsAssumption, FS_Subset DEF Work0
<1> DEFINE f == [c \in k.team |-> [booking |-> b, cleaner |-> c, from |-> k.from, to |-> k.to,
                                   limit |-> k.limit, zone |-> ZoneOf[b], reviewed |-> TRUE]]
<1>2. f \in Surjection(k.team, SlotsOf(b, k))
  BY DEF Surjection, SlotsOf
<1> QED
  BY <1>1, <1>2, FS_Surjection

LEMMA SlotTypes ==
  ASSUME CalendarInv
  PROVE  SlotSet(slots) /\ \A t \in slots : t.cleaner \in Cleaners
<1>1. ASSUME NEW t \in slots
      PROVE  /\ t.from \in Int /\ t.to \in Int /\ t.from < t.to
             /\ t.limit \in Nat /\ t.zone \in Int /\ t.cleaner \in Cleaners
  <2>1. t.booking \in Bookings /\ t \in SlotsOf(t.booking, work[t.booking])
    BY CommittedSlots DEF CalendarInv, IInv
  <2>2. work[t.booking] \in Work0 /\ work[t.booking].from < work[t.booking].to
    BY <2>1 DEF CalendarInv, IInv, TypeOK, WorkSpans
  <2> QED
    BY <2>1, <2>2, SlotOfWork
<1> QED
  BY <1>1 DEF SlotSet, CalendarInv

LEMMA InitCalendar == Init => CalendarInv
<1> SUFFICES ASSUME Init PROVE CalendarInv
  OBVIOUS
<1>1. slots = {} /\ IsFiniteSet(slots)
  BY FS_EmptySet DEF Init
<1>2. WorkSpans
  BY DEF Init, WorkSpans, NoWork, Idle
<1>3. LimitsOfSlots
  BY <1>1 DEF LimitsOfSlots, OfCleaner, WithinOwnLimits
<1>4. LimitVerdicts
  BY DEF Init, LimitVerdicts, Idle
<1> QED
  BY <1>1, <1>2, <1>3, <1>4, InitIInv DEF CalendarInv

-----------------------------------------------------------------------------
(* Steps that leave the committed work alone *)

\* Such a step keeps the calendar if the session it moves asks for work of a
\* positive length and, once checked, for work that fits.
LEMMA QuietKeepsCalendar ==
  ASSUME CalendarInv, IInv', NEW s \in Sessions, NEW x,
         session' = [session EXCEPT ![s] = x], UNCHANGED <<work, slots>>,
         x.asks.from < x.asks.to,
         x.at = "checked" => x.asks = work[x.booking] \/ FitsIn(x.booking, x.asks, slots)
  PROVE  CalendarInv'
<1>1. session'[s] = x /\ \A t \in Sessions \ {s} : session'[t] = session[t]
  BY DEF CalendarInv, IInv, TypeOK
<1>2. WorkSpans'
  BY <1>1 DEF CalendarInv, WorkSpans
<1>3. LimitVerdicts'
  BY <1>1 DEF CalendarInv, LimitVerdicts, FitsIn, Others
<1>4. LimitsOfSlots' /\ IsFiniteSet(slots)'
  BY DEF CalendarInv, LimitsOfSlots
<1> QED
  BY <1>2, <1>3, <1>4 DEF CalendarInv

LEMMA QuietSteps ==
  ASSUME CalendarInv, IInv', NEW s \in Sessions,
         \/ \E b \in Bookings : Open(s, b)
         \/ \E k \in Works : Submit(s, k)
         \/ Leave(s) \/ Conflict(s) \/ Check(s)
         \/ \E l \in Limits : Begin(s, l)
         \/ \E c \in Cleaners : LockCleaner(s, c)
  PROVE  CalendarInv' /\ UNCHANGED <<work, slots>>
<1>1. session[s] \in Session /\ session[s].asks.from < session[s].asks.to
  BY DEF CalendarInv, IInv, TypeOK, WorkSpans
<1>2. Idle.at = "idle" /\ Idle.asks.from < Idle.asks.to /\ Idle \in Session
  BY SessionTypes DEF Idle, NoWork
<1>3. ASSUME NEW b \in Bookings, Open(s, b) PROVE CalendarInv' /\ UNCHANGED <<work, slots>>
  <2> DEFINE x == [Idle EXCEPT !.at = "form", !.booking = b, !.seen = version[b]]
  <2>1. x.at = "form" /\ x.asks = Idle.asks
    BY <1>2 DEF Session
  <2>2. session' = [session EXCEPT ![s] = x] /\ UNCHANGED <<work, slots>>
    BY <1>3 DEF Open
  <2> HIDE DEF x
  <2> QED
    BY <1>2, <2>1, <2>2, QuietKeepsCalendar
<1>4. ASSUME NEW k \in Works, Submit(s, k) PROVE CalendarInv' /\ UNCHANGED <<work, slots>>
  <2> DEFINE a == [team |-> k.team, from |-> k.from, to |-> k.to, limit |-> 0]
             x == [session[s] EXCEPT !.at = "queued", !.asks = a]
  <2>1. session' = [session EXCEPT ![s] = x] /\ UNCHANGED <<work, slots>>
    BY <1>4 DEF Submit, CalendarInv, IInv, TypeOK
  <2>2. a.from < a.to
    BY SessionsAssumption
  <2> HIDE DEF a
  <2>3. x.at = "queued" /\ x.asks = a
    BY <1>1 DEF Session
  <2> HIDE DEF x
  <2> QED
    BY <2>1, <2>2, <2>3, QuietKeepsCalendar
<1>5. CASE Leave(s) \/ Conflict(s)
  BY <1>2, <1>5, QuietKeepsCalendar DEF Leave, Conflict
<1>6. CASE Check(s)
  <2>1. CASE ~Fits(s)
    BY <1>2, <1>6, <2>1, QuietKeepsCalendar DEF Check
  <2>2. CASE Fits(s)
    <3> DEFINE x == [session[s] EXCEPT !.at = "checked"]
    <3>1. session' = [session EXCEPT ![s] = x] /\ UNCHANGED <<work, slots>>
      BY <1>6, <2>2 DEF Check, CalendarInv, IInv, TypeOK
    <3>2. x.at = "checked" /\ x.asks = session[s].asks /\ x.booking = session[s].booking
      BY <1>1 DEF Session
    <3> HIDE DEF x
    <3>3. FitsIn(x.booking, x.asks, slots)
      BY <2>2, <3>2 DEF Fits, CanHold, FitsIn, Others
    <3> QED
      BY <1>1, <3>1, <3>2, <3>3, QuietKeepsCalendar
  <2> QED
    BY <2>1, <2>2
<1>7. ASSUME NEW l \in Limits, Begin(s, l) PROVE CalendarInv' /\ UNCHANGED <<work, slots>>
  <2> DEFINE b == session[s].booking
             k == Limited(s, l)
             y == IF k = work[b] THEN "checked" ELSE "locking"
             x == [session[s] EXCEPT !.asks = k, !.at = y]
  <2>1. session' = [session EXCEPT ![s] = x] /\ UNCHANGED <<work, slots>>
    BY <1>7 DEF Begin, CalendarInv, IInv, TypeOK
  <2>2. k.from < k.to
    <3>1. session[s].asks \in Work0
      BY <1>1 DEF Session
    <3>2. \A w \in Work0 : \A m : [w EXCEPT !.limit = m].from = w.from /\ [w EXCEPT !.limit = m].to = w.to
      BY DEF Work0
    <3> QED
      BY <1>1, <3>1, <3>2 DEF Limited
  <2> HIDE DEF k
  <2>3. x.at = y /\ x.asks = k /\ x.booking = b
    BY <1>1 DEF Session
  <2> HIDE DEF x
  <2> QED
    BY <2>1, <2>2, <2>3, QuietKeepsCalendar
<1>8. ASSUME NEW c \in Cleaners, LockCleaner(s, c) PROVE CalendarInv' /\ UNCHANGED <<work, slots>>
  <2> DEFINE x == [session[s] EXCEPT !.locks = @ \cup {c}]
  <2>1. session' = [session EXCEPT ![s] = x] /\ UNCHANGED <<work, slots>> /\ session[s].at = "locking"
    BY <1>8 DEF LockCleaner, CalendarInv, IInv, TypeOK
  <2>2. x.at = session[s].at /\ x.asks = session[s].asks
    BY <1>1 DEF Session
  <2> HIDE DEF x
  <2> QED
    BY <1>1, <2>1, <2>2, QuietKeepsCalendar
<1> QED
  BY <1>3, <1>4, <1>5, <1>6, <1>7, <1>8

-----------------------------------------------------------------------------
(* A commit, and the limits *)

\* Who commits, and what.
LEMMA Committing ==
  ASSUME CalendarInv, NEW s \in Sessions, Commit(s)
  PROVE  /\ session[s].booking \in Bookings
         /\ session[s].asks \in Work0 /\ session[s].asks.from < session[s].asks.to
         /\ slots' = Others(session[s].booking) \cup SlotsOf(session[s].booking, session[s].asks)
         /\ work' = [work EXCEPT ![session[s].booking] = session[s].asks]
         /\ session' = [session EXCEPT ![s] = Idle]
         /\ session[s].asks = work[session[s].booking] \/ FitsIn(session[s].booking, session[s].asks, slots)
<1>1. session[s].booking \in Bookings
  BY DEF Commit, CalendarInv, IInv, RowsExclusive
<1>2. session[s].asks \in Work0 /\ session[s].asks.from < session[s].asks.to
  BY DEF CalendarInv, IInv, TypeOK, Session, WorkSpans
<1> QED
  BY <1>1, <1>2 DEF Commit, CalendarInv, LimitVerdicts

\* Work that is what it was is committed again: nothing moves.
LEMMA SameSlots ==
  ASSUME CalendarInv, NEW b \in Bookings
  PROVE  Others(b) \cup SlotsOf(b, work[b]) = slots
<1>1. SlotsOf(b, work[b]) \subseteq slots
  BY CommittedSlots DEF CalendarInv, IInv
<1>2. \A t \in slots : t.booking = b => t \in SlotsOf(b, work[b])
  BY CommittedSlots DEF CalendarInv, IInv
<1> QED
  BY <1>1, <1>2 DEF Others

LEMMA CommitKeepsLimits ==
  ASSUME CalendarInv, NEW s \in Sessions, Commit(s)
  PROVE  LimitsOfSlots' /\ IsFiniteSet(slots')
<1> DEFINE b == session[s].booking
           k == session[s].asks
<1>1. /\ b \in Bookings /\ k \in Work0 /\ k.from < k.to
      /\ slots' = Others(b) \cup SlotsOf(b, k)
      /\ k = work[b] \/ FitsIn(b, k, slots)
  BY Committing
<1> HIDE DEF b, k
<1>2. SlotSet(slots) /\ LimitsOfSlots
  BY SlotTypes DEF CalendarInv
<1>3. IsFiniteSet(slots')
  <2>1. IsFiniteSet(Others(b))
    BY <1>2, FS_Subset DEF Others, SlotSet
  <2>2. IsFiniteSet(SlotsOf(b, k))
    BY <1>1, SlotsOfFinite
  <2> QED
    BY <1>1, <2>1, <2>2, FS_Union
<1>4. CASE k = work[b]
  <2>1. slots' = slots
    BY <1>1, <1>4, SameSlots
  <2> QED
    BY <1>2, <1>3, <2>1 DEF LimitsOfSlots
<1>5. CASE FitsIn(b, k, slots)
  <2>1. ASSUME NEW c \in Cleaners PROVE WithinOwnLimits(OfCleaner(slots', c))
    <3> DEFINE A == OfCleaner(slots, c)
               S == OfCleaner(Others(b), c)
               N == OfCleaner(SlotsOf(b, k), c)
    <3>1. S \in SUBSET A /\ A \subseteq slots /\ OfCleaner(slots', c) = S \cup N
      BY <1>1 DEF OfCleaner, Others
    <3>2. WithinOwnLimits(A)
      BY <1>2 DEF LimitsOfSlots
    <3>3. SlotSet(A) /\ SlotSet(S)
      BY <1>2, <3>1, FS_Subset DEF SlotSet
    <3> HIDE DEF A
    <3>4. WithinOwnLimits(S)
      BY <3>1, <3>2, <3>3, ReleasedKeepsLimits
    <3>5. CASE N = {}
      <4>1. S \cup N = S
        BY <3>5
      <4> QED
        BY <3>1, <3>4, <4>1
    <3>6. ASSUME NEW n \in N PROVE WithinOwnLimits(OfCleaner(slots', c))
      <4>1. n \in SlotsOf(b, k) /\ n.cleaner = c /\ n.booking = b
        BY <3>6, SlotFields DEF OfCleaner
      <4>2. N = {n}
        BY <4>1, OneSlotEach DEF OfCleaner
      <4>3. SlotSet({n})
        BY <1>1, <4>1, SlotOfWork, FS_Singleton DEF SlotSet
      <4>4. n \notin S
        BY <4>1 DEF OfCleaner, Others
      <4>5. WithinLimits(n, S)
        BY <1>5, <4>1 DEF FitsIn, Others
      <4> HIDE DEF S, N
      <4>6. WithinOwnLimits(S \cup {n})
        BY <3>3, <3>4, <4>3, <4>4, <4>5, HeldWithinLimits
      <4> QED
        BY <3>1, <4>2, <4>6
    <3> QED
      BY <3>5, <3>6
  <2> QED
    BY <1>3, <2>1 DEF LimitsOfSlots
<1> QED
  BY <1>1, <1>4, <1>5

\* Another session's verdict was about cleaners that only it has locked: what is
\* committed for them is not touched by this commit.
LEMMA CommitKeepsLimitVerdicts ==
  ASSUME CalendarInv, NEW s \in Sessions, Commit(s)
  PROVE  LimitVerdicts'
<1> DEFINE b == session[s].booking
           k == session[s].asks
<1>1. /\ b \in Bookings /\ slots' = Others(b) \cup SlotsOf(b, k)
      /\ work' = [work EXCEPT ![b] = k] /\ session' = [session EXCEPT ![s] = Idle]
      /\ session[s].at = "checked"
  BY Committing DEF Commit
<1>2. session'[s] = Idle /\ \A t \in Sessions \ {s} : session'[t] = session[t]
  BY <1>1 DEF CalendarInv, IInv, TypeOK
<1> SUFFICES ASSUME NEW t \in Sessions, session'[t].at = "checked",
                    session'[t].asks # work'[session'[t].booking]
             PROVE  FitsIn(session'[t].booking, session'[t].asks, slots')
  BY DEF LimitVerdicts, FitsIn, SlotsOf
<1>3. t # s /\ session'[t] = session[t]
  BY <1>2, SessionTypes
<1> DEFINE a == session[t].booking
           j == session[t].asks
<1>4. a \in Bookings /\ a # b /\ session[t].at = "checked"
  BY <1>1, <1>3 DEF CalendarInv, IInv, RowsExclusive, InTransaction
<1>5. work'[a] = work[a]
  BY <1>1, <1>4 DEF CalendarInv, IInv, TypeOK
<1>6. j # work[a]
  BY <1>3, <1>5
<1>7. FitsIn(a, j, slots) /\ Affected(t) \subseteq session[t].locks
  BY <1>4, <1>6 DEF CalendarInv, LimitVerdicts, IInv, CheckedHoldsTeam
<1>8. CASE k = work[b]
  <2>1. slots' = slots
    BY <1>1, <1>8, SameSlots
  <2> QED
    BY <1>3, <1>7, <2>1 DEF FitsIn, Others
<1>9. CASE k # work[b]
  <2>1. Affected(s) \subseteq session[s].locks
    BY <1>1, <1>9 DEF CalendarInv, IInv, CheckedHoldsTeam
  <2>2. session[s].locks \cap session[t].locks = {}
    BY <1>3 DEF CalendarInv, IInv, CleanersExclusive
  <2>3. ASSUME NEW n \in SlotsOf(a, j)
        PROVE  {u \in slots' : u.booking # a /\ u.cleaner = n.cleaner}
                 = {u \in slots : u.booking # a /\ u.cleaner = n.cleaner}
    <3>1. n.cleaner \in session[t].locks
      BY <1>7, SlotFields DEF Affected
    <3>2. n.cleaner \notin k.team /\ n.cleaner \notin work[b].team
      BY <2>1, <2>2, <3>1 DEF Affected
    <3>3. \A u \in SlotsOf(b, k) : u.cleaner # n.cleaner
      BY <3>2, SlotFields
    <3>4. \A u \in slots : u.booking = b => u.cleaner # n.cleaner
      BY <3>2, CommittedSlots, SlotFields DEF CalendarInv, IInv
    <3> QED
      BY <1>1, <3>3, <3>4 DEF Others
  <2>4. ASSUME NEW n \in SlotsOf(a, j)
        PROVE  OfCleaner({u \in slots' : u.booking # a}, n.cleaner)
                 = OfCleaner({u \in slots : u.booking # a}, n.cleaner)
    BY <2>3 DEF OfCleaner
  <2> HIDE DEF a, j
  <2>5. \A n \in SlotsOf(a, j) : WithinLimits(n, OfCleaner({u \in slots' : u.booking # a}, n.cleaner))
    BY <1>7, <2>4 DEF FitsIn, Others
  <2> QED
    BY <1>3, <2>5 DEF FitsIn, Others, a, j
<1> QED
  BY <1>8, <1>9

LEMMA CommitKeepsCalendar ==
  ASSUME CalendarInv, IInv', NEW s \in Sessions, Commit(s)
  PROVE  CalendarInv'
<1>1. WorkSpans'
  <2>1. /\ session'[s] = Idle /\ \A t \in Sessions \ {s} : session'[t] = session[t]
    BY Committing DEF CalendarInv, IInv, TypeOK
  <2>2. /\ work'[session[s].booking] = session[s].asks
        /\ \A a \in Bookings \ {session[s].booking} : work'[a] = work[a]
    BY Committing DEF CalendarInv, IInv, TypeOK
  <2>3. Idle.asks.from < Idle.asks.to
    BY DEF Idle, NoWork
  <2> QED
    BY <2>1, <2>2, <2>3 DEF CalendarInv, WorkSpans
<1> QED
  BY <1>1, CommitKeepsLimits, CommitKeepsLimitVerdicts DEF CalendarInv

LEMMA NextCalendar == CalendarInv /\ [Next]_vars => CalendarInv'
<1> SUFFICES ASSUME CalendarInv, [Next]_vars PROVE CalendarInv'
  OBVIOUS
<1>1. IInv'
  BY NextIInv DEF CalendarInv
<1>2. CASE UNCHANGED vars
  BY <1>1, <1>2 DEF vars, CalendarInv, WorkSpans, LimitsOfSlots, LimitVerdicts, FitsIn, Others
<1>3. ASSUME NEW s \in Sessions, Commit(s) PROVE CalendarInv'
  BY <1>1, <1>3, CommitKeepsCalendar
<1>4. \/ UNCHANGED vars
      \/ \E s \in Sessions : Commit(s)
      \/ \E s \in Sessions :
           \/ \E b \in Bookings : Open(s, b)
           \/ \E k \in Works : Submit(s, k)
           \/ Leave(s) \/ Conflict(s) \/ Check(s)
           \/ \E l \in Limits : Begin(s, l)
           \/ \E c \in Cleaners : LockCleaner(s, c)
  BY DEF Next
<1> QED
  BY <1>1, <1>2, <1>3, <1>4, QuietSteps

LEMMA CalendarInductive == Spec => []CalendarInv
<1> QED
  BY InitCalendar, NextCalendar, PTL DEF Spec

LEMMA SameWork ==
  ASSUME NEW S, NEW d, NEW zone
  PROVE  Calendar!Work(S, d, zone) = Work(S, d, zone)
BY DEF Calendar!Work, Calendar!MapThenSumSet, Calendar!MapThenFoldSet, Calendar!MinutesOn,
       Calendar!OnDay, Calendar!Meets, Calendar!DayStart, Calendar!Earlier, Calendar!Later,
       Work, MapThenSumSet, MapThenFoldSet, MinutesOn, OnDay, Meets, DayStart, Earlier, Later

LEMMA SameDays ==
  ASSUME NEW S, NEW d, NEW zone, NEW s
  PROVE  /\ Calendar!OnDay(S, d, zone) = OnDay(S, d, zone)
         /\ Calendar!Days(s, zone) = Days(s, zone)
         /\ Calendar!OfCleaner(S, s.cleaner) = OfCleaner(S, s.cleaner)
BY DEF Calendar!OnDay, Calendar!Meets, Calendar!DayStart, Calendar!Days, Calendar!Day,
       Calendar!OfCleaner, OnDay, Meets, DayStart, Days, Day, OfCleaner

\* Cleaner by cleaner, what the calendar asks.
LEMMA LimitsOfCalendar == CalendarInv => LimitsKept
<1> SUFFICES ASSUME CalendarInv, NEW s \in slots, s.limit # 0, NEW d \in Calendar!Days(s, s.zone)
             PROVE  /\ \A t \in Calendar!OnDay(Calendar!OfCleaner(slots, s.cleaner), d, s.zone) : t.reviewed
                    /\ Calendar!Work(Calendar!OfCleaner(slots, s.cleaner), d, s.zone) <= s.limit
  BY DEF LimitsKept, Calendar!LimitsKept
<1> DEFINE S == OfCleaner(slots, s.cleaner)
<1>1. WithinOwnLimits(S) /\ s \in S
  BY SlotTypes DEF CalendarInv, LimitsOfSlots, OfCleaner
<1>2. d \in Days(s, s.zone)
  BY SameDays
<1>3. /\ Calendar!OfCleaner(slots, s.cleaner) = S
      /\ Calendar!OnDay(S, d, s.zone) = OnDay(S, d, s.zone)
      /\ Calendar!Work(S, d, s.zone) = Work(S, d, s.zone)
  BY SameDays, SameWork
<1> HIDE DEF S
<1>4. (\A t \in OnDay(S, d, s.zone) : t.reviewed) /\ Work(S, d, s.zone) <= s.limit
  BY <1>1, <1>2 DEF WithinOwnLimits
<1> QED
  BY <1>3, <1>4

\* Sessions that check on their own never approve the same remaining capacity of
\* a day twice: every recorded limit is kept by all that is committed.
THEOREM LimitsAlwaysKept == Spec => []LimitsKept
<1> QED
  BY LimitsOfCalendar, CalendarInductive, PTL

\* A commit is a step of CleanerCalendar.
LEMMA CommitRebooks ==
  ASSUME CalendarInv, CalendarInv', NEW s \in Sessions, Commit(s), slots' # slots
  PROVE  Calendar!Rebook(session[s].booking)
<1> DEFINE b == session[s].booking
           k == session[s].asks
<1>1. /\ b \in Bookings /\ k \in Work0 /\ k.from < k.to
      /\ slots' = Others(b) \cup SlotsOf(b, k)
  BY Committing
<1> HIDE DEF b, k
<1>2. {t \in slots' : t.booking # b} = {t \in slots : t.booking # b}
  BY <1>1, SlotFields DEF Others
<1>3. ASSUME NEW t \in slots', NEW u \in slots', t.booking = b, u.booking = b
      PROVE  t.from = u.from /\ t.to = u.to /\ t.from < t.to
  <2>1. t \in SlotsOf(b, k) /\ u \in SlotsOf(b, k)
    BY <1>1, <1>3 DEF Others
  <2> QED
    BY <1>1, <2>1, SlotFields
<1>4. (CalendarInv => LimitsKept)'
  BY LimitsOfCalendar, PTL
<1>5. Calendar!Valid'
  BY <1>4 DEF Calendar!Valid, CalendarInv, IInv, NoDoubleBooking, LimitsKept
<1> QED
  BY <1>2, <1>3, <1>5 DEF Calendar!Rebook, b

\* However sessions overlap, wait, fail and retry, what is committed changes as
\* the calendar promises: one booking and its whole team at a time.
THEOREM ImplementsCalendar == Spec => KeepsCalendar
<1>1. Init => Calendar!Init
  BY DEF Init, Calendar!Init
<1>2. CalendarInv /\ CalendarInv' /\ [Next]_vars => [Calendar!Next]_slots
  <2> SUFFICES ASSUME CalendarInv, CalendarInv', [Next]_vars, slots' # slots
               PROVE  Calendar!Next
    OBVIOUS
  <2>1. PICK s \in Sessions : Commit(s)
    BY DEF Next, vars, Open, Submit, Leave, Conflict, Begin, LockCleaner, Check
  <2>2. Calendar!Rebook(session[s].booking) /\ session[s].booking \in Bookings
    BY <2>1, CommitRebooks, Committing
  <2> QED
    BY <2>2 DEF Calendar!Next
<1> QED
  BY <1>1, <1>2, CalendarInductive, PTL DEF Spec, KeepsCalendar, Calendar!Spec
=============================================================================
