--------------------------- MODULE CleanerCalendar ---------------------------
(***************************************************************************)
(* What reserving cleaners promises, with bookings' lifecycles, sessions   *)
(* and locks out of sight: the time held of every cleaner changes one      *)
(* booking at a time, a booking's whole team at once, and always stays     *)
(* free of double bookings and within every recorded daily limit.          *)
(***************************************************************************)
EXTENDS WorkloadRules

CONSTANTS Bookings, Cleaners

VARIABLE slots   \* the slots held, over all businesses

\* No cleaner is due in two places at once.
NoDoubleBooking ==
  \A s, t \in slots :
    s.cleaner = t.cleaner /\ s.booking # t.booking => ~Meets(t, s.from, s.to)

\* On every local day of a slot that carries a limit, all the work of its
\* cleaner is reviewed and the whole stays within that limit.
LimitsKept ==
  \A s \in slots :
    s.limit # 0 =>
      \A d \in Days(s, s.zone) :
        /\ \A t \in OnDay(OfCleaner(slots, s.cleaner), d, s.zone) : t.reviewed
        /\ Work(OfCleaner(slots, s.cleaner), d, s.zone) <= s.limit

Valid == NoDoubleBooking /\ LimitsKept

Init == slots = {}

\* The slots of b, of the whole team alike, are booked, moved or released.
Rebook(b) ==
  /\ slots' # slots
  /\ {s \in slots' : s.booking # b} = {s \in slots : s.booking # b}
  /\ \A s, t \in slots' :
       s.booking = b /\ t.booking = b => s.from = t.from /\ s.to = t.to /\ s.from < s.to
  /\ Valid'

Next == \E b \in Bookings : Rebook(b)

Spec == Init /\ [][Next]_slots
=============================================================================
