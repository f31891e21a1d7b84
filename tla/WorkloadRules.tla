---------------------------- MODULE WorkloadRules ----------------------------
(***************************************************************************)
(* The interval and daily-limit arithmetic of cleaner reservations:        *)
(* audit.workload_issue and the exclusion constraint of                    *)
(* audit.cleaner_reservations. Time is a line of integer instants; a zone  *)
(* is an offset from it and local days have DayLength instants.            *)
(*                                                                         *)
(* A slot is one reservation joined with the policy of its booking:        *)
(*   [booking, cleaner, from, to, limit, zone, reviewed]                   *)
(* it occupies [from, to); limit 0 is a null limit; reviewed says whether  *)
(* setup and travel minutes were entered.                                  *)
(***************************************************************************)
EXTENDS Integers, FiniteSetsExt

CONSTANT DayLength   \* instants in a day

ASSUME WorkloadAssumption == DayLength \in Nat \ {0}

Meets(s, from, to) == s.from < to /\ from < s.to

Day(t, zone) == (t + zone) \div DayLength
DayStart(d, zone) == d * DayLength - zone

Days(s, zone) == Day(s.from, zone)..Day(s.to - 1, zone)

OnDay(slots, d, zone) ==
  {s \in slots : Meets(s, DayStart(d, zone), DayStart(d + 1, zone))}

Earlier(t, u) == IF t < u THEN t ELSE u
Later(t, u) == IF t > u THEN t ELSE u

MinutesOn(s, d, zone) ==
  Earlier(s.to, DayStart(d + 1, zone)) - Later(s.from, DayStart(d, zone))

Work(slots, d, zone) == MapThenSumSet(LAMBDA s : MinutesOn(s, d, zone), OnDay(slots, d, zone))

Policy(s) == [limit |-> s.limit, zone |-> s.zone]

\* Mutant: a booking is held to its own policy only.
OwnPolicy(s, others) == {Policy(t) : t \in {u \in {s} : u.limit # 0}}

\* The policies that may bind the days of s: its own, and those of the
\* cleaner's reservations within a day of it.
NearPolicies(s, others) ==
  {Policy(t) : t \in
     {u \in others \cup {s} : u.limit # 0 /\ Meets(u, s.from - DayLength, s.to + DayLength)}}

\* A policy binds a day on which one of its own bookings works.
Binds(p, d, slots) == \E t \in OnDay(slots, d, p.zone) : Policy(t) = p

\* workload_issue is null: on every day that s works and a policy binds, every
\* plan is reviewed and the work, s included, stays within the limit.
WithinLimits(s, others) ==
  \A p \in NearPolicies(s, others) : \A d \in Days(s, p.zone) :
    Binds(p, d, others \cup {s}) =>
      /\ \A t \in OnDay(others \cup {s}, d, p.zone) : t.reviewed
      /\ Work(others, d, p.zone) + MinutesOn(s, d, p.zone) <= p.limit

\* Mutant: only reservations that start after the new one, inside it, conflict.
DisjointFromStart(s, others) == \A t \in others : ~(s.from < t.from /\ t.from < s.to)

\* exclude using gist(staff_id with =, occupied with &&)
Disjoint(s, others) == \A t \in others : ~Meets(t, s.from, s.to)

OfCleaner(slots, c) == {s \in slots : s.cleaner = c}

\* Whether the slots of one booking can be added to the others.
CanHold(new, others) ==
  \A s \in new :
    /\ WithinLimits(s, OfCleaner(others, s.cleaner))
    /\ Disjoint(s, OfCleaner(others, s.cleaner))
=============================================================================
