-------------------------- MODULE MCBookingSessions --------------------------
(* Small instances of BookingSessions for TLC. *)
EXTENDS BookingSessions, TLC

CONSTANTS b1, b2, s1, s2, none

MCZoneOf == [b \in Bookings |-> 0]

Team(team, from, to) == [team |-> team, from |-> from, to |-> to]

\* Teams of two that overlap, and work that fills the limit of a day.
MCWorks == {Team({1, 2}, 0, 2), Team({2}, 1, 3), Team({1}, 2, 4), Team({}, 0, 1)}
FewWorks == {Team({1, 2}, 0, 2), Team({2}, 2, 4), Team({}, 0, 1)}

Symmetry == Permutations({s1, s2})
=============================================================================
