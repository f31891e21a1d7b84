----------------------------- MODULE MCBookings -----------------------------
(* Small instances of Bookings for TLC: days of four instants. *)
EXTENDS Bookings, TLC

CONSTANTS b1, b2, shalean, bokkie, c1, c2, nowhere

MCBusinessOf == [b \in Bookings |-> IF b = b1 \/ bokkie \notin Businesses THEN shalean ELSE bokkie]
MCTeamSize == [b \in Bookings |-> 1]
UnreviewedPlan == [lead |-> 0, reviewed |-> FALSE]
ReviewedPlan == [lead |-> 1, reviewed |-> TRUE]
BothPlans == {UnreviewedPlan, ReviewedPlan}
ReviewedPlans == {UnreviewedPlan, [lead |-> 0, reviewed |-> TRUE]}

\* Cleaners are alike.
Symmetry == Permutations({c1, c2})
=============================================================================
