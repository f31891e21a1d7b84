------------------------- MODULE MCCancellationCase -------------------------
(* Small instances of CancellationCase for TLC. *)
EXTENDS CancellationCase, TLC

CONSTANTS thandi, p1, p2, noKey, noFacts

Cancelled ==
  [cause |-> "customer", action |-> "cancel", stage |-> "accepted", late |-> TRUE,
   waived |-> FALSE, labour |-> 4, loss |-> 2, receipts |-> 5, performed |-> 1,
   completed |-> 0, pending |-> 1, fee |-> 1, pool |-> 1, price |-> 0, team |-> <<2>>,
   expenses |-> <<1>>]

\* The charge is larger than what is left of the receipts.
Rescheduled ==
  [Cancelled EXCEPT !.action = "reschedule", !.price = 1, !.performed = 0]

\* A pool nobody has collected: refused by page and database alike.
Uncollected == [Cancelled EXCEPT !.receipts = 2, !.pool = 1]

\* The charge takes most of what is left, and all of it was collected.
Tight == [Cancelled EXCEPT !.fee = 2, !.pool = 2]

\* The business cancels early and pays nothing of more than a column holds.
Wide ==
  [Cancelled EXCEPT !.cause = "business", !.late = FALSE, !.fee = 0, !.pool = 0,
                    !.team = <<4, 4>>, !.expenses = <<1, 0>>]

AllFacts == {Cancelled, Rescheduled, Uncollected}
OfficeFacts == {Tight, Wide}

OneCleaner == {{1}}
UpToTwo == {{1}, {1, 2}}

Symmetry == Permutations(Users) \cup Permutations(Posts)
=============================================================================
