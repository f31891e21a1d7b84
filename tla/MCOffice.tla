------------------------------ MODULE MCOffice ------------------------------
(***************************************************************************)
(* Small instances of Quotes, RecurringSchedules and SignInSessions for    *)
(* TLC, in one run: they share no state, so one moves while the others     *)
(* rest in an initial state, always the same one.                          *)
(***************************************************************************)
EXTENDS Quotes, RecurringSchedules, SignInSessions, TLC

CONSTANTS q1, q2, i3, i4, none

MCPair == {q1, q2}
MCIds == {q1, q2, i3, i4}
Symmetry == Permutations(MCPair)

MCDays == 0 .. 3
\* Every morning, or the afternoons of every other day through day 2.
MCRules == {"daily", "other"}
MCDueOn == [r \in MCRules |-> IF r = "daily" THEN MCDays ELSE {0, 2}]
MCHourOf == [r \in MCRules |-> IF r = "daily" THEN 0 ELSE 1]
MCEndOf == [r \in MCRules |-> IF r = "daily" THEN 3 ELSE 2]
\* Day 2 may be outside the working days.
MCClosures == {{}, {2}}

QuotesRest == QuotesInit /\ UNCHANGED quoteVars
SchedulesRest == RecurringInit /\ UNCHANGED recurringVars
SessionsRest == SignInInit /\ membership = "owner" /\ UNCHANGED signInVars

MCInit == QuotesInit /\ RecurringInit /\ SignInInit

MCNext ==
  \/ SchedulesRest /\ SessionsRest /\ QuotesNext
  \/ QuotesRest /\ SessionsRest /\ RecurringNext
  \/ QuotesRest /\ SchedulesRest /\ SignInNext

MCSpec == MCInit /\ [][MCNext]_<<quoteVars, recurringVars, signInVars>>
=============================================================================
