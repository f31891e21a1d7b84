-------------------------- MODULE OnceOnlyPosting --------------------------
(***************************************************************************)
(* What the accounting boundary promises of a local intent, with workers,  *)
(* leases, attempts and connection generations out of sight: the intent is *)
(* queued once, at most one remote draft is ever posted for it, and only   *)
(* after the point of no return ("sent"); an intent that is cancelled was  *)
(* never posted, and a confirmed one was.                                  *)
(***************************************************************************)
EXTENDS Naturals

CONSTANT Intents

VARIABLES
  phase,    \* how far each intent has got
  posted    \* the number of remote drafts that exist for each intent

Phases == {"none", "queued", "sent", "confirmed", "review", "cancelled"}

TypeOK ==
  /\ phase \in [Intents -> Phases]
  /\ posted \in [Intents -> Nat]

Init ==
  /\ phase = [i \in Intents |-> "none"]
  /\ posted = [i \in Intents |-> 0]

Move(i, from, to) ==
  /\ phase[i] = from
  /\ phase' = [phase EXCEPT ![i] = to]

Queue(i) == Move(i, "none", "queued") /\ UNCHANGED posted

Send(i) == Move(i, "queued", "sent") /\ UNCHANGED posted

Post(i) ==
  /\ phase[i] = "sent"
  /\ posted[i] = 0
  /\ posted' = [posted EXCEPT ![i] = 1]
  /\ UNCHANGED phase

Confirm(i) == posted[i] = 1 /\ Move(i, "sent", "confirmed") /\ UNCHANGED posted

Review(i) == posted[i] = 1 /\ Move(i, "sent", "review") /\ UNCHANGED posted

\* A disconnect withdraws every intent that has not been sent, in one step.
Withdraw ==
  /\ phase' = [i \in Intents |-> IF phase[i] = "queued" THEN "cancelled" ELSE phase[i]]
  /\ UNCHANGED posted

Next ==
  \/ \E i \in Intents : Queue(i) \/ Send(i) \/ Post(i) \/ Confirm(i) \/ Review(i)
  \/ Withdraw

vars == <<phase, posted>>

Spec == Init /\ [][Next]_vars
=============================================================================
