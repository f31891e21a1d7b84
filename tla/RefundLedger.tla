---------------------------- MODULE RefundLedger ----------------------------
(***************************************************************************)
(* What a cancellation review promises about refunds, with pages, retries, *)
(* versions and the journal out of sight: nothing is set aside before an   *)
(* owner has approved an assessment, what is set aside or has left never   *)
(* exceeds the assessed amount, and money that was sent out, and may or    *)
(* may not arrive, is never set free again.                                *)
(***************************************************************************)
EXTENDS Integers, FiniteSetsExt

CONSTANT Refunds

VARIABLES
  limit,    \* the assessed amount, -1 until it is approved
  phase,    \* how far each refund has got
  amount    \* what each refund sets aside

Phases == {"none", "reserved", "submitted", "completed", "released"}

Held == {k \in Refunds : phase[k] \in {"reserved", "submitted", "completed"}}

SumOver(f, S) == MapThenSumSet(LAMBDA x : f[x], S)

Total == SumOver(amount, Held)

Init ==
  /\ limit = -1
  /\ phase = [k \in Refunds |-> "none"]
  /\ amount = [k \in Refunds |-> 0]

Approve ==
  /\ limit = -1
  /\ limit' \in Nat
  /\ UNCHANGED <<phase, amount>>

Reserve(k) ==
  /\ phase[k] = "none"
  /\ \E n \in 1..limit - Total :
       /\ amount' = [amount EXCEPT ![k] = n]
       /\ phase' = [phase EXCEPT ![k] = "reserved"]
  /\ UNCHANGED limit

Move(k, from, to) ==
  /\ phase[k] = from
  /\ phase' = [phase EXCEPT ![k] = to]
  /\ UNCHANGED <<limit, amount>>

Next ==
  \/ Approve
  \/ \E k \in Refunds :
       \/ Reserve(k)
       \/ Move(k, "reserved", "submitted")
       \/ Move(k, "submitted", "completed")
       \/ Move(k, "reserved", "released")

Spec == Init /\ [][Next]_<<limit, phase, amount>>
=============================================================================
