------------------------------ MODULE PayLedger ------------------------------
(***************************************************************************)
(* What reviewing pay promises, with statements, transfers, disputes and   *)
(* retries out of sight: what is recorded as paid of each thing owed only  *)
(* ever moves towards what is due, and never past it. A reduction is due   *)
(* below zero and is taken once.                                           *)
(***************************************************************************)
EXTENDS Integers

CONSTANTS Owed

VARIABLES
  due,    \* what each thing is worth, 0 while it is not agreed
  paid    \* what has been recorded as paid of it

Span(a, b) == IF a <= b THEN a..b ELSE b..a

Init ==
  /\ \A o \in Owed : due[o] \in Int
  /\ paid = [o \in Owed |-> 0]

Step(o) ==
  /\ due[o] # 0 => due'[o] = due[o]
  /\ paid'[o] \in Span(paid[o], due'[o])

Next == \A o \in Owed : Step(o)

Spec == Init /\ [][Next]_<<due, paid>>
=============================================================================
