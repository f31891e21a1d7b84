--------------------------- MODULE OperatorProofs ---------------------------
(***************************************************************************)
(* What holds between the office and what is outside it, for any number of *)
(* workers, processes, callers, attempts and runs: the queue of accounting *)
(* operations, the attended consent, the credential vault, the access      *)
(* tokens, the capture of a backup, the restore helper and the setup       *)
(* helper. The seven share no state; each has an inductive invariant of    *)
(* its own, one lemma that it holds at first, one that every step keeps    *)
(* it, and the theorems that follow from it.                               *)
(***************************************************************************)
EXTENDS AccountingStageB, ConsentConnection, CredentialVault, AccessTokens, StagingBackup,
        StagingRestore, ZohoSetup, FoldFacts

-----------------------------------------------------------------------------
(* The queue of accounting operations: no operation is posted twice *)

\* The initial states satisfy the inductive invariant: nothing is enqueued,
\* claimed or posted before the business connects.
LEMMA InitIInv == Init => IInv
BY StageBAssumption DEF Init, IInv, TypeOK, Operation, Worker, NoOperation, Idle, Roles,
   ConnectionStatuses, OperationStates, Leases, Results, AtMostOneDraft, VerifiedIsReal,
   OldGenerationSettled, ReviewKeepsQuarantine, DispatchedStates, Unconnected,
   AttemptsIssued, ClaimMode, SoleCreator, MayCreate, AnswersHold

\* Memberships, the connection row and intent rows change under the operations:
\* a membership step and a registration touch nothing IInv relates.
LEMMA MembershipKeepsIInv ==
  ASSUME IInv, NEW u \in Actors, NEW r \in Roles, ChangeMembership(u, r)
  PROVE  IInv'
<1>1. TypeOK'
  BY DEF IInv, TypeOK, ChangeMembership
<1>2. QED
  BY <1>1 DEF IInv, ChangeMembership, AtMostOneDraft, VerifiedIsReal, OldGenerationSettled,
     ReviewKeepsQuarantine, DispatchedStates, Unconnected, AttemptsIssued, ClaimMode,
     SoleCreator, MayCreate, AnswersHold

LEMMA RegisterKeepsIInv ==
  ASSUME IInv, NEW u \in Actors, NEW i \in Intents, RegisterIntent(u, i)
  PROVE  IInv'
<1>1. TypeOK'
  BY DEF IInv, TypeOK, RegisterIntent
<1>2. QED
  BY <1>1 DEF IInv, RegisterIntent, AtMostOneDraft, VerifiedIsReal, OldGenerationSettled,
     ReviewKeepsQuarantine, DispatchedStates, Unconnected, AttemptsIssued, ClaimMode,
     SoleCreator, MayCreate, AnswersHold

LEMMA ConnectKeepsIInv ==
  ASSUME IInv, NEW u \in Actors, ConnectAccount(u)
  PROVE  IInv'
<1>1. TypeOK'
  BY DEF IInv, TypeOK, ConnectAccount, ConnectionStatuses
<1>2. OldGenerationSettled' /\ ReviewKeepsQuarantine' /\ Unconnected'
  BY DEF IInv, TypeOK, ConnectAccount, OldGenerationSettled, ReviewKeepsQuarantine, Unconnected
<1>3. QED
  BY <1>1, <1>2 DEF IInv, ConnectAccount, AtMostOneDraft, VerifiedIsReal, DispatchedStates,
     AttemptsIssued, ClaimMode, SoleCreator, MayCreate, AnswersHold

LEMMA ChangeConnectionKeepsIInv ==
  ASSUME IInv, NEW u \in Actors, NEW g \in 1..MaxConnectionGeneration,
         NEW a \in {"reauthorise", "disconnect"}, ChangeConnection(u, g, a)
  PROVE  IInv'
<1> USE DEF ChangeConnection
<1>1. \A o \in Operation :
        /\ Withdrawn(o) \in Operation
        /\ Withdrawn(o).dispatched = o.dispatched
        /\ Withdrawn(o).receipt = o.receipt
        /\ Withdrawn(o).generation = o.generation
        /\ Withdrawn(o).state =
             IF o.state \in Live
             THEN IF o.dispatched THEN "uncertain" ELSE "cancelled" ELSE o.state
  BY DEF Operation, Withdrawn, OperationStates
<1>2. \A i \in Intents : operation[i] \in Operation /\ operation'[i] = Withdrawn(operation[i])
  BY DEF IInv, TypeOK
<1>3. TypeOK'
  <2>1. account' \in [generation: Nat, status: ConnectionStatuses]
    BY DEF IInv, TypeOK, ConnectionStatuses, StatusAfter, StatusAfterAction
  <2>2. operation' \in [Intents -> Operation]
    BY <1>1, <1>2
  <2>3. QED
    BY <2>1, <2>2 DEF IInv, TypeOK
<1>4. VerifiedIsReal' /\ DispatchedStates'
  BY <1>1, <1>2 DEF IInv, VerifiedIsReal, DispatchedStates, Live
<1>5. OldGenerationSettled' /\ Unconnected'
  BY <1>1, <1>2 DEF IInv, OldGenerationSettled, Unconnected, Live, StatusAfter, StatusAfterAction
<1>6. ReviewKeepsQuarantine'
  BY <1>1, <1>2 DEF IInv, ReviewKeepsQuarantine, Live, StatusAfter
<1>7. AttemptsIssued' /\ AtMostOneDraft'
  BY DEF IInv, AttemptsIssued, AtMostOneDraft
<1>8. ClaimMode'
  BY <1>1, <1>2 DEF IInv, ClaimMode, AttemptsIssued, Live
<1>9. SoleCreator' /\ AnswersHold'
  BY <1>1, <1>2 DEF IInv, SoleCreator, AnswersHold, MayCreate, AttemptsIssued
<1>10. QED
  BY <1>3, <1>4, <1>5, <1>6, <1>7, <1>8, <1>9 DEF IInv

LEMMA EnqueueKeepsIInv ==
  ASSUME IInv, NEW u \in Actors, NEW i \in Intents, NEW g \in 1..MaxConnectionGeneration, Enqueue(u, i, g)
  PROVE  IInv'
<1> DEFINE new == [NoOperation EXCEPT !.state = "pending", !.generation = g, !.by = u]
<1>1. /\ new \in Operation /\ new.state = "pending" /\ new.generation = g
      /\ new.dispatched = FALSE /\ new.receipt = "null"
  <2>1. /\ NoOperation \in Operation
        /\ NoOperation.dispatched = FALSE /\ NoOperation.receipt = "null"
    BY DEF NoOperation, Operation, OperationStates, Leases
  <2>2. g \in Nat
    BY StageBAssumption
  <2>3. QED
    BY <2>1, <2>2 DEF Operation, OperationStates
<1>2. operation' = [operation EXCEPT ![i] = new] /\ operation[i].state = "none"
  BY DEF Enqueue
<1>3. TypeOK'
  BY <1>1, <1>2 DEF IInv, TypeOK, Enqueue
<1>4. ~operation[i].dispatched /\ operation[i].receipt = "null" /\ operation[i] \in Operation
  BY <1>2 DEF IInv, DispatchedStates, VerifiedIsReal, TypeOK, Operation
<1> HIDE DEF new
<1>5. \A j \in Intents : operation'[j] = IF j = i THEN new ELSE operation[j]
  BY <1>2 DEF IInv, TypeOK
<1>6. VerifiedIsReal' /\ DispatchedStates'
  <2>1. records' = records /\ ~(records[i] > 0)
    BY <1>4 DEF IInv, DispatchedStates, Enqueue
  <2>2. VerifiedIsReal'
    BY <1>1, <1>5, <2>1 DEF IInv, VerifiedIsReal
  <2>3. DispatchedStates'
    BY <1>1, <1>5, <2>1 DEF IInv, DispatchedStates
  <2>4. QED
    BY <2>2, <2>3
<1>7. OldGenerationSettled' /\ Unconnected' /\ ReviewKeepsQuarantine'
  BY <1>1, <1>5 DEF IInv, OldGenerationSettled, Unconnected, ReviewKeepsQuarantine, Enqueue
<1>8. AttemptsIssued' /\ AtMostOneDraft'
  BY DEF IInv, AttemptsIssued, AtMostOneDraft, Enqueue
<1>9. ClaimMode' /\ SoleCreator' /\ AnswersHold'
  BY <1>1, <1>4, <1>5 DEF IInv, ClaimMode, SoleCreator, AnswersHold, MayCreate, AttemptsIssued,
     Enqueue
<1>10. QED
  BY <1>3, <1>6, <1>7, <1>8, <1>9 DEF IInv

LEMMA ClaimKeepsIInv ==
  ASSUME IInv, NEW w \in Workers, NEW i \in Intents, ClaimOperation(w, i)
  PROVE  IInv'
<1>1. /\ worker'[w].at = "claimed" /\ worker'[w].op = i
      /\ worker'[w].attempt = issued[i] + 1
      /\ worker'[w].mode = Mode(operation[i]) /\ worker'[w] \in Worker
      /\ \A v \in Workers : v # w => worker'[v] = worker[v]
  <2> DEFINE asked == [Idle EXCEPT !.at = "claimed", !.op = i, !.attempt = issued[i] + 1,
                                   !.mode = Mode(operation[i])]
  <2>1. Idle \in Worker
    BY DEF Idle, Worker, Results
  <2>2. Mode(operation[i]) \in {"create", "reconcile"} /\ issued[i] + 1 \in Nat
    BY DEF Mode, IInv, TypeOK
  <2>3. worker' = [worker EXCEPT ![w] = asked]
    BY DEF ClaimOperation
  <2>4. /\ asked \in Worker /\ asked.at = "claimed" /\ asked.op = i
        /\ asked.attempt = issued[i] + 1 /\ asked.mode = Mode(operation[i])
    BY <2>1, <2>2 DEF Worker
  <2> HIDE DEF asked
  <2>5. worker'[w] = asked /\ \A v \in Workers : v # w => worker'[v] = worker[v]
    BY <2>3 DEF IInv, TypeOK
  <2>6. QED
    BY <2>4, <2>5
<1>2. /\ operation'[i] = [operation[i] EXCEPT !.state = "claimed",
                             !.attempt = issued[i] + 1, !.lease = "live"]
      /\ \A j \in Intents : j # i => operation'[j] = operation[j]
  BY DEF IInv, TypeOK, ClaimOperation, Operation
<1>3. TypeOK'
  <2>1. issued' \in [Intents -> Nat]
    BY DEF IInv, TypeOK, ClaimOperation
  <2>2. operation' \in [Intents -> Operation]
    <3>1. operation'[i] \in Operation
      <4>1. operation[i] \in Operation /\ issued[i] + 1 \in Nat
        BY DEF IInv, TypeOK
      <4> DEFINE changedRow == [operation[i] EXCEPT !.state = "claimed",
                                  !.attempt = issued[i] + 1, !.lease = "live"]
      <4>2. changedRow \in Operation
        BY <4>1 DEF Operation, OperationStates, Leases
      <4>3. operation'[i] = changedRow
        BY <1>2
      <4> HIDE DEF changedRow
      <4>4. QED
        BY <4>2, <4>3
    <3>2. \A j \in Intents : operation'[j] \in Operation
      BY <1>2, <3>1 DEF IInv, TypeOK
    <3>3. operation' = [j \in Intents |-> operation'[j]]
      BY DEF IInv, TypeOK, ClaimOperation
    <3>4. QED
      BY <3>2, <3>3
  <2>3. worker' \in [Workers -> Worker]
    BY <1>1 DEF IInv, TypeOK, ClaimOperation
  <2>4. QED
    BY <2>1, <2>2, <2>3 DEF IInv, TypeOK, ClaimOperation
<1>4. /\ operation[i] \in Operation
      /\ operation'[i].state = "claimed" /\ operation'[i].attempt = issued[i] + 1
      /\ operation'[i].dispatched = operation[i].dispatched
      /\ operation'[i].receipt = operation[i].receipt
      /\ operation'[i].generation = operation[i].generation
  BY <1>2 DEF IInv, TypeOK, Operation
<1>5. /\ issued' = [issued EXCEPT ![i] = @ + 1] /\ records' = records
      /\ account' = account
      /\ account.status = "connected" /\ account.generation = operation[i].generation
      /\ operation[i].state \in {"pending", "claimed", "dispatched", "uncertain"}
  BY DEF ClaimOperation, OperationCurrent, Live
<1>51. \A j \in Intents : j # i => operation'[j] = operation[j]
  BY <1>2
<1>6. VerifiedIsReal' /\ DispatchedStates'
  <2>1. VerifiedIsReal'
    BY <1>4, <1>5, <1>51 DEF IInv, VerifiedIsReal
  <2>2. DispatchedStates'
    BY <1>4, <1>5, <1>51 DEF IInv, DispatchedStates
  <2>3. QED
    BY <2>1, <2>2
<1>7. OldGenerationSettled' /\ Unconnected' /\ ReviewKeepsQuarantine'
  BY <1>4, <1>5, <1>51 DEF IInv, OldGenerationSettled, Unconnected, ReviewKeepsQuarantine
<1>8. AttemptsIssued' /\ AtMostOneDraft'
  <2>1. issued'[i] = issued[i] + 1 /\ \A j \in Intents : issued'[j] \in Nat /\ issued[j] <= issued'[j]
    BY <1>5 DEF IInv, TypeOK
  <2>2. \A v \in Workers : worker[v].attempt \in Nat
    BY DEF IInv, TypeOK, Worker
  <2>3. AttemptsIssued'
    <3> SUFFICES ASSUME NEW v \in Workers, worker'[v].at # "idle"
                 PROVE  worker'[v].op \in Intents /\ worker'[v].attempt <= issued'[worker'[v].op]
      BY DEF AttemptsIssued
    <3>1. CASE v = w
      BY <1>1, <2>1, <3>1
    <3>2. CASE v # w
      <4>1. worker[v].op \in Intents /\ worker[v].attempt <= issued[worker[v].op]
        BY <1>1, <3>2 DEF IInv, AttemptsIssued
      <4>2. issued[worker[v].op] \in Nat
        BY <4>1 DEF IInv, TypeOK
      <4>3. QED
        BY <1>1, <2>1, <2>2, <3>2, <4>1, <4>2
    <3>3. QED
      BY <3>1, <3>2
  <2>4. QED
    BY <1>5, <2>3 DEF IInv, AtMostOneDraft
<1>9. ClaimMode'
  <2> SUFFICES ASSUME NEW v \in Workers,
                      worker'[v].at = "claimed", worker'[v].mode = "create",
                      operation'[worker'[v].op].state = "claimed",
                      operation'[worker'[v].op].attempt = worker'[v].attempt
               PROVE  ~operation'[worker'[v].op].dispatched
    BY DEF ClaimMode
  <2>1. CASE v = w
    BY <1>1, <1>4, <2>1 DEF Mode
  <2>2. CASE v # w /\ worker[v].op = i
    <3>1. worker[v].attempt <= issued[i] /\ worker[v].attempt \in Nat /\ issued[i] \in Nat
      BY <1>1, <2>2 DEF IInv, AttemptsIssued, TypeOK, Worker
    <3>2. worker[v].attempt = issued[i] + 1
      BY <1>1, <1>4, <2>2
    <3>3. QED
      BY <3>1, <3>2
  <2>3. CASE v # w /\ worker[v].op # i
    BY <1>1, <1>2, <2>3 DEF IInv, ClaimMode, AttemptsIssued
  <2>4. QED
    BY <2>1, <2>2, <2>3
<1>10. SoleCreator' /\ AnswersHold'
  BY <1>1, <1>4, <1>5, <1>51 DEF IInv, SoleCreator, AnswersHold, MayCreate, AttemptsIssued
<1>11. QED
  BY <1>3, <1>6, <1>7, <1>8, <1>9, <1>10 DEF IInv

LEMMA LeaseExpiresKeepsIInv ==
  ASSUME IInv, NEW i \in Intents, OperationLeaseExpires(i)
  PROVE  IInv'
<1>1. operation' = [operation EXCEPT ![i].lease = "expired"]
  BY DEF OperationLeaseExpires
<1>2. /\ operation' \in [Intents -> Operation]
      /\ \A j \in Intents :
           /\ operation'[j].state = operation[j].state
           /\ operation'[j].attempt = operation[j].attempt
           /\ operation'[j].dispatched = operation[j].dispatched
           /\ operation'[j].receipt = operation[j].receipt
           /\ operation'[j].generation = operation[j].generation
  BY <1>1 DEF IInv, TypeOK, Operation, Leases
<1>3. TypeOK'
  BY <1>2 DEF IInv, TypeOK, OperationLeaseExpires
<1>4. VerifiedIsReal' /\ DispatchedStates' /\ AtMostOneDraft'
  BY <1>2 DEF IInv, VerifiedIsReal, DispatchedStates, AtMostOneDraft, OperationLeaseExpires
<1>5. OldGenerationSettled' /\ Unconnected' /\ ReviewKeepsQuarantine'
  BY <1>2 DEF IInv, OldGenerationSettled, Unconnected, ReviewKeepsQuarantine, OperationLeaseExpires
<1>6. AttemptsIssued' /\ ClaimMode'
  BY <1>2 DEF IInv, AttemptsIssued, ClaimMode, OperationLeaseExpires
<1>7. SoleCreator' /\ AnswersHold'
  BY <1>2 DEF IInv, AttemptsIssued, SoleCreator, MayCreate, AnswersHold, OperationLeaseExpires
<1>8. QED
  BY <1>3, <1>4, <1>5, <1>6, <1>7 DEF IInv

LEMMA DispatchKeepsIInv ==
  ASSUME IInv, NEW w \in Workers, DispatchOperation(w)
  PROVE  IInv'
<1> DEFINE i == worker[w].op
<1>1. i \in Intents
  BY DEF IInv, AttemptsIssued, DispatchOperation
<1>2. /\ worker[w].at = "claimed"
      /\ operation[i].state = "claimed" /\ operation[i].attempt = worker[w].attempt
      /\ account.generation = operation[i].generation
      /\ operation' = [operation EXCEPT ![i].state = "dispatched", ![i].dispatched = TRUE]
      /\ worker' = [worker EXCEPT ![w].at = "dispatched"]
      /\ UNCHANGED <<role, account, registered, issued, records>>
  BY DEF DispatchOperation, DispatchFence, OperationCurrent
<1> HIDE DEF i
<1>3. /\ operation' \in [Intents -> Operation]
      /\ operation'[i].state = "dispatched" /\ operation'[i].dispatched
      /\ operation'[i].receipt = operation[i].receipt
      /\ operation'[i].generation = operation[i].generation
      /\ \A j \in Intents : j # i => operation'[j] = operation[j]
  BY <1>1, <1>2 DEF IInv, TypeOK, Operation, OperationStates
<1>4. /\ worker' \in [Workers -> Worker]
      /\ worker'[w].at = "dispatched" /\ worker'[w].op = i
      /\ worker'[w].attempt = worker[w].attempt /\ worker'[w].mode = worker[w].mode
      /\ \A v \in Workers : v # w => worker'[v] = worker[v]
  BY <1>2 DEF IInv, TypeOK, Worker, i
<1>5. TypeOK'
  BY <1>2, <1>3, <1>4 DEF IInv, TypeOK
<1>6. VerifiedIsReal' /\ DispatchedStates' /\ AtMostOneDraft'
  BY <1>2, <1>3 DEF IInv, VerifiedIsReal, DispatchedStates, AtMostOneDraft
<1>7. OldGenerationSettled' /\ Unconnected' /\ ReviewKeepsQuarantine'
  BY <1>1, <1>2, <1>3 DEF IInv, OldGenerationSettled, Unconnected, ReviewKeepsQuarantine
<1>8. AttemptsIssued'
  BY <1>2, <1>4 DEF IInv, AttemptsIssued, i
<1>9. ClaimMode'
  BY <1>2, <1>3, <1>4 DEF IInv, ClaimMode, AttemptsIssued
<1>10. worker[w].mode = "create" => ~operation[i].dispatched /\ records[i] = 0
  BY <1>1, <1>2 DEF IInv, ClaimMode, DispatchedStates, TypeOK, i
<1>11. SoleCreator'
  <2> SUFFICES ASSUME NEW v \in Workers, MayCreate(v)'
               PROVE  /\ operation'[worker'[v].op].dispatched
                      /\ records'[worker'[v].op] = 0
                      /\ \A x \in Workers : MayCreate(x)' /\ worker'[x].op = worker'[v].op => x = v
    BY DEF SoleCreator
  <2>1. \A x \in Workers : x # w /\ MayCreate(x)' =>
          MayCreate(x) /\ worker'[x].op = worker[x].op /\ worker[x].op \in Intents
    BY <1>4 DEF MayCreate, IInv, AttemptsIssued
  <2>2. \A x \in Workers : x # w /\ MayCreate(x)' /\ worker[w].mode = "create"
                           => worker[x].op # i
    BY <1>10, <2>1 DEF IInv, SoleCreator
  <2>3. CASE v = w
    <3>1. worker[w].mode = "create"
      BY <1>4, <2>3 DEF MayCreate
    <3>2. QED
      BY <1>2, <1>3, <1>4, <1>10, <2>1, <2>2, <2>3, <3>1
  <2>4. CASE v # w
    <3>1. MayCreate(v) /\ worker'[v].op = worker[v].op /\ worker[v].op \in Intents
      BY <2>1, <2>4
    <3>2. /\ operation[worker[v].op].dispatched /\ records[worker[v].op] = 0
          /\ \A x \in Workers : MayCreate(x) /\ worker[x].op = worker[v].op => x = v
      BY <3>1 DEF IInv, SoleCreator
    <3>3. operation'[worker'[v].op].dispatched /\ records'[worker'[v].op] = 0
      BY <1>2, <1>3, <3>1, <3>2
    <3>4. ASSUME NEW x \in Workers, MayCreate(x)', worker'[x].op = worker'[v].op
          PROVE  x = v
      <4>1. CASE x # w
        BY <2>1, <3>1, <3>2, <3>4, <4>1
      <4>2. CASE x = w
        <5>1. worker[w].mode = "create"
          BY <1>4, <3>4, <4>2 DEF MayCreate
        <5>2. worker[v].op # i
          BY <2>2, <2>4, <5>1
        <5>3. QED
          BY <1>4, <3>1, <3>4, <4>2, <5>2
      <4>3. QED
        BY <4>1, <4>2
    <3>5. QED
      BY <3>3, <3>4
  <2>5. QED
    BY <2>3, <2>4
<1>12. AnswersHold'
  BY <1>2, <1>3, <1>4 DEF IInv, AnswersHold, AttemptsIssued
<1>13. QED
  BY <1>5, <1>6, <1>7, <1>8, <1>9, <1>11, <1>12 DEF IInv

LEMMA AbandonKeepsIInv ==
  ASSUME IInv, NEW w \in Workers, Abandon(w)
  PROVE  IInv'
<1>1. Idle \in Worker /\ Idle.at = "idle"
  BY DEF Idle, Worker, Results
<1>2. /\ worker'[w] = Idle /\ \A v \in Workers : v # w => worker'[v] = worker[v]
      /\ worker' \in [Workers -> Worker]
      /\ UNCHANGED <<role, account, registered, operation, issued, records>>
  BY <1>1 DEF IInv, TypeOK, Abandon
<1>3. TypeOK' /\ VerifiedIsReal' /\ DispatchedStates' /\ AtMostOneDraft'
  BY <1>2 DEF IInv, TypeOK, VerifiedIsReal, DispatchedStates, AtMostOneDraft
<1>4. OldGenerationSettled' /\ Unconnected' /\ ReviewKeepsQuarantine'
  BY <1>2 DEF IInv, OldGenerationSettled, Unconnected, ReviewKeepsQuarantine
<1>5. AttemptsIssued' /\ ClaimMode' /\ SoleCreator' /\ AnswersHold'
  BY <1>1, <1>2 DEF IInv, AttemptsIssued, ClaimMode, SoleCreator, MayCreate, AnswersHold
<1>6. QED
  BY <1>3, <1>4, <1>5 DEF IInv

\* A worker's new local state when the provider has answered it.
LEMMA AnsweredFields ==
  ASSUME IInv, NEW w \in Workers, NEW r \in Results, NEW ok \in BOOLEAN, Answered(w, r, ok)
  PROVE  /\ worker' \in [Workers -> Worker]
         /\ worker'[w].at = "answered" /\ worker'[w].op = worker[w].op
         /\ worker'[w].attempt = worker[w].attempt /\ worker'[w].result = r
         /\ \A v \in Workers : v # w => worker'[v] = worker[v]
<1>1. worker[w] \in Worker
  BY DEF IInv, TypeOK
<1>2. worker' = [worker EXCEPT ![w] = [worker[w] EXCEPT !.at = "answered", !.result = r,
                                                        !.receiptOk = ok]]
  BY DEF Answered
<1> DEFINE asked == [worker[w] EXCEPT !.at = "answered", !.result = r, !.receiptOk = ok]
<1>3. /\ asked \in Worker /\ asked.at = "answered" /\ asked.op = worker[w].op
      /\ asked.attempt = worker[w].attempt /\ asked.result = r
  BY <1>1 DEF Worker
<1> HIDE DEF asked
<1>4. QED
  BY <1>2, <1>3 DEF IInv, TypeOK, asked

\* An answer keeps the invariant when it tells the truth about the records.
LEMMA AnswerKeepsIInv ==
  ASSUME IInv, NEW w \in Workers, worker[w].at = "dispatched",
         NEW r \in Results, NEW ok \in BOOLEAN, Answered(w, r, ok),
         r # "uncertain" => records[worker[w].op] = 1,
         UNCHANGED <<role, account, registered, operation, issued, records>>
  PROVE  IInv'
<1>1. /\ worker' \in [Workers -> Worker]
      /\ worker'[w].at = "answered" /\ worker'[w].op = worker[w].op
      /\ worker'[w].attempt = worker[w].attempt /\ worker'[w].result = r
      /\ \A v \in Workers : v # w => worker'[v] = worker[v]
  BY AnsweredFields
<1>2. TypeOK' /\ VerifiedIsReal' /\ DispatchedStates' /\ AtMostOneDraft'
  BY <1>1 DEF IInv, TypeOK, VerifiedIsReal, DispatchedStates, AtMostOneDraft
<1>3. OldGenerationSettled' /\ Unconnected' /\ ReviewKeepsQuarantine'
  BY DEF IInv, OldGenerationSettled, Unconnected, ReviewKeepsQuarantine
<1>4. AttemptsIssued' /\ ClaimMode'
  BY <1>1 DEF IInv, AttemptsIssued, ClaimMode
<1>5. SoleCreator' /\ AnswersHold'
  BY <1>1 DEF IInv, SoleCreator, MayCreate, AnswersHold
<1>6. QED
  BY <1>2, <1>3, <1>4, <1>5 DEF IInv

LEMMA CreateRejectedKeepsIInv ==
  ASSUME IInv, NEW w \in Workers, CreateRejected(w)
  PROVE  IInv'
BY AnswerKeepsIInv DEF CreateRejected, Results

LEMMA FindKeepsIInv ==
  ASSUME IInv, NEW w \in Workers, Find(w)
  PROVE  IInv'
<1> DEFINE i == worker[w].op
<1>1. i \in Intents /\ records[i] \in Nat /\ records[i] <= 1
  BY DEF IInv, AttemptsIssued, AtMostOneDraft, TypeOK, Find
<1> DEFINE answer(m) == IF m = 1 THEN "verified" ELSE IF m > 1 THEN "mismatch" ELSE "uncertain"
<1>2. PICK m \in {records[i], 0, 2 * records[i]} : Answered(w, answer(m), m = 1)
  BY DEF Find
<1>3. answer(m) # "uncertain" => records[i] = 1
  BY <1>1
<1>4. answer(m) \in Results /\ (m = 1) \in BOOLEAN
  BY DEF Results
<1>5. worker[w].at = "dispatched" /\ UNCHANGED <<role, account, registered, operation, issued, records>>
  BY DEF Find
<1> HIDE DEF answer
<1>6. QED
  BY <1>2, <1>3, <1>4, <1>5, AnswerKeepsIInv

LEMMA CreateKeepsIInv ==
  ASSUME IInv, NEW w \in Workers, Create(w)
  PROVE  IInv'
<1> DEFINE i == worker[w].op
<1>1. /\ worker[w].at = "dispatched" /\ MayCreate(w)
      /\ i \in Intents /\ operation[i].dispatched /\ records[i] = 0
      /\ \A v \in Workers : MayCreate(v) /\ worker[v].op = i => v = w
  BY DEF IInv, SoleCreator, MayCreate, AttemptsIssued, Create
<1>2. /\ records' = [records EXCEPT ![i] = records[i] + 1]
      /\ UNCHANGED <<role, account, registered, operation, issued>>
  BY DEF Create
<1>3. PICK r \in Results, ok \in BOOLEAN : Answered(w, r, ok)
  BY DEF Create, Results
<1>4. /\ worker' \in [Workers -> Worker]
      /\ worker'[w].at = "answered" /\ worker'[w].op = i
      /\ worker'[w].attempt = worker[w].attempt
      /\ \A v \in Workers : v # w => worker'[v] = worker[v]
  BY <1>3, AnsweredFields
<1> HIDE DEF i
<1>5. /\ records' \in [Intents -> Nat] /\ records'[i] = 1
      /\ \A j \in Intents : j # i => records'[j] = records[j]
  BY <1>1, <1>2 DEF IInv, TypeOK
<1>6. \A v \in Workers : worker[v].at # "idle" => worker[v].op \in Intents
  BY DEF IInv, AttemptsIssued
<1>7. TypeOK' /\ AtMostOneDraft'
  BY <1>2, <1>4, <1>5 DEF IInv, TypeOK, AtMostOneDraft
<1>8. VerifiedIsReal' /\ DispatchedStates'
  <2>1. \A j \in Intents : operation[j].state \in {"verified", "review_required"} => j # i
    BY <1>1 DEF IInv, DispatchedStates
  <2>2. VerifiedIsReal'
    BY <1>2, <1>5, <2>1 DEF IInv, VerifiedIsReal
  <2>3. DispatchedStates'
    BY <1>1, <1>2, <1>5, <2>1 DEF IInv, DispatchedStates
  <2>4. QED
    BY <2>2, <2>3
<1>9. OldGenerationSettled' /\ Unconnected' /\ ReviewKeepsQuarantine'
  BY <1>2 DEF IInv, OldGenerationSettled, Unconnected, ReviewKeepsQuarantine
<1>10. AttemptsIssued' /\ ClaimMode'
  BY <1>1, <1>2, <1>4 DEF IInv, AttemptsIssued, ClaimMode, i
<1>11. SoleCreator'
  BY <1>1, <1>2, <1>4, <1>5, <1>6 DEF IInv, SoleCreator, MayCreate
<1>12. AnswersHold'
  BY <1>1, <1>2, <1>4, <1>5, <1>6 DEF IInv, AnswersHold
<1>13. QED
  BY <1>7, <1>8, <1>9, <1>10, <1>11, <1>12 DEF IInv

LEMMA FinishKeepsIInv ==
  ASSUME IInv, NEW w \in Workers, Finish(w)
  PROVE  IInv'
<1> DEFINE i == worker[w].op
           late == ~OperationCurrent(i) \/ operation[i].lease = "expired"
<1>1. /\ worker[w].at = "answered" /\ i \in Intents
      /\ operation[i] \in Operation /\ worker[w] \in Worker
      /\ operation[i].dispatched
      /\ operation[i].state \in {"dispatched", "uncertain"}
      /\ worker[w].result # "uncertain" => records[i] = 1
  BY DEF IInv, TypeOK, AttemptsIssued, AnswersHold, Finish, FinishFence
<1>2. /\ NextState(w) \in {"uncertain", "review_required", "verified"}
      /\ NextState(w) = "review_required" =>
           Outcome(w) = "mismatch" /\ account.generation = operation[i].generation
      /\ NextState(w) = "verified" => worker[w].receiptOk
      /\ NextState(w) # "uncertain" => worker[w].result # "uncertain"
  BY <1>1 DEF NextState, Outcome, Worker, Results, OperationCurrent
<1>3. /\ account' \in [generation: Nat, status: ConnectionStatuses]
      /\ account'.generation = account.generation
      /\ account'.status \in {account.status, "quarantined"}
      /\ NextState(w) = "review_required" => account'.status = "quarantined"
  BY <1>2 DEF IInv, TypeOK, Finish, ConnectionStatuses
<1>4. /\ operation'[i].state = NextState(w) /\ operation'[i].attempt = 0
      /\ operation'[i].dispatched = operation[i].dispatched
      /\ operation'[i].generation = operation[i].generation
      /\ operation'[i].receipt = IF NextState(w) = "verified" THEN "own" ELSE operation[i].receipt
      /\ operation'[i] \in Operation
      /\ operation' \in [Intents -> Operation]
      /\ \A j \in Intents : j # i => operation'[j] = operation[j]
  <2> DEFINE mark == IF NextState(w) # "verified" THEN operation[i].receipt
                     ELSE IF worker[w].receiptOk THEN "own" ELSE "foreign"
             changedRow == [operation[i] EXCEPT !.state = NextState(w), !.attempt = 0,
                                                !.lease = "null", !.receipt = mark]
  <2>1. operation' = [operation EXCEPT ![i] = changedRow]
    BY DEF Finish
  <2>2. mark = (IF NextState(w) = "verified" THEN "own" ELSE operation[i].receipt)
    BY <1>2
  <2>3. mark \in {"null", "own", "foreign"} /\ NextState(w) \in OperationStates
    BY <1>1, <1>2 DEF Operation, OperationStates
  <2> HIDE DEF mark
  <2>4. /\ changedRow \in Operation /\ changedRow.state = NextState(w) /\ changedRow.attempt = 0
        /\ changedRow.dispatched = operation[i].dispatched /\ changedRow.generation = operation[i].generation
        /\ changedRow.receipt = mark
    BY <1>1, <2>3 DEF Operation, Leases
  <2> HIDE DEF changedRow
  <2>5. QED
    BY <1>1, <2>1, <2>2, <2>4 DEF IInv, TypeOK
<1>5. /\ worker' \in [Workers -> Worker] /\ worker'[w].at = "idle"
      /\ \A v \in Workers : v # w => worker'[v] = worker[v]
      /\ UNCHANGED <<role, registered, issued, records>>
  <2>1. Idle \in Worker /\ Idle.at = "idle"
    BY DEF Idle, Worker, Results
  <2>2. QED
    BY <2>1 DEF IInv, TypeOK, Finish
<1> HIDE DEF i, late
<1>6. TypeOK' /\ AtMostOneDraft'
  BY <1>3, <1>4, <1>5 DEF IInv, TypeOK, AtMostOneDraft
<1>7. VerifiedIsReal'
  BY <1>1, <1>2, <1>4, <1>5 DEF IInv, VerifiedIsReal
<1>8. DispatchedStates'
  BY <1>1, <1>2, <1>4, <1>5 DEF IInv, DispatchedStates
<1>9. OldGenerationSettled' /\ Unconnected'
  BY <1>1, <1>2, <1>3, <1>4 DEF IInv, OldGenerationSettled, Unconnected
<1>10. ReviewKeepsQuarantine'
  BY <1>1, <1>2, <1>3, <1>4 DEF IInv, ReviewKeepsQuarantine
<1>11. AttemptsIssued'
  BY <1>5 DEF IInv, AttemptsIssued
<1>12. \A v \in Workers : worker[v].at # "idle" => worker[v].op \in Intents
  BY DEF IInv, AttemptsIssued
<1>13. ClaimMode'
  BY <1>2, <1>4, <1>5, <1>12 DEF IInv, ClaimMode
<1>14. SoleCreator' /\ AnswersHold'
  BY <1>4, <1>5, <1>12 DEF IInv, SoleCreator, MayCreate, AnswersHold
<1>15. QED
  BY <1>6, <1>7, <1>8, <1>9, <1>10, <1>11, <1>13, <1>14 DEF IInv

LEMMA StutterKeepsIInv == ASSUME IInv, UNCHANGED vars PROVE IInv'
BY DEF vars, IInv, TypeOK, AtMostOneDraft, VerifiedIsReal, OldGenerationSettled,
   ReviewKeepsQuarantine, DispatchedStates, Unconnected, AttemptsIssued, ClaimMode,
   SoleCreator, MayCreate, AnswersHold

\* Every step of the boundary preserves the inductive invariant.
LEMMA NextIInv == IInv /\ [Next]_vars => IInv'
<1> SUFFICES ASSUME IInv, [Next]_vars PROVE IInv'
  OBVIOUS
<1>1. CASE \E u \in Actors :
             \/ \E r \in Roles : ChangeMembership(u, r)
             \/ ConnectAccount(u)
             \/ \E g \in 1..MaxConnectionGeneration, a \in {"reauthorise", "disconnect"} :
                  ChangeConnection(u, g, a)
             \/ \E i \in Intents : RegisterIntent(u, i)
             \/ \E i \in Intents, g \in 1..MaxConnectionGeneration : Enqueue(u, i, g)
  BY <1>1, MembershipKeepsIInv, ConnectKeepsIInv, ChangeConnectionKeepsIInv, RegisterKeepsIInv,
     EnqueueKeepsIInv
<1>2. CASE \E i \in Intents : OperationLeaseExpires(i)
  BY <1>2, LeaseExpiresKeepsIInv
<1>3. CASE \E w \in Workers :
             \/ \E i \in Intents : ClaimOperation(w, i)
             \/ DispatchOperation(w) \/ Abandon(w)
             \/ Create(w) \/ CreateRejected(w) \/ Find(w)
             \/ Finish(w)
  BY <1>3, ClaimKeepsIInv, DispatchKeepsIInv, AbandonKeepsIInv, CreateKeepsIInv,
     CreateRejectedKeepsIInv, FindKeepsIInv, FinishKeepsIInv
<1>4. CASE UNCHANGED vars
  BY <1>4, StutterKeepsIInv
<1>5. QED
  BY <1>1, <1>2, <1>3, <1>4 DEF Next

\* The inductive invariant holds in every reachable state.
LEMMA Inductive == Spec => []IInv
BY InitIInv, NextIInv, PTL DEF Spec

\* Every variable keeps its type.
THEOREM TypeCorrect == Spec => []TypeOK
<1>1. IInv => TypeOK
  BY DEF IInv
<1>2. QED
  BY <1>1, Inductive, PTL

\* However many workers race, crash and retry, the provider holds at most one
\* draft for an operation.
THEOREM OneDraft == Spec => []AtMostOneDraft
<1>1. IInv => AtMostOneDraft
  BY DEF IInv
<1>2. QED
  BY <1>1, Inductive, PTL

\* A verified operation has exactly one draft and its own receipt.
THEOREM VerifiedReal == Spec => []VerifiedIsReal
<1>1. IInv => VerifiedIsReal
  BY DEF IInv
<1>2. QED
  BY <1>1, Inductive, PTL

\* An operation cancelled by a disconnect was never posted and never will be.
THEOREM CancelledUnposted == Spec => []CancelledNeverPosted
<1>1. IInv => CancelledNeverPosted
  <2> SUFFICES ASSUME IInv, NEW i \in Intents, operation[i].state = "cancelled"
               PROVE  /\ records[i] = 0
                      /\ \A w \in Workers : worker[w].op = i =>
                           worker[w].at \notin {"dispatched", "answered"}
    BY DEF CancelledNeverPosted
  <2>1. ~operation[i].dispatched
    BY DEF IInv, DispatchedStates
  <2>2. records[i] = 0
    BY <2>1 DEF IInv, DispatchedStates, TypeOK
  <2>3. QED
    BY <2>1, <2>2 DEF IInv, AnswersHold
<1>2. QED
  BY <1>1, Inductive, PTL

\* Nothing of an old generation waits to be run.
THEOREM OldGeneration == Spec => []OldGenerationSettled
<1>1. IInv => OldGenerationSettled
  BY DEF IInv
<1>2. QED
  BY <1>1, Inductive, PTL

\* A mismatch under review keeps the connection quarantined for good.
THEOREM Quarantine == Spec => []ReviewKeepsQuarantine
<1>1. IInv => ReviewKeepsQuarantine
  BY DEF IInv
<1>2. QED
  BY <1>1, Inductive, PTL

-----------------------------------------------------------------------------
(* The boundary implements OnceOnlyPosting. *)

\* The abstract phase of every intent.
View == [i \in Intents |-> Phase(operation[i])]

\* Steps that leave phase and records alone are invisible.
LEMMA Invisible ==
  ASSUME IInv,
         \A j \in Intents : operation'[j].state = operation[j].state
                           /\ operation'[j].dispatched = operation[j].dispatched,
         UNCHANGED records
  PROVE  UNCHANGED Promise!vars
<1>1. View' = View
  BY DEF View, Phase
<1>2. QED
  BY <1>1 DEF Promise!vars, View

\* A row i that moves from phase p to phase q, alone, moves the view from p to q.
LEMMA OneMoves ==
  ASSUME NEW i \in Intents, NEW p, NEW q,
         Phase(operation[i]) = p, Phase(operation[i])' = q,
         \A j \in Intents : j # i => operation'[j] = operation[j]
  PROVE  Promise!Move(i, p, q)
<1>1. View' = [View EXCEPT ![i] = q]
  BY DEF View, Phase
<1>2. View[i] = p
  BY DEF View
<1>3. QED
  BY <1>1, <1>2 DEF Promise!Move, View

\* A disconnect or a reauthorisation withdraws what was never dispatched.
LEMMA ChangeConnectionImplements ==
  ASSUME IInv, NEW u \in Actors, NEW g \in 1..MaxConnectionGeneration,
         NEW a \in {"reauthorise", "disconnect"}, ChangeConnection(u, g, a)
  PROVE  Promise!Withdraw
<1>1. operation' = [i \in Intents |-> Withdrawn(operation[i])] /\ UNCHANGED records
  BY DEF ChangeConnection
<1>2. ASSUME NEW i \in Intents
      PROVE  Phase(Withdrawn(operation[i])) =
               IF Phase(operation[i]) = "queued" THEN "cancelled" ELSE Phase(operation[i])
  <2>1. /\ operation[i] \in Operation
        /\ operation[i].state \in (IF operation[i].dispatched
             THEN {"claimed", "dispatched", "uncertain", "verified", "review_required"}
             ELSE {"none", "pending", "claimed", "cancelled"})
    BY DEF IInv, TypeOK, DispatchedStates
  <2>2. /\ Withdrawn(operation[i]).dispatched = operation[i].dispatched
        /\ Withdrawn(operation[i]).state =
             IF operation[i].state \in Live
             THEN IF operation[i].dispatched THEN "uncertain" ELSE "cancelled"
             ELSE operation[i].state
    BY <2>1 DEF Withdrawn, Operation
  <2>3. QED
    BY <2>1, <2>2 DEF Phase, Live
<1>3. View' = [i \in Intents |-> IF View[i] = "queued" THEN "cancelled" ELSE View[i]]
  BY <1>1, <1>2 DEF View, Phase
<1>4. QED
  BY <1>1, <1>3 DEF Promise!Withdraw, View

\* Enqueueing queues the intent.
LEMMA EnqueueImplements ==
  ASSUME IInv, NEW u \in Actors, NEW i \in Intents, NEW g \in 1..MaxConnectionGeneration, Enqueue(u, i, g)
  PROVE  Promise!Queue(i)
<1> DEFINE new == [NoOperation EXCEPT !.state = "pending", !.generation = g, !.by = u]
<1>1. new.state = "pending" /\ new.dispatched = FALSE
  BY DEF NoOperation
<1>2. operation' = [operation EXCEPT ![i] = new] /\ operation[i].state = "none"
  BY DEF Enqueue
<1> HIDE DEF new
<1>3. operation'[i] = new /\ \A j \in Intents : j # i => operation'[j] = operation[j]
  BY <1>2 DEF IInv, TypeOK
<1>4. Phase(operation[i]) = "none" /\ Phase(operation[i])' = "queued"
  BY <1>1, <1>2, <1>3 DEF Phase
<1>5. UNCHANGED records
  BY DEF Enqueue
<1>6. QED
  BY <1>3, <1>4, <1>5, OneMoves DEF Promise!Queue

\* A claim changes neither dispatched_at nor the phase.
LEMMA ClaimImplements ==
  ASSUME IInv, NEW w \in Workers, NEW i \in Intents, ClaimOperation(w, i)
  PROVE  UNCHANGED Promise!vars
<1>1. /\ operation[i] \in Operation
      /\ operation[i].state \in {"pending", "claimed", "dispatched", "uncertain"}
  BY DEF IInv, TypeOK, ClaimOperation, Live
<1>2. /\ operation'[i].state = "claimed" /\ operation'[i].dispatched = operation[i].dispatched
      /\ \A j \in Intents : j # i => operation'[j] = operation[j]
      /\ UNCHANGED records
  BY <1>1 DEF IInv, TypeOK, ClaimOperation, Operation
<1>3. Phase(operation[i])' = Phase(operation[i])
  BY <1>1, <1>2 DEF Phase
<1>4. View' = View
  BY <1>2, <1>3 DEF View, Phase
<1>5. QED
  BY <1>2, <1>4 DEF Promise!vars, View

\* The first dispatch is the abstract Send; a reconciling one is invisible.
LEMMA DispatchImplements ==
  ASSUME IInv, NEW w \in Workers, NEW i \in Intents, worker[w].op = i, DispatchOperation(w)
  PROVE  Promise!Send(i) \/ UNCHANGED Promise!vars
<1>1. i \in Intents /\ operation[i].state = "claimed"
  BY DEF DispatchFence, DispatchOperation
<1>2. /\ operation'[i].state = "dispatched" /\ operation'[i].dispatched
      /\ \A j \in Intents : j # i => operation'[j] = operation[j]
      /\ UNCHANGED records
  BY <1>1 DEF IInv, TypeOK, Operation, DispatchOperation
<1>3. Phase(operation[i])' = "sent"
  BY <1>2 DEF Phase
<1>4. CASE operation[i].dispatched
  <2>1. Phase(operation[i]) = "sent"
    BY <1>1, <1>4 DEF Phase
  <2>2. View' = View
    BY <1>1, <1>2, <1>3, <2>1 DEF View, Phase
  <2>3. QED
    BY <1>2, <2>2 DEF Promise!vars, View
<1>5. CASE ~operation[i].dispatched
  <2>1. Phase(operation[i]) = "queued"
    BY <1>1, <1>5 DEF Phase
  <2>2. QED
    BY <1>1, <1>2, <1>3, <2>1, OneMoves DEF Promise!Send
<1>6. QED
  BY <1>4, <1>5

\* The sole creator posts the first draft of a sent intent.
LEMMA CreateImplements ==
  ASSUME IInv, NEW w \in Workers, Create(w)
  PROVE  Promise!Post(worker[w].op)
<1> DEFINE i == worker[w].op
<1>1. /\ i \in Intents /\ operation[i].dispatched /\ records[i] = 0
      /\ records' = [records EXCEPT ![i] = records[i] + 1] /\ operation' = operation
  BY DEF IInv, SoleCreator, MayCreate, AttemptsIssued, Create
<1>2. operation[i].state \in {"claimed", "dispatched", "uncertain"}
  BY <1>1 DEF IInv, DispatchedStates
<1>3. View[i] = "sent" /\ View' = View
  BY <1>1, <1>2 DEF View, Phase
<1>4. records' = [records EXCEPT ![i] = 1]
  BY <1>1
<1>5. QED
  BY <1>1, <1>3, <1>4 DEF Promise!Post, View

\* A finish confirms, sends to review, or leaves the intent sent.
LEMMA FinishImplements ==
  ASSUME IInv, NEW w \in Workers, NEW i \in Intents, worker[w].op = i, Finish(w)
  PROVE  \/ Promise!Confirm(i)
         \/ Promise!Review(i)
         \/ UNCHANGED Promise!vars
<1>1. /\ i \in Intents /\ operation[i].dispatched
      /\ operation[i].state \in {"dispatched", "uncertain"}
      /\ worker[w].result # "uncertain" => records[i] = 1
      /\ worker[w] \in Worker
  BY DEF IInv, TypeOK, AttemptsIssued, AnswersHold, Finish, FinishFence
<1>2. /\ NextState(w) \in {"uncertain", "review_required", "verified"}
      /\ NextState(w) # "uncertain" => worker[w].result # "uncertain"
  BY <1>1 DEF NextState, Outcome, Worker, Results
<1>3. /\ operation'[i].state = NextState(w)
      /\ operation'[i].dispatched = operation[i].dispatched
      /\ \A j \in Intents : j # i => operation'[j] = operation[j]
      /\ UNCHANGED records
  BY <1>1 DEF IInv, TypeOK, Operation, Finish
<1>4. Phase(operation[i]) = "sent"
  BY <1>1 DEF Phase
<1>5. CASE NextState(w) = "verified"
  <2>1. Phase(operation[i])' = "confirmed"
    BY <1>3, <1>5 DEF Phase
  <2>2. QED
    BY <1>1, <1>2, <1>3, <1>4, <1>5, <2>1, OneMoves DEF Promise!Confirm
<1>6. CASE NextState(w) = "review_required"
  <2>1. Phase(operation[i])' = "review"
    BY <1>3, <1>6 DEF Phase
  <2>2. QED
    BY <1>1, <1>2, <1>3, <1>4, <1>6, <2>1, OneMoves DEF Promise!Review
<1>7. CASE NextState(w) = "uncertain"
  <2>1. Phase(operation[i])' = "sent"
    BY <1>1, <1>3, <1>7 DEF Phase
  <2>2. View' = View
    BY <1>1, <1>3, <1>4, <2>1 DEF View, Phase
  <2>3. QED
    BY <1>3, <2>2 DEF Promise!vars, View
<1>8. QED
  BY <1>2, <1>5, <1>6, <1>7

\* Every other step leaves operations and drafts as they were, up to leases.
LEMMA QuietSteps ==
  ASSUME IInv,
         \/ \E u \in Actors, r \in Roles : ChangeMembership(u, r)
         \/ \E u \in Actors : ConnectAccount(u)
         \/ \E u \in Actors, i \in Intents : RegisterIntent(u, i)
         \/ \E i \in Intents : OperationLeaseExpires(i)
         \/ \E w \in Workers : Abandon(w) \/ CreateRejected(w) \/ Find(w)
         \/ UNCHANGED vars
  PROVE  UNCHANGED Promise!vars
<1>1. CASE \E i \in Intents : OperationLeaseExpires(i)
  <2>1. PICK i \in Intents : OperationLeaseExpires(i)
    BY <1>1
  <2>2. /\ UNCHANGED records
        /\ \A j \in Intents : operation'[j].state = operation[j].state
                              /\ operation'[j].dispatched = operation[j].dispatched
    BY <2>1 DEF OperationLeaseExpires, IInv, TypeOK, Operation
  <2>3. QED
    BY <2>2, Invisible
<1>2. CASE UNCHANGED <<operation, records>>
  BY <1>2, Invisible
<1>3. QED
  BY <1>1, <1>2 DEF ChangeMembership, ConnectAccount, RegisterIntent, Abandon, CreateRejected, Find, vars

\* The initial states map to the abstract initial state.
LEMMA InitImplements == Init => Promise!Init
<1> SUFFICES ASSUME Init PROVE Promise!Init
  OBVIOUS
<1>1. \A i \in Intents : Phase(operation[i]) = "none"
  BY DEF Init, NoOperation, Phase
<1>2. QED
  BY <1>1 DEF Init, Promise!Init

\* Every step is an abstract step or invisible.
LEMMA NextImplements == IInv /\ [Next]_vars => [Promise!Next]_(Promise!vars)
<1> SUFFICES ASSUME IInv, [Next]_vars PROVE Promise!Next \/ UNCHANGED Promise!vars
  OBVIOUS
<1> USE DEF Promise!Next
<1>1. CASE \E u \in Actors, g \in 1..MaxConnectionGeneration, a \in {"reauthorise", "disconnect"} :
             ChangeConnection(u, g, a)
  BY <1>1, ChangeConnectionImplements
<1>2. CASE \E u \in Actors, i \in Intents, g \in 1..MaxConnectionGeneration : Enqueue(u, i, g)
  BY <1>2, EnqueueImplements
<1>3. CASE \E w \in Workers, i \in Intents : ClaimOperation(w, i)
  BY <1>3, ClaimImplements
<1>4. \A w \in Workers : worker[w].at # "idle" => worker[w].op \in Intents
  BY DEF IInv, AttemptsIssued
<1>5. CASE \E w \in Workers : DispatchOperation(w)
  <2>1. PICK w \in Workers : DispatchOperation(w)
    BY <1>5
  <2>2. worker[w].op \in Intents
    BY <1>4, <2>1 DEF DispatchOperation
  <2>3. QED
    BY <2>1, <2>2, DispatchImplements
<1>6. CASE \E w \in Workers : Create(w)
  <2>1. PICK w \in Workers : Create(w)
    BY <1>6
  <2>2. worker[w].op \in Intents
    BY <1>4, <2>1 DEF Create
  <2>3. QED
    BY <2>1, <2>2, CreateImplements
<1>7. CASE \E w \in Workers : Finish(w)
  <2>1. PICK w \in Workers : Finish(w)
    BY <1>7
  <2>2. worker[w].op \in Intents
    BY <1>4, <2>1 DEF Finish, FinishFence
  <2>3. QED
    BY <2>1, <2>2, FinishImplements
<1>8. QED
  BY <1>1, <1>2, <1>3, <1>5, <1>6, <1>7, QuietSteps DEF Next

\* The accounting boundary implements once-only posting.
THEOREM Implements == Spec => KeepsPromise
BY InitImplements, NextImplements, Inductive, PTL DEF Spec, KeepsPromise, Promise!Spec

-----------------------------------------------------------------------------
(* The attended consent *)

AuditWords ==
  {"consent_started", "exchange_dispatched", "grant_stored", "verification_started", "verified",
   "locally_disabled", "verification_failed_disabled", "exchange_failed_cleanup_review",
   "late_grant_cleanup_required", "successor_prepared", "successor_client_removed_locally",
   "custodian_attested_provider_revocation", "rejected_consent_client_removed_locally"}

AuditEvents == [event : AuditWords, generation : Nat]

Connections ==
  [of : {"none", "original", "successor"}, generation : Nat, status : Statuses, events : Seq(AuditEvents),
   credentials : Nat, cleanup : {"none", "unknown", "token"}, evidence : BOOLEAN, provenance : BOOLEAN,
   attempted : BOOLEAN, recovered : BOOLEAN, cleaned : BOOLEAN]

Exchanges ==
  [at : {"none", "admitted", "sent", "answered", "rechecked"}, session : Sessions \cup {NoSession},
   generation : Nat, answer : {"none", "grant", "failed"}, allowed : BOOLEAN]

Probes == [at : {"none", "reading", "passed"}, session : Sessions \cup {NoSession}, generation : Nat]

ServiceStates == [up : BOOLEAN, manifest : Manifests, execution : BOOLEAN, poisoned : BOOLEAN]

ConsentTypes ==
  /\ connection \in Connections
  /\ client \in Manifests \cup {"none"}
  /\ service \in ServiceStates
  /\ pending \in [session : Sessions \cup {NoSession}, generation : Nat]
  /\ exchange \in Exchanges
  /\ probe \in Probes
  /\ consent \in [Manifests -> {"none", "consented", "rejected", "presented", "granted", "revoked"}]

\* While a consent is asked for or held, the client secret is its own.
Asking(c) == c.status \in {"authorising", "exchanging", "authenticated"} => c.of # "none" /\ client = c.of

\* A connection that is there has a generation; only a grant in force has
\* credentials, and only it has evidence.
Sound(c) ==
  /\ c.of = "none" <=> c.status = "none"
  /\ c.of # "none" => c.generation >= 1
  /\ c.status # "authenticated" => c.credentials = 0 /\ ~c.evidence

\* A code that left the process belongs to a connection that is exchanging,
\* or was disabled meanwhile.
Left(x) == x.at \in {"sent", "answered", "rechecked"}
SentForThis ==
  /\ Left(exchange) => connection.status \in {"exchanging", "disabled"}
  /\ probe.at # "none" => connection.of # "none"

NothingWithoutService == ~service.up => ~service.execution /\ exchange.at = "none" /\ probe.at = "none"

Held(c) == c.credentials # 0 \/ c.cleanup # "none"

Remembered ==
  \A m \in Manifests :
    consent[m] \in {"presented", "granted"} => connection.of = m /\ client = m /\ Held(connection)

ConsentInv ==
  /\ ConsentTypes
  /\ Asking(connection) /\ Sound(connection)
  /\ SentForThis /\ NothingWithoutService
  /\ Remembered

LEMMA NothingTyped ==
  /\ NoConnection \in Connections
  /\ NoConnection.of = "none" /\ NoConnection.generation = 0 /\ NoConnection.status = "none"
  /\ NoConnection.events = <<>> /\ NoConnection.credentials = 0 /\ NoConnection.cleanup = "none"
  /\ ~NoConnection.evidence /\ ~NoConnection.provenance /\ ~NoConnection.attempted
  /\ ~NoConnection.recovered /\ ~NoConnection.cleaned
<1>1. <<>> \in Seq(AuditEvents)
  OBVIOUS
<1> QED
  BY <1>1 DEF NoConnection, Connections, Statuses

\* audit() adds one event and leaves the rest of the connection as it is.
SameButEvents(c, d) ==
  /\ c.of = d.of /\ c.generation = d.generation /\ c.status = d.status
  /\ c.credentials = d.credentials /\ c.cleanup = d.cleanup /\ c.evidence = d.evidence
  /\ c.provenance = d.provenance /\ c.attempted = d.attempted
  /\ c.recovered = d.recovered /\ c.cleaned = d.cleaned

LEMMA AuditedTyped ==
  ASSUME NEW d \in Connections, NEW e \in AuditWords
  PROVE  /\ Audited(d, e) \in Connections
         /\ SameButEvents(Audited(d, e), d)
         /\ Audited(d, e).events = Append(d.events, Event(e, d.generation))
<1>1. Event(e, d.generation) \in AuditEvents
  BY DEF Event, AuditEvents, Connections
<1>2. d.events \in Seq(AuditEvents)
  BY DEF Connections
<1>3. Append(d.events, Event(e, d.generation)) \in Seq(AuditEvents)
  BY <1>1, <1>2
<1> DEFINE es == Append(d.events, Event(e, d.generation))
<1> HIDE DEF es
<1>4. es \in Seq(AuditEvents)
  BY <1>3 DEF es
<1>5. Audited(d, e) = [d EXCEPT !.events = es]
  BY DEF Audited, es
<1>6. [d EXCEPT !.events = es] \in Connections
  BY <1>4 DEF Connections
<1>7. SameButEvents([d EXCEPT !.events = es], d) /\ [d EXCEPT !.events = es].events = es
  BY DEF SameButEvents, Connections
<1> QED
  BY <1>5, <1>6, <1>7 DEF es

LEMMA ConsentInitInv == ConsentInit => ConsentInv
<1> SUFFICES ASSUME ConsentInit PROVE ConsentInv
  OBVIOUS
<1>1. NoPending \in [session : Sessions \cup {NoSession}, generation : Nat]
      /\ NoExchange \in Exchanges /\ NoExchange.at = "none"
      /\ NoProbe \in Probes /\ NoProbe.at = "none" /\ NoService \in ServiceStates /\ ~NoService.execution
  BY DEF NoPending, NoExchange, Exchanges, NoProbe, Probes, NoService, ServiceStates, Manifests
<1>2. consent \in [Manifests -> {"none", "consented", "rejected", "presented", "granted", "revoked"}]
      /\ \A m \in Manifests : consent[m] = "none"
  BY DEF ConsentInit
<1>3. ConsentTypes
  BY <1>1, <1>2, NothingTyped DEF ConsentInit, ConsentTypes
<1>4. Asking(connection) /\ Sound(connection) /\ SentForThis /\ NothingWithoutService
  BY <1>1, NothingTyped DEF ConsentInit, Asking, Sound, SentForThis, NothingWithoutService, Left
<1>5. Remembered
  BY <1>2 DEF Remembered
<1> QED
  BY <1>3, <1>4, <1>5 DEF ConsentInv

\* What a disabled connection may become.
StaysDisabled ==
  connection.status = "disabled" =>
    \/ connection'.status = "disabled" /\ connection'.credentials = 0 /\ ~connection'.evidence
         /\ connection'.of = connection.of
    \/ RecoveredRecord(connection) /\ PendingSuccessor(connection)'

\* The conjuncts a step of the connection has to keep.
ConsentKept == Asking(connection)' /\ Sound(connection)' /\ SentForThis' /\ Remembered' /\ StaysDisabled

LEMMA ConsentNextInv == ConsentInv /\ [ConsentNext]_consentVars => ConsentInv' /\ StaysDisabled
<1> SUFFICES ASSUME ConsentInv, [ConsentNext]_consentVars PROVE ConsentInv' /\ StaysDisabled
  OBVIOUS
<1>0. ConsentTypes /\ Asking(connection) /\ Sound(connection) /\ SentForThis /\ NothingWithoutService /\ Remembered
  BY DEF ConsentInv
<1>t. /\ connection \in Connections /\ client \in Manifests \cup {"none"} /\ service \in ServiceStates
      /\ exchange \in Exchanges /\ probe \in Probes
      /\ pending \in [session : Sessions \cup {NoSession}, generation : Nat]
      /\ consent \in [Manifests -> {"none", "consented", "rejected", "presented", "granted", "revoked"}]
  BY <1>0 DEF ConsentTypes
<1>c. /\ connection.of \in {"none", "original", "successor"} /\ connection.generation \in Nat
      /\ connection.generation + 1 \in Nat /\ connection.status \in Statuses /\ connection.credentials \in Nat
      /\ connection.cleanup \in {"none", "unknown", "token"}
      /\ connection.evidence \in BOOLEAN /\ connection.provenance \in BOOLEAN
  BY <1>t DEF Connections
<1>m. service.manifest \in Manifests
  BY <1>t DEF ServiceStates
\* Steps that change neither what is stored nor the provider's consent.
<1>1. ASSUME UNCHANGED <<stored, consent>>, ConsentTypes', NothingWithoutService',
             SentForThis'
      PROVE  ConsentInv' /\ StaysDisabled
  <2>1. UNCHANGED <<connection, client, archive, consent>>
    BY <1>1 DEF stored
  <2>2. Asking(connection)' /\ Sound(connection)' /\ Remembered'
    BY <1>0, <2>1 DEF Asking, Sound, Remembered, Held
  <2>4. StaysDisabled
    BY <1>0, <2>1 DEF StaysDisabled, Sound
  <2> QED
    BY <1>1, <2>2, <2>4 DEF ConsentInv
<1>2. ASSUME NEW m \in Manifests, ImportClient(m) PROVE ConsentInv' /\ StaysDisabled
  <2>1. client = "none" /\ client' = m /\ UNCHANGED <<connection, archive, service, exchange, probe, pending, consent>>
    BY <1>2 DEF ImportClient, memory
  <2>2. ConsentTypes' /\ Sound(connection)' /\ SentForThis' /\ NothingWithoutService'
    BY <1>0, <2>1 DEF ConsentTypes, Sound, SentForThis, Left, NothingWithoutService
  <2>3. Asking(connection)'
    BY <1>0, <2>1 DEF Asking
  <2>4. Remembered'
    BY <1>0, <2>1 DEF Remembered, Manifests
  <2>5. StaysDisabled
    BY <1>0, <2>1 DEF StaysDisabled, Sound
  <2> QED
    BY <2>2, <2>3, <2>4, <2>5 DEF ConsentInv
<1>3. CASE CleanupImportedClient
  <2>1. connection.of = "none" /\ client' = "none" /\ UNCHANGED <<connection, archive, service, exchange, probe, pending, consent>>
    BY <1>3 DEF CleanupImportedClient, memory
  <2>2. ConsentTypes' /\ Sound(connection)' /\ SentForThis' /\ NothingWithoutService'
    BY <1>0, <2>1 DEF ConsentTypes, Sound, SentForThis, Left, NothingWithoutService
  <2>3. Asking(connection)'
    BY <1>0, <2>1 DEF Asking, Sound
  <2>4. Remembered'
    BY <1>0, <2>1 DEF Remembered, Manifests
  <2>5. StaysDisabled
    BY <1>0, <2>1 DEF StaysDisabled, Sound
  <2> QED
    BY <2>2, <2>3, <2>4, <2>5 DEF ConsentInv
\* The names of the events.
<1>w. {"custodian_attested_provider_revocation", "rejected_consent_client_removed_locally", "successor_prepared",
       "successor_client_removed_locally", "consent_started", "exchange_dispatched", "grant_stored",
       "verification_started", "verified", "locally_disabled", "verification_failed_disabled",
       "exchange_failed_cleanup_review", "late_grant_cleanup_required"} \subseteq AuditWords
  BY DEF AuditWords
<1>5. CASE AttestCleanup
  <2> DEFINE d == [connection EXCEPT !.cleanup = "none"]
  <2>1. d \in Connections /\ d.of = connection.of /\ d.status = connection.status
        /\ d.generation = connection.generation /\ d.credentials = connection.credentials
        /\ d.evidence = connection.evidence
    BY <1>t DEF Connections
  <2>2. connection' = Audited(d, "custodian_attested_provider_revocation") /\ client' = "none"
        /\ connection.of = "original" /\ connection.status = "disabled" /\ consent["original"] = "revoked"
        /\ UNCHANGED <<service, consent, exchange, probe, pending>>
    BY <1>5 DEF AttestCleanup, memory, RevocationTrue
  <2> HIDE DEF d
  <2>3. ConsentTypes' /\ SameButEvents(connection', d) /\ NothingWithoutService'
    BY <1>0, <1>t, <1>w, <2>1, <2>2, AuditedTyped DEF ConsentTypes, NothingWithoutService
  <2>4. ConsentKept
    BY <1>0, <2>1, <2>2, <2>3 DEF ConsentKept, Asking, Sound, SentForThis, Left, Remembered, StaysDisabled, SameButEvents
  <2> QED
    BY <2>3, <2>4 DEF ConsentInv, ConsentKept
<1>6. CASE CleanupRejectedConsent
  <2> DEFINE d == [connection EXCEPT !.generation = @ + 1, !.recovered = TRUE]
  <2>1. d \in Connections /\ d.of = connection.of /\ d.status = connection.status
        /\ d.generation = connection.generation + 1 /\ d.credentials = connection.credentials
        /\ d.evidence = connection.evidence
    BY <1>t, <1>c DEF Connections
  <2>2. connection' = Audited(d, "rejected_consent_client_removed_locally") /\ client' = "none"
        /\ consent["original"] \in {"none", "rejected"} /\ RejectedConsent(connection)
        /\ UNCHANGED <<service, consent, exchange, probe, pending>>
    BY <1>6 DEF CleanupRejectedConsent, memory, NoGrantTrue
  <2>a. connection.of = "original" /\ connection.status = "disabled"
    BY <2>2 DEF RejectedConsent, NoConnection
  <2> HIDE DEF d
  <2>3. ConsentTypes' /\ SameButEvents(connection', d) /\ NothingWithoutService'
    BY <1>0, <1>t, <1>w, <2>1, <2>2, AuditedTyped DEF ConsentTypes, NothingWithoutService
  <2>4. ConsentKept
    BY <1>0, <1>c, <2>1, <2>2, <2>3, <2>a DEF ConsentKept, Asking, Sound, SentForThis, Left, Remembered, StaysDisabled, SameButEvents
  <2> QED
    BY <2>3, <2>4 DEF ConsentInv, ConsentKept
<1>7. CASE PrepareSuccessor
  <2> DEFINE d == [NoConnection EXCEPT !.of = "successor", !.generation = 4, !.status = "successor_pending"]
  <2>1. d \in Connections /\ d.of = "successor" /\ d.status = "successor_pending" /\ d.generation = 4
        /\ d.credentials = 0 /\ ~d.evidence /\ d.events = <<>>
    BY NothingTyped DEF Connections, NoConnection, Statuses
  <2>2. connection' = Audited(d, "successor_prepared") /\ RecoveredRecord(connection) /\ client = "none" /\ ~service.up
        /\ archive' = connection /\ UNCHANGED <<client, service, consent, exchange, probe, pending>>
    BY <1>7 DEF PrepareSuccessor, memory
  <2>a. connection.cleanup = "none" /\ connection.credentials = 0 /\ connection.status = "disabled"
    BY <2>2 DEF RecoveredRecord, NoConnection
  <2>b. Append(<<>>, Event("successor_prepared", 4)) = <<Event("successor_prepared", 4)>>
    OBVIOUS
  <2>c. Audited(d, "successor_prepared") =
          [NoConnection EXCEPT !.of = "successor", !.generation = 4, !.status = "successor_pending",
                               !.events = <<Event("successor_prepared", 4)>>]
    BY <2>b DEF Audited, NoConnection
  <2> HIDE DEF d
  <2>3. ConsentTypes' /\ SameButEvents(connection', d) /\ NothingWithoutService'
    BY <1>0, <1>t, <1>w, <2>1, <2>2, AuditedTyped DEF ConsentTypes, NothingWithoutService
  <2>4. PendingSuccessor(connection)'
    <3>1. SuccessorRecord(connection)'
      BY <2>1, <2>2, <2>3 DEF SuccessorRecord, SameButEvents, RecoveredRecord
    <3> QED
      BY <2>2, <2>c, <3>1 DEF PendingSuccessor
  <2>5. \A m \in Manifests : consent[m] \notin {"presented", "granted"}
    BY <1>0, <2>a DEF Remembered, Held
  <2>6. ConsentKept
    BY <1>0, <2>1, <2>2, <2>3, <2>4, <2>5, <2>a
       DEF ConsentKept, Asking, Sound, SentForThis, Left, NothingWithoutService, Remembered, StaysDisabled, SameButEvents
  <2> QED
    BY <2>3, <2>6 DEF ConsentInv, ConsentKept
<1>8. ASSUME NEW kind \in CleanupKinds, CleanupSuccessor(kind) PROVE ConsentInv' /\ StaysDisabled
  <2> DEFINE d == [connection EXCEPT !.cleanup = "none", !.generation = @ + 1, !.cleaned = TRUE]
  <2>1. d \in Connections /\ d.of = connection.of /\ d.status = connection.status
        /\ d.generation = connection.generation + 1 /\ d.credentials = connection.credentials
        /\ d.evidence = connection.evidence
    BY <1>t, <1>c DEF Connections
  <2>2. connection' = Audited(d, "successor_client_removed_locally") /\ client' = "none"
        /\ consent["successor"] \in {"none", "rejected", "revoked"}
        /\ connection.of = "successor" /\ connection.status = "disabled"
        /\ UNCHANGED <<service, consent, exchange, probe, pending>>
    BY <1>8 DEF CleanupSuccessor, CleanupAccepts, SuccessorRecord, EvidenceTrue, memory, NoGrantTrue, RevocationTrue
  <2> HIDE DEF d
  <2>3. ConsentTypes' /\ SameButEvents(connection', d) /\ NothingWithoutService'
    BY <1>0, <1>t, <1>w, <2>1, <2>2, AuditedTyped DEF ConsentTypes, NothingWithoutService
  <2>4. ConsentKept
    BY <1>0, <1>c, <2>1, <2>2, <2>3 DEF ConsentKept, Asking, Sound, SentForThis, Left, Remembered, StaysDisabled, SameButEvents
  <2> QED
    BY <2>3, <2>4 DEF ConsentInv, ConsentKept
\* The service starts, stops or fails; requests come and go.
<1>p. NoPending \in [session : Sessions \cup {NoSession}, generation : Nat]
      /\ NoExchange \in Exchanges /\ NoExchange.at = "none"
      /\ NoProbe \in Probes /\ NoProbe.at = "none" /\ NoService \in ServiceStates /\ ~NoService.up /\ ~NoService.execution
  BY DEF NoPending, NoExchange, Exchanges, NoProbe, Probes, NoService, ServiceStates, Manifests
<1>9. ASSUME NEW m \in Manifests, NEW e \in BOOLEAN, Start(m, e) PROVE ConsentInv' /\ StaysDisabled
  <2> DEFINE n == [up |-> TRUE, manifest |-> m, execution |-> e, poisoned |-> FALSE]
  <2>1. n \in ServiceStates /\ n.up
    BY DEF ServiceStates
  <2>2. service' = n /\ UNCHANGED <<stored, memory, consent>>
    BY <1>9 DEF Start
  <2> HIDE DEF n
  <2>3. ConsentTypes' /\ NothingWithoutService' /\ SentForThis'
    BY <1>0, <2>1, <2>2 DEF ConsentTypes, NothingWithoutService, SentForThis, Left, stored, memory
  <2> QED
    BY <1>1, <2>2, <2>3
<1>10. CASE Stop \/ SaveFails
  <2> DEFINE n == [service EXCEPT !.poisoned = TRUE]
  <2>1. n \in ServiceStates /\ n.up = service.up
    BY <1>t DEF ServiceStates
  <2>2. (service' = NoService \/ (service' = n /\ service.up)) /\ NoMemory /\ UNCHANGED <<stored, consent>>
    BY <1>10 DEF Stop, SaveFails
  <2> HIDE DEF n
  <2>3. ConsentTypes' /\ NothingWithoutService' /\ SentForThis'
    BY <1>0, <1>p, <2>1, <2>2 DEF ConsentTypes, NothingWithoutService, SentForThis, Left, stored, NoMemory
  <2> QED
    BY <1>1, <2>2, <2>3
<1>11. ASSUME NEW s \in Sessions, (\E op \in {"authorise", "verify", "disable"} : Admit(s, op)) \/ Refused(s)
       PROVE ConsentInv' /\ StaysDisabled
  <2>1. UNCHANGED <<stored, consent, service, pending, exchange, probe>>
    BY <1>11 DEF Admit, Refused
  <2>2. ConsentTypes' /\ NothingWithoutService' /\ SentForThis'
    BY <1>0, <2>1 DEF ConsentTypes, NothingWithoutService, SentForThis, Left, stored
  <2> QED
    BY <1>1, <2>1, <2>2
<1>12. CASE StateExpires
  <2>1. UNCHANGED <<stored, consent, service, exchange, probe>> /\ pending' = NoPending
    BY <1>12 DEF StateExpires
  <2>2. ConsentTypes' /\ NothingWithoutService' /\ SentForThis'
    BY <1>0, <1>p, <2>1 DEF ConsentTypes, NothingWithoutService, SentForThis, Left, stored
  <2> QED
    BY <1>1, <2>1, <2>2
<1>13. ASSUME NEW s \in Sessions, TakeState(s) PROVE ConsentInv' /\ StaysDisabled
  <2> DEFINE x == [NoExchange EXCEPT !.at = "admitted", !.session = s, !.generation = pending.generation]
  <2>1. x \in Exchanges /\ x.at = "admitted"
    BY <1>t, <1>p DEF Exchanges
  <2>2. UNCHANGED <<stored, consent, service, probe>> /\ pending' = NoPending /\ exchange' \in {x, NoExchange} /\ service.execution
    BY <1>13 DEF TakeState, Gate
  <2>3. service.up
    BY <1>0, <2>2 DEF NothingWithoutService
  <2> HIDE DEF x
  <2>4. ConsentTypes' /\ NothingWithoutService' /\ SentForThis'
    BY <1>0, <1>p, <2>1, <2>2, <2>3 DEF ConsentTypes, NothingWithoutService, SentForThis, Left, stored
  <2> QED
    BY <1>1, <2>2, <2>4
<1>14. ASSUME NEW s \in Sessions, Authorise(s) PROVE ConsentInv' /\ StaysDisabled
  <2> DEFINE fresh == [NoConnection EXCEPT !.of = "original", !.generation = 1, !.status = "authorising"]
             next == [connection EXCEPT !.generation = @ + 1, !.status = "authorising"]
             d == IF connection.of = "none" THEN fresh ELSE next
  <2>1. fresh \in Connections /\ fresh.of = "original" /\ fresh.generation = 1 /\ fresh.status = "authorising"
        /\ fresh.credentials = 0 /\ ~fresh.evidence
    BY NothingTyped DEF Connections, Statuses
  <2>2. next \in Connections /\ next.of = connection.of /\ next.generation = connection.generation + 1
        /\ next.status = "authorising" /\ next.credentials = connection.credentials
        /\ next.evidence = connection.evidence /\ next.cleanup = connection.cleanup
    BY <1>t, <1>c DEF Connections, Statuses
  <2> HIDE DEF fresh, next
  <2>3. d \in Connections
    BY <2>1, <2>2
  <2>4. connection' = Audited(d, "consent_started") /\ client = service.manifest /\ Loads
        /\ (connection.of # "none" => service.manifest = "successor" /\ PendingSuccessor(connection))
        /\ pending' = [session |-> s, generation |-> connection'.generation]
        /\ UNCHANGED <<client, archive, service, exchange, probe, consent>>
    BY <1>14 DEF Authorise, fresh, next
  <2>5. connection' \in Connections /\ SameButEvents(connection', d)
    BY <1>w, <2>3, <2>4, AuditedTyped
  <2>6. connection'.generation \in Nat
    BY <2>5 DEF Connections
  <2>7. ConsentTypes' /\ NothingWithoutService'
    BY <1>0, <2>4, <2>5, <2>6 DEF ConsentTypes, NothingWithoutService
  <2>8. connection.of = "none" => service.manifest = "original"
    BY <1>m, <2>4 DEF Loads, SuccessorRecord, Manifests
  <2>9. connection.of # "none" => connection.of = "successor" /\ connection.status = "successor_pending"
                                  /\ connection.credentials = 0 /\ connection.cleanup = "none"
    BY <2>4 DEF PendingSuccessor, NoConnection, SuccessorRecord
  <2>10. connection.status \in {"none", "successor_pending"}
    BY <1>0, <2>9 DEF Sound
  <2>11. d.of = client /\ d.of # "none" /\ d.status = "authorising" /\ d.generation >= 1 /\ d.credentials = 0 /\ ~d.evidence
    BY <1>0, <1>c, <2>1, <2>2, <2>4, <2>8, <2>9, <2>10 DEF Sound, Manifests
  <2>12. Remembered'
    <3>1. connection.of = "none" \/ ~Held(connection)
      BY <2>9 DEF Held
    <3> QED
      BY <1>0, <2>4, <3>1 DEF Remembered, Manifests
  <2> HIDE DEF d
  <2>13. ConsentKept
    BY <1>0, <2>4, <2>5, <2>10, <2>11, <2>12 DEF ConsentKept, Asking, Sound, SentForThis, Left, StaysDisabled, SameButEvents
  <2> QED
    BY <2>7, <2>13 DEF ConsentInv, ConsentKept
<1>15. CASE DispatchStale \/ AnswerGrant \/ AnswerFails
  <2> DEFINE x == [exchange EXCEPT !.at = "answered", !.answer = "grant"]
             y == [exchange EXCEPT !.at = "answered", !.answer = "failed"]
  <2>1. x \in Exchanges /\ y \in Exchanges
    BY <1>t DEF Exchanges
  <2>2. UNCHANGED <<stored, consent, service, probe, pending>>
        /\ (exchange' = NoExchange \/ (exchange' \in {x, y} /\ exchange.at = "sent"))
    BY <1>15 DEF DispatchStale, AnswerGrant, AnswerFails
  <2> HIDE DEF x, y
  <2>3. ConsentTypes' /\ NothingWithoutService' /\ SentForThis'
    BY <1>0, <1>p, <2>1, <2>2 DEF ConsentTypes, NothingWithoutService, SentForThis, Left, stored
  <2> QED
    BY <1>1, <2>2, <2>3
<1>16. CASE Recheck
  <2> DEFINE a == Gate /\ owner[exchange.session]
             x == [exchange EXCEPT !.at = "rechecked", !.allowed = a]
  <2>1. a \in BOOLEAN
    BY Zenon
  <2>2. UNCHANGED <<stored, consent, service, probe, pending>> /\ exchange' = x /\ exchange.at = "answered"
    BY <1>16 DEF Recheck
  <2> HIDE DEF a
  <2>3. x \in Exchanges
    BY <1>t, <2>1 DEF Exchanges
  <2> HIDE DEF x
  <2>4. ConsentTypes' /\ NothingWithoutService' /\ SentForThis'
    BY <1>0, <1>p, <2>3, <2>2 DEF ConsentTypes, NothingWithoutService, SentForThis, Left, stored
  <2> QED
    BY <1>1, <2>2, <2>4
<1>17. CASE Dispatch
  <2> DEFINE d == Marked(connection)
             x == [exchange EXCEPT !.at = "sent"]
             c == [consent EXCEPT ![service.manifest] = IF @ = "consented" THEN "presented" ELSE @]
  <2>1. d \in Connections /\ d.of = connection.of /\ d.generation = connection.generation
        /\ d.status = "exchanging" /\ d.credentials = connection.credentials
        /\ d.evidence = connection.evidence /\ d.cleanup = "unknown"
    BY <1>t, <1>c DEF Marked, Connections, Statuses
  <2>2. x \in Exchanges
    BY <1>t DEF Exchanges
  <2>3. c \in [Manifests -> {"none", "consented", "rejected", "presented", "granted", "revoked"}]
        /\ \A m \in Manifests : m # service.manifest => c[m] = consent[m]
    BY <1>t, <1>m
  <2>4. connection' = Audited(d, "exchange_dispatched") /\ exchange' = x /\ consent' = c
        /\ connection.status = "authorising" /\ Loads /\ exchange.at = "admitted"
        /\ UNCHANGED <<client, archive, service, pending, probe>>
    BY <1>17 DEF Dispatch, Awaited
  <2>5. service.manifest = connection.of /\ service.up
    BY <1>0, <1>m, <2>4 DEF Sound, Loads, SuccessorRecord, Manifests
  <2> HIDE DEF d, x, c
  <2>6. ConsentTypes' /\ SameButEvents(connection', d) /\ NothingWithoutService'
    BY <1>0, <1>t, <1>w, <2>1, <2>2, <2>3, <2>4, <2>5, AuditedTyped DEF ConsentTypes, NothingWithoutService
  <2>7. Asking(connection)' /\ Sound(connection)' /\ SentForThis' /\ StaysDisabled
    BY <1>0, <1>c, <2>1, <2>4, <2>6 DEF Asking, Sound, SentForThis, StaysDisabled, SameButEvents
  <2>8. Remembered'
    BY <1>0, <2>1, <2>3, <2>4, <2>5, <2>6 DEF Remembered, Held, Asking, SameButEvents
  <2> QED
    BY <2>6, <2>7, <2>8 DEF ConsentInv
<1>18. CASE ExchangeFailed
  <2> DEFINE d == [connection EXCEPT !.status = "disabled", !.generation = @ + 1, !.cleanup = "unknown"]
  <2>1. d \in Connections /\ d.of = connection.of /\ d.generation = connection.generation + 1
        /\ d.status = "disabled" /\ d.credentials = connection.credentials
        /\ d.evidence = connection.evidence /\ d.cleanup = "unknown"
    BY <1>t, <1>c DEF Connections, Statuses
  <2>2. connection' = Audited(d, "exchange_failed_cleanup_review") /\ exchange' = NoExchange /\ Left(exchange)
        /\ UNCHANGED <<client, archive, service, pending, probe, consent>>
    BY <1>18 DEF ExchangeFailed, Left
  <2> HIDE DEF d
  <2>3. ConsentTypes' /\ SameButEvents(connection', d) /\ NothingWithoutService'
    BY <1>0, <1>t, <1>p, <1>w, <2>1, <2>2, AuditedTyped DEF ConsentTypes, NothingWithoutService
  <2>4. ConsentKept
    BY <1>0, <1>c, <1>p, <2>1, <2>2, <2>3
       DEF ConsentKept, Asking, Sound, SentForThis, Left, Remembered, Held, StaysDisabled, SameButEvents
  <2> QED
    BY <2>3, <2>4 DEF ConsentInv, ConsentKept
<1>19. CASE StoreGrant
  <2> DEFINE d == [connection EXCEPT !.status = "authenticated", !.credentials = connection.generation,
                                     !.cleanup = "none", !.provenance = TRUE]
  <2>1. d \in Connections /\ d.of = connection.of /\ d.generation = connection.generation
        /\ d.status = "authenticated" /\ d.credentials = connection.generation
    BY <1>t, <1>c DEF Connections, Statuses
  <2>2. connection' = Audited(d, "grant_stored") /\ exchange' = NoExchange /\ connection.status = "exchanging"
        /\ UNCHANGED <<client, archive, service, pending, probe, consent>>
    BY <1>19 DEF StoreGrant, GrantWanted, Awaited
  <2> HIDE DEF d
  <2>3. ConsentTypes' /\ SameButEvents(connection', d) /\ NothingWithoutService'
    BY <1>0, <1>t, <1>p, <1>w, <2>1, <2>2, AuditedTyped DEF ConsentTypes, NothingWithoutService
  <2>4. ConsentKept
    BY <1>0, <1>c, <1>p, <2>1, <2>2, <2>3
       DEF ConsentKept, Asking, Sound, SentForThis, Left, Remembered, Held, StaysDisabled, SameButEvents
  <2> QED
    BY <2>3, <2>4 DEF ConsentInv, ConsentKept
<1>20. CASE LateGrant
  <2> DEFINE ends == service.manifest = "successor" /\ connection.status # "disabled"
             t == IF ends THEN "disabled" ELSE connection.status
             g == IF ends THEN connection.generation + 1 ELSE connection.generation
             d == [connection EXCEPT !.status = t, !.generation = g, !.cleanup = "token"]
  <2>1. t \in Statuses /\ g \in Nat /\ g >= connection.generation /\ t \in {connection.status, "disabled"}
    BY <1>c DEF Statuses
  <2>2. connection' = Audited(d, "late_grant_cleanup_required") /\ exchange' = NoExchange /\ Left(exchange)
        /\ UNCHANGED <<client, archive, service, pending, probe, consent>>
    BY <1>20 DEF LateGrant, Left
  <2> HIDE DEF t, g
  <2>3. d \in Connections /\ d.of = connection.of /\ d.generation = g
        /\ d.status = t /\ d.credentials = connection.credentials
        /\ d.evidence = connection.evidence /\ d.cleanup = "token"
    BY <1>t, <1>c, <2>1 DEF Connections
  <2> HIDE DEF d
  <2>4. ConsentTypes' /\ SameButEvents(connection', d) /\ NothingWithoutService'
    BY <1>0, <1>t, <1>p, <1>w, <2>3, <2>2, AuditedTyped DEF ConsentTypes, NothingWithoutService
  <2>5. ConsentKept
    BY <1>0, <1>c, <1>p, <2>1, <2>2, <2>3, <2>4
       DEF ConsentKept, Asking, Sound, SentForThis, Left, Remembered, Held, StaysDisabled, SameButEvents
  <2> QED
    BY <2>4, <2>5 DEF ConsentInv, ConsentKept
<1>21. ASSUME NEW s \in Sessions, BeginVerify(s) PROVE ConsentInv' /\ StaysDisabled
  <2> DEFINE d == [connection EXCEPT !.attempted = TRUE]
             x == [at |-> "reading", session |-> s, generation |-> connection.generation]
  <2>1. d \in Connections /\ d.of = connection.of /\ d.generation = connection.generation
        /\ d.status = connection.status /\ d.credentials = connection.credentials
        /\ d.evidence = connection.evidence /\ d.cleanup = connection.cleanup
    BY <1>t, <1>c DEF Connections, Statuses
  <2>2. x \in Probes
    BY <1>c DEF Probes
  <2>3. connection' = Audited(d, "verification_started") /\ connection.status = "authenticated" /\ service.up
        /\ probe' = x /\ UNCHANGED <<client, archive, service, pending, exchange, consent>>
    BY <1>21 DEF BeginVerify, Loads
  <2> HIDE DEF d, x
  <2>4. ConsentTypes' /\ SameButEvents(connection', d) /\ NothingWithoutService'
    BY <1>0, <1>t, <1>p, <1>w, <2>1, <2>2, <2>3, AuditedTyped DEF ConsentTypes, NothingWithoutService
  <2>5. ConsentKept
    BY <1>0, <1>c, <1>p, <2>1, <2>3, <2>4
       DEF ConsentKept, Asking, Sound, SentForThis, Left, Remembered, Held, StaysDisabled, SameButEvents
  <2> QED
    BY <2>4, <2>5 DEF ConsentInv, ConsentKept
<1>22. CASE ProbePasses
  <2> DEFINE x == [probe EXCEPT !.at = "passed"]
  <2>1. x \in Probes
    BY <1>t DEF Probes
  <2>2. UNCHANGED <<stored, consent, service, exchange, pending>> /\ probe' = x /\ service.up /\ probe.at = "reading"
    BY <1>22 DEF ProbePasses, Loads
  <2> HIDE DEF x
  <2>3. ConsentTypes' /\ NothingWithoutService' /\ SentForThis'
    BY <1>0, <2>1, <2>2 DEF ConsentTypes, NothingWithoutService, SentForThis, Left, stored
  <2> QED
    BY <1>1, <2>2, <2>3
<1>23. CASE StoreEvidence
  <2> DEFINE d == [connection EXCEPT !.evidence = TRUE]
  <2>1. d \in Connections /\ d.of = connection.of /\ d.generation = connection.generation
        /\ d.status = connection.status /\ d.credentials = connection.credentials
        /\ d.cleanup = connection.cleanup
    BY <1>t, <1>c DEF Connections, Statuses
  <2>2. connection' = Audited(d, "verified") /\ connection.status = "authenticated" /\ service.up
        /\ probe' = NoProbe /\ UNCHANGED <<client, archive, service, pending, exchange, consent>>
    BY <1>23 DEF StoreEvidence, ProbeContext, Loads
  <2> HIDE DEF d
  <2>3. ConsentTypes' /\ SameButEvents(connection', d) /\ NothingWithoutService'
    BY <1>0, <1>t, <1>p, <1>w, <2>1, <2>2, AuditedTyped DEF ConsentTypes, NothingWithoutService
  <2>4. ConsentKept
    BY <1>0, <1>c, <1>p, <2>1, <2>2, <2>3
       DEF ConsentKept, Asking, Sound, SentForThis, Left, Remembered, Held, StaysDisabled, SameButEvents
  <2> QED
    BY <2>3, <2>4 DEF ConsentInv, ConsentKept
<1>24. CASE ProbeFails
  <2> DEFINE d == [connection EXCEPT !.status = "disabled", !.generation = @ + 1, !.cleanup = "token",
                                     !.credentials = 0, !.evidence = FALSE]
  <2>1. d \in Connections /\ d.of = connection.of /\ d.generation = connection.generation + 1
        /\ d.status = "disabled" /\ d.credentials = 0 /\ ~d.evidence /\ d.cleanup = "token"
    BY <1>t, <1>c DEF Connections, Statuses
  <2>2. probe' = NoProbe /\ UNCHANGED <<client, archive, service, pending, exchange, consent>> /\ service.up
        /\ (connection' = Audited(d, "verification_failed_disabled") \/ connection' = connection)
        /\ (connection.of = "none" => service.manifest = "original") /\ probe.at # "none"
    BY <1>24, <1>m DEF ProbeFails, Unverified, Loads, SuccessorRecord, Manifests
  <2> HIDE DEF d
  <2>3. CASE connection' = connection
    <3>1. UNCHANGED <<stored, consent, service, exchange, pending>>
      BY <2>2, <2>3 DEF stored
    <3>2. ConsentTypes' /\ NothingWithoutService' /\ SentForThis'
      BY <1>0, <1>p, <2>2, <2>3 DEF ConsentTypes, NothingWithoutService, SentForThis, Left, stored
    <3> QED
      BY <1>1, <3>1, <3>2
  <2>4. CASE connection' = Audited(d, "verification_failed_disabled")
    <3>1. ConsentTypes' /\ SameButEvents(connection', d) /\ NothingWithoutService'
      BY <1>0, <1>t, <1>p, <1>w, <2>1, <2>2, <2>4, AuditedTyped DEF ConsentTypes, NothingWithoutService
    <3>2. ConsentKept
      BY <1>0, <1>c, <1>p, <2>1, <2>2, <3>1
         DEF ConsentKept, Asking, Sound, SentForThis, Left, Remembered, Held, StaysDisabled, SameButEvents
    <3> QED
      BY <3>1, <3>2 DEF ConsentInv, ConsentKept
  <2> QED
    BY <2>2, <2>3, <2>4
<1>25. ASSUME NEW s \in Sessions, Disable(s) PROVE ConsentInv' /\ StaysDisabled
  <2> DEFINE k == IF connection.credentials # 0 THEN "token" ELSE connection.cleanup
             d == [connection EXCEPT !.generation = @ + 1, !.status = "disabled", !.cleanup = k,
                                     !.credentials = 0, !.evidence = FALSE]
  <2>1. k \in {"none", "unknown", "token"} /\ (Held(connection) => k # "none")
    BY <1>c DEF Held
  <2>2. connection' = Audited(d, "locally_disabled") /\ connection.of # "none" /\ service.up
        /\ pending' \in {NoPending, pending} /\ UNCHANGED <<client, archive, service, exchange, probe, consent>>
    BY <1>25 DEF Disable, Loads
  <2> HIDE DEF k
  <2>3. d \in Connections /\ d.of = connection.of /\ d.generation = connection.generation + 1
        /\ d.status = "disabled" /\ d.credentials = 0 /\ ~d.evidence /\ d.cleanup = k
    BY <1>t, <1>c, <2>1 DEF Connections, Statuses
  <2> HIDE DEF d
  <2>4. ConsentTypes' /\ SameButEvents(connection', d) /\ NothingWithoutService'
    BY <1>0, <1>t, <1>p, <1>w, <2>3, <2>2, AuditedTyped DEF ConsentTypes, NothingWithoutService
  <2>5. ConsentKept
    BY <1>0, <1>c, <1>p, <2>1, <2>2, <2>3, <2>4
       DEF ConsentKept, Asking, Sound, SentForThis, Left, Remembered, Held, StaysDisabled, SameButEvents
  <2> QED
    BY <2>4, <2>5 DEF ConsentInv, ConsentKept
\* The provider, the owner's role and the clock.
<1>26. ASSUME NEW m \in Manifests, NEW d \in {"consented", "rejected", "granted", "revoked"},
              consent' = [consent EXCEPT ![m] = d], UNCHANGED <<stored, service, memory>>,
              d = "granted" => consent[m] = "presented"
       PROVE  ConsentInv' /\ StaysDisabled
  <2>1. UNCHANGED <<connection, client, archive, service, exchange, probe, pending>>
    BY <1>26 DEF stored, memory
  <2>2. consent' \in [Manifests -> {"none", "consented", "rejected", "presented", "granted", "revoked"}]
        /\ \A n \in Manifests : consent'[n] = consent[n] \/ (n = m /\ consent'[n] = d)
    BY <1>t, <1>26
  <2>3. ConsentTypes' /\ Asking(connection)' /\ Sound(connection)' /\ SentForThis' /\ NothingWithoutService' /\ StaysDisabled
    BY <1>0, <2>1, <2>2
       DEF ConsentTypes, Asking, Sound, SentForThis, Left, NothingWithoutService, StaysDisabled
  <2>4. Remembered'
    BY <1>0, <1>26, <2>1, <2>2 DEF Remembered
  <2> QED
    BY <2>3, <2>4 DEF ConsentInv
<1>27. CASE Outside
  <2>1. ASSUME NEW m \in Manifests,
               (\E d \in {"consented", "rejected"} : Decide(m, d)) \/ ProviderGrants(m) \/ Revoke(m)
        PROVE  ConsentInv' /\ StaysDisabled
    <3>1. PICK d \in {"consented", "rejected", "granted", "revoked"} :
            consent' = [consent EXCEPT ![m] = d] /\ UNCHANGED <<stored, service, memory>>
            /\ (d = "granted" => consent[m] = "presented")
      BY <2>1 DEF Decide, ProviderGrants, Revoke
    <3> QED
      BY <1>26, <3>1
  <2>2. ASSUME (\E m \in Manifests : CloseWindow(m)) \/ \E s \in Sessions : ChangeOwner(s)
        PROVE  ConsentInv' /\ StaysDisabled
    <3>1. UNCHANGED <<stored, service, memory, consent>>
      BY <2>2 DEF CloseWindow, ChangeOwner
    <3>2. ConsentTypes' /\ NothingWithoutService' /\ SentForThis'
      BY <1>0, <3>1 DEF ConsentTypes, NothingWithoutService, SentForThis, Left, stored, memory
    <3> QED
      BY <1>1, <3>1, <3>2
  <2> QED
    BY <1>27, <2>1, <2>2 DEF Outside
<1>28. CASE UNCHANGED consentVars
  <2>1. UNCHANGED <<stored, service, memory, consent>>
    BY <1>28 DEF consentVars
  <2>2. ConsentTypes' /\ NothingWithoutService' /\ SentForThis'
    BY <1>0, <2>1 DEF ConsentTypes, NothingWithoutService, SentForThis, Left, stored, memory
  <2> QED
    BY <1>1, <2>1, <2>2
<1>29. CASE Script
  BY <1>2, <1>3, <1>5, <1>6, <1>7, <1>8, <1>29 DEF Script
<1>30. CASE ServiceStep
  BY <1>9, <1>10, <1>11, <1>12, <1>13, <1>14, <1>15, <1>16, <1>17, <1>18, <1>19, <1>20, <1>21, <1>22, <1>23, <1>24,
     <1>25, <1>30 DEF ServiceStep
<1> QED
  BY <1>27, <1>28, <1>29, <1>30 DEF ConsentNext

\* A consent the provider granted and nobody revoked is never forgotten, for
\* any sessions and any crashes, answers and disables in any order.
THEOREM ConsentRemembered == ConsentSpec => []GrantRemembered
<1>1. ConsentInv => GrantRemembered
  BY DEF ConsentInv, Remembered, Held, GrantRemembered
<1>2. ConsentInv /\ [ConsentNext]_consentVars => ConsentInv'
  BY ConsentNextInv
<1> QED
  BY <1>1, <1>2, ConsentInitInv, PTL DEF ConsentSpec

\* A disabled connection is never in force again.
THEOREM DisabledStays == ConsentSpec => DisabledForGood
<1>1. ConsentInv /\ [ConsentNext]_consentVars => ConsentInv' /\ [StaysDisabled]_consentVars
  BY ConsentNextInv
<1> QED
  BY <1>1, ConsentInitInv, PTL DEF ConsentSpec, DisabledForGood, StaysDisabled

AuditPhases == {"pending", "authorising", "exchanging", "authenticated", "verifying", "verified", "disabled"}
AuditStates == [phase : AuditPhases, generation : Nat, waiting : BOOLEAN, exchanged : BOOLEAN,
                granted : BOOLEAN, attempted : BOOLEAN, accepted : BOOLEAN]

Replayed(seq) == FoldLeft(AuditStep, AuditStart, seq)

\* The recursion FoldLeft unfolds to.
Replay(seq) ==
  CHOOSE iter : iter = [s \in SUBSET DOMAIN seq |->
                          IF s = {} THEN AuditStart ELSE AuditStep(iter[s \ {Max(s)}], seq[Max(s)])]

AuditSteps == [ev \in AuditEvents |-> [a \in AuditStates |-> AuditStep(a, ev)]]

LEMMA StartTyped == AuditStart \in AuditStates
BY DEF AuditStart, AuditStates, AuditPhases

LEMMA StepTyped ==
  ASSUME NEW a \in AuditStates, NEW ev \in AuditEvents
  PROVE  AuditStep(a, ev) \in AuditStates
<1>1. [a EXCEPT !.accepted = FALSE] \in AuditStates
  BY DEF AuditStates
<1>2. CASE ~ AuditAllows(a, ev.event)
  BY <1>1, <1>2 DEF AuditStep
<1>3. CASE AuditAllows(a, ev.event)
  <2>1. PhaseAfter[ev.event] \in AuditPhases
    BY <1>3 DEF AuditAllows, PhaseAfter, AuditPhases, AuditEvents, AuditWords
  <2>2. a.generation \in Nat /\ a.generation + 1 \in Nat /\ ev.generation \in Nat
    BY DEF AuditStates, AuditEvents
  <2>3. a.exchanged \in BOOLEAN /\ a.granted \in BOOLEAN /\ a.attempted \in BOOLEAN /\ a.accepted \in BOOLEAN
    BY DEF AuditStates
  <2> DEFINE g == IF AuditAdvances(a, ev.event) THEN a.generation + 1 ELSE a.generation
  <2>4. g \in Nat
    BY <2>2
  <2> HIDE DEF g
  <2>5. AuditStep(a, ev) =
          [phase |-> PhaseAfter[ev.event], generation |-> g,
            waiting |-> \/ ev.event = "exchange_dispatched"
                        \/ a.waiting /\ ev.event \in {"locally_disabled", "consent_started"},
            exchanged |-> a.exchanged \/ ev.event = "exchange_dispatched",
            granted |-> a.granted \/ ev.event = "grant_stored",
            attempted |-> a.attempted \/ ev.event = "verification_started",
            accepted |-> a.accepted /\ ev.generation = g]
    BY <1>3, Zenon DEF AuditStep, g
  <2>6. AuditStep(a, ev) \in [phase : AuditPhases, generation : Nat, waiting : BOOLEAN, exchanged : BOOLEAN,
                granted : BOOLEAN, attempted : BOOLEAN, accepted : BOOLEAN]
    BY <2>1, <2>3, <2>4, <2>5
  <2> QED
    BY <2>6 DEF AuditStates
<1> QED
  BY <1>2, <1>3

LEMMA ReplaySolved ==
  ASSUME NEW seq \in Seq(AuditEvents)
  PROVE  /\ Replayed(seq) = Replay(seq)[DOMAIN seq]
         /\ GoesAlong(Replay(seq), AuditSteps, AuditStates, AuditStart, seq)
<1> DEFINE D == DOMAIN seq
           Body(g) == [s \in SUBSET D |-> IF s = {} THEN AuditStart ELSE AuditStep(g[s \ {Max(s)}], seq[Max(s)])]
           h == Replay(seq)
<1>1. AuditSteps \in [AuditEvents -> [AuditStates -> AuditStates]]
  BY StepTyped DEF AuditSteps
<1>2. PICK g \in [SUBSET D -> AuditStates] : GoesAlong(g, AuditSteps, AuditStates, AuditStart, seq)
  BY <1>1, StartTyped, AlongExists
<1>3. ASSUME NEW f, NEW s \in SUBSET D, s # {}, f[s \ {Max(s)}] \in AuditStates
      PROVE  AuditSteps[seq[Max(s)]][f[s \ {Max(s)}]] = AuditStep(f[s \ {Max(s)}], seq[Max(s)])
  <2>1. Max(s) \in s
    BY <1>1, <1>3, StartTyped, AlongSteps
  <2>2. seq[Max(s)] \in AuditEvents
    BY <2>1
  <2> QED
    BY <1>3, <2>2 DEF AuditSteps
<1>4. g = Body(g)
  <2>1. ASSUME NEW s \in SUBSET D
        PROVE  g[s] = IF s = {} THEN AuditStart ELSE AuditStep(g[s \ {Max(s)}], seq[Max(s)])
    <3>1. g[s \ {Max(s)}] \in AuditStates
      BY <1>2
    <3> QED
      BY <1>2, <1>3, <3>1 DEF GoesAlong
  <2> QED
    BY <2>1
<1>5. h = Body(h)
  BY <1>4 DEF Replay
<1>6. GoesAlong(h, AuditSteps, AuditStates, AuditStart, seq)
  <2> SUFFICES ASSUME NEW s \in SUBSET D
               PROVE  /\ s = {} => h[s] = AuditStart
                      /\ s # {} /\ h[s \ {Max(s)}] \in AuditStates =>
                           h[s] = AuditSteps[seq[Max(s)]][h[s \ {Max(s)}]]
    BY DEF GoesAlong
  <2> HIDE DEF h
  <2>1. h[s] = IF s = {} THEN AuditStart ELSE AuditStep(h[s \ {Max(s)}], seq[Max(s)])
    BY <1>5
  <2> QED
    BY <1>3, <2>1
<1>7. Replayed(seq) = h[D]
  BY DEF Replayed, Replay, FoldLeft, MapThenFoldSet
<1> QED
  BY <1>6, <1>7

LEMMA ReplayAppend ==
  ASSUME NEW seq \in Seq(AuditEvents), NEW ev \in AuditEvents
  PROVE  /\ Replayed(seq) \in AuditStates
         /\ Replayed(Append(seq, ev)) = AuditStep(Replayed(seq), ev)
<1>1. AuditSteps \in [AuditEvents -> [AuditStates -> AuditStates]]
  BY StepTyped DEF AuditSteps
<1> DEFINE more == Append(seq, ev)
           g == Replay(seq)
           h == Replay(more)
<1>2. more \in Seq(AuditEvents)
  OBVIOUS
<1>3. GoesAlong(g, AuditSteps, AuditStates, AuditStart, seq) /\ Replayed(seq) = g[DOMAIN seq]
  BY ReplaySolved
<1>4. GoesAlong(h, AuditSteps, AuditStates, AuditStart, Append(seq, ev)) /\ Replayed(more) = h[DOMAIN more]
  BY <1>2, ReplaySolved
<1> HIDE DEF g, h
<1>5. g[DOMAIN seq] \in AuditStates /\ h[DOMAIN Append(seq, ev)] = AuditSteps[ev][g[DOMAIN seq]]
  BY <1>1, <1>3, <1>4, StartTyped, AlongAppend
<1> QED
  BY <1>3, <1>4, <1>5 DEF AuditSteps

LEMMA ReplayEmpty == Replayed(<<>>) = AuditStart
<1>1. <<>> \in Seq(AuditEvents)
  OBVIOUS
<1>2. /\ GoesAlong(Replay(<<>>), AuditSteps, AuditStates, AuditStart, <<>>)
      /\ Replayed(<<>>) = Replay(<<>>)[DOMAIN <<>>]
  BY <1>1, ReplaySolved
<1> QED
  BY <1>2, AlongNone

\* The events of a successor whose code never left the process.
Unexchanged(c) ==
  /\ c.credentials = 0 /\ c.cleanup = "none" /\ ~c.provenance /\ ~c.attempted
  /\ \/ /\ c.status = "successor_pending" /\ c.generation = 4
        /\ c.events = <<Event("successor_prepared", 4)>>
     \/ /\ c.status = "authorising" /\ c.generation = 5
        /\ c.events = <<Event("successor_prepared", 4), Event("consent_started", 5)>>
     \/ /\ c.status = "disabled" /\ c.generation = 5
        /\ c.events = <<Event("successor_prepared", 4), Event("locally_disabled", 5)>>
     \/ /\ c.status = "disabled" /\ c.generation = 6 /\ client = "successor"
        /\ c.events = <<Event("successor_prepared", 4), Event("consent_started", 5), Event("locally_disabled", 6)>>

PhaseFits(phase, c) ==
  /\ c.status \in {"successor_pending", "authorising", "exchanging", "authenticated", "disabled"}
  /\ c.status = "successor_pending" => phase = "pending"
  /\ c.status \in {"authorising", "exchanging", "disabled"} => phase = c.status
  /\ c.status \in {"authorising", "exchanging"} => ~c.attempted
  /\ c.status = "authenticated" =>
       IF c.attempted THEN phase \in {"verifying", "verified"} ELSE phase = "authenticated"

\* What the replay of a successor's history finds is what the connection says.
ReplayFits(a, c) ==
  /\ a.accepted /\ a.generation = c.generation
  /\ a.attempted = c.attempted /\ a.granted = c.provenance
  /\ PhaseFits(a.phase, c)
  /\ IF a.exchanged THEN Held(c) /\ client = "successor" /\ c.status \in {"exchanging", "authenticated", "disabled"}
                    ELSE Unexchanged(c)

\* The code that left and the verification that runs are at its end.
WaitsFor(a, c) ==
  /\ Left(exchange) => a.waiting /\ a.exchanged
  /\ probe.at # "none" => probe.generation <= c.generation
  /\ probe.at # "none" /\ probe.generation = c.generation => c.status = "authenticated" /\ a.phase = "verifying"

SuccessorOf(c) ==
  /\ RecoveredRecord(archive) /\ c.generation >= 4
  /\ Len(c.events) >= 1 /\ Head(c.events) = Event("successor_prepared", 4)
  /\ c.status # "successor_pending" => Len(c.events) >= 2 /\ c.generation >= 5
  /\ client \in {"none", "successor"}

AuditInv ==
  /\ connection.of = "successor" =>
       /\ SuccessorOf(connection)
       /\ ~connection.cleaned => ReplayFits(AuditState(connection), connection)
                                   /\ WaitsFor(AuditState(connection), connection)
  /\ consent["successor"] # "none" => HandedOut("successor")

\* The replay of a history that grows by one event makes one more step.
LEMMA AuditGrows ==
  ASSUME NEW d \in Connections, NEW e \in AuditWords, Len(d.events) >= 1
  PROVE  LET c == Audited(d, e) IN
         /\ AuditState(d) \in AuditStates
         /\ AuditState(c) = AuditStep(AuditState(d), Event(e, d.generation))
         /\ Len(c.events) >= 2 /\ Head(c.events) = Head(d.events)
<1>1. d.events \in Seq(AuditEvents) /\ d.generation \in Nat
  BY DEF Connections
<1>2. Event(e, d.generation) \in AuditEvents
  BY <1>1 DEF Event, AuditEvents
<1> DEFINE es == d.events
           ev == Event(e, d.generation)
           more == Append(es, ev)
<1>3. Audited(d, e).events = more
  BY AuditedTyped
<1>4. es \in Seq(AuditEvents) /\ ev \in AuditEvents /\ Len(es) >= 1
  BY <1>1, <1>2
<1> HIDE DEF es, ev
<1>5. Tail(es) \in Seq(AuditEvents)
  BY <1>4
<1>6. Tail(more) = Append(Tail(es), ev) /\ Len(more) >= 2 /\ Head(more) = Head(es)
  BY <1>4
<1>7. Replayed(Tail(es)) \in AuditStates /\ Replayed(Tail(more)) = AuditStep(Replayed(Tail(es)), ev)
  BY <1>4, <1>5, <1>6, ReplayAppend
<1>8. AuditState(d) = Replayed(Tail(es)) /\ AuditState(Audited(d, e)) = Replayed(Tail(more))
  BY <1>3 DEF AuditState, Replayed, es
<1>9. /\ AuditState(d) \in AuditStates
      /\ AuditState(Audited(d, e)) = AuditStep(AuditState(d), ev)
      /\ Len(Audited(d, e).events) >= 2 /\ Head(Audited(d, e).events) = Head(d.events)
  BY <1>3, <1>6, <1>7, <1>8 DEF es
<1> QED
  BY <1>9 DEF ev

\* An event the replay allows.
LEMMA AuditAllowed ==
  ASSUME NEW a \in AuditStates, NEW e \in AuditWords, NEW g \in Nat, AuditAllows(a, e),
         g = IF AuditAdvances(a, e) THEN a.generation + 1 ELSE a.generation
  PROVE  LET b == AuditStep(a, Event(e, g)) IN
         /\ b.phase = PhaseAfter[e] /\ b.generation = g /\ b.accepted = a.accepted
         /\ b.exchanged = (a.exchanged \/ e = "exchange_dispatched")
         /\ b.granted = (a.granted \/ e = "grant_stored")
         /\ b.attempted = (a.attempted \/ e = "verification_started")
         /\ b.waiting = (e = "exchange_dispatched" \/ (a.waiting /\ e \in {"locally_disabled", "consent_started"}))
<1>1. Event(e, g).event = e /\ Event(e, g).generation = g
  BY DEF Event
<1> DEFINE w == e = "exchange_dispatched" \/ (a.waiting /\ e \in {"locally_disabled", "consent_started"})
<1>2. AuditStep(a, Event(e, g)) =
        [phase |-> PhaseAfter[e], generation |-> g, waiting |-> w,
            exchanged |-> a.exchanged \/ e = "exchange_dispatched",
            granted |-> a.granted \/ e = "grant_stored",
            attempted |-> a.attempted \/ e = "verification_started",
            accepted |-> a.accepted /\ g = g]
  BY <1>1, Zenon DEF AuditStep
<1> HIDE DEF w
<1>3. a.accepted \in BOOLEAN
  BY DEF AuditStates
<1> DEFINE b == AuditStep(a, Event(e, g))
<1>4. b.phase = PhaseAfter[e] /\ b.generation = g
  BY <1>2
<1>5. b.accepted = a.accepted
  <2>1. b.accepted = (a.accepted /\ g = g)
    BY <1>2
  <2> HIDE DEF b
  <2> QED
    BY <1>3, <2>1
<1>6. b.exchanged = (a.exchanged \/ e = "exchange_dispatched")
  BY <1>2
<1>7. b.granted = (a.granted \/ e = "grant_stored")
  BY <1>2
<1>8. b.attempted = (a.attempted \/ e = "verification_started")
  BY <1>2
<1>9. b.waiting = w
  BY <1>2
<1> QED
  BY <1>4, <1>5, <1>6, <1>7, <1>8, <1>9 DEF w

\* The histories of a successor whose code never left are at most this long.
LEMMA AppendToOne == ASSUME NEW x, NEW y PROVE Append(<<x>>, y) = <<x, y>>
<1> DEFINE S == {x, y}
           s == Append(<<x>>, y)
<1>1. <<x>> \in Seq(S) /\ y \in S /\ Len(<<x>>) = 1
  OBVIOUS
<1>2. s \in Seq(S) /\ Len(s) = 2 /\ s[1] = x /\ s[2] = y
  BY <1>1
<1>3. s = [i \in 1..2 |-> s[i]] /\ <<x, y>> = [i \in 1..2 |-> <<x, y>>[i]]
  BY <1>2
<1>4. \A i \in 1..2 : s[i] = <<x, y>>[i]
  BY <1>2
<1> QED
  BY <1>3, <1>4

LEMMA AppendToTwo == ASSUME NEW x, NEW y, NEW z PROVE Append(<<x, y>>, z) = <<x, y, z>>
<1> DEFINE S == {x, y, z}
           s == Append(<<x, y>>, z)
<1>1. <<x, y>> \in Seq(S) /\ z \in S /\ Len(<<x, y>>) = 2
  OBVIOUS
<1>2. s \in Seq(S) /\ Len(s) = 3 /\ s[1] = x /\ s[2] = y /\ s[3] = z
  BY <1>1
<1>3. s = [i \in 1..3 |-> s[i]] /\ <<x, y, z>> = [i \in 1..3 |-> <<x, y, z>>[i]]
  BY <1>2
<1>4. \A i \in 1..3 : s[i] = <<x, y, z>>[i]
  BY <1>2
<1> QED
  BY <1>3, <1>4

LEMMA AuditInitInv == ConsentInit => AuditInv
BY NothingTyped DEF ConsentInit, AuditInv, Manifests

\* A step that adds the event e to the history of a successor, d otherwise.
AddsTo(d, e) ==
  /\ connection' = Audited(d, e) /\ d.events = connection.events
  /\ connection.of = "successor" /\ d.of = "successor"
  /\ d.generation >= connection.generation
  /\ connection.status = "successor_pending" => d.generation >= 5
  /\ archive' = archive /\ client' \in {"none", "successor"}

LEMMA HistoryGrows ==
  ASSUME AuditInv, connection \in Connections, NEW d \in Connections, NEW e \in AuditWords, AddsTo(d, e)
  PROVE  /\ SuccessorOf(connection)' /\ connection'.of = "successor" /\ SameButEvents(connection', d)
         /\ AuditState(connection) \in AuditStates
         /\ AuditState(connection') = AuditStep(AuditState(connection), Event(e, d.generation))
         /\ HandedOut("successor") => HandedOut("successor")'
<1>1. SuccessorOf(connection) /\ connection.generation \in Nat /\ d.generation \in Nat
      /\ d.events \in Seq(AuditEvents)
  BY DEF AuditInv, AddsTo, Connections
<1>2. Len(d.events) >= 1
  BY <1>1 DEF SuccessorOf, AddsTo
<1>3. /\ AuditState(d) \in AuditStates
      /\ AuditState(connection') = AuditStep(AuditState(d), Event(e, d.generation))
      /\ Len(connection'.events) >= 2 /\ Head(connection'.events) = Head(d.events)
  BY <1>2, AuditGrows DEF AddsTo
<1>4. AuditState(d) = AuditState(connection)
  BY DEF AuditState, AddsTo
<1>5. /\ SameButEvents(connection', d)
      /\ connection'.events = Append(connection.events, Event(e, d.generation))
  BY AuditedTyped DEF AddsTo
<1>6. SuccessorOf(connection)'
  BY <1>1, <1>3, <1>5 DEF SuccessorOf, AddsTo, SameButEvents, RecoveredRecord
<1>7. HandedOut("successor") => HandedOut("successor")'
  <2> SUFFICES ASSUME HandedOut("successor") PROVE HandedOut("successor")'
    OBVIOUS
  <2>1. PICK i \in DOMAIN connection.events : connection.events[i].event = "consent_started"
    BY DEF HandedOut
  <2> DEFINE es == connection.events
             ev == Event(e, d.generation)
  <2>2. es \in Seq(AuditEvents) /\ connection'.events = Append(es, ev)
    BY <1>1, <1>5 DEF AddsTo
  <2> HIDE DEF ev
  <2>3. i \in DOMAIN es /\ es[i].event = "consent_started"
    BY <2>1
  <2> HIDE DEF es
  <2>4. i \in DOMAIN Append(es, ev) /\ Append(es, ev)[i] = es[i]
    BY <2>2, <2>3
  <2> QED
    BY <1>5, <2>2, <2>3, <2>4 DEF HandedOut, AddsTo, SameButEvents
<1> QED
  BY <1>3, <1>4, <1>5, <1>6, <1>7 DEF AddsTo, SameButEvents

LEMMA AuditNextInv == AuditInv /\ ConsentInv /\ ConsentInv' /\ [ConsentNext]_consentVars => AuditInv'
<1> SUFFICES ASSUME AuditInv, ConsentInv, ConsentInv', [ConsentNext]_consentVars PROVE AuditInv'
  OBVIOUS
<1>0. ConsentTypes /\ Asking(connection) /\ Sound(connection) /\ SentForThis /\ NothingWithoutService /\ Remembered
  BY DEF ConsentInv
<1>t. /\ connection \in Connections /\ client \in Manifests \cup {"none"} /\ service \in ServiceStates
      /\ exchange \in Exchanges /\ probe \in Probes
      /\ consent \in [Manifests -> {"none", "consented", "rejected", "presented", "granted", "revoked"}]
  BY <1>0 DEF ConsentTypes
<1>c. /\ connection.of \in {"none", "original", "successor"} /\ connection.generation \in Nat
      /\ connection.generation + 1 \in Nat /\ connection.status \in Statuses /\ connection.credentials \in Nat
      /\ connection.cleanup \in {"none", "unknown", "token"}
      /\ connection.evidence \in BOOLEAN /\ connection.provenance \in BOOLEAN
      /\ connection.attempted \in BOOLEAN /\ connection.cleaned \in BOOLEAN
  BY <1>t DEF Connections
<1>m. service.manifest \in Manifests /\ probe.generation \in Nat
  BY <1>t DEF ServiceStates, Probes
<1>w. {"custodian_attested_provider_revocation", "rejected_consent_client_removed_locally", "successor_prepared",
       "successor_client_removed_locally", "consent_started", "exchange_dispatched", "grant_stored",
       "verification_started", "verified", "locally_disabled", "verification_failed_disabled",
       "exchange_failed_cleanup_review", "late_grant_cleanup_required"} \subseteq AuditWords
  BY DEF AuditWords
<1>p. NoExchange.at = "none" /\ NoProbe.at = "none"
  BY DEF NoExchange, NoProbe
\* Steps that leave the connection as it is.
<1>1. ASSUME UNCHANGED <<connection, archive>>,
             connection.of = "successor" => client' = client \/ (client = "none" /\ client' = "successor"),
             Left(exchange)' => Left(exchange),
             probe'.at # "none" => probe.at # "none" /\ probe'.generation = probe.generation,
             consent'["successor"] # "none" => consent["successor"] # "none" \/ HandedOut("successor")
      PROVE  AuditInv'
  <2>1. HandedOut("successor")' <=> HandedOut("successor")
    BY <1>1 DEF HandedOut
  <2>2. ASSUME connection.of = "successor" PROVE SuccessorOf(connection)'
    BY <1>1, <2>2 DEF AuditInv, SuccessorOf, RecoveredRecord
  <2>3. ASSUME connection.of = "successor", ~connection.cleaned
        PROVE  ReplayFits(AuditState(connection), connection)'
    <3>1. ReplayFits(AuditState(connection), connection)
      BY <2>3 DEF AuditInv
    <3>2. connection' = connection /\ (client = "successor" => client' = "successor")
      BY <1>1, <2>3
    <3>3. Unexchanged(connection) => Unexchanged(connection)'
      BY <3>2 DEF Unexchanged
    <3> QED
      BY <3>1, <3>2, <3>3 DEF ReplayFits, PhaseFits, Held
  <2>4. ASSUME connection.of = "successor", ~connection.cleaned
        PROVE  WaitsFor(AuditState(connection), connection)'
    <3>1. WaitsFor(AuditState(connection), connection)
      BY <2>4 DEF AuditInv
    <3> QED
      BY <1>1, <3>1 DEF WaitsFor
  <2> QED
    BY <1>1, <2>1, <2>2, <2>3, <2>4 DEF AuditInv
\* No successor before the step, and none after it.
<1>2. ASSUME connection.of # "successor", connection'.of # "successor", consent'["successor"] = consent["successor"]
      PROVE  AuditInv'
  BY <1>2 DEF AuditInv, HandedOut
\* A step that adds an event to the history of a successor.
<1>3. ASSUME NEW d \in Connections, NEW e \in AuditWords, AddsTo(d, e), consent'["successor"] = consent["successor"] \/ HandedOut("successor"),
             ~connection'.cleaned => ReplayFits(AuditState(connection), connection)'
                                       /\ WaitsFor(AuditState(connection), connection)'
      PROVE  AuditInv'
  BY <1>t, <1>3, HistoryGrows DEF AuditInv
<1>k. ASSUME connection.of = "successor"
      PROVE  /\ SuccessorOf(connection)
             /\ ~connection.cleaned => ReplayFits(AuditState(connection), connection)
                                        /\ WaitsFor(AuditState(connection), connection)
  BY <1>k DEF AuditInv
\* A step of an original connection, or of none yet.
<1>o. ASSUME NEW d \in Connections, NEW e \in AuditWords, connection' = Audited(d, e), connection.of # "successor",
             d.of # "successor", consent'["successor"] = consent["successor"]
      PROVE  AuditInv'
  <2>1. connection'.of = d.of
    BY <1>o, AuditedTyped DEF SameButEvents
  <2> QED
    BY <1>2, <1>o, <2>1
<1>4. ASSUME (\E m \in Manifests : ImportClient(m)) \/ CleanupImportedClient PROVE AuditInv'
  <2>1. UNCHANGED <<connection, archive, exchange, probe, consent>>
        /\ (connection.of = "successor" => client = "none" /\ client' = "successor")
    BY <1>4 DEF ImportClient, CleanupImportedClient, memory
  <2> QED
    BY <1>1, <2>1 DEF Left
<1>5. CASE AttestCleanup \/ CleanupRejectedConsent
  <2> DEFINE d == [connection EXCEPT !.cleanup = "none"]
             f == [connection EXCEPT !.generation = @ + 1, !.recovered = TRUE]
  <2>1. d \in Connections /\ d.of = connection.of /\ f \in Connections /\ f.of = connection.of
    BY <1>t, <1>c DEF Connections
  <2>2. connection.of = "original" /\ UNCHANGED consent
        /\ (\/ connection' = Audited(d, "custodian_attested_provider_revocation")
            \/ connection' = Audited(f, "rejected_consent_client_removed_locally"))
    BY <1>5 DEF AttestCleanup, CleanupRejectedConsent, RejectedConsent, NoConnection
  <2> HIDE DEF d, f
  <2> QED
    BY <1>o, <1>w, <2>1, <2>2
<1>6. CASE PrepareSuccessor
  <2> DEFINE d == [NoConnection EXCEPT !.of = "successor", !.generation = 4, !.status = "successor_pending"]
             ev == Event("successor_prepared", 4)
  <2>1. d \in Connections /\ d.of = "successor" /\ d.status = "successor_pending" /\ d.generation = 4
        /\ d.credentials = 0 /\ d.cleanup = "none" /\ d.provenance = FALSE /\ d.attempted = FALSE /\ d.events = <<>>
    BY NothingTyped DEF Connections, NoConnection, Statuses
  <2>2. connection' = Audited(d, "successor_prepared") /\ RecoveredRecord(connection) /\ client = "none" /\ ~service.up
        /\ archive' = connection /\ UNCHANGED <<client, service, consent, exchange, probe, pending>>
    BY <1>6 DEF PrepareSuccessor, memory
  <2>3. connection.of = "original"
    BY <2>2 DEF RecoveredRecord, NoConnection
  <2> HIDE DEF d
  <2>4. SameButEvents(connection', d) /\ connection'.events = <<ev>>
    <3>1. SameButEvents(connection', d) /\ connection'.events = Append(d.events, Event("successor_prepared", d.generation))
      BY <1>w, <2>1, <2>2, AuditedTyped
    <3>2. Append(<<>>, ev) = <<ev>>
      OBVIOUS
    <3> QED
      BY <2>1, <3>1, <3>2
  <2>5. AuditState(connection') = AuditStart
    <3> HIDE DEF ev
    <3>1. Tail(<<ev>>) = <<>>
      OBVIOUS
    <3> QED
      BY <2>4, <3>1, ReplayEmpty DEF AuditState, Replayed
  <2>6. SuccessorOf(connection)'
    <3>1. Len(connection'.events) = 1 /\ Head(connection'.events) = Event("successor_prepared", 4)
      <4> HIDE DEF ev
      <4>1. Len(<<ev>>) = 1 /\ Head(<<ev>>) = ev
        OBVIOUS
      <4> QED
        BY <2>4, <4>1 DEF ev
    <3> QED
      BY <2>1, <2>2, <2>4, <3>1 DEF SuccessorOf, SameButEvents, RecoveredRecord
  <2>7. ReplayFits(AuditStart, connection)'
    <3>1. Unexchanged(connection)'
      BY <2>1, <2>4 DEF Unexchanged, SameButEvents
    <3>2. connection'.attempted = FALSE /\ connection'.provenance = FALSE /\ connection'.generation = 4
          /\ connection'.status = "successor_pending"
      BY <2>1, <2>4 DEF SameButEvents
    <3> QED
      BY <3>1, <3>2 DEF ReplayFits, AuditStart, PhaseFits
  <2>8. WaitsFor(AuditStart, connection)'
    BY <1>0, <2>2 DEF WaitsFor, NothingWithoutService, Left
  <2>9. consent["successor"] = "none"
    BY <2>3 DEF AuditInv, HandedOut
  <2>10. ReplayFits(AuditState(connection), connection)' /\ WaitsFor(AuditState(connection), connection)'
    BY <2>5, <2>7, <2>8
  <2> QED
    BY <2>2, <2>6, <2>9, <2>10 DEF AuditInv
<1>7. ASSUME NEW kind \in CleanupKinds, CleanupSuccessor(kind) PROVE AuditInv'
  <2> DEFINE d == [connection EXCEPT !.cleanup = "none", !.generation = @ + 1, !.cleaned = TRUE]
  <2>1. d \in Connections /\ d.of = connection.of /\ d.events = connection.events
        /\ d.generation = connection.generation + 1 /\ d.cleaned
    BY <1>t, <1>c DEF Connections
  <2>2. connection' = Audited(d, "successor_client_removed_locally") /\ client' = "none"
        /\ connection.of = "successor" /\ connection.status = "disabled" /\ UNCHANGED <<archive, consent>>
    BY <1>7 DEF CleanupSuccessor, CleanupAccepts, SuccessorRecord
  <2> HIDE DEF d
  <2>3. AddsTo(d, "successor_client_removed_locally")
    BY <1>c, <2>1, <2>2 DEF AddsTo
  <2>4. connection'.cleaned
    BY <1>t, <1>w, <2>1, <2>3, HistoryGrows DEF SameButEvents
  <2> QED
    BY <1>3, <1>w, <2>1, <2>2, <2>3, <2>4
\* A session's steps that leave the connection as it is.
<1>8. ASSUME NEW s \in Sessions,
             \/ \E op \in {"authorise", "verify", "disable"} : Admit(s, op)
             \/ Refused(s) \/ TakeState(s)
      PROVE AuditInv'
  <2>1. UNCHANGED <<stored, consent>>
    BY <1>8 DEF Admit, Refused, TakeState
  <2>2. probe' = probe
    BY <1>8 DEF Admit, Refused, TakeState
  <2>3. exchange' = exchange \/ exchange'.at \in {"none", "admitted"}
    BY <1>8, <1>p DEF Admit, Refused, TakeState, NoExchange
  <2> QED
    BY <1>1, <1>p, <2>1, <2>2, <2>3 DEF Left, stored
<1>9. CASE DispatchStale \/ AnswerGrant \/ AnswerFails \/ Recheck \/ ProbePasses
  <2>1. UNCHANGED <<stored, consent>>
    BY <1>9 DEF DispatchStale, AnswerGrant, AnswerFails, Recheck, ProbePasses
  <2>2. probe' = probe \/ (probe'.generation = probe.generation /\ probe.at = "reading")
    BY <1>9, <1>t DEF DispatchStale, AnswerGrant, AnswerFails, Recheck, ProbePasses, Probes
  <2>3. exchange' = exchange \/ exchange' = NoExchange \/ Left(exchange)
    BY <1>9 DEF DispatchStale, AnswerGrant, AnswerFails, Recheck, ProbePasses, Left
  <2> QED
    BY <1>1, <1>p, <2>1, <2>2, <2>3 DEF Left, stored
<1>10. CASE Dispatch
  <2> DEFINE d == Marked(connection)
  <2>1. d \in Connections /\ d.of = connection.of /\ d.events = connection.events
        /\ d.generation = connection.generation /\ d.status = "exchanging" /\ d.cleanup = "unknown"
        /\ d.attempted = connection.attempted /\ d.provenance = connection.provenance /\ d.cleaned = connection.cleaned
    BY <1>t, <1>c DEF Marked, Connections, Statuses
  <2>2. connection' = Audited(d, "exchange_dispatched") /\ UNCHANGED <<client, archive, probe>>
        /\ connection.status = "authorising" /\ client = connection.of /\ exchange.at = "admitted"
        /\ (connection.of = "successor" \/ consent'["successor"] = consent["successor"])
        /\ (connection.of = "successor" => consent'["successor"] = consent["successor"] \/ HandedOut("successor"))
    <3>1. Loads /\ connection.status = "authorising" /\ client = connection.of
          /\ consent' = [consent EXCEPT ![service.manifest] = IF @ = "consented" THEN "presented" ELSE @]
      BY <1>0, <1>10 DEF Dispatch, Awaited, Asking
    <3>2. connection.of # "successor" => service.manifest = "original"
      BY <1>m, <3>1 DEF Loads, SuccessorRecord, Manifests
    <3>3. consent["successor"] # "none" => HandedOut("successor")
      BY DEF AuditInv
    <3>4. consent'["successor"] = consent["successor"] \/ consent["successor"] = "consented"
      BY <1>t, <3>1 DEF Manifests
    <3>5. connection.of # "successor" => consent'["successor"] = consent["successor"]
      BY <1>t, <3>1, <3>2 DEF Manifests
    <3> QED
      BY <1>10, <3>1, <3>3, <3>4, <3>5 DEF Dispatch
  <2> HIDE DEF d
  <2>8. CASE connection.of = "successor"
    <3>1. AddsTo(d, "exchange_dispatched")
      BY <1>c, <1>k, <2>1, <2>2, <2>8 DEF AddsTo, SuccessorOf
    <3>2. /\ SameButEvents(connection', d) /\ AuditState(connection) \in AuditStates
          /\ AuditState(connection') = AuditStep(AuditState(connection), Event("exchange_dispatched", d.generation))
      BY <1>t, <1>w, <2>1, <3>1, HistoryGrows
    <3>3. ASSUME ~connection'.cleaned
          PROVE  ReplayFits(AuditState(connection), connection)' /\ WaitsFor(AuditState(connection), connection)'
      <4> DEFINE a == AuditState(connection)
                 b == AuditState(connection')
      <4>1. a \in AuditStates /\ b = AuditStep(a, Event("exchange_dispatched", d.generation)) /\ ~connection.cleaned
        BY <2>1, <3>2, <3>3 DEF SameButEvents
      <4>2. ReplayFits(a, connection) /\ WaitsFor(a, connection)
        BY <1>k, <2>8, <4>1
      <4> HIDE DEF a, b
      <4>3. AuditAllows(a, "exchange_dispatched") /\ d.generation = IF AuditAdvances(a, "exchange_dispatched") THEN a.generation + 1 ELSE a.generation
        BY <2>1, <2>2, <4>2 DEF AuditAllows, AuditAdvances, ReplayFits, WaitsFor, PhaseFits, Unexchanged
      <4>4. /\ b.phase = PhaseAfter["exchange_dispatched"] /\ b.generation = d.generation /\ b.accepted = a.accepted
            /\ b.exchanged = (a.exchanged \/ "exchange_dispatched" = "exchange_dispatched")
            /\ b.granted = (a.granted \/ "exchange_dispatched" = "grant_stored")
            /\ b.attempted = (a.attempted \/ "exchange_dispatched" = "verification_started")
            /\ b.waiting = ("exchange_dispatched" = "exchange_dispatched" \/ (a.waiting /\ "exchange_dispatched" \in {"locally_disabled", "consent_started"}))
        BY <1>w, <2>1, <4>1, <4>3, AuditAllowed DEF Connections
      <4>a. a.exchanged \in BOOLEAN /\ a.granted \in BOOLEAN /\ a.attempted \in BOOLEAN /\ a.waiting \in BOOLEAN
            /\ b.phase = "exchanging"
        BY <4>1, <4>4 DEF AuditStates, PhaseAfter
      <4>c. b.exchanged = TRUE /\ b.granted = a.granted /\ b.attempted = a.attempted /\ b.waiting = TRUE
        BY <4>4, <4>a
      <4>d. /\ a.accepted /\ a.generation = connection.generation
            /\ a.attempted = connection.attempted /\ a.granted = connection.provenance
            /\ PhaseFits(a.phase, connection)
            /\ IF a.exchanged THEN Held(connection) /\ client = "successor"
                  /\ connection.status \in {"exchanging", "authenticated", "disabled"}
                              ELSE Unexchanged(connection)
        BY <4>2 DEF ReplayFits
      <4>e. b.accepted /\ b.generation = connection'.generation
            /\ b.attempted = connection'.attempted /\ b.granted = connection'.provenance
        BY <2>1, <3>2, <4>4, <4>c, <4>d DEF SameButEvents
      <4>f. PhaseFits(b.phase, connection')
        BY <2>1, <2>2, <3>2, <4>a, <4>d DEF PhaseFits, SameButEvents
      <4>g. b.exchanged /\ Held(connection') /\ client' = "successor"
            /\ connection'.status \in {"exchanging", "authenticated", "disabled"}
        BY <2>1, <2>2, <2>8, <3>2, <4>2, <4>c, <4>d DEF Held, SameButEvents, WaitsFor, Unexchanged
      <4>5. ReplayFits(AuditState(connection), connection)'
        BY <4>e, <4>f, <4>g DEF b, ReplayFits
      <4>6. WaitsFor(AuditState(connection), connection)'
        BY <1>c, <1>m, <1>p, <2>1, <2>2, <3>2, <4>2, <4>4, <4>a, <4>c DEF b, WaitsFor, SameButEvents
      <4> QED
        BY <4>5, <4>6
    <3> QED
      BY <1>3, <1>w, <2>1, <2>2, <3>1, <3>3
  <2>9. CASE connection.of # "successor"
    BY <1>o, <1>w, <2>1, <2>2, <2>9
  <2> QED
    BY <2>8, <2>9
<1>11. CASE ExchangeFailed
  <2> DEFINE d == [connection EXCEPT !.status = "disabled", !.generation = @ + 1, !.cleanup = "unknown"]
  <2>1. d \in Connections /\ d.of = connection.of /\ d.events = connection.events
        /\ d.generation = connection.generation + 1 /\ d.status = "disabled" /\ d.cleanup = "unknown"
        /\ d.attempted = connection.attempted /\ d.provenance = connection.provenance /\ d.cleaned = connection.cleaned
    BY <1>t, <1>c DEF Connections, Statuses
  <2>2. connection' = Audited(d, "exchange_failed_cleanup_review") /\ exchange' = NoExchange /\ Left(exchange)
        /\ connection.status \in {"exchanging", "disabled"} /\ UNCHANGED <<client, archive, probe, consent>>
    BY <1>0, <1>11 DEF ExchangeFailed, Left, SentForThis
  <2> HIDE DEF d
  <2>8. CASE connection.of = "successor"
    <3>1. AddsTo(d, "exchange_failed_cleanup_review")
      BY <1>c, <1>k, <2>1, <2>2, <2>8 DEF AddsTo, SuccessorOf
    <3>2. /\ SameButEvents(connection', d) /\ AuditState(connection) \in AuditStates
          /\ AuditState(connection') = AuditStep(AuditState(connection), Event("exchange_failed_cleanup_review", d.generation))
      BY <1>t, <1>w, <2>1, <3>1, HistoryGrows
    <3>3. ASSUME ~connection'.cleaned
          PROVE  ReplayFits(AuditState(connection), connection)' /\ WaitsFor(AuditState(connection), connection)'
      <4> DEFINE a == AuditState(connection)
                 b == AuditState(connection')
      <4>1. a \in AuditStates /\ b = AuditStep(a, Event("exchange_failed_cleanup_review", d.generation)) /\ ~connection.cleaned
        BY <2>1, <3>2, <3>3 DEF SameButEvents
      <4>2. ReplayFits(a, connection) /\ WaitsFor(a, connection)
        BY <1>k, <2>8, <4>1
      <4> HIDE DEF a, b
      <4>3. AuditAllows(a, "exchange_failed_cleanup_review") /\ d.generation = IF AuditAdvances(a, "exchange_failed_cleanup_review") THEN a.generation + 1 ELSE a.generation
        BY <2>1, <2>2, <4>2 DEF AuditAllows, AuditAdvances, ReplayFits, WaitsFor, PhaseFits, Unexchanged
      <4>4. /\ b.phase = PhaseAfter["exchange_failed_cleanup_review"] /\ b.generation = d.generation /\ b.accepted = a.accepted
            /\ b.exchanged = (a.exchanged \/ "exchange_failed_cleanup_review" = "exchange_dispatched")
            /\ b.granted = (a.granted \/ "exchange_failed_cleanup_review" = "grant_stored")
            /\ b.attempted = (a.attempted \/ "exchange_failed_cleanup_review" = "verification_started")
            /\ b.waiting = ("exchange_failed_cleanup_review" = "exchange_dispatched" \/ (a.waiting /\ "exchange_failed_cleanup_review" \in {"locally_disabled", "consent_started"}))
        BY <1>w, <2>1, <4>1, <4>3, AuditAllowed DEF Connections
      <4>a. a.exchanged \in BOOLEAN /\ a.granted \in BOOLEAN /\ a.attempted \in BOOLEAN /\ a.waiting \in BOOLEAN
            /\ b.phase = "disabled"
        BY <4>1, <4>4 DEF AuditStates, PhaseAfter
      <4>c. b.exchanged = a.exchanged /\ b.granted = a.granted /\ b.attempted = a.attempted /\ b.waiting = FALSE
        BY <4>4, <4>a
      <4>d. /\ a.accepted /\ a.generation = connection.generation
            /\ a.attempted = connection.attempted /\ a.granted = connection.provenance
            /\ PhaseFits(a.phase, connection)
            /\ IF a.exchanged THEN Held(connection) /\ client = "successor"
                  /\ connection.status \in {"exchanging", "authenticated", "disabled"}
                              ELSE Unexchanged(connection)
        BY <4>2 DEF ReplayFits
      <4>e. b.accepted /\ b.generation = connection'.generation
            /\ b.attempted = connection'.attempted /\ b.granted = connection'.provenance
        BY <2>1, <3>2, <4>4, <4>c, <4>d DEF SameButEvents, Left
      <4>f. PhaseFits(b.phase, connection')
        BY <2>1, <2>2, <3>2, <4>a, <4>d DEF PhaseFits, SameButEvents, Left
      <4>g. b.exchanged /\ Held(connection') /\ client' = "successor"
            /\ connection'.status \in {"exchanging", "authenticated", "disabled"}
        BY <2>1, <2>2, <2>8, <3>2, <4>2, <4>c, <4>d DEF Held, SameButEvents, WaitsFor, Unexchanged
      <4>5. ReplayFits(AuditState(connection), connection)'
        BY <4>e, <4>f, <4>g DEF b, ReplayFits
      <4>6. WaitsFor(AuditState(connection), connection)'
        BY <1>p, <1>c, <1>m, <1>p, <2>1, <2>2, <3>2, <4>2, <4>4, <4>a, <4>c DEF b, WaitsFor, SameButEvents, Left
      <4> QED
        BY <4>5, <4>6
    <3> QED
      BY <1>3, <1>w, <2>1, <2>2, <3>1, <3>3
  <2>9. CASE connection.of # "successor"
    BY <1>o, <1>w, <2>1, <2>2, <2>9
  <2> QED
    BY <2>8, <2>9
<1>12. CASE StoreGrant
  <2> DEFINE d == [connection EXCEPT !.status = "authenticated", !.credentials = connection.generation,
                                     !.cleanup = "none", !.provenance = TRUE]
  <2>1. d \in Connections /\ d.of = connection.of /\ d.events = connection.events
        /\ d.generation = connection.generation /\ d.status = "authenticated" /\ d.credentials = connection.generation
        /\ d.attempted = connection.attempted /\ d.provenance = TRUE /\ d.cleaned = connection.cleaned
    BY <1>t, <1>c DEF Connections, Statuses
  <2>2. connection' = Audited(d, "grant_stored") /\ exchange' = NoExchange /\ Left(exchange)
        /\ connection.status = "exchanging" /\ UNCHANGED <<client, archive, probe, consent>>
    BY <1>12 DEF StoreGrant, Left, GrantWanted, Awaited
  <2>3. connection.generation # 0
    BY <1>0, <1>c, <2>2 DEF Sound
  <2> HIDE DEF d
  <2>8. CASE connection.of = "successor"
    <3>1. AddsTo(d, "grant_stored")
      BY <1>c, <1>k, <2>1, <2>2, <2>8 DEF AddsTo, SuccessorOf
    <3>2. /\ SameButEvents(connection', d) /\ AuditState(connection) \in AuditStates
          /\ AuditState(connection') = AuditStep(AuditState(connection), Event("grant_stored", d.generation))
      BY <1>t, <1>w, <2>1, <3>1, HistoryGrows
    <3>3. ASSUME ~connection'.cleaned
          PROVE  ReplayFits(AuditState(connection), connection)' /\ WaitsFor(AuditState(connection), connection)'
      <4> DEFINE a == AuditState(connection)
                 b == AuditState(connection')
      <4>1. a \in AuditStates /\ b = AuditStep(a, Event("grant_stored", d.generation)) /\ ~connection.cleaned
        BY <2>1, <3>2, <3>3 DEF SameButEvents
      <4>2. ReplayFits(a, connection) /\ WaitsFor(a, connection)
        BY <1>k, <2>8, <4>1
      <4> HIDE DEF a, b
      <4>b. ~connection.attempted
        BY <2>2, <4>2 DEF ReplayFits, PhaseFits
      <4>3. AuditAllows(a, "grant_stored") /\ d.generation = IF AuditAdvances(a, "grant_stored") THEN a.generation + 1 ELSE a.generation
        BY <2>1, <2>2, <4>2 DEF AuditAllows, AuditAdvances, ReplayFits, WaitsFor, PhaseFits, Unexchanged
      <4>4. /\ b.phase = PhaseAfter["grant_stored"] /\ b.generation = d.generation /\ b.accepted = a.accepted
            /\ b.exchanged = (a.exchanged \/ "grant_stored" = "exchange_dispatched")
            /\ b.granted = (a.granted \/ "grant_stored" = "grant_stored")
            /\ b.attempted = (a.attempted \/ "grant_stored" = "verification_started")
            /\ b.waiting = ("grant_stored" = "exchange_dispatched" \/ (a.waiting /\ "grant_stored" \in {"locally_disabled", "consent_started"}))
        BY <1>w, <2>1, <4>1, <4>3, AuditAllowed DEF Connections
      <4>a. a.exchanged \in BOOLEAN /\ a.granted \in BOOLEAN /\ a.attempted \in BOOLEAN /\ a.waiting \in BOOLEAN
            /\ b.phase = "authenticated"
        BY <4>1, <4>4 DEF AuditStates, PhaseAfter
      <4>c. b.exchanged = a.exchanged /\ b.granted = TRUE /\ b.attempted = a.attempted /\ b.waiting = FALSE
        BY <4>4, <4>a
      <4>d. /\ a.accepted /\ a.generation = connection.generation
            /\ a.attempted = connection.attempted /\ a.granted = connection.provenance
            /\ PhaseFits(a.phase, connection)
            /\ IF a.exchanged THEN Held(connection) /\ client = "successor"
                  /\ connection.status \in {"exchanging", "authenticated", "disabled"}
                              ELSE Unexchanged(connection)
        BY <4>2 DEF ReplayFits
      <4>e. b.accepted /\ b.generation = connection'.generation
            /\ b.attempted = connection'.attempted /\ b.granted = connection'.provenance
        BY <2>1, <3>2, <4>4, <4>c, <4>d DEF SameButEvents, Left
      <4>f. PhaseFits(b.phase, connection')
        BY <2>3, <4>b, <2>1, <2>2, <3>2, <4>a, <4>d DEF PhaseFits, SameButEvents, Left
      <4>g. b.exchanged /\ Held(connection') /\ client' = "successor"
            /\ connection'.status \in {"exchanging", "authenticated", "disabled"}
        BY <2>3, <4>b, <2>1, <2>2, <2>8, <3>2, <4>2, <4>c, <4>d DEF Held, SameButEvents, WaitsFor, Unexchanged
      <4>5. ReplayFits(AuditState(connection), connection)'
        BY <4>e, <4>f, <4>g DEF b, ReplayFits
      <4>6. WaitsFor(AuditState(connection), connection)'
        BY <1>p, <1>c, <1>m, <1>p, <2>1, <2>2, <3>2, <4>2, <4>4, <4>a, <4>c DEF b, WaitsFor, SameButEvents, Left
      <4> QED
        BY <4>5, <4>6
    <3> QED
      BY <1>3, <1>w, <2>1, <2>2, <3>1, <3>3
  <2>9. CASE connection.of # "successor"
    BY <1>o, <1>w, <2>1, <2>2, <2>9
  <2> QED
    BY <2>8, <2>9
<1>13. CASE LateGrant
  <2> DEFINE ends == service.manifest = "successor" /\ connection.status # "disabled"
             t == IF ends THEN "disabled" ELSE connection.status
             g == IF ends THEN connection.generation + 1 ELSE connection.generation
             d == [connection EXCEPT !.status = t, !.generation = g, !.cleanup = "token"]
  <2>a. t \in Statuses /\ g \in Nat /\ g \in {connection.generation, connection.generation + 1}
    BY <1>c DEF Statuses
  <2>b. connection.of = "successor" => service.manifest = "successor"
    BY <1>13 DEF LateGrant, Loads
  <2>c. connection.of = "successor" =>
          t = "disabled" /\ g = IF connection.status = "disabled" THEN connection.generation ELSE connection.generation + 1
    BY <2>b
  <2>2. connection' = Audited(d, "late_grant_cleanup_required") /\ exchange' = NoExchange /\ Left(exchange)
        /\ connection.status \in {"exchanging", "disabled"} /\ UNCHANGED <<client, archive, probe, consent>>
    BY <1>0, <1>13 DEF LateGrant, Left, SentForThis
  <2> HIDE DEF t, g
  <2>1. d \in Connections /\ d.of = connection.of /\ d.events = connection.events
        /\ d.generation = g /\ d.status = t /\ d.cleanup = "token"
        /\ d.attempted = connection.attempted /\ d.provenance = connection.provenance /\ d.cleaned = connection.cleaned
    BY <1>t, <1>c, <2>a DEF Connections
  <2> HIDE DEF d
  <2>8. CASE connection.of = "successor"
    <3>1. AddsTo(d, "late_grant_cleanup_required")
      BY <1>c, <1>k, <2>1, <2>2, <2>8, <2>a, <2>c DEF AddsTo, SuccessorOf
    <3>2. /\ SameButEvents(connection', d) /\ AuditState(connection) \in AuditStates
          /\ AuditState(connection') = AuditStep(AuditState(connection), Event("late_grant_cleanup_required", d.generation))
      BY <1>t, <1>w, <2>1, <3>1, HistoryGrows
    <3>3. ASSUME ~connection'.cleaned
          PROVE  ReplayFits(AuditState(connection), connection)' /\ WaitsFor(AuditState(connection), connection)'
      <4> DEFINE a == AuditState(connection)
                 b == AuditState(connection')
      <4>1. a \in AuditStates /\ b = AuditStep(a, Event("late_grant_cleanup_required", d.generation)) /\ ~connection.cleaned
        BY <2>1, <3>2, <3>3 DEF SameButEvents
      <4>2. ReplayFits(a, connection) /\ WaitsFor(a, connection)
        BY <1>k, <2>8, <4>1
      <4> HIDE DEF a, b
      <4>b. a.phase = connection.status /\ (probe.at # "none" => probe.generation < connection.generation \/ connection.status = "authenticated")
        BY <1>c, <1>m, <2>2, <4>2 DEF ReplayFits, PhaseFits, WaitsFor
      <4>3. AuditAllows(a, "late_grant_cleanup_required") /\ d.generation = IF AuditAdvances(a, "late_grant_cleanup_required") THEN a.generation + 1 ELSE a.generation
        BY <2>8, <2>a, <2>c, <2>1, <2>2, <4>2 DEF AuditAllows, AuditAdvances, ReplayFits, WaitsFor, PhaseFits, Unexchanged
      <4>4. /\ b.phase = PhaseAfter["late_grant_cleanup_required"] /\ b.generation = d.generation /\ b.accepted = a.accepted
            /\ b.exchanged = (a.exchanged \/ "late_grant_cleanup_required" = "exchange_dispatched")
            /\ b.granted = (a.granted \/ "late_grant_cleanup_required" = "grant_stored")
            /\ b.attempted = (a.attempted \/ "late_grant_cleanup_required" = "verification_started")
            /\ b.waiting = ("late_grant_cleanup_required" = "exchange_dispatched" \/ (a.waiting /\ "late_grant_cleanup_required" \in {"locally_disabled", "consent_started"}))
        BY <1>w, <2>1, <4>1, <4>3, AuditAllowed DEF Connections
      <4>a. a.exchanged \in BOOLEAN /\ a.granted \in BOOLEAN /\ a.attempted \in BOOLEAN /\ a.waiting \in BOOLEAN
            /\ b.phase = "disabled"
        BY <4>1, <4>4 DEF AuditStates, PhaseAfter
      <4>c. b.exchanged = a.exchanged /\ b.granted = a.granted /\ b.attempted = a.attempted /\ b.waiting = FALSE
        BY <4>4, <4>a
      <4>d. /\ a.accepted /\ a.generation = connection.generation
            /\ a.attempted = connection.attempted /\ a.granted = connection.provenance
            /\ PhaseFits(a.phase, connection)
            /\ IF a.exchanged THEN Held(connection) /\ client = "successor"
                  /\ connection.status \in {"exchanging", "authenticated", "disabled"}
                              ELSE Unexchanged(connection)
        BY <4>2 DEF ReplayFits
      <4>e. b.accepted /\ b.generation = connection'.generation
            /\ b.attempted = connection'.attempted /\ b.granted = connection'.provenance
        BY <2>1, <3>2, <4>4, <4>c, <4>d DEF SameButEvents, Left
      <4>f. PhaseFits(b.phase, connection')
        BY <2>8, <2>c, <2>1, <2>2, <3>2, <4>a, <4>d DEF PhaseFits, SameButEvents, Left
      <4>g. b.exchanged /\ Held(connection') /\ client' = "successor"
            /\ connection'.status \in {"exchanging", "authenticated", "disabled"}
        BY <2>8, <2>c, <2>1, <2>2, <2>8, <3>2, <4>2, <4>c, <4>d DEF Held, SameButEvents, WaitsFor, Unexchanged
      <4>5. ReplayFits(AuditState(connection), connection)'
        BY <4>e, <4>f, <4>g DEF b, ReplayFits
      <4>6. WaitsFor(AuditState(connection), connection)'
        BY <2>8, <2>a, <2>c, <4>b, <1>c, <1>m, <1>p, <2>1, <2>2, <3>2, <4>2, <4>4, <4>a, <4>c DEF b, WaitsFor, SameButEvents, Left
      <4> QED
        BY <4>5, <4>6
    <3> QED
      BY <1>3, <1>w, <2>1, <2>2, <3>1, <3>3
  <2>9. CASE connection.of # "successor"
    BY <1>o, <1>w, <2>1, <2>2, <2>9
  <2> QED
    BY <2>8, <2>9
<1>14. ASSUME NEW s \in Sessions, BeginVerify(s) PROVE AuditInv'
  <2> DEFINE d == [connection EXCEPT !.attempted = TRUE]
  <2>1. d \in Connections /\ d.of = connection.of /\ d.events = connection.events
        /\ d.generation = connection.generation /\ d.status = connection.status
        /\ d.cleanup = connection.cleanup /\ d.credentials = connection.credentials
        /\ d.attempted = TRUE /\ d.provenance = connection.provenance /\ d.cleaned = connection.cleaned
    BY <1>t, <1>c DEF Connections
  <2>2. connection' = Audited(d, "verification_started") /\ connection.status = "authenticated" /\ connection.attempted = FALSE
        /\ probe'.generation = connection.generation /\ UNCHANGED <<client, archive, exchange, consent>>
        /\ ~Left(exchange)
    BY <1>0, <1>c, <1>14 DEF BeginVerify, SentForThis
  <2> HIDE DEF d
  <2>8. CASE connection.of = "successor"
    <3>1. AddsTo(d, "verification_started")
      BY <1>c, <1>k, <2>1, <2>2, <2>8 DEF AddsTo, SuccessorOf
    <3>2. /\ SameButEvents(connection', d) /\ AuditState(connection) \in AuditStates
          /\ AuditState(connection') = AuditStep(AuditState(connection), Event("verification_started", d.generation))
      BY <1>t, <1>w, <2>1, <3>1, HistoryGrows
    <3>3. ASSUME ~connection'.cleaned
          PROVE  ReplayFits(AuditState(connection), connection)' /\ WaitsFor(AuditState(connection), connection)'
      <4> DEFINE a == AuditState(connection)
                 b == AuditState(connection')
      <4>1. a \in AuditStates /\ b = AuditStep(a, Event("verification_started", d.generation)) /\ ~connection.cleaned
        BY <2>1, <3>2, <3>3 DEF SameButEvents
      <4>2. ReplayFits(a, connection) /\ WaitsFor(a, connection)
        BY <1>k, <2>8, <4>1
      <4> HIDE DEF a, b
      <4>3. AuditAllows(a, "verification_started") /\ d.generation = IF AuditAdvances(a, "verification_started") THEN a.generation + 1 ELSE a.generation
        BY <2>1, <2>2, <4>2 DEF AuditAllows, AuditAdvances, ReplayFits, WaitsFor, PhaseFits, Unexchanged
      <4>4. /\ b.phase = PhaseAfter["verification_started"] /\ b.generation = d.generation /\ b.accepted = a.accepted
            /\ b.exchanged = (a.exchanged \/ "verification_started" = "exchange_dispatched")
            /\ b.granted = (a.granted \/ "verification_started" = "grant_stored")
            /\ b.attempted = (a.attempted \/ "verification_started" = "verification_started")
            /\ b.waiting = ("verification_started" = "exchange_dispatched" \/ (a.waiting /\ "verification_started" \in {"locally_disabled", "consent_started"}))
        BY <1>w, <2>1, <4>1, <4>3, AuditAllowed DEF Connections
      <4>a. a.exchanged \in BOOLEAN /\ a.granted \in BOOLEAN /\ a.attempted \in BOOLEAN /\ a.waiting \in BOOLEAN
            /\ b.phase = "verifying"
        BY <4>1, <4>4 DEF AuditStates, PhaseAfter
      <4>c. b.exchanged = a.exchanged /\ b.granted = a.granted /\ b.attempted = TRUE /\ b.waiting = FALSE
        BY <4>4, <4>a
      <4>d. /\ a.accepted /\ a.generation = connection.generation
            /\ a.attempted = connection.attempted /\ a.granted = connection.provenance
            /\ PhaseFits(a.phase, connection)
            /\ IF a.exchanged THEN Held(connection) /\ client = "successor"
                  /\ connection.status \in {"exchanging", "authenticated", "disabled"}
                              ELSE Unexchanged(connection)
        BY <4>2 DEF ReplayFits
      <4>e. b.accepted /\ b.generation = connection'.generation
            /\ b.attempted = connection'.attempted /\ b.granted = connection'.provenance
        BY <2>1, <3>2, <4>4, <4>c, <4>d DEF SameButEvents, Left
      <4>f. PhaseFits(b.phase, connection')
        BY <2>1, <2>2, <3>2, <4>a, <4>d DEF PhaseFits, SameButEvents, Left
      <4>g. b.exchanged /\ Held(connection') /\ client' = "successor"
            /\ connection'.status \in {"exchanging", "authenticated", "disabled"}
        BY <2>1, <2>2, <2>8, <3>2, <4>2, <4>c, <4>d DEF Held, SameButEvents, WaitsFor, Unexchanged
      <4>5. ReplayFits(AuditState(connection), connection)'
        BY <4>e, <4>f, <4>g DEF b, ReplayFits
      <4>6. WaitsFor(AuditState(connection), connection)'
        BY <1>c, <1>m, <1>p, <2>1, <2>2, <3>2, <4>2, <4>4, <4>a, <4>c DEF b, WaitsFor, SameButEvents, Left
      <4> QED
        BY <4>5, <4>6
    <3> QED
      BY <1>3, <1>w, <2>1, <2>2, <3>1, <3>3
  <2>9. CASE connection.of # "successor"
    BY <1>o, <1>w, <2>1, <2>2, <2>9
  <2> QED
    BY <2>8, <2>9
<1>15. CASE StoreEvidence
  <2> DEFINE d == [connection EXCEPT !.evidence = TRUE]
  <2>1. d \in Connections /\ d.of = connection.of /\ d.events = connection.events
        /\ d.generation = connection.generation /\ d.status = connection.status
        /\ d.cleanup = connection.cleanup /\ d.credentials = connection.credentials
        /\ d.attempted = connection.attempted /\ d.provenance = connection.provenance /\ d.cleaned = connection.cleaned
    BY <1>t, <1>c DEF Connections
  <2>2. connection' = Audited(d, "verified") /\ connection.status = "authenticated"
        /\ probe.generation = connection.generation /\ probe.at # "none" /\ probe' = NoProbe
        /\ UNCHANGED <<client, archive, exchange, consent>> /\ ~Left(exchange)
    BY <1>0, <1>c, <1>15 DEF StoreEvidence, ProbeContext, SentForThis
  <2> HIDE DEF d
  <2>8. CASE connection.of = "successor"
    <3>1. AddsTo(d, "verified")
      BY <1>c, <1>k, <2>1, <2>2, <2>8 DEF AddsTo, SuccessorOf
    <3>2. /\ SameButEvents(connection', d) /\ AuditState(connection) \in AuditStates
          /\ AuditState(connection') = AuditStep(AuditState(connection), Event("verified", d.generation))
      BY <1>t, <1>w, <2>1, <3>1, HistoryGrows
    <3>3. ASSUME ~connection'.cleaned
          PROVE  ReplayFits(AuditState(connection), connection)' /\ WaitsFor(AuditState(connection), connection)'
      <4> DEFINE a == AuditState(connection)
                 b == AuditState(connection')
      <4>1. a \in AuditStates /\ b = AuditStep(a, Event("verified", d.generation)) /\ ~connection.cleaned
        BY <2>1, <3>2, <3>3 DEF SameButEvents
      <4>2. ReplayFits(a, connection) /\ WaitsFor(a, connection)
        BY <1>k, <2>8, <4>1
      <4> HIDE DEF a, b
      <4>b. a.phase = "verifying" /\ connection.attempted
        BY <2>2, <4>2 DEF WaitsFor, ReplayFits, PhaseFits
      <4>3. AuditAllows(a, "verified") /\ d.generation = IF AuditAdvances(a, "verified") THEN a.generation + 1 ELSE a.generation
        BY <4>b, <2>1, <2>2, <4>2 DEF AuditAllows, AuditAdvances, ReplayFits, WaitsFor, PhaseFits, Unexchanged
      <4>4. /\ b.phase = PhaseAfter["verified"] /\ b.generation = d.generation /\ b.accepted = a.accepted
            /\ b.exchanged = (a.exchanged \/ "verified" = "exchange_dispatched")
            /\ b.granted = (a.granted \/ "verified" = "grant_stored")
            /\ b.attempted = (a.attempted \/ "verified" = "verification_started")
            /\ b.waiting = ("verified" = "exchange_dispatched" \/ (a.waiting /\ "verified" \in {"locally_disabled", "consent_started"}))
        BY <1>w, <2>1, <4>1, <4>3, AuditAllowed DEF Connections
      <4>a. a.exchanged \in BOOLEAN /\ a.granted \in BOOLEAN /\ a.attempted \in BOOLEAN /\ a.waiting \in BOOLEAN
            /\ b.phase = "verified"
        BY <4>1, <4>4 DEF AuditStates, PhaseAfter
      <4>c. b.exchanged = a.exchanged /\ b.granted = a.granted /\ b.attempted = a.attempted /\ b.waiting = FALSE
        BY <4>4, <4>a
      <4>d. /\ a.accepted /\ a.generation = connection.generation
            /\ a.attempted = connection.attempted /\ a.granted = connection.provenance
            /\ PhaseFits(a.phase, connection)
            /\ IF a.exchanged THEN Held(connection) /\ client = "successor"
                  /\ connection.status \in {"exchanging", "authenticated", "disabled"}
                              ELSE Unexchanged(connection)
        BY <4>2 DEF ReplayFits
      <4>e. b.accepted /\ b.generation = connection'.generation
            /\ b.attempted = connection'.attempted /\ b.granted = connection'.provenance
        BY <2>1, <3>2, <4>4, <4>c, <4>d DEF SameButEvents, Left
      <4>f. PhaseFits(b.phase, connection')
        BY <4>b, <2>1, <2>2, <3>2, <4>a, <4>d DEF PhaseFits, SameButEvents, Left
      <4>g. b.exchanged /\ Held(connection') /\ client' = "successor"
            /\ connection'.status \in {"exchanging", "authenticated", "disabled"}
        BY <4>b, <2>1, <2>2, <2>8, <3>2, <4>2, <4>c, <4>d DEF Held, SameButEvents, WaitsFor, Unexchanged
      <4>5. ReplayFits(AuditState(connection), connection)'
        BY <4>e, <4>f, <4>g DEF b, ReplayFits
      <4>6. WaitsFor(AuditState(connection), connection)'
        BY <1>c, <1>m, <1>p, <2>1, <2>2, <3>2, <4>2, <4>4, <4>a, <4>c DEF b, WaitsFor, SameButEvents, Left
      <4> QED
        BY <4>5, <4>6
    <3> QED
      BY <1>3, <1>w, <2>1, <2>2, <3>1, <3>3
  <2>9. CASE connection.of # "successor"
    BY <1>o, <1>w, <2>1, <2>2, <2>9
  <2> QED
    BY <2>8, <2>9
<1>16. ASSUME ProbeFails, connection' = Unverified(connection), connection.generation = probe.generation
       PROVE  AuditInv'
  <2> DEFINE d == [connection EXCEPT !.status = "disabled", !.generation = @ + 1, !.cleanup = "token",
                                     !.credentials = 0, !.evidence = FALSE]
  <2>1. d \in Connections /\ d.of = connection.of /\ d.events = connection.events
        /\ d.generation = connection.generation + 1 /\ d.status = "disabled"
        /\ d.cleanup = "token"
        /\ d.attempted = connection.attempted /\ d.provenance = connection.provenance /\ d.cleaned = connection.cleaned
    BY <1>t, <1>c DEF Connections, Statuses
  <2>2. connection' = Audited(d, "verification_failed_disabled")
        /\ probe.generation = connection.generation /\ probe.at # "none" /\ probe' = NoProbe
        /\ UNCHANGED <<client, archive, exchange, consent>>
    BY <1>16 DEF ProbeFails, Unverified
  <2> HIDE DEF d
  <2>8. CASE connection.of = "successor"
    <3>1. AddsTo(d, "verification_failed_disabled")
      BY <1>c, <1>k, <2>1, <2>2, <2>8 DEF AddsTo, SuccessorOf
    <3>2. /\ SameButEvents(connection', d) /\ AuditState(connection) \in AuditStates
          /\ AuditState(connection') = AuditStep(AuditState(connection), Event("verification_failed_disabled", d.generation))
      BY <1>t, <1>w, <2>1, <3>1, HistoryGrows
    <3>3. ASSUME ~connection'.cleaned
          PROVE  ReplayFits(AuditState(connection), connection)' /\ WaitsFor(AuditState(connection), connection)'
      <4> DEFINE a == AuditState(connection)
                 b == AuditState(connection')
      <4>1. a \in AuditStates /\ b = AuditStep(a, Event("verification_failed_disabled", d.generation)) /\ ~connection.cleaned
        BY <2>1, <3>2, <3>3 DEF SameButEvents
      <4>2. ReplayFits(a, connection) /\ WaitsFor(a, connection)
        BY <1>k, <2>8, <4>1
      <4> HIDE DEF a, b
      <4>b. a.phase = "verifying" /\ connection.status = "authenticated" /\ connection.attempted /\ ~Left(exchange)
        BY <1>0, <2>2, <4>2 DEF WaitsFor, ReplayFits, PhaseFits, SentForThis
      <4>3. AuditAllows(a, "verification_failed_disabled") /\ d.generation = IF AuditAdvances(a, "verification_failed_disabled") THEN a.generation + 1 ELSE a.generation
        BY <4>b, <2>1, <2>2, <4>2 DEF AuditAllows, AuditAdvances, ReplayFits, WaitsFor, PhaseFits, Unexchanged
      <4>4. /\ b.phase = PhaseAfter["verification_failed_disabled"] /\ b.generation = d.generation /\ b.accepted = a.accepted
            /\ b.exchanged = (a.exchanged \/ "verification_failed_disabled" = "exchange_dispatched")
            /\ b.granted = (a.granted \/ "verification_failed_disabled" = "grant_stored")
            /\ b.attempted = (a.attempted \/ "verification_failed_disabled" = "verification_started")
            /\ b.waiting = ("verification_failed_disabled" = "exchange_dispatched" \/ (a.waiting /\ "verification_failed_disabled" \in {"locally_disabled", "consent_started"}))
        BY <1>w, <2>1, <4>1, <4>3, AuditAllowed DEF Connections
      <4>a. a.exchanged \in BOOLEAN /\ a.granted \in BOOLEAN /\ a.attempted \in BOOLEAN /\ a.waiting \in BOOLEAN
            /\ b.phase = "disabled"
        BY <4>1, <4>4 DEF AuditStates, PhaseAfter
      <4>c. b.exchanged = a.exchanged /\ b.granted = a.granted /\ b.attempted = a.attempted /\ b.waiting = FALSE
        BY <4>4, <4>a
      <4>d. /\ a.accepted /\ a.generation = connection.generation
            /\ a.attempted = connection.attempted /\ a.granted = connection.provenance
            /\ PhaseFits(a.phase, connection)
            /\ IF a.exchanged THEN Held(connection) /\ client = "successor"
                  /\ connection.status \in {"exchanging", "authenticated", "disabled"}
                              ELSE Unexchanged(connection)
        BY <4>2 DEF ReplayFits
      <4>e. b.accepted /\ b.generation = connection'.generation
            /\ b.attempted = connection'.attempted /\ b.granted = connection'.provenance
        BY <2>1, <3>2, <4>4, <4>c, <4>d DEF SameButEvents, Left
      <4>f. PhaseFits(b.phase, connection')
        BY <4>b, <2>1, <2>2, <3>2, <4>a, <4>d DEF PhaseFits, SameButEvents, Left
      <4>g. b.exchanged /\ Held(connection') /\ client' = "successor"
            /\ connection'.status \in {"exchanging", "authenticated", "disabled"}
        BY <4>b, <2>1, <2>2, <2>8, <3>2, <4>2, <4>c, <4>d DEF Held, SameButEvents, WaitsFor, Unexchanged
      <4>5. ReplayFits(AuditState(connection), connection)'
        BY <4>e, <4>f, <4>g DEF b, ReplayFits
      <4>6. WaitsFor(AuditState(connection), connection)'
        BY <4>b, <1>c, <1>m, <1>p, <2>1, <2>2, <3>2, <4>2, <4>4, <4>a, <4>c DEF b, WaitsFor, SameButEvents, Left
      <4> QED
        BY <4>5, <4>6
    <3> QED
      BY <1>3, <1>w, <2>1, <2>2, <3>1, <3>3
  <2>9. CASE connection.of # "successor"
    BY <1>o, <1>w, <2>1, <2>2, <2>9
  <2> QED
    BY <2>8, <2>9
<1>17. CASE ProbeFails
  <2>1. CASE connection' = connection
    <3>1. UNCHANGED <<connection, client, archive, exchange, consent>> /\ probe' = NoProbe
      BY <1>17, <2>1 DEF ProbeFails
    <3> QED
      BY <1>1, <1>p, <3>1 DEF Left
  <2>2. CASE connection' # connection
    BY <1>16, <1>17, <2>2 DEF ProbeFails
  <2> QED
    BY <2>1, <2>2
<1>18. ASSUME NEW s \in Sessions, Authorise(s) PROVE AuditInv'
  <2> DEFINE fresh == [NoConnection EXCEPT !.of = "original", !.generation = 1, !.status = "authorising"]
             next == [connection EXCEPT !.generation = @ + 1, !.status = "authorising"]
             d == IF connection.of = "none" THEN fresh ELSE next
  <2>a. fresh \in Connections /\ fresh.of = "original"
    BY NothingTyped DEF Connections, Statuses
  <2>b. next \in Connections /\ next.of = connection.of /\ next.events = connection.events
        /\ next.generation = connection.generation + 1 /\ next.status = "authorising"
        /\ next.cleanup = connection.cleanup /\ next.credentials = connection.credentials
        /\ next.attempted = connection.attempted /\ next.provenance = connection.provenance
        /\ next.cleaned = connection.cleaned
    BY <1>t, <1>c DEF Connections, Statuses
  <2> HIDE DEF fresh, next
  <2>1. d \in Connections /\ (connection.of = "none" => d.of = "original") /\ (connection.of # "none" => d = next)
    BY <2>a, <2>b
  <2>2. connection' = Audited(d, "consent_started")
        /\ (connection.of = "successor" => PendingSuccessor(connection) /\ client = "successor")
        /\ UNCHANGED <<client, archive, probe, exchange, consent>>
    BY <1>18 DEF Authorise, fresh, next
  <2>3. connection.of = "successor" =>
          /\ connection.status = "successor_pending" /\ connection.generation = 4 /\ ~connection.attempted
          /\ connection.events = <<Event("successor_prepared", 4)>>
    BY <2>2 DEF PendingSuccessor, NoConnection
  <2> HIDE DEF d
  <2>8. CASE connection.of = "successor"
    <3>1. AddsTo(d, "consent_started")
      BY <1>c, <1>k, <2>1, <2>2, <2>8, <2>a, <2>b DEF AddsTo, SuccessorOf
    <3>2. /\ SameButEvents(connection', d) /\ AuditState(connection) \in AuditStates
          /\ AuditState(connection') = AuditStep(AuditState(connection), Event("consent_started", d.generation))
      BY <1>t, <1>w, <2>1, <3>1, HistoryGrows
    <3>3. ASSUME ~connection'.cleaned
          PROVE  ReplayFits(AuditState(connection), connection)' /\ WaitsFor(AuditState(connection), connection)'
      <4> DEFINE a == AuditState(connection)
                 b == AuditState(connection')
      <4>1. a \in AuditStates /\ b = AuditStep(a, Event("consent_started", d.generation)) /\ ~connection.cleaned
        BY <2>1, <2>8, <2>b, <3>2, <3>3 DEF SameButEvents
      <4>2. ReplayFits(a, connection) /\ WaitsFor(a, connection)
        BY <1>k, <2>8, <4>1
      <4> HIDE DEF a, b
      <4>3. AuditAllows(a, "consent_started") /\ d.generation = IF AuditAdvances(a, "consent_started") THEN a.generation + 1 ELSE a.generation
        BY <2>3, <2>8, <2>b, <2>1, <2>2, <4>2 DEF AuditAllows, AuditAdvances, ReplayFits, WaitsFor, PhaseFits, Unexchanged
      <4>4. /\ b.phase = PhaseAfter["consent_started"] /\ b.generation = d.generation /\ b.accepted = a.accepted
            /\ b.exchanged = (a.exchanged \/ "consent_started" = "exchange_dispatched")
            /\ b.granted = (a.granted \/ "consent_started" = "grant_stored")
            /\ b.attempted = (a.attempted \/ "consent_started" = "verification_started")
            /\ b.waiting = ("consent_started" = "exchange_dispatched" \/ (a.waiting /\ "consent_started" \in {"locally_disabled", "consent_started"}))
        BY <1>w, <2>1, <4>1, <4>3, AuditAllowed DEF Connections
      <4>a. a.exchanged \in BOOLEAN /\ a.granted \in BOOLEAN /\ a.attempted \in BOOLEAN /\ a.waiting \in BOOLEAN
            /\ b.phase = "authorising"
        BY <4>1, <4>4 DEF AuditStates, PhaseAfter
      <4>c. b.exchanged = a.exchanged /\ b.granted = a.granted /\ b.attempted = a.attempted /\ b.waiting = a.waiting
        BY <4>4, <4>a
      <4>b. connection.status = "successor_pending" /\ ~connection.attempted /\ d.status = "authorising"
        BY <2>1, <2>3, <2>8, <2>b
      <4>d. /\ a.accepted /\ a.generation = connection.generation
            /\ a.attempted = connection.attempted /\ a.granted = connection.provenance
            /\ PhaseFits(a.phase, connection)
            /\ IF a.exchanged THEN Held(connection) /\ client = "successor"
                  /\ connection.status \in {"exchanging", "authenticated", "disabled"}
                              ELSE Unexchanged(connection)
        BY <4>2 DEF ReplayFits
      <4>e. b.accepted /\ b.generation = connection'.generation
            /\ b.attempted = connection'.attempted /\ b.granted = connection'.provenance
        BY <2>1, <2>8, <2>b, <3>2, <4>4, <4>c, <4>d DEF SameButEvents
      <4>f. PhaseFits(b.phase, connection')
        BY <4>b, <2>1, <2>2, <3>2, <4>a, <4>d, <2>8, <2>b DEF PhaseFits, SameButEvents
      <4>i. connection'.events = <<Event("successor_prepared", 4), Event("consent_started", 5)>>
        <5> DEFINE x == Event("successor_prepared", 4)
                   y == Event("consent_started", 5)
        <5>0. d \in Connections /\ d.generation = 5 /\ d.events = connection.events
          BY <2>1, <2>3, <2>8, <2>b
        <5>1. connection'.events = Append(connection.events, y)
          BY <1>w, <2>2, <5>0, AuditedTyped
        <5>2. Append(<<x>>, y) = <<x, y>>
          BY AppendToOne
        <5> QED
          BY <2>3, <2>8, <5>1, <5>2 DEF x, y
      <4>g. ~a.exchanged /\ ~b.exchanged
        BY <4>b, <4>c, <4>d
      <4>h. Unexchanged(connection)'
        BY <2>1, <2>3, <2>8, <2>b, <3>2, <4>b, <4>d, <4>g, <4>i DEF Unexchanged, SameButEvents
      <4>5. ReplayFits(AuditState(connection), connection)'
        BY <4>e, <4>f, <4>g, <4>h DEF b, ReplayFits
      <4>6. WaitsFor(AuditState(connection), connection)'
        BY <1>0, <1>c, <1>m, <2>1, <2>2, <2>b, <2>8, <3>2, <4>2, <4>b DEF b, WaitsFor, SameButEvents, SentForThis, Left
      <4> QED
        BY <4>5, <4>6
    <3> QED
      BY <1>3, <1>w, <2>1, <2>2, <3>1, <3>3
  <2>9. CASE connection.of # "successor"
    BY <1>o, <1>w, <2>1, <2>2, <2>9, <2>b
  <2> QED
    BY <2>8, <2>9
<1>19. ASSUME NEW s \in Sessions, Disable(s) PROVE AuditInv'
  <2> DEFINE k == IF connection.credentials # 0 THEN "token" ELSE connection.cleanup
             d == [connection EXCEPT !.generation = @ + 1, !.status = "disabled", !.cleanup = k,
                                     !.credentials = 0, !.evidence = FALSE]
  <2>a. k \in {"none", "unknown", "token"} /\ (Held(connection) <=> k # "none")
    BY <1>c DEF Held
  <2>2. connection' = Audited(d, "locally_disabled") /\ UNCHANGED <<client, archive, exchange, probe, consent>>
        /\ (connection.of = "successor" => connection.status # "disabled")
    BY <1>19 DEF Disable, Loads, RepeatsNothing
  <2> HIDE DEF k
  <2>1. d \in Connections /\ d.of = connection.of /\ d.events = connection.events
        /\ d.generation = connection.generation + 1 /\ d.status = "disabled" /\ d.cleanup = k /\ d.credentials = 0
        /\ d.attempted = connection.attempted /\ d.provenance = connection.provenance /\ d.cleaned = connection.cleaned
    BY <1>t, <1>c, <2>a DEF Connections, Statuses
  <2> HIDE DEF d
  <2>8. CASE connection.of = "successor"
    <3>1. AddsTo(d, "locally_disabled")
      BY <1>c, <1>k, <2>1, <2>2, <2>8 DEF AddsTo, SuccessorOf
    <3>2. /\ SameButEvents(connection', d) /\ AuditState(connection) \in AuditStates
          /\ AuditState(connection') = AuditStep(AuditState(connection), Event("locally_disabled", d.generation))
      BY <1>t, <1>w, <2>1, <3>1, HistoryGrows
    <3>3. ASSUME ~connection'.cleaned
          PROVE  ReplayFits(AuditState(connection), connection)' /\ WaitsFor(AuditState(connection), connection)'
      <4> DEFINE a == AuditState(connection)
                 b == AuditState(connection')
      <4>1. a \in AuditStates /\ b = AuditStep(a, Event("locally_disabled", d.generation)) /\ ~connection.cleaned
        BY <2>1, <3>2, <3>3 DEF SameButEvents
      <4>2. ReplayFits(a, connection) /\ WaitsFor(a, connection)
        BY <1>k, <2>8, <4>1
      <4> HIDE DEF a, b
      <4>3. AuditAllows(a, "locally_disabled") /\ d.generation = IF AuditAdvances(a, "locally_disabled") THEN a.generation + 1 ELSE a.generation
        BY <2>1, <2>2, <4>2 DEF AuditAllows, AuditAdvances, ReplayFits, WaitsFor, PhaseFits, Unexchanged
      <4>4. /\ b.phase = PhaseAfter["locally_disabled"] /\ b.generation = d.generation /\ b.accepted = a.accepted
            /\ b.exchanged = (a.exchanged \/ "locally_disabled" = "exchange_dispatched")
            /\ b.granted = (a.granted \/ "locally_disabled" = "grant_stored")
            /\ b.attempted = (a.attempted \/ "locally_disabled" = "verification_started")
            /\ b.waiting = ("locally_disabled" = "exchange_dispatched" \/ (a.waiting /\ "locally_disabled" \in {"locally_disabled", "consent_started"}))
        BY <1>w, <2>1, <4>1, <4>3, AuditAllowed DEF Connections
      <4>a. a.exchanged \in BOOLEAN /\ a.granted \in BOOLEAN /\ a.attempted \in BOOLEAN /\ a.waiting \in BOOLEAN
            /\ b.phase = "disabled"
        BY <4>1, <4>4 DEF AuditStates, PhaseAfter
      <4>c. b.exchanged = a.exchanged /\ b.granted = a.granted /\ b.attempted = a.attempted /\ b.waiting = a.waiting
        BY <4>4, <4>a
      <4>b. d.status = "disabled"
        BY <2>1
      <4>d. /\ a.accepted /\ a.generation = connection.generation
            /\ a.attempted = connection.attempted /\ a.granted = connection.provenance
            /\ PhaseFits(a.phase, connection)
            /\ IF a.exchanged THEN Held(connection) /\ client = "successor"
                  /\ connection.status \in {"exchanging", "authenticated", "disabled"}
                              ELSE Unexchanged(connection)
        BY <4>2 DEF ReplayFits
      <4>e. b.accepted /\ b.generation = connection'.generation
            /\ b.attempted = connection'.attempted /\ b.granted = connection'.provenance
        BY <2>1, <3>2, <4>4, <4>c, <4>d DEF SameButEvents
      <4>f. PhaseFits(b.phase, connection')
        BY <4>b, <2>1, <2>2, <3>2, <4>a, <4>d DEF PhaseFits, SameButEvents
      <4>g. a.exchanged => b.exchanged /\ Held(connection') /\ client' = "successor" /\ connection'.status = "disabled"
        BY <2>1, <2>2, <2>a, <3>2, <4>c, <4>d DEF Held, SameButEvents
      <4>j. connection'.events = Append(connection.events, Event("locally_disabled", connection.generation + 1))
        BY <1>w, <2>1, <2>2, AuditedTyped
      <4>i. ASSUME ~a.exchanged PROVE Unexchanged(connection)'
        <5>1. Unexchanged(connection) /\ k = "none"
          BY <2>a, <4>d, <4>i DEF Unexchanged, Held
        <5> DEFINE x == Event("successor_prepared", 4)
                   y == Event("consent_started", 5)
                   u == Event("locally_disabled", 5)
                   v == Event("locally_disabled", 6)
        <5>2. Append(<<x>>, u) = <<x, u>> /\ Append(<<x, y>>, v) = <<x, y, v>>
          BY AppendToOne, AppendToTwo
        <5>3. CASE connection.status = "successor_pending"
          <6>1. connection.generation = 4 /\ connection.events = <<x>>
            BY <5>1, <5>3 DEF Unexchanged
          <6>2. connection'.events = <<x, u>>
            BY <4>j, <5>2, <6>1
          <6> QED
            BY <2>1, <3>2, <5>1, <6>1, <6>2 DEF Unexchanged, SameButEvents
        <5>4. CASE connection.status = "authorising"
          <6>1. connection.generation = 5 /\ connection.events = <<x, y>> /\ client = "successor"
            BY <1>0, <2>8, <5>1, <5>4 DEF Unexchanged, Asking
          <6>2. connection'.events = <<x, y, v>>
            BY <4>j, <5>2, <6>1
          <6> QED
            BY <2>1, <2>2, <3>2, <5>1, <6>1, <6>2 DEF Unexchanged, SameButEvents
        <5> QED
          BY <2>2, <2>8, <5>1, <5>3, <5>4 DEF Unexchanged
      <4>h. ~a.exchanged => ~b.exchanged /\ Unexchanged(connection)'
        BY <4>c, <4>i

      <4>5. ReplayFits(AuditState(connection), connection)'
        BY <4>e, <4>f, <4>g, <4>h DEF b, ReplayFits
      <4>6. WaitsFor(AuditState(connection), connection)'
        BY <1>c, <1>m, <2>1, <2>2, <3>2, <4>2, <4>c DEF b, WaitsFor, SameButEvents, Left
      <4> QED
        BY <4>5, <4>6
    <3> QED
      BY <1>3, <1>w, <2>1, <2>2, <3>1, <3>3
  <2>9. CASE connection.of # "successor"
    BY <1>o, <1>w, <2>1, <2>2, <2>9
  <2> QED
    BY <2>8, <2>9
<1>20. CASE Outside
  <2>1. UNCHANGED <<stored, memory>>
    BY <1>20 DEF Outside, Decide, ProviderGrants, Revoke, ChangeOwner, CloseWindow
  <2>2. consent'["successor"] = consent["successor"] \/ consent["successor"] # "none" \/ HandedOut("successor")
    <3>1. ASSUME NEW m \in Manifests,
                 (\E d \in {"consented", "rejected"} : Decide(m, d)) \/ ProviderGrants(m) \/ Revoke(m)
          PROVE  consent'["successor"] = consent["successor"] \/ consent["successor"] # "none" \/ HandedOut("successor")
      <4>1. m # "successor" => consent'["successor"] = consent["successor"]
        BY <1>t, <3>1 DEF Decide, ProviderGrants, Revoke, Manifests
      <4>2. consent[m] # "none" \/ HandedOut(m)
        BY <3>1 DEF Decide, ProviderGrants, Revoke
      <4> QED
        BY <4>1, <4>2
    <3>2. ASSUME (\E m \in Manifests : CloseWindow(m)) \/ \E s \in Sessions : ChangeOwner(s)
          PROVE  UNCHANGED consent
      BY <3>2 DEF CloseWindow, ChangeOwner
    <3> QED
      BY <1>20, <3>1, <3>2 DEF Outside
  <2> QED
    BY <1>1, <2>1, <2>2 DEF stored, memory, Left
<1>21. CASE UNCHANGED consentVars
  <2>1. UNCHANGED <<stored, memory, consent>>
    BY <1>21 DEF consentVars
  <2> QED
    BY <1>1, <2>1 DEF stored, memory, Left
<1>22. CASE Script
  BY <1>4, <1>5, <1>6, <1>7, <1>22 DEF Script
<1>23. CASE ServiceStep
  <2>1. ASSUME NEW s \in Sessions, \/ \E op \in {"authorise", "verify", "disable"} : Admit(s, op)
                                   \/ Refused(s) \/ Authorise(s) \/ TakeState(s) \/ BeginVerify(s) \/ Disable(s)
        PROVE  AuditInv'
    BY <1>8, <1>14, <1>18, <1>19, <2>1
  <2>2. ASSUME (\E m \in Manifests, e \in BOOLEAN : Start(m, e)) \/ Stop \/ SaveFails \/ StateExpires
        PROVE  AuditInv'
    <3>1. UNCHANGED <<stored, consent>> /\ (probe' = probe \/ probe' = NoProbe)
          /\ (exchange' = exchange \/ exchange' = NoExchange)
      BY <2>2 DEF Start, Stop, SaveFails, NoMemory, StateExpires, memory
    <3> QED
      BY <1>1, <1>p, <3>1 DEF Left, stored
  <2> QED
    BY <1>9, <1>10, <1>11, <1>12, <1>13, <1>15, <1>17, <1>23, <2>1, <2>2 DEF ServiceStep
<1> QED
  BY <1>20, <1>21, <1>22, <1>23 DEF ConsentNext

\* A successor that ended before its code left: its history is one of the two
\* the cleanup knows, and the consent was given only if it had been asked for.
LEMMA UnexchangedCanBeCleaned ==
  ASSUME ConsentInv, AuditInv, connection.of = "successor", connection.status = "disabled", ~connection.cleaned,
         ~AuditState(connection).exchanged
  PROVE  LET kind == IF consent["successor"] \in {"none", "rejected"} THEN "noGrantIssued"
                     ELSE "consentRevokedBeforeExchange"
         IN  /\ CASE kind = "noGrantIssued" ->
                         NothingExchanged(connection, {CancelledBeforeConsent, CancelledAfterConsent})
                    [] kind = "consentRevokedBeforeExchange" ->
                         ~AuditState(connection).exchanged /\ NothingExchanged(connection, {CancelledAfterConsent})
                    [] kind = "providerRevocationConfirmed" ->
                         AuditState(connection).exchanged /\ connection.cleanup # "none"
             /\ client = "successor" \/ (client = "none" /\ kind = "noGrantIssued")
<1>1. Unexchanged(connection) /\ client \in {"none", "successor"}
  BY DEF AuditInv, ReplayFits, SuccessorOf
<1> DEFINE es == connection.events
           x == Event("successor_prepared", 4)
           y == Event("consent_started", 5)
           u == Event("locally_disabled", 5)
           v == Event("locally_disabled", 6)
<1>2. /\ connection.cleanup = "none" /\ ~connection.provenance /\ ~connection.attempted
      /\ es = <<x, u>> \/ (es = <<x, y, v>> /\ client = "successor")
  BY <1>1 DEF Unexchanged
<1>3. x.event = "successor_prepared" /\ y.event = "consent_started" /\ u.event = "locally_disabled"
      /\ v.event = "locally_disabled" /\ x.generation = 4 /\ y.generation = 5 /\ u.generation = 5 /\ v.generation = 6
  BY DEF Event
<1> HIDE DEF x, y, u, v
<1>4. CASE es = <<x, u>>
  <2>1. DOMAIN es = 1..2 /\ es[1] = x /\ es[2] = u
    BY <1>4
  <2>2. EventNames(connection) = CancelledBeforeConsent
    BY <1>3, <2>1 DEF EventNames, CancelledBeforeConsent
  <2>3. \A i \in DOMAIN es : es[i].generation = 3 + i
    BY <1>3, <2>1
  <2>4. consent["successor"] = "none"
    BY <1>3, <2>1 DEF AuditInv, HandedOut
  <2> QED
    BY <1>1, <1>2, <2>2, <2>3, <2>4 DEF NothingExchanged
<1>5. CASE es = <<x, y, v>> /\ client = "successor"
  <2>1. DOMAIN es = 1..3 /\ es[1] = x /\ es[2] = y /\ es[3] = v
    BY <1>5
  <2>2. EventNames(connection) = CancelledAfterConsent
    BY <1>3, <2>1 DEF EventNames, CancelledAfterConsent
  <2>3. \A i \in DOMAIN es : es[i].generation = 3 + i
    BY <1>3, <2>1
  <2> QED
    BY <1>2, <1>5, <2>2, <2>3 DEF NothingExchanged
<1> QED
  BY <1>2, <1>4, <1>5

LEMMA EndsCanBeCleaned == ConsentInv /\ AuditInv => EveryEndCanBeCleaned
<1> SUFFICES ASSUME ConsentInv, AuditInv, connection.of = "successor", connection.status = "disabled",
                    ~connection.cleaned
             PROVE  CleanupAccepts(connection, Evidence)
  BY DEF EveryEndCanBeCleaned
<1> DEFINE a == AuditState(connection)
<1>1. SuccessorOf(connection) /\ ReplayFits(a, connection)
  BY DEF AuditInv
<1>2. SuccessorRecord(connection) /\ connection.generation > 4
  <2>1. connection.generation >= 5
    BY <1>1 DEF SuccessorOf
  <2>2. connection.generation \in Nat
    BY DEF ConsentInv, ConsentTypes, Connections
  <2> QED
    BY <1>1, <2>1, <2>2 DEF SuccessorOf, SuccessorRecord
<1>3. connection.credentials = 0 /\ ~connection.evidence
  BY DEF ConsentInv, Sound
<1>4. AuditAgrees(connection)
  BY <1>1 DEF AuditAgrees, SuccessorOf, ReplayFits, PhaseFits
<1>5. CASE a.exchanged
  <2>1. Held(connection) /\ client = "successor"
    BY <1>1, <1>5 DEF ReplayFits
  <2>2. connection.cleanup # "none" /\ Evidence = "providerRevocationConfirmed"
    BY <1>3, <1>5, <2>1 DEF Held, Evidence
  <2> QED
    BY <1>2, <1>3, <1>4, <1>5, <2>1, <2>2 DEF CleanupAccepts
<1>6. CASE ~a.exchanged
  BY <1>2, <1>3, <1>4, <1>6, UnexchangedCanBeCleaned DEF CleanupAccepts, Evidence
<1> QED
  BY <1>5, <1>6

\* However a successor came to be disabled, its cleanup is not refused for its
\* history: for any sessions, crashes, late answers and disables in any order.
THEOREM EveryEndCleaned == ConsentSpec => []EveryEndCanBeCleaned
<1>1. ConsentInit => ConsentInv /\ AuditInv
  BY ConsentInitInv, AuditInitInv
<1>2. ConsentInv /\ AuditInv /\ [ConsentNext]_consentVars => ConsentInv' /\ AuditInv'
  BY ConsentNextInv, AuditNextInv
<1> QED
  BY <1>1, <1>2, EndsCanBeCleaned, PTL DEF ConsentSpec

-----------------------------------------------------------------------------
(* The credential store *)

VaultTypes ==
  /\ handle \in [Openers -> Handle]
  /\ file \subseteq Updates /\ refused \subseteq Updates

\* Who has a handle, or died with one, holds the lock: one process at most.
LockOfHandle == \A p \in Openers : handle[p].at # "closed" => lock = p

\* A change runs in an open handle only; it keeps what it read of the file,
\* which does not hold the update until the rename, and holds it after.
ChangeOf(h) ==
  /\ h.at # "open" => h.step = "none"
  /\ h.step = "none" => h.update = NoUpdate
  /\ h.step # "none" => h.update \in Updates
  /\ h.step = "read" => h.value = file
  /\ h.step \in {"queued", "renaming"} => h.value = file \cup {h.update}
  /\ h.step \in {"read", "queued", "renaming"} => h.update \notin file \cup refused
  /\ h.step = "renamed" => h.update \in file

ChangesReadFile == \A p \in Openers : ChangeOf(handle[p])

VaultInv == VaultTypes /\ LockOfHandle /\ ChangesReadFile /\ AnswersAreTrue

LEMMA VaultInitInv == VaultInit => VaultInv
BY VaultAssumption DEF VaultInit, VaultInv, VaultTypes, LockOfHandle, ChangesReadFile, ChangeOf, AnswersAreTrue, Handle, Closed

\* A step of the one process that holds the lock, from what it leaves of its
\* own change: the handles of the others are closed, with or without it.
LEMMA OwnStep ==
  ASSUME VaultInv, NEW p \in Openers, handle[p].at # "closed", NEW h \in Handle,
         handle' = [handle EXCEPT ![p] = h], lock' \in {lock, NoOpener},
         h.at # "closed" => lock' = lock,
         file' \subseteq Updates, refused' \subseteq Updates,
         ChangeOf(handle[p])', AnswersAreTrue'
  PROVE  VaultInv'
<1>1. \A q \in Openers : q # p => handle'[q] = handle[q] /\ handle[q].at = "closed"
  BY DEF VaultInv, VaultTypes, LockOfHandle
<1>2. handle'[p] = h /\ VaultTypes'
  BY DEF VaultInv, VaultTypes
<1>3. LockOfHandle'
  BY <1>1, <1>2 DEF VaultInv, LockOfHandle
<1>4. ASSUME NEW q \in Openers, q # p PROVE ChangeOf(handle[q])'
  <2>1. handle[q].at = "closed" /\ handle'[q] = handle[q] /\ handle[q].step = "none" /\ handle[q].update = NoUpdate
    BY <1>1, <1>4 DEF VaultInv, ChangesReadFile, ChangeOf
  <2> QED
    BY <2>1 DEF ChangeOf
<1> QED
  BY <1>2, <1>3, <1>4 DEF VaultInv, ChangesReadFile

LEMMA VaultNextInv == VaultInv /\ [VaultNext]_vaultVars => VaultInv'
<1> SUFFICES ASSUME VaultInv, [VaultNext]_vaultVars PROVE VaultInv'
  OBVIOUS
<1>0. Closed \in Handle /\ Closed.at = "closed" /\ Closed.step = "none" /\ Closed.update = NoUpdate
  BY DEF Closed, Handle
<1>a. ASSUME NEW p \in Openers PROVE handle[p] \in Handle /\ ChangeOf(handle[p])
  BY <1>a DEF VaultInv, VaultTypes, ChangesReadFile
<1>b. ASSUME NEW h \in Handle, h.at = "open" PROVE Settled(h) \in Handle /\ Settled(h).at = "open" /\ Settled(h).step = "none" /\ Settled(h).update = NoUpdate
  BY <1>b DEF Settled, Handle
<1>1. ASSUME NEW p \in Openers, OpenVault(p) PROVE VaultInv'
  <2>1. VaultTypes' /\ AnswersAreTrue'
    BY <1>1 DEF OpenVault, VaultInv, VaultTypes, Handle, AnswersAreTrue
  <2>2. LockOfHandle'
    BY <1>1, VaultAssumption DEF OpenVault, VaultInv, VaultTypes, LockOfHandle
  <2>3. ChangesReadFile'
    BY <1>1 DEF OpenVault, VaultInv, VaultTypes, Handle, ChangesReadFile, ChangeOf
  <2> QED
    BY <2>1, <2>2, <2>3 DEF VaultInv
<1>2. ASSUME NEW p \in Openers, OpeningFails(p) PROVE VaultInv'
  <2>1. CASE handle[p].at = "opening"
    <3>1. handle' = [handle EXCEPT ![p] = Closed] /\ lock' = NoOpener /\ UNCHANGED <<file, acked, refused>>
      BY <1>2, <2>1 DEF OpeningFails, LockAfterFailure
    <3>2. ChangeOf(handle[p])' /\ AnswersAreTrue'
      BY <1>0, <3>1 DEF ChangeOf, VaultInv, VaultTypes, AnswersAreTrue
    <3> QED
      BY <1>0, <2>1, <3>1, <3>2, OwnStep DEF VaultInv, VaultTypes
  <2>2. CASE handle[p].at = "closed"
    <3>1. handle' = [handle EXCEPT ![p] = Closed] /\ UNCHANGED <<file, lock, acked, refused>>
      BY <1>2, <2>2 DEF OpeningFails, LockAfterFailure
    <3>2. VaultTypes' /\ LockOfHandle' /\ AnswersAreTrue'
      BY <1>0, <3>1 DEF VaultInv, VaultTypes, LockOfHandle, AnswersAreTrue
    <3>3. ChangesReadFile'
      BY <1>0, <3>1 DEF VaultInv, VaultTypes, ChangesReadFile, ChangeOf
    <3> QED
      BY <3>2, <3>3 DEF VaultInv
  <2> QED
    BY <1>2, <2>1, <2>2 DEF OpeningFails
<1>3. ASSUME NEW p \in Openers,
             Opened(p) \/ BeginClose(p) \/ WriteTemp(p) \/ ProcessDies(p) \/ (\E u \in Updates : ReadStore(p, u))
      PROVE  VaultInv'
  <2>1. PICK h \in Handle :
           /\ handle' = [handle EXCEPT ![p] = h] /\ handle[p].at # "closed" /\ h.at # "closed" /\ ChangeOf(h)
           /\ UNCHANGED <<file, lock, acked, refused>>
    <3>1. CASE Opened(p)
      <4>1. [handle[p] EXCEPT !.at = "open"] \in Handle /\ ChangeOf([handle[p] EXCEPT !.at = "open"])
        BY <1>a, <3>1 DEF Handle, ChangeOf, Opened
      <4> QED
        BY <3>1, <4>1 DEF Opened, Handle
    <3>2. CASE BeginClose(p)
      <4>1. [handle[p] EXCEPT !.closing = TRUE] \in Handle /\ ChangeOf([handle[p] EXCEPT !.closing = TRUE])
        BY <1>a DEF Handle, ChangeOf
      <4> QED
        BY <1>a, <3>2, <4>1 DEF BeginClose, Handle
    <3>3. CASE WriteTemp(p)
      <4>1. [handle[p] EXCEPT !.step = "renaming"] \in Handle /\ ChangeOf([handle[p] EXCEPT !.step = "renaming"])
        BY <1>a, <3>3 DEF Handle, ChangeOf, WriteTemp, Active
      <4> QED
        BY <1>a, <3>3, <4>1 DEF WriteTemp, Active, Handle
    <3>4. CASE ProcessDies(p)
      <4>1. [Closed EXCEPT !.at = "dead"] \in Handle /\ ChangeOf([Closed EXCEPT !.at = "dead"])
            /\ [Closed EXCEPT !.at = "dead"].at = "dead"
        BY DEF Closed, Handle, ChangeOf
      <4> QED
        BY <3>4, <4>1 DEF ProcessDies
    <3>5. ASSUME NEW u \in Updates, ReadStore(p, u)
          PROVE  \E h \in Handle :
                   /\ handle' = [handle EXCEPT ![p] = h] /\ handle[p].at # "closed" /\ h.at # "closed" /\ ChangeOf(h)
                   /\ UNCHANGED <<file, lock, acked, refused>>
      <4> DEFINE h == [handle[p] EXCEPT !.step = "read", !.update = u, !.value = file]
      <4>1. h \in Handle /\ ChangeOf(h) /\ h.at = "open"
        BY <1>a, <3>5 DEF Handle, ChangeOf, ReadStore, Active, VaultInv, VaultTypes
      <4>2. handle' = [handle EXCEPT ![p] = h]
        BY <1>a, <3>5 DEF ReadStore, VaultInv, VaultTypes
      <4> QED
        BY <3>5, <4>1, <4>2 DEF ReadStore, Active
    <3> QED
      BY <1>3, <3>1, <3>2, <3>3, <3>4, <3>5
  <2>2. ChangeOf(handle[p])' /\ AnswersAreTrue'
    BY <2>1 DEF ChangeOf, VaultInv, VaultTypes, AnswersAreTrue
  <2> QED
    BY <2>1, <2>2, OwnStep DEF VaultInv, VaultTypes
<1>4. ASSUME NEW p \in Openers, QueueWrite(p) PROVE VaultInv'
  <2>1. CASE handle[p].closing
    <3>1. handle' = [handle EXCEPT ![p] = Settled(handle[p])] /\ refused' = refused \cup {handle[p].update}
          /\ UNCHANGED <<file, lock, acked>> /\ handle[p].at = "open" /\ handle[p].step = "read"
      BY <1>4, <2>1 DEF QueueWrite
    <3>2. refused' \subseteq Updates /\ AnswersAreTrue'
      BY <1>a, <3>1 DEF ChangeOf, VaultInv, VaultTypes, AnswersAreTrue
    <3>3. ChangeOf(handle[p])'
      BY <1>a, <1>b, <3>1 DEF ChangeOf, VaultInv, VaultTypes
    <3> QED
      BY <1>a, <1>b, <3>1, <3>2, <3>3, OwnStep DEF VaultInv, VaultTypes
  <2>2. CASE ~handle[p].closing
    <3> DEFINE h == [handle[p] EXCEPT !.step = "queued", !.value = @ \cup {handle[p].update}]
    <3>1. handle' = [handle EXCEPT ![p] = h] /\ handle[p].at = "open" /\ handle[p].step = "read"
          /\ UNCHANGED <<file, lock, acked, refused>>
      BY <1>4, <2>2 DEF QueueWrite, VaultInv, VaultTypes
    <3>2. h \in Handle /\ h.at = "open" /\ ChangeOf(h)
      BY <1>a, <3>1 DEF Handle, ChangeOf
    <3>3. ChangeOf(handle[p])' /\ AnswersAreTrue'
      BY <3>1, <3>2 DEF ChangeOf, VaultInv, VaultTypes, AnswersAreTrue
    <3> QED
      BY <3>1, <3>2, <3>3, OwnStep DEF VaultInv, VaultTypes
  <2> QED
    BY <2>1, <2>2
<1>5. ASSUME NEW p \in Openers, RenameTemp(p) PROVE VaultInv'
  <2> DEFINE h == [handle[p] EXCEPT !.step = "renamed"]
  <2>1. handle' = [handle EXCEPT ![p] = h] /\ handle[p].at = "open" /\ handle[p].step = "renaming"
        /\ file' = handle[p].value /\ UNCHANGED <<lock, acked, refused>>
    BY <1>5 DEF RenameTemp, Active
  <2>2. file' = file \cup {handle[p].update} /\ handle[p].update \in Updates \ refused
    BY <1>a, <2>1 DEF ChangeOf
  <2>3. h \in Handle /\ h.at = "open" /\ h.step = "renamed" /\ h.update = handle[p].update
    BY <1>a, <2>1 DEF Handle
  <2>4. ChangeOf(handle[p])' /\ AnswersAreTrue' /\ file' \subseteq Updates
    BY <2>1, <2>2, <2>3 DEF ChangeOf, VaultInv, VaultTypes, AnswersAreTrue
  <2> QED
    BY <2>1, <2>3, <2>4, OwnStep DEF VaultInv, VaultTypes
<1>6. ASSUME NEW p \in Openers, Acknowledge(p) PROVE VaultInv'
  <2>1. handle' = [handle EXCEPT ![p] = Settled(handle[p])] /\ acked' = acked \cup {handle[p].update}
        /\ UNCHANGED <<file, lock, refused>> /\ handle[p].at = "open" /\ handle[p].step = "renamed"
    BY <1>6 DEF Acknowledge
  <2>2. AnswersAreTrue'
    BY <1>a, <2>1 DEF ChangeOf, VaultInv, AnswersAreTrue
  <2>3. ChangeOf(handle[p])'
    BY <1>a, <1>b, <2>1 DEF ChangeOf, VaultInv, VaultTypes
  <2> QED
    BY <1>a, <1>b, <2>1, <2>2, <2>3, OwnStep DEF VaultInv, VaultTypes
<1>7. ASSUME NEW p \in Openers, WriteFails(p) PROVE VaultInv'
  <2> DEFINE h == [Settled(handle[p]) EXCEPT !.poisoned = TRUE]
  <2>1. handle' = [handle EXCEPT ![p] = h] /\ refused' = refused \cup {handle[p].update}
        /\ UNCHANGED <<file, lock, acked>> /\ handle[p].at = "open" /\ handle[p].step \in {"queued", "renaming"}
    BY <1>7 DEF WriteFails
  <2>2. refused' \subseteq Updates /\ AnswersAreTrue'
    BY <1>a, <2>1 DEF ChangeOf, VaultInv, VaultTypes, AnswersAreTrue
  <2>3. h \in Handle /\ h.at = "open" /\ h.step = "none" /\ h.update = NoUpdate
    <3> DEFINE s == Settled(handle[p])
    <3>1. s \in Handle /\ s.at = "open" /\ s.step = "none" /\ s.update = NoUpdate
      BY <1>a, <1>b, <2>1
    <3> DEFINE r == [s EXCEPT !.poisoned = TRUE]
    <3>2. r \in Handle /\ r.at = "open" /\ r.step = "none" /\ r.update = NoUpdate
      <4> HIDE DEF s
      <4> QED
        BY <3>1 DEF Handle
    <3> QED
      BY <3>2
  <2>4. ChangeOf(handle[p])'
    BY <2>1, <2>3 DEF ChangeOf, VaultInv, VaultTypes
  <2> QED
    BY <2>1, <2>2, <2>3, <2>4, OwnStep DEF VaultInv, VaultTypes
<1>8. ASSUME NEW p \in Openers, FinishClose(p) \/ RemoveLock(p) PROVE VaultInv'
  <2>1. handle' = [handle EXCEPT ![p] = Closed] /\ lock' = NoOpener /\ UNCHANGED <<file, acked>>
        /\ handle[p].at # "closed"
    BY <1>8 DEF FinishClose, RemoveLock
  <2>2. refused' \subseteq Updates /\ refused' \cap file = {}
    <3>1. CASE RemoveLock(p)
      BY <3>1 DEF RemoveLock, VaultInv, VaultTypes, AnswersAreTrue
    <3>2. CASE FinishClose(p)
      <4>1. handle[p].update = NoUpdate \/ (handle[p].update \in Updates /\ handle[p].update \notin file)
        BY <1>a, <3>2 DEF FinishClose, QueueEmpty, ChangeOf
      <4> QED
        BY <3>2, <4>1 DEF FinishClose, VaultInv, VaultTypes, AnswersAreTrue
    <3> QED
      BY <1>8, <3>1, <3>2
  <2>3. ChangeOf(handle[p])' /\ AnswersAreTrue'
    BY <1>0, <2>1, <2>2 DEF ChangeOf, VaultInv, VaultTypes, AnswersAreTrue
  <2> QED
    BY <1>0, <2>1, <2>2, <2>3, OwnStep DEF VaultInv, VaultTypes
<1>9. CASE UNCHANGED vaultVars
  BY <1>9 DEF vaultVars, VaultInv, VaultTypes, LockOfHandle, ChangesReadFile, ChangeOf, AnswersAreTrue
<1> QED
  BY <1>1, <1>2, <1>3, <1>4, <1>5, <1>6, <1>7, <1>8, <1>9 DEF VaultNext

\* Every acknowledged update is in the store and no rejected one is: for any
\* number of processes and updates, whatever fails or dies in between.
THEOREM VaultAnswers == VaultSpec => []AnswersAreTrue
<1>1. VaultInv => AnswersAreTrue
  BY DEF VaultInv
<1> QED
  BY <1>1, VaultInitInv, VaultNextInv, PTL DEF VaultSpec

-----------------------------------------------------------------------------
(* Access tokens *)

AnyBindingOf == [generation: Nat, version: Nat]
Phases == Holds \cup {"idle", "claimed", "dispatched"}

Flights ==
  [at: {"none", "started", "claimed", "sent", "served", "completed"}, binding: AnyBindingOf,
   starter: Callers \cup {NoCaller}, lease: Nat, token: Nat, answer: {"none", "success", "invalid_grant"}, received: Nat]

Rows ==
  [binding: AnyBindingOf, status: {"active", "disabled"}, phase: Phases, lease: Nat, live: BOOLEAN,
   sealed: [binding: AnyBindingOf, token: Nat]]

TokenTypes ==
  /\ row \in Rows
  /\ claims \in Nat
  /\ flight \in [Services -> Flights]
  /\ valid \in Nat
  /\ inbox \subseteq [service: Services, lease: Nat, token: Nat]

\* A lease is handed out once, and a refresh token is sent after it was issued.
LeasesClaimed ==
  /\ row.lease <= claims
  /\ \A p \in Services : flight[p].lease <= claims
  /\ \A q \in inbox : q.token <= valid

\* Nothing was sent under the lease of a claim that has not dispatched.
ClaimNotSent ==
  row.phase = "claimed" => \A p \in Services : flight[p].lease = row.lease /\ row.lease # 0 => flight[p].at = "claimed"

\* At most one request can still rotate the token, and it left under the
\* lease of the row; once its flight knows the answer there is none, and the
\* flight holds the token the provider accepts.
OneRotation ==
  row.status = "active" /\ row.phase = "dispatched" =>
    /\ \A q \in inbox : q.token = valid => q.lease = row.lease
    /\ \A q, r \in inbox : q.token = valid /\ r.token = valid => q = r
    /\ \A p \in Services :
         flight[p].at = "served" /\ flight[p].answer = "success" /\ flight[p].lease = row.lease /\ row.lease # 0 =>
           flight[p].received = valid /\ \A q \in inbox : q.token # valid

TokensInv == TokenTypes /\ LeasesClaimed /\ ClaimNotSent /\ OneRotation /\ UsableIsCurrent

LEMMA TokensInitInv == TokensInit => TokensInv
BY TokenAssumption DEF TokensInit, TokensInv, TokenTypes, Rows, LeasesClaimed, ClaimNotSent, OneRotation, UsableIsCurrent,
   AnyBindingOf, Phases, Holds, Binding, Sealed, Flights, NoFlight, NoBinding

\* A failure leaves the row what it was, or holds it, or takes a claim back.
LEMMA FailureKeepsRow ==
  ASSUME TokensInv, NEW b, NEW l, NEW state \in {"idle", "recovery_required", "reauthorisation_required"},
         row' \in {row, RowAfterFailure(b, l, state)},
         UNCHANGED <<claims, valid, inbox>>,
         flight' \in [Services -> Flights],
         \A p \in Services : flight'[p] \in {flight[p], NoFlight}
  PROVE  TokensInv'
<1>1. row' \in Rows
      /\ row'.lease \in {row.lease, 0} /\ row'.status = row.status /\ row'.sealed = row.sealed /\ row'.binding = row.binding
      /\ \/ row'.phase = row.phase /\ row'.lease = row.lease
         \/ row'.phase \in Holds
         \/ row'.phase = "idle" /\ row.phase \in {"idle", "claimed"}
  <2>1. CASE row' = row
    BY <2>1 DEF TokensInv, TokenTypes, Rows
  <2>2. CASE row' # row
    <3>1. row' = [row EXCEPT !.phase = PhaseAfterFailure(state), !.lease = 0, !.live = FALSE] /\ row.phase \notin Holds
      BY <2>2 DEF RowAfterFailure, HasLease, Current
    <3>2. PhaseAfterFailure(state) \in Holds \/ (PhaseAfterFailure(state) = "idle" /\ row.phase \in {"idle", "claimed"})
      BY <3>1 DEF PhaseAfterFailure, TokensInv, TokenTypes, Rows, Phases, Holds
    <3> HIDE DEF PhaseAfterFailure
    <3>3. PhaseAfterFailure(state) \in Phases
      BY <3>2 DEF Phases
    <3> QED
      BY <3>1, <3>2, <3>3 DEF TokensInv, TokenTypes, Rows
  <2> QED
    BY <2>1, <2>2
<1>2. \A p \in Services : flight'[p] = flight[p] \/ (flight'[p].lease = 0 /\ flight'[p].at = "none")
  <2>1. NoFlight.lease = 0 /\ NoFlight.at = "none"
    BY DEF NoFlight
  <2> QED
    BY <2>1
<1>3. claims \in Nat /\ row.lease \in Nat /\ \A p \in Services : flight[p].lease \in Nat
  BY DEF TokensInv, TokenTypes, Rows, Flights
<1>4. TokenTypes'
  BY <1>1 DEF TokensInv, TokenTypes, Rows
<1>5. LeasesClaimed'
  <2>1. \A p \in Services : flight'[p].lease <= claims
    BY <1>2, <1>3 DEF LeasesClaimed, TokensInv
  <2>2. row'.lease <= claims
    BY <1>1, <1>3 DEF LeasesClaimed, TokensInv
  <2> QED
    BY <2>1, <2>2 DEF LeasesClaimed, TokensInv
<1>6. ClaimNotSent'
  BY <1>1, <1>2 DEF ClaimNotSent, Holds, TokensInv
<1>7. OneRotation'
  <2> SUFFICES ASSUME row'.status = "active", row'.phase = "dispatched" PROVE OneRotation'
    BY DEF OneRotation
  <2>1. row.status = "active" /\ row.phase = "dispatched" /\ row'.lease = row.lease
    BY <1>1 DEF Holds
  <2> QED
    BY <1>2, <2>1 DEF OneRotation, TokensInv
<1>8. UsableIsCurrent'
  BY <1>1 DEF UsableIsCurrent, Sealed, Holds, TokensInv
<1> QED
  BY <1>4, <1>5, <1>6, <1>7, <1>8 DEF TokensInv

LEMMA TokensNextInv == TokensInv /\ [TokensNext]_tokenVars => TokensInv'
<1> SUFFICES ASSUME TokensInv, [TokensNext]_tokenVars PROVE TokensInv'
  OBVIOUS
<1>0. NoFlight \in Flights
  BY DEF NoFlight, NoBinding, Binding, AnyBindingOf, Flights
<1>1. CASE LeaseExpires
  BY <1>1 DEF LeaseExpires, TokensInv, TokenTypes, Rows, LeasesClaimed, ClaimNotSent, OneRotation, UsableIsCurrent, Sealed
<1>2. ASSUME NEW r \in BOOLEAN, ChangeCredential(r) PROVE TokensInv'
  <2> USE <1>2 DEF TokensInv, ChangeCredential
  <2>1. TokenTypes'
    BY DEF TokenTypes, Rows, AnyBindingOf, Binding, Sealed, Phases
  <2>2. LeasesClaimed' /\ ClaimNotSent' /\ OneRotation'
    BY DEF TokenTypes, Rows, LeasesClaimed, ClaimNotSent, OneRotation
  <2>3. UsableIsCurrent'
    BY DEF UsableIsCurrent, LeasesClaimed, TokenTypes, Rows, Sealed
  <2> QED
    BY <2>1, <2>2, <2>3
<1>3. ASSUME NEW c \in Callers, NEW p \in Services, Access(c, p) PROVE TokensInv'
  <2>1. PICK f \in {flight[p], [NoFlight EXCEPT !.at = "started", !.binding = row.binding, !.starter = c]} :
           flight' = [flight EXCEPT ![p] = f] /\ (f # flight[p] => f.lease = 0 /\ f.at = "started")
    BY <1>3 DEF Access, NoFlight, TokensInv, TokenTypes, Rows
  <2>2. f \in Flights
    BY <1>0, <1>3 DEF TokensInv, TokenTypes, Rows, Flights, Access
  <2>3. TokenTypes' /\ LeasesClaimed' /\ UsableIsCurrent'
    BY <1>3, <2>1, <2>2 DEF Access, TokensInv, TokenTypes, Rows, LeasesClaimed, UsableIsCurrent, Sealed
  <2>4. ClaimNotSent' /\ OneRotation'
    BY <1>3, <2>1, <2>2 DEF Access, TokensInv, TokenTypes, Rows, ClaimNotSent, OneRotation
  <2> QED
    BY <2>3, <2>4 DEF TokensInv
<1>4. ASSUME NEW c \in Callers, Answer(c) \/ Refuse(c) \/ AskAgain(c) \/ ChangeOwnership(c) PROVE TokensInv'
  BY <1>4 DEF Answer, Refuse, AskAgain, ChangeOwnership, TokensInv, TokenTypes, Rows, LeasesClaimed, ClaimNotSent,
     OneRotation, UsableIsCurrent, Sealed
<1>5. ASSUME NEW p \in Services, Claim(p) PROVE TokensInv'
  <2> DEFINE l == claims + 1
             f == [flight[p] EXCEPT !.at = "claimed", !.lease = l]
  <2>0. l \in Nat /\ row \in Rows /\ flight \in [Services -> Flights]
    BY DEF TokensInv, TokenTypes
  <2>1. TokenTypes'
    <3>1. row' = [row EXCEPT !.phase = "claimed", !.lease = l, !.live = TRUE]
          /\ flight' = [flight EXCEPT ![p] = f]
          /\ claims' = l /\ UNCHANGED <<valid, inbox>>
      BY <1>5, <2>0 DEF Claim
    <3> HIDE DEF l
    <3>2. row' \in Rows
      BY <2>0, <3>1 DEF Rows, Phases
    <3>3. f \in Flights
      BY <2>0 DEF Flights
    <3> QED
      BY <2>0, <3>1, <3>2, <3>3 DEF TokenTypes, TokensInv
  <2> USE <1>5 DEF TokensInv, Claim, Current, Reclaimable, Holds
  <2>2. LeasesClaimed'
    BY DEF LeasesClaimed, TokenTypes, Rows, Flights
  <2>3. ClaimNotSent'
    BY DEF ClaimNotSent, TokenTypes, Rows, LeasesClaimed
  <2>4. OneRotation' /\ UsableIsCurrent'
    BY DEF OneRotation, UsableIsCurrent, TokenTypes, Rows, Sealed, Phases
  <2> QED
    BY <2>1, <2>2, <2>3, <2>4
<1>6. ASSUME NEW p \in Services, ClaimFails(p) PROVE TokensInv'
  <2> USE <1>6 DEF TokensInv, ClaimFails, Current, Holds
  <2>1. TokenTypes'
    BY <1>0 DEF TokenTypes, Rows, Phases
  <2>2. LeasesClaimed' /\ ClaimNotSent'
    BY DEF LeasesClaimed, TokenTypes, Rows, ClaimNotSent, NoFlight
  <2>3. OneRotation' /\ UsableIsCurrent'
    BY DEF OneRotation, UsableIsCurrent, TokenTypes, Rows, Sealed, NoFlight
  <2> QED
    BY <2>1, <2>2, <2>3
<1>7. ASSUME NEW p \in Services, DispatchRefresh(p) PROVE TokensInv'
  <2> USE <1>7 DEF TokensInv, DispatchRefresh, Fenced, HasLease, Current
  <2>1. row.sealed.token = valid /\ \A q \in inbox : q.token # valid
    BY DEF UsableIsCurrent, Sealed
  <2>2. TokenTypes'
    <3>1. row' \in Rows
      BY DEF TokenTypes, Rows, Phases
    <3>2. valid \in Nat /\ flight[p].lease \in Nat
      BY DEF TokenTypes, Flights
    <3>3. [flight[p] EXCEPT !.at = "sent", !.token = valid] \in Flights
      BY <3>2 DEF TokenTypes, Flights
    <3>4. flight' = [flight EXCEPT ![p] = [flight[p] EXCEPT !.at = "sent", !.token = valid]]
      BY <2>1 DEF TokenTypes
    <3>5. inbox' \subseteq [service: Services, lease: Nat, token: Nat]
      BY <2>1, <3>2 DEF TokenTypes
    <3> QED
      BY <3>1, <3>3, <3>4, <3>5 DEF TokenTypes
  <2>3. LeasesClaimed' /\ ClaimNotSent' /\ UsableIsCurrent'
    BY <2>1 DEF LeasesClaimed, TokenTypes, Rows, ClaimNotSent, UsableIsCurrent
  <2>4. OneRotation'
    BY <2>1 DEF OneRotation, ClaimNotSent, TokenTypes, Rows
  <2> QED
    BY <2>2, <2>3, <2>4
<1>8. ASSUME NEW p \in Services, Complete(p) PROVE TokensInv'
  <2> USE <1>8 DEF TokensInv, Complete, Fenced, HasLease, Current
  <2>1. flight[p].received = valid /\ \A q \in inbox : q.token # valid
    BY DEF OneRotation
  <2>2. TokenTypes'
    <3>1. row' \in Rows
      <4>1. NextVersion(flight[p].binding) \in AnyBindingOf /\ flight[p].received \in Nat
        BY DEF TokenTypes, Flights, AnyBindingOf, NextVersion, Binding
      <4>2. Sealed(NextVersion(flight[p].binding), MaterialToSeal(flight[p])) \in [binding: AnyBindingOf, token: Nat]
        BY <4>1 DEF Sealed, MaterialToSeal
      <4> QED
        BY <4>1, <4>2 DEF TokenTypes, Rows, Phases
    <3>2. flight' \in [Services -> Flights]
      BY DEF TokenTypes, Rows, Flights
    <3> QED
      BY <3>1, <3>2 DEF TokenTypes, Rows, Flights
  <2>3. LeasesClaimed' /\ ClaimNotSent' /\ OneRotation'
    BY DEF LeasesClaimed, TokenTypes, Rows, ClaimNotSent, OneRotation
  <2>4. UsableIsCurrent'
    BY <2>1 DEF UsableIsCurrent, MaterialToSeal, Sealed, TokenTypes, Rows
  <2> QED
    BY <2>2, <2>3, <2>4
<1>9. ASSUME NEW p \in Services, Publish(p) \/ Crash(p) PROVE TokensInv'
  <2>1. row' \in {row, RowAfterFailure(row.binding, 0, "idle")} /\ UNCHANGED <<claims, valid, inbox>>
        /\ flight' = [flight EXCEPT ![p] = NoFlight]
    BY <1>9 DEF Publish, Crash
  <2>2. flight' \in [Services -> Flights]
        /\ \A s \in Services : flight'[s] \in {flight[s], NoFlight}
    BY <1>0, <2>1 DEF TokensInv, TokenTypes, Rows
  <2> QED
    BY <2>1, <2>2, FailureKeepsRow
<1>10. ASSUME NEW p \in Services, NEW r \in BOOLEAN, FlightFails(p, r) \/ InvalidGrant(p) PROVE TokensInv'
  <2>1. \E state \in {"idle", "recovery_required", "reauthorisation_required"} :
          row' \in {row, RowAfterFailure(flight[p].binding, flight[p].lease, state)}
    BY <1>10 DEF FlightFails, InvalidGrant
  <2>2. UNCHANGED <<claims, valid, inbox>> /\ flight' = [flight EXCEPT ![p] = NoFlight]
    BY <1>10 DEF FlightFails, InvalidGrant
  <2>3. flight' \in [Services -> Flights]
        /\ \A s \in Services : flight'[s] \in {flight[s], NoFlight}
    BY <1>0, <2>2 DEF TokensInv, TokenTypes, Rows
  <2> QED
    BY <2>1, <2>2, <2>3, FailureKeepsRow
<1>11. ASSUME NEW p \in Services, TokenExpires(p) PROVE TokensInv'
  BY <1>11 DEF TokenExpires, TokensInv, TokenTypes, Rows, LeasesClaimed, ClaimNotSent, OneRotation, UsableIsCurrent, Sealed
<1>12. ASSUME NEW q \in inbox, NEW rotate \in BOOLEAN, ServeRefresh(q, rotate) PROVE TokensInv'
  <2> USE <1>12 DEF TokensInv, ServeRefresh
  <2>1. q.service \in Services /\ q.token \in Nat /\ valid \in Nat /\ valid' \in Nat
        /\ (q.token # valid => valid' = valid) /\ valid <= valid'
        /\ (q.token = valid => valid' \in {valid, valid + 1})
    BY DEF TokenTypes, Rows
  <2>2. TokenTypes'
    BY <2>1 DEF TokenTypes, Rows, Flights
  <2>3. LeasesClaimed' /\ ClaimNotSent'
    BY <2>1 DEF LeasesClaimed, TokenTypes, Rows, ClaimNotSent
  <2>4. UsableIsCurrent'
    BY <2>1 DEF UsableIsCurrent
  <2>5. OneRotation'
    <3>1. CASE q.token = valid
      <4> SUFFICES ASSUME row.status = "active" /\ row.phase = "dispatched" PROVE OneRotation'
        BY DEF OneRotation
      <4>1. \A s \in inbox' : s.token # valid'
        BY <2>1, <3>1 DEF OneRotation, LeasesClaimed, TokenTypes, Rows
      <4>2. \A s \in Services : flight[s].lease = row.lease /\ row.lease # 0 =>
              ~(flight[s].at = "served" /\ flight[s].answer = "success")
        BY <3>1 DEF OneRotation
      <4>3. flight'[q.service] # flight[q.service] => flight'[q.service].received = valid'
        BY <2>1, <3>1 DEF TokenTypes, Rows
      <4>4. \A s \in Services : s # q.service => flight'[s] = flight[s]
        BY DEF TokenTypes, Rows
      <4> QED
        BY <4>1, <4>2, <4>3, <4>4 DEF OneRotation
    <3>2. CASE q.token # valid
      <4>1. \A s \in Services : flight'[s] = flight[s] \/ flight'[s].answer = "invalid_grant"
        BY <2>1, <3>2 DEF TokenTypes, Rows
      <4> QED
        BY <2>1, <3>2, <4>1 DEF OneRotation
    <3> QED
      BY <3>1, <3>2
  <2> QED
    BY <2>2, <2>3, <2>4, <2>5
<1>13. CASE UNCHANGED tokenVars
  BY <1>13 DEF tokenVars, TokensInv, TokenTypes, Rows, LeasesClaimed, ClaimNotSent, OneRotation, UsableIsCurrent, Sealed
<1> QED
  BY <1>1, <1>2, <1>3, <1>4, <1>5, <1>6, <1>7, <1>8, <1>9, <1>10, <1>11, <1>12, <1>13 DEF TokensNext

\* While a refresh may begin, custody holds the refresh token the provider
\* accepts, and nothing under way could rotate it: for any number of callers,
\* processes, refreshes and reauthorisations.
THEOREM UsableCredential == TokensSpec => []UsableIsCurrent
<1>1. TokensInv => UsableIsCurrent
  BY DEF TokensInv
<1> QED
  BY <1>1, TokensInitInv, TokensNextInv, PTL DEF TokensSpec

-----------------------------------------------------------------------------
(* The capture of a backup *)

Sealing == {"sealing", "keyed", "archived", "verified", "summed"}
Reading == {"starting", "next", "client", "cleaning", "cleaned"}
Places == Sealing \cup Reading \cup {"ended"}
CaptureCodes ==
  {"none", "killed", "LOCAL_FAILURE", "CONTAINER_CLEANUP_FAILED", "BACKUP_CANCELLED", "BACKUP_REFUSED", "PASSED"}

Answers == [ok: BOOLEAN, content: Contents \cup {NoContent}, complete: BOOLEAN, code: {"none", "CHILD_FAILED"}]
Archives ==
  [written: BOOLEAN, intact: BOOLEAN, manifest: Contents \cup {NoContent}, dumps: Seq(Contents)]
Captures ==
  [at: Places, step: Nat, before: Contents \cup {NoContent}, dumps: Seq(Contents), answer: Answers, code: CaptureCodes]
Disks == [key: BOOLEAN, archive: Archives, checksum: BOOLEAN]

BackupTypes ==
  /\ capture \in Captures /\ disk \in Disks
  /\ source \in Contents /\ past \subseteq Contents /\ returned \in BOOLEAN

\* What the source holds now it never held before, as long as it never went back.
Forward == ~returned => source \notin past

\* The number of dumps says which client comes next.
StepFits ==
  /\ capture.step <= Dumps + 2
  /\ capture.step = 0 => capture.dumps = <<>>
  /\ capture.step \in 1 .. Dumps + 1 => Len(capture.dumps) = capture.step - 1
  /\ capture.step = Dumps + 2 => Len(capture.dumps) = Dumps
  /\ capture.at \in Sealing => capture.step = Dumps + 2
  /\ capture.at \in Reading => capture.step <= Dumps + 1
  /\ capture.at # "ended" => capture.code = "none"

AllOf(c) == \A i \in DOMAIN capture.dumps : capture.dumps[i] = c

\* While the source still holds what the first manifest told of, everything
\* read since is that; an answer that tells of it again was read while it did.
ReadOfOne ==
  /\ capture.step > 0 => capture.before \in past \cup {source}
  /\ capture.answer.ok => capture.answer.content \in past \cup {source}
  /\ ~returned /\ capture.step \in 1 .. Dumps + 1 /\ capture.before = source =>
       AllOf(source) /\ (capture.answer.ok /\ ~IsManifest(capture.step) => capture.answer.content = source)
  /\ ~returned /\ capture.step = Dumps + 1 /\ capture.answer.ok /\ capture.answer.content = capture.before =>
       AllOf(capture.before)
  /\ ~returned /\ capture.step = Dumps + 2 => AllOf(capture.before)

\* The archive is what was captured; a checksum comes after it was opened.
ArchiveFits ==
  disk.archive.written =>
    capture.step = Dumps + 2 /\ disk.archive.manifest = capture.before /\ disk.archive.dumps = capture.dumps

ChecksumLast ==
  /\ capture.at \in {"verified", "summed"} \/ disk.checksum => Opens
  /\ disk.checksum => capture.at \in {"summed", "ended"}
  /\ capture.at = "summed" \/ capture.code = "PASSED" => disk.checksum

BackupInv ==
  BackupTypes /\ Forward /\ StepFits /\ ReadOfOne /\ ArchiveFits /\ ChecksumLast /\ NoClientLeftRunning

LEMMA BackupInitInv == BackupInit => BackupInv
<1> SUFFICES ASSUME BackupInit PROVE BackupInv
  OBVIOUS
<1>1. NoAnswer \in Answers /\ NoAnswer.ok = FALSE /\ NoArchive \in Archives /\ NoArchive.written = FALSE
  BY DEF NoAnswer, Answers, NoArchive, Archives
<1>2. BackupTypes
  <2>1. <<>> \in Seq(Contents)
    OBVIOUS
  <2>2. capture \in Captures
    BY <1>1, <2>1 DEF BackupInit, Captures, Places, Reading, CaptureCodes
  <2> QED
    BY <1>1, <2>2 DEF BackupInit, BackupTypes, Disks
<1>3. Forward /\ StepFits /\ ReadOfOne
  BY <1>1, BackupAssumption DEF BackupInit, Forward, StepFits, ReadOfOne, Sealing, Reading
<1>4. ArchiveFits /\ ChecksumLast /\ NoClientLeftRunning
  BY <1>1 DEF BackupInit, ArchiveFits, ChecksumLast, NoClientLeftRunning
<1> QED
  BY <1>2, <1>3, <1>4 DEF BackupInv

\* Steps of the capture that only move it on: to another place, or to its end.
LEMMA MoveKeepsInv ==
  ASSUME BackupInv, NEW at \in Places, NEW code \in CaptureCodes,
         capture' = [capture EXCEPT !.at = at, !.code = code],
         UNCHANGED <<sourceVars, disk>>,
         at \in Sealing => capture.at \in Sealing,
         at \in Reading => capture.at \in Reading,
         at # "ended" => code = "none",
         at \in {"verified", "summed"} => Opens,
         disk.checksum <=> at = "summed" \/ (at = "ended" /\ disk.checksum),
         code = "PASSED" => capture.code = "PASSED" \/ disk.checksum,
         NoClientLeftRunning'
  PROVE  BackupInv'
<1>1. /\ capture' \in Captures /\ capture'.at = at /\ capture'.code = code /\ capture'.step = capture.step
      /\ capture'.before = capture.before /\ capture'.dumps = capture.dumps /\ capture'.answer = capture.answer
      /\ source' = source /\ past' = past /\ returned' = returned
  BY DEF BackupInv, BackupTypes, Captures, sourceVars
<1>2. BackupTypes' /\ Forward'
  BY <1>1 DEF BackupInv, BackupTypes, Forward
<1>3. StepFits'
  BY <1>1 DEF BackupInv, StepFits
<1>4. ReadOfOne'
  BY <1>1 DEF BackupInv, ReadOfOne, AllOf
<1>5. ArchiveFits' /\ ChecksumLast'
  BY <1>1 DEF BackupInv, ArchiveFits, ChecksumLast, Opens
<1> QED
  BY <1>2, <1>3, <1>4, <1>5 DEF BackupInv

LEMMA BackupNextInv == BackupInv /\ [BackupNext]_backupVars => BackupInv'
<1> SUFFICES ASSUME BackupInv, [BackupNext]_backupVars PROVE BackupInv'
  OBVIOUS
<1>0. capture \in Captures /\ capture.at \in Places /\ capture.code \in CaptureCodes /\ disk \in Disks
  BY DEF BackupInv, BackupTypes, Captures, Disks
<1>0a. /\ {"starting", "next", "client", "cleaning", "cleaned"} = Reading /\ Sealing \cap Reading = {}
       /\ Reading \subseteq Places /\ Sealing \subseteq Places /\ "ended" \in Places \ (Reading \cup Sealing)
  BY DEF Reading, Sealing, Places
<1>a. \A at \in Places : Goto(at) => capture' = [capture EXCEPT !.at = at, !.code = capture.code]
  BY <1>0 DEF Goto, Captures
<1>b. ASSUME NEW code \in CaptureCodes, EndCapture(code)
      PROVE  /\ TerminalFailure(code) \in {code, "BACKUP_CANCELLED"}
             /\ code = "CONTAINER_CLEANUP_FAILED" => TerminalFailure(code) = code
             /\ capture' = [capture EXCEPT !.at = "ended", !.code = TerminalFailure(code)]
  BY <1>b DEF EndCapture, TerminalFailure
\* An end that is not that of a cleanup.
<1>c. ASSUME NEW code \in CaptureCodes, EndCapture(code), capture.at \notin {"client", "cleaning", "ended"},
             UNCHANGED <<sourceVars, container, disk>>, code = "PASSED" => disk.checksum
      PROVE  BackupInv'
  <2>1. PICK c \in CaptureCodes :
          capture' = [capture EXCEPT !.at = "ended", !.code = c] /\ (c = "PASSED" => disk.checksum)
    BY <1>b, <1>c DEF CaptureCodes
  <2>2. NoClientLeftRunning'
    <3>1. container \notin {"starting", "running"}
      BY <1>0, <1>c DEF BackupInv, NoClientLeftRunning, StepFits
    <3> QED
      BY <1>c, <3>1 DEF NoClientLeftRunning
  <2>3. UNCHANGED <<sourceVars, disk>> /\ "ended" \in Places /\ "ended" \notin Sealing /\ "ended" \notin Reading
    BY <1>0a, <1>c
  <2> QED
    BY <2>1, <2>2, <2>3, MoveKeepsInv
<1>1. ASSUME NEW c \in Contents, WriteSource(c) PROVE BackupInv'
  <2> USE <1>1 DEF WriteSource
  <2>1. BackupTypes' /\ Forward'
    BY DEF BackupInv, BackupTypes, Forward
  <2>2. StepFits' /\ ArchiveFits' /\ ChecksumLast' /\ NoClientLeftRunning'
    BY DEF BackupInv, StepFits, ArchiveFits, ChecksumLast, Opens, NoClientLeftRunning
  <2>3. ~returned' => ~returned /\ c # source /\ c \notin past
    BY DEF BackupInv, BackupTypes
  <2>4. ReadOfOne'
    BY <2>3, BackupAssumption DEF BackupInv, BackupTypes, ReadOfOne, AllOf, Captures
  <2> QED
    BY <2>1, <2>2, <2>4 DEF BackupInv
<1>2. CASE Interrupt
  BY <1>2 DEF Interrupt, sourceVars, BackupInv, BackupTypes, Forward, StepFits, ReadOfOne, AllOf, ArchiveFits, ChecksumLast, Opens,
     NoClientLeftRunning
<1>3. CASE KillCapture
  <2>1. NoClientLeftRunning'
    BY <1>0, <1>3 DEF KillCapture, NoClientLeftRunning, Captures
  <2>2. capture' = [capture EXCEPT !.at = "ended", !.code = "killed"] /\ UNCHANGED <<sourceVars, disk>>
    BY <1>3 DEF KillCapture
  <2> QED
    BY <2>1, <2>2, MoveKeepsInv DEF Sealing, Reading, Places, CaptureCodes, BackupInv, ChecksumLast
<1>4. CASE LocalFailure
  BY <1>4, <1>c DEF LocalFailure, CaptureCodes
<1>5. CASE RefuseAnswer
  BY <1>5, <1>c DEF RefuseAnswer, CaptureCodes
<1>6. CASE FinishCapture
  BY <1>6, <1>c DEF FinishCapture, CaptureCodes, BackupInv, ChecksumLast
<1>7. CASE SetUp
  <2>1. capture' = [capture EXCEPT !.at = "next", !.code = capture.code] /\ UNCHANGED <<sourceVars, container, disk>>
        /\ capture.at = "starting"
    BY <1>7, <1>a DEF SetUp, Reading, Places
  <2>2. NoClientLeftRunning'
    BY <1>0, <2>1 DEF BackupInv, NoClientLeftRunning, StepFits, Captures
  <2>3. "next" \in Places /\ "next" \notin Sealing /\ capture.at \in Reading /\ capture.code = "none" /\ ~disk.checksum
    BY <2>1 DEF Reading, Sealing, Places, BackupInv, StepFits, ChecksumLast
  <2> QED
    BY <1>0, <2>1, <2>2, <2>3, MoveKeepsInv DEF BackupInv
\* The daemon's steps, and what MoveKeepsInv needs of a step to another place.
<1>8. CASE DaemonCreates \/ AskToStart \/ DaemonStarts \/ ContainerExits
  <2>1. UNCHANGED <<sourceVars, capture, disk>>
    BY <1>8 DEF DaemonCreates, AskToStart, DaemonStarts, ContainerExits
  <2>2. NoClientLeftRunning'
    BY <1>8 DEF DaemonCreates, AskToStart, DaemonStarts, ContainerExits, BackupInv, NoClientLeftRunning
  <2> QED
    BY <2>1, <2>2 DEF sourceVars, BackupInv, BackupTypes, Forward, StepFits, ReadOfOne, AllOf, ArchiveFits, ChecksumLast, Opens
<1>9. CASE RunClient
  <2>1. capture' = [capture EXCEPT !.at = "client", !.code = capture.code] /\ UNCHANGED <<sourceVars, disk>>
        /\ capture.at = "next"
    BY <1>9, <1>a DEF RunClient, Reading, Places
  <2>2. NoClientLeftRunning'
    BY <1>0, <2>1 DEF NoClientLeftRunning, Captures
  <2>3. "client" \in Places /\ "client" \notin Sealing /\ capture.at \in Reading /\ capture.code = "none" /\ ~disk.checksum
    BY <2>1 DEF Reading, Sealing, Places, BackupInv, StepFits, ChecksumLast
  <2> QED
    BY <1>0, <2>1, <2>2, <2>3, MoveKeepsInv DEF BackupInv
<1>10. CASE CleanupFindsNothing \/ CleanupRemoves
  <2>1. capture' = [capture EXCEPT !.at = "cleaned", !.code = capture.code] /\ UNCHANGED <<sourceVars, disk>>
        /\ capture.at = "cleaning" /\ container' \notin {"starting", "running"}
    BY <1>10, <1>a DEF CleanupFindsNothing, CleanupRemoves, Listed, Reading, Places
  <2>2. NoClientLeftRunning'
    BY <2>1 DEF NoClientLeftRunning
  <2>3. "cleaned" \in Places /\ "cleaned" \notin Sealing /\ capture.at \in Reading /\ capture.code = "none" /\ ~disk.checksum
    BY <2>1 DEF Reading, Sealing, Places, BackupInv, StepFits, ChecksumLast
  <2> QED
    BY <1>0, <2>1, <2>2, <2>3, MoveKeepsInv DEF BackupInv
<1>11. CASE CleanupFails
  <2>1. capture' = [capture EXCEPT !.at = "ended", !.code = "CONTAINER_CLEANUP_FAILED"] /\ UNCHANGED <<sourceVars, disk>>
        /\ capture.at = "cleaning"
    BY <1>11, <1>b DEF CleanupFails, CaptureCodes
  <2>2. NoClientLeftRunning'
    BY <1>0, <2>1 DEF NoClientLeftRunning, Captures
  <2>3. "ended" \in Places /\ "ended" \notin Sealing /\ "ended" \notin Reading /\ "CONTAINER_CLEANUP_FAILED" \in CaptureCodes
        /\ ~disk.checksum
    BY <1>0a, <2>1 DEF CaptureCodes, BackupInv, ChecksumLast
  <2> QED
    BY <2>1, <2>2, <2>3, MoveKeepsInv DEF BackupInv
\* The answer of a client: what was read, or that nothing was.
<1>12. ASSUME NEW a \in Answers, capture.at = "client", capture' = [capture EXCEPT !.at = "cleaning", !.answer = a],
              UNCHANGED <<sourceVars, disk>>, a.ok => a.content = source
       PROVE  BackupInv'
  <2>1. /\ capture' \in Captures /\ capture'.at = "cleaning" /\ capture'.answer = a
        /\ capture'.code = capture.code /\ capture'.step = capture.step
        /\ capture'.before = capture.before /\ capture'.dumps = capture.dumps
        /\ source' = source /\ past' = past /\ returned' = returned /\ disk' = disk
    BY <1>0, <1>0a, <1>12 DEF Captures, sourceVars
  <2>2. BackupTypes' /\ Forward'
    BY <1>0, <2>1 DEF BackupInv, BackupTypes, Forward
  <2>3. StepFits'
    BY <1>0a, <1>12, <2>1 DEF BackupInv, StepFits
  <2>4. ReadOfOne'
    BY <1>0, <1>12, <2>1, BackupAssumption DEF BackupInv, ReadOfOne, AllOf, Captures
  <2>5. ArchiveFits' /\ ChecksumLast' /\ NoClientLeftRunning'
    BY <1>0a, <1>12, <2>1 DEF BackupInv, ArchiveFits, ChecksumLast, Opens, NoClientLeftRunning, StepFits
  <2> QED
    BY <2>2, <2>3, <2>4, <2>5 DEF BackupInv
<1>13. ASSUME NEW b \in BOOLEAN, ClientAnswers(b) PROVE BackupInv'
  <2> DEFINE a == [ok |-> ~aborted, content |-> source, complete |-> b, code |-> "none"]
  <2>1. a \in Answers
    BY DEF Answers, BackupInv, BackupTypes
  <2>2. capture.at = "client" /\ capture' = [capture EXCEPT !.at = "cleaning", !.answer = a] /\ UNCHANGED <<sourceVars, disk>>
    BY <1>13 DEF ClientAnswers
  <2> HIDE DEF a
  <2> QED
    BY <1>12, <2>1, <2>2 DEF a
<1>14. CASE ClientGivenUp
  <2> DEFINE a == [NoAnswer EXCEPT !.code = "CHILD_FAILED"]
  <2>1. a \in Answers /\ ~a.ok
    BY DEF NoAnswer, Answers
  <2>2. capture.at = "client" /\ capture' = [capture EXCEPT !.at = "cleaning", !.answer = a] /\ UNCHANGED <<sourceVars, disk>>
    BY <1>14 DEF ClientGivenUp
  <2> HIDE DEF a
  <2> QED
    BY <1>12, <2>1, <2>2
<1>15. CASE AcceptAnswer
  <2> DEFINE a == capture.answer
             k == capture.step
  <2>1. /\ capture.at = "cleaned" /\ Acceptable(a) /\ UNCHANGED <<sourceVars, container, disk>>
        /\ k \in Nat /\ k <= Dumps + 1 /\ a \in Answers /\ a.ok /\ a.content \in Contents
        /\ a.content \in past \cup {source} /\ capture.code = "none"
    BY <1>0, <1>15 DEF AcceptAnswer, Acceptable, BackupInv, BackupTypes, StepFits, ReadOfOne, Reading, Captures
  <2>2. NoAnswer \in Answers /\ ~NoAnswer.ok
    BY DEF NoAnswer, Answers
  <2>3. /\ capture'.at = IF k = Dumps + 1 THEN "sealing" ELSE "next"
        /\ capture'.step = k + 1
        /\ capture'.before = IF k = 0 THEN a.content ELSE capture.before
        /\ capture'.dumps = IF IsManifest(k) THEN capture.dumps ELSE Append(capture.dumps, a.content)
        /\ capture'.answer = NoAnswer /\ capture'.code = "none"
        /\ capture' \in Captures
    <3> HIDE DEF IsManifest, a, k
    <3>1. Append(capture.dumps, a.content) \in Seq(Contents) /\ k + 1 \in Nat
      BY <1>0, <2>1 DEF Captures
    <3>2. capture' = [capture EXCEPT
                       !.at = IF k = Dumps + 1 THEN "sealing" ELSE "next",
                       !.step = k + 1,
                       !.before = IF k = 0 THEN a.content ELSE capture.before,
                       !.dumps = IF IsManifest(k) THEN capture.dumps ELSE Append(capture.dumps, a.content),
                       !.answer = NoAnswer]
      BY <1>15, <1>0 DEF AcceptAnswer, a, k
    <3> QED
      BY <1>0, <2>1, <2>2, <3>1, <3>2 DEF Captures, Places, Sealing, Reading
  <2>4. source' = source /\ past' = past /\ returned' = returned /\ disk' = disk /\ container' = container
    BY <2>1 DEF sourceVars
  <2>5. /\ k = 0 => capture.dumps = <<>>
        /\ k \in 1 .. Dumps + 1 => Len(capture.dumps) = k - 1
        /\ capture.dumps \in Seq(Contents)
    BY <1>0 DEF BackupInv, StepFits, Captures
  <2>6. BackupTypes' /\ Forward'
    BY <2>3, <2>4 DEF BackupInv, BackupTypes, Forward
  <2>7. StepFits'
    <3>1. k \in 1 .. Dumps => Len(capture'.dumps) = k
      BY <2>1, <2>3, <2>5, BackupAssumption DEF IsManifest
    <3>2. k = 0 => Len(capture'.dumps) = 0
      BY <2>3, <2>5 DEF IsManifest
    <3>3. k = Dumps + 1 => Len(capture'.dumps) = Dumps
      BY <2>1, <2>3, <2>5, BackupAssumption DEF IsManifest
    <3>4. capture'.step = k + 1 /\ capture'.code = "none" /\ k \in Nat /\ k <= Dumps + 1
          /\ capture'.at = IF k = Dumps + 1 THEN "sealing" ELSE "next"
      BY <2>1, <2>3
    <3> HIDE DEF k
    <3> QED
      BY <3>1, <3>2, <3>3, <3>4, BackupAssumption DEF StepFits, Sealing, Reading
  <2>8. ReadOfOne'
    <3>1. CASE k = 0
      BY <2>1, <2>2, <2>3, <2>4, <2>5, <3>1, BackupAssumption DEF ReadOfOne, AllOf, IsManifest
    <3>2. CASE k \in 1 .. Dumps
      <4>1. capture'.dumps = Append(capture.dumps, a.content) /\ capture'.before = capture.before /\ capture'.step = k + 1
            /\ ~IsManifest(k)
        BY <2>3, <3>2, BackupAssumption DEF IsManifest
      <4>2. ~returned /\ capture.before = source => AllOf(source) /\ a.content = source
        BY <2>1, <3>2, <4>1, BackupAssumption DEF BackupInv, ReadOfOne
      <4>3. ~returned /\ capture.before = source => AllOf(source)'
        BY <2>4, <2>5, <4>1, <4>2 DEF AllOf
      <4>4. capture.before \in past \cup {source}
        BY <3>2 DEF BackupInv, ReadOfOne
      <4> QED
        BY <2>2, <2>3, <2>4, <3>2, <4>1, <4>3, <4>4, BackupAssumption DEF ReadOfOne
    <3>3. CASE k = Dumps + 1
      <4>1. capture'.dumps = capture.dumps /\ capture'.before = capture.before /\ capture'.step = Dumps + 2
            /\ capture.before = a.content /\ capture.before \in past \cup {source}
        BY <2>1, <2>3, <3>3, BackupAssumption DEF IsManifest, Acceptable, SameManifest, BackupInv, ReadOfOne
      <4>2. ~returned => AllOf(capture.before)
        BY <2>1, <3>3, <4>1 DEF BackupInv, ReadOfOne
      <4>3. ~returned' => AllOf(capture.before)'
        BY <2>4, <4>1, <4>2 DEF AllOf
      <4> QED
        BY <2>2, <2>3, <2>4, <4>1, <4>3, BackupAssumption DEF ReadOfOne
    <3> QED
      BY <2>1, <3>1, <3>2, <3>3, BackupAssumption
  <2>9. ArchiveFits' /\ ChecksumLast' /\ NoClientLeftRunning'
    BY <2>1, <2>3, <2>4, BackupAssumption DEF BackupInv, ArchiveFits, ChecksumLast, Opens, NoClientLeftRunning, StepFits
  <2> QED
    BY <2>6, <2>7, <2>8, <2>9 DEF BackupInv
<1>16. CASE WriteKey
  <2>1. /\ disk' = [disk EXCEPT !.key = TRUE] /\ capture' = [capture EXCEPT !.at = "keyed"] /\ capture.at = "sealing"
        /\ UNCHANGED <<sourceVars, container>>
    BY <1>16 DEF WriteKey, Goto, SummedAt
  <2>2. /\ capture' \in Captures /\ capture'.at = "keyed" /\ capture'.code = capture.code /\ capture'.step = capture.step
        /\ capture'.before = capture.before /\ capture'.dumps = capture.dumps /\ capture'.answer = capture.answer
        /\ source' = source /\ past' = past /\ returned' = returned /\ capture.code = "none" /\ ~disk.checksum
    BY <1>0, <2>1 DEF Captures, Places, Sealing, sourceVars, BackupInv, StepFits, ChecksumLast
  <2>3. disk' \in Disks /\ disk'.archive = disk.archive /\ disk'.checksum = disk.checksum
    BY <1>0, <2>1 DEF Disks
  <2>4. BackupTypes' /\ Forward'
    BY <2>2, <2>3 DEF BackupInv, BackupTypes, Forward
  <2>5. StepFits' /\ ReadOfOne'
    BY <2>1, <2>2 DEF BackupInv, StepFits, ReadOfOne, AllOf, Sealing, Reading
  <2>6. ArchiveFits' /\ ChecksumLast' /\ NoClientLeftRunning'
    BY <2>1, <2>2, <2>3 DEF BackupInv, ArchiveFits, ChecksumLast, Opens, NoClientLeftRunning, StepFits, Sealing
  <2> QED
    BY <2>4, <2>5, <2>6 DEF BackupInv
<1>17. ASSUME NEW b \in BOOLEAN, WriteArchive(b) PROVE BackupInv'
  <2> DEFINE r == [written |-> TRUE, intact |-> b, manifest |-> capture.before, dumps |-> capture.dumps]
  <2>1. /\ disk' = [disk EXCEPT !.archive = r] /\ capture' = [capture EXCEPT !.at = "archived"] /\ capture.at = "keyed"
        /\ UNCHANGED <<sourceVars, container>>
    BY <1>17 DEF WriteArchive, Goto, SummedAt
  <2>2. /\ capture' \in Captures /\ capture'.at = "archived" /\ capture'.code = capture.code /\ capture'.step = capture.step
        /\ capture'.before = capture.before /\ capture'.dumps = capture.dumps /\ capture'.answer = capture.answer
        /\ source' = source /\ past' = past /\ returned' = returned /\ capture.code = "none" /\ ~disk.checksum
    BY <1>0, <2>1 DEF Captures, Places, Sealing, sourceVars, BackupInv, StepFits, ChecksumLast
  <2>3. disk' \in Disks /\ disk'.archive = r /\ disk'.checksum = disk.checksum
    BY <1>0, <2>1 DEF Disks, Archives, Captures
  <2>4. BackupTypes' /\ Forward'
    BY <2>2, <2>3 DEF BackupInv, BackupTypes, Forward
  <2>5. StepFits' /\ ReadOfOne'
    BY <2>1, <2>2 DEF BackupInv, StepFits, ReadOfOne, AllOf, Sealing, Reading
  <2>6. ArchiveFits' /\ ChecksumLast' /\ NoClientLeftRunning'
    BY <2>1, <2>2, <2>3 DEF BackupInv, ArchiveFits, ChecksumLast, Opens, NoClientLeftRunning, StepFits, Sealing
  <2> QED
    BY <2>4, <2>5, <2>6 DEF BackupInv
<1>18. CASE VerifyArchive
  <2>1. capture' = [capture EXCEPT !.at = "verified", !.code = capture.code] /\ UNCHANGED <<sourceVars, container, disk>>
        /\ capture.at = "archived" /\ Opens
    BY <1>18, <1>a DEF VerifyArchive, Sealing, Places
  <2>2. NoClientLeftRunning'
    BY <1>0, <2>1 DEF BackupInv, NoClientLeftRunning, StepFits, Captures
  <2>3. "verified" \in Places /\ "verified" \notin Reading /\ capture.at \in Sealing /\ capture.code = "none" /\ ~disk.checksum
    BY <2>1 DEF Reading, Sealing, Places, BackupInv, StepFits, ChecksumLast
  <2> QED
    BY <1>0, <2>1, <2>2, <2>3, MoveKeepsInv DEF BackupInv
<1>19. CASE WriteChecksum
  <2>1. /\ disk' = [disk EXCEPT !.checksum = TRUE] /\ capture' = [capture EXCEPT !.at = "summed"] /\ capture.at = "verified"
        /\ UNCHANGED <<sourceVars, container>>
    BY <1>19 DEF WriteChecksum, Goto, SummedAt
  <2>2. /\ capture' \in Captures /\ capture'.at = "summed" /\ capture'.code = capture.code /\ capture'.step = capture.step
        /\ capture'.before = capture.before /\ capture'.dumps = capture.dumps /\ capture'.answer = capture.answer
        /\ source' = source /\ past' = past /\ returned' = returned /\ capture.code = "none" /\ ~disk.checksum
    BY <1>0, <2>1 DEF Captures, Places, Sealing, sourceVars, BackupInv, StepFits, ChecksumLast
  <2>3. disk' \in Disks /\ disk'.archive = disk.archive /\ disk'.checksum /\ disk'.key = disk.key
    BY <1>0, <2>1 DEF Disks
  <2>4. BackupTypes' /\ Forward'
    BY <2>2, <2>3 DEF BackupInv, BackupTypes, Forward
  <2>5. StepFits' /\ ReadOfOne'
    BY <2>1, <2>2 DEF BackupInv, StepFits, ReadOfOne, AllOf, Sealing, Reading
  <2>6. ArchiveFits' /\ ChecksumLast' /\ NoClientLeftRunning'
    BY <2>1, <2>2, <2>3 DEF BackupInv, ArchiveFits, ChecksumLast, Opens, NoClientLeftRunning, StepFits, Sealing
  <2> QED
    BY <2>4, <2>5, <2>6 DEF BackupInv
<1>20. CASE UNCHANGED backupVars
  BY <1>20 DEF backupVars, sourceVars, BackupInv, BackupTypes, Forward, StepFits, ReadOfOne, AllOf, ArchiveFits, ChecksumLast,
     Opens, NoClientLeftRunning
<1> QED
  BY <1>1, <1>2, <1>3, <1>4, <1>5, <1>6, <1>7, <1>8, <1>9, <1>10, <1>11, <1>13, <1>14, <1>15, <1>16, <1>17, <1>18, <1>19, <1>20
     DEF BackupNext

\* A checksum lies only beside an archive that opens, whose dumps are of the
\* content of its manifest: for any number of dumps and any contents.
THEOREM ChecksumOfBackup == BackupSpec => []ChecksumNamesBackup
<1>1. BackupInv => ChecksumNamesBackup
  BY DEF BackupInv, ArchiveFits, ChecksumLast, ReadOfOne, AllOf, Opens, ChecksumNamesBackup
<1> QED
  BY <1>1, BackupInitInv, BackupNextInv, PTL DEF BackupSpec

\* No client reads the source after its step, unless the run says one may.
THEOREM ClientsGone == BackupSpec => []NoClientLeftRunning
<1>1. BackupInv => NoClientLeftRunning
  BY DEF BackupInv
<1> QED
  BY <1>1, BackupInitInv, BackupNextInv, PTL DEF BackupSpec

-----------------------------------------------------------------------------
(* The restore helper *)

Modes == {"restore", "preflight", "verify", "finish", "diagnose"}
Codes ==
  {"none", "COMMITTED", "PREFLIGHT_PASSED", "VERIFIED_READ_ONLY", "SEQUENCES_COMPLETED", "ROLLED_BACK", "FAILED",
   "DIAGNOSTIC_OUTCOME_UNCONFIRMED", "SEQUENCE_OUTCOME_UNCONFIRMED", "OUTCOME_UNCONFIRMED", "CONTAINER_CLEANUP_FAILED"}
PlainCodes == {"FAILED", "PREFLIGHT_PASSED", "VERIFIED_READ_ONLY", "ROLLED_BACK", "DIAGNOSTIC_OUTCOME_UNCONFIRMED"}

RunStates ==
  [at: {"none", "next", "client", "cleaning", "ended"}, mode: Modes, step: 1 .. 3, aborted: BOOLEAN, code: Codes]

\* A run is at a client of its mode; its code is known when it has ended.
RunFits(r) ==
  /\ r.step <= Len(Plan[r.mode])
  /\ r.at = "none" => r.step = 1
  /\ r.at # "ended" => r.code = "none"

RestoreTypes ==
  /\ run \in [Runs -> RunStates]
  /\ session \in [Runs -> {"none", "open", "writing", "positioning", "positioned", "finished", "failed"}]
  /\ rows \in {"empty", "other", "backup"}
  /\ position \in {"as it was", "restored"}
  /\ \A r \in Runs : RunFits(run[r])

\* Runs that may have begun a client that changes the destination.
MayChange(r) == run[r].mode = "finish" \/ (run[r].mode = "restore" /\ run[r].step > 1)

\* What a session that is under way relies on still holds.
SessionOfClient(r) ==
  /\ run[r].at \in {"none", "next"} => session[r] \in {"none", "finished"}
  /\ session[r] = "writing" => Client(r) \in {"import", "replay"} /\ advisory = r /\ rows = "empty"
  /\ session[r] \in {"positioning", "positioned"} => Client(r) = "sequences" /\ rows = "backup"
  /\ session[r] = "positioned" => position = "restored"

\* A client that finished did what it is for, and so did the one before it.
ClientDone(r) ==
  /\ session[r] = "finished" /\ run[r].at = "client" =>
       /\ Client(r) \in {"sequences", "positions"} => position = "restored"
       /\ Client(r) = "rows" => rows = "backup"
  /\ run[r].mode = "verify" /\ run[r].step = 2 => rows = "backup"

\* Only a run that began a client which writes has changed anything, or will.
ChangedByWriter(r) ==
  /\ r \in changed => MayChange(r)
  /\ run[r].at = "none" => r \notin changed
  /\ run[r].code \in PlainCodes => ~MayChange(r)
  /\ run[r].code \in {"COMMITTED", "SEQUENCES_COMPLETED", "VERIFIED_READ_ONLY"} => position = "restored"

RestoreInv ==
  /\ RestoreTypes
  /\ \A r \in Runs : SessionOfClient(r) /\ ClientDone(r) /\ ChangedByWriter(r)
  /\ position = "restored" => rows = "backup"

\* The clients of each mode.
LEMMA Clients ==
  /\ DOMAIN Plan = Modes
  /\ \A r \in Runs : run[r] \in RunStates /\ RunFits(run[r]) =>
       /\ Client(r) \in {"preflight", "import", "sequences", "rows", "positions", "replay"}
       /\ Client(r) = "import" <=> run[r].mode = "restore" /\ run[r].step = 2
       /\ Client(r) = "sequences" => MayChange(r)
       /\ Client(r) = "rows" <=> run[r].mode = "verify" /\ run[r].step = 1
       /\ Client(r) = "positions" <=> run[r].mode = "verify" /\ run[r].step = 2
       /\ run[r].step = Len(Plan[run[r].mode]) <=> \/ run[r].mode = "restore" /\ run[r].step = 3
                                                   \/ run[r].mode = "preflight"
                                                   \/ run[r].mode = "verify" /\ run[r].step = 2
                                                   \/ run[r].mode = "finish"
                                                   \/ run[r].mode = "diagnose" /\ run[r].step = 3
       /\ run[r].mode = "finish" => Client(r) = "sequences"
       /\ run[r].mode = "restore" /\ run[r].step = 3 => Client(r) = "sequences"
       /\ Success[run[r].mode] \in Codes
       /\ FailureOf(r) \in Codes \ {"none", "COMMITTED", "SEQUENCES_COMPLETED", "VERIFIED_READ_ONLY"}
       /\ FailureOf(r) \in PlainCodes => ~MayChange(r)
<1>1. DOMAIN Plan = Modes
  BY DEF Plan, Modes
<1>2. /\ Len(Plan["restore"]) = 3 /\ Len(Plan["preflight"]) = 1 /\ Len(Plan["verify"]) = 2
      /\ Len(Plan["finish"]) = 1 /\ Len(Plan["diagnose"]) = 3
  BY DEF Plan
<1>3. /\ Plan["restore"][1] = "preflight" /\ Plan["restore"][2] = "import" /\ Plan["restore"][3] = "sequences"
      /\ Plan["preflight"][1] = "preflight" /\ Plan["verify"][1] = "rows" /\ Plan["verify"][2] = "positions"
      /\ Plan["finish"][1] = "sequences" /\ Plan["diagnose"][1] = "preflight" /\ Plan["diagnose"][2] = "replay"
      /\ Plan["diagnose"][3] = "preflight"
  BY DEF Plan
<1>4. ASSUME NEW r \in Runs, run[r] \in RunStates, RunFits(run[r])
      PROVE  /\ Client(r) \in {"preflight", "import", "sequences", "rows", "positions", "replay"}
             /\ Client(r) = "import" <=> run[r].mode = "restore" /\ run[r].step = 2
             /\ Client(r) = "sequences" => MayChange(r)
             /\ Client(r) = "rows" <=> run[r].mode = "verify" /\ run[r].step = 1
             /\ Client(r) = "positions" <=> run[r].mode = "verify" /\ run[r].step = 2
             /\ run[r].step = Len(Plan[run[r].mode]) <=> \/ run[r].mode = "restore" /\ run[r].step = 3
                                                         \/ run[r].mode = "preflight"
                                                         \/ run[r].mode = "verify" /\ run[r].step = 2
                                                         \/ run[r].mode = "finish"
                                                         \/ run[r].mode = "diagnose" /\ run[r].step = 3
             /\ run[r].mode = "finish" => Client(r) = "sequences"
             /\ run[r].mode = "restore" /\ run[r].step = 3 => Client(r) = "sequences"
             /\ Success[run[r].mode] \in Codes
             /\ FailureOf(r) \in Codes \ {"none", "COMMITTED", "SEQUENCES_COMPLETED", "VERIFIED_READ_ONLY"}
             /\ FailureOf(r) \in PlainCodes => ~MayChange(r)
  <2>1. /\ run[r].mode \in Modes /\ run[r].step \in {1, 2, 3}
        /\ run[r].step <= Len(Plan[run[r].mode])
    BY <1>4 DEF RunStates, RunFits
  <2>2. Success[run[r].mode] \in Codes
    BY <2>1 DEF Success, Codes, Modes
  <2>3. run[r].mode \in {"restore"} => Plan[run[r].mode][1] \in Begun(r)
                            /\ (run[r].step > 1 => Plan[run[r].mode][2] \in Begun(r))
    BY <2>1 DEF Begun
  <2>4. Begun(r) \subseteq {Plan[run[r].mode][1], Plan[run[r].mode][2], Plan[run[r].mode][3]}
        /\ Plan[run[r].mode][1] \in Begun(r) /\ (run[r].step > 1 => Plan[run[r].mode][2] \in Begun(r))
        /\ (run[r].mode \in {"preflight", "finish"} => Begun(r) = {Plan[run[r].mode][1]})
        /\ (run[r].mode = "verify" => Begun(r) \subseteq {"rows", "positions"})
    BY <1>2, <1>3, <2>1 DEF Begun
  <2>5. FailureOf(r) \in Codes \ {"none", "COMMITTED", "SEQUENCES_COMPLETED", "VERIFIED_READ_ONLY"}
    BY DEF FailureOf, Codes
  <2>6. FailureOf(r) \in PlainCodes => ~MayChange(r)
    BY <1>3, <2>1, <2>4 DEF FailureOf, PlainCodes, MayChange, Modes
  <2>7. /\ Client(r) \in {"preflight", "import", "sequences", "rows", "positions", "replay"}
        /\ Client(r) = "import" <=> run[r].mode = "restore" /\ run[r].step = 2
        /\ Client(r) = "sequences" => MayChange(r)
        /\ Client(r) = "rows" <=> run[r].mode = "verify" /\ run[r].step = 1
        /\ Client(r) = "positions" <=> run[r].mode = "verify" /\ run[r].step = 2
        /\ run[r].mode = "finish" => Client(r) = "sequences"
        /\ run[r].mode = "restore" /\ run[r].step = 3 => Client(r) = "sequences"
    BY <1>2, <1>3, <2>1 DEF Client, MayChange, Modes
  <2>8. run[r].step = Len(Plan[run[r].mode]) <=> \/ run[r].mode = "restore" /\ run[r].step = 3
                                                 \/ run[r].mode = "preflight"
                                                 \/ run[r].mode = "verify" /\ run[r].step = 2
                                                 \/ run[r].mode = "finish"
                                                 \/ run[r].mode = "diagnose" /\ run[r].step = 3
    <3> DEFINE m == run[r].mode
               n == Len(Plan[m])
    <3>1. /\ m = "restore" => n = 3
          /\ m = "preflight" => n = 1
          /\ m = "verify" => n = 2
          /\ m = "finish" => n = 1
          /\ m = "diagnose" => n = 3
      BY <1>2
    <3>2. m \in Modes /\ run[r].step \in {1, 2, 3} /\ run[r].step <= n
      BY <2>1
    <3> HIDE DEF m, n
    <3>3. run[r].step = n <=> \/ m = "restore" /\ run[r].step = 3
                              \/ m = "preflight"
                              \/ m = "verify" /\ run[r].step = 2
                              \/ m = "finish"
                              \/ m = "diagnose" /\ run[r].step = 3
      BY <3>1, <3>2 DEF Modes
    <3> QED
      BY <3>3 DEF m, n
  <2> QED
    BY <2>2, <2>5, <2>6, <2>7, <2>8
<1> QED
  BY <1>1, <1>4

LEMMA RestoreInitInv == RestoreInit => RestoreInv
<1> SUFFICES ASSUME RestoreInit PROVE RestoreInv
  OBVIOUS
<1>1. NotStarted \in RunStates /\ NotStarted.at = "none" /\ NotStarted.step = 1 /\ NotStarted.code = "none"
      /\ NotStarted.mode = "restore" /\ RunFits(NotStarted)
  BY DEF NotStarted, RunStates, RunFits, Modes, Codes, Plan
<1>2. RestoreTypes
  BY <1>1 DEF RestoreInit, RestoreTypes
<1>3. \A r \in Runs : SessionOfClient(r) /\ ClientDone(r) /\ ChangedByWriter(r)
  BY <1>1 DEF RestoreInit, SessionOfClient, ClientDone, ChangedByWriter, PlainCodes
<1> QED
  BY <1>2, <1>3 DEF RestoreInit, RestoreInv

LEMMA RestoreNextInv == RestoreInv /\ [RestoreNext]_restoreVars => RestoreInv'
<1> SUFFICES ASSUME RestoreInv, [RestoreNext]_restoreVars PROVE RestoreInv'
  OBVIOUS
<1>0. /\ run \in [Runs -> RunStates]
      /\ session \in [Runs -> {"none", "open", "writing", "positioning", "positioned", "finished", "failed"}]
      /\ \A r \in Runs : run[r] \in RunStates /\ RunFits(run[r])
  BY DEF RestoreInv, RestoreTypes
\* A step of the helper of run r moves no session and no table.
<1>a. ASSUME NEW r \in Runs, NEW f \in RunStates, RunFits(f), run' = [run EXCEPT ![r] = f],
             UNCHANGED <<rows, position, advisory, session, changed>>,
             SessionOfClient(r)', ClientDone(r)', ChangedByWriter(r)'
      PROVE  RestoreInv'
  <2>1. run'[r] = f /\ \A s \in Runs : s # r => run'[s] = run[s]
    BY <1>0, <1>a
  <2>2. RestoreTypes'
    BY <1>0, <1>a, <2>1 DEF RestoreInv, RestoreTypes
  <2>3. ASSUME NEW s \in Runs, s # r PROVE SessionOfClient(s)' /\ ClientDone(s)' /\ ChangedByWriter(s)'
    <3>1. SessionOfClient(s) /\ ClientDone(s) /\ ChangedByWriter(s)
      BY DEF RestoreInv
    <3> QED
      BY <1>a, <2>1, <2>3, <3>1 DEF SessionOfClient, ClientDone, ChangedByWriter, Client, MayChange
  <2>4. \A s \in Runs : SessionOfClient(s)' /\ ClientDone(s)' /\ ChangedByWriter(s)'
    BY <1>a, <2>3
  <2> QED
    BY <1>a, <2>2, <2>4 DEF RestoreInv
\* A step of the session of run r moves no helper; it changes only what the
\* sessions of the others do not rely on.
<1>b. ASSUME NEW r \in Runs, UNCHANGED run,
             NEW t \in {"none", "open", "writing", "positioning", "positioned", "finished", "failed"},
             session' = [session EXCEPT ![r] = t],
             rows' = rows \/ (rows = "empty" /\ rows' = "backup" /\ session[r] = "writing"),
             position' \in {position, "restored"}, position' = "restored" => rows' = "backup",
             advisory' = advisory \/ advisory \in {r, NoRun},
             changed' \in {changed, changed \cup {r}},
             SessionOfClient(r)', ClientDone(r)', ChangedByWriter(r)'
      PROVE  RestoreInv'
  <2>1. session'[r] = t /\ \A s \in Runs : s # r => session'[s] = session[s]
    BY <1>0, <1>b
  <2>2. RestoreTypes'
    BY <1>0, <1>b, <2>1 DEF RestoreInv, RestoreTypes
  <2>3. ASSUME NEW s \in Runs, s # r PROVE SessionOfClient(s)' /\ ClientDone(s)' /\ ChangedByWriter(s)'
    <3>1. SessionOfClient(s) /\ ClientDone(s) /\ ChangedByWriter(s) /\ SessionOfClient(r)
      BY DEF RestoreInv
    <3>2. session'[s] = session[s] /\ (session[s] = "writing" => advisory' = s /\ rows' = rows)
      BY <1>b, <2>1, <2>3, <3>1, RestoreAssumption DEF SessionOfClient
    <3>3. SessionOfClient(s)'
      BY <1>b, <3>1, <3>2 DEF SessionOfClient, Client
    <3>4. ClientDone(s)' /\ ChangedByWriter(s)'
      BY <1>b, <2>3, <3>1, <3>2 DEF ClientDone, ChangedByWriter, Client, MayChange
    <3> QED
      BY <3>3, <3>4
  <2>4. \A s \in Runs : SessionOfClient(s)' /\ ClientDone(s)' /\ ChangedByWriter(s)'
    BY <1>b, <2>3
  <2> QED
    BY <1>b, <2>2, <2>4 DEF RestoreInv
\* What is known of a run.
<1>c. ASSUME NEW r \in Runs
      PROVE  /\ SessionOfClient(r) /\ ClientDone(r) /\ ChangedByWriter(r)
             /\ run[r] \in RunStates /\ RunFits(run[r])
             /\ session[r] \in {"none", "open", "writing", "positioning", "positioned", "finished", "failed"}
  BY <1>0 DEF RestoreInv
<1>1. ASSUME NEW r \in Runs, NEW mode \in DOMAIN Plan, StartRun(r, mode) PROVE RestoreInv'
  <2> DEFINE f == [run[r] EXCEPT !.at = "next", !.mode = mode]
  <2>1. run' = [run EXCEPT ![r] = f] /\ run[r].at = "none" /\ UNCHANGED <<rows, position, advisory, session, changed>>
    BY <1>0, <1>1 DEF StartRun
  <2>2. f \in RunStates /\ f.at = "next" /\ f.mode = mode /\ f.step = 1 /\ f.code = "none"
    BY <1>c, <1>1, <2>1, Clients DEF RunStates, RunFits
  <2>3. Len(Plan[mode]) >= 1
    BY <1>1 DEF Plan
  <2>4. RunFits(f)
    BY <2>2, <2>3 DEF RunFits
  <2>5. run'[r] = f /\ session[r] \in {"none", "finished"} /\ r \notin changed
    BY <1>0, <1>c, <2>1 DEF SessionOfClient, ChangedByWriter
  <2> HIDE DEF f
  <2>6. SessionOfClient(r)' /\ ClientDone(r)' /\ ChangedByWriter(r)'
    BY <2>1, <2>2, <2>5 DEF SessionOfClient, ClientDone, ChangedByWriter, PlainCodes
  <2> QED
    BY <1>a, <2>1, <2>2, <2>4, <2>6
<1>2. ASSUME NEW r \in Runs, InterruptRun(r) \/ GiveUp(r) \/ Connect(r) PROVE RestoreInv'
  <2>1. CASE InterruptRun(r) \/ GiveUp(r)
    <3>1. PICK f \in RunStates :
            /\ run' = [run EXCEPT ![r] = f] /\ f.mode = run[r].mode /\ f.step = run[r].step /\ f.code = run[r].code
            /\ f.at = run[r].at \/ f.at = "cleaning"
            /\ run[r].at \notin {"none", "ended"}
            /\ UNCHANGED <<rows, position, advisory, session, changed>>
      BY <1>c, <2>1 DEF InterruptRun, GiveUp, RunStates
    <3>2. run'[r] = f /\ RunFits(f)
      BY <1>0, <3>1 DEF RunFits
    <3>3. SessionOfClient(r)' /\ ClientDone(r)' /\ ChangedByWriter(r)'
      BY <1>c, <3>1, <3>2 DEF SessionOfClient, ClientDone, ChangedByWriter, Client, MayChange
    <3> QED
      BY <1>a, <3>1, <3>2, <3>3
  <2>2. CASE Connect(r)
    <3> DEFINE f == [run[r] EXCEPT !.at = "client"]
    <3>1. /\ run' = [run EXCEPT ![r] = f] /\ session' = [session EXCEPT ![r] = "open"]
          /\ UNCHANGED <<rows, position, advisory, changed>> /\ run[r].at = "next"
      BY <1>0, <2>2 DEF Connect
    <3>2. f \in RunStates /\ f.at = "client" /\ f.mode = run[r].mode /\ f.step = run[r].step /\ f.code = run[r].code
      BY <1>c DEF RunStates
    <3>3. RunFits(f)
      BY <1>c, <3>1, <3>2 DEF RunFits
    <3>4. run'[r] = f /\ session'[r] = "open"
          /\ \A s \in Runs : s # r => run'[s] = run[s] /\ session'[s] = session[s]
      BY <1>0, <3>1
    <3> HIDE DEF f
    <3>5. RestoreTypes'
      BY <1>0, <3>1, <3>2, <3>3, <3>4 DEF RestoreInv, RestoreTypes
    <3>6. ASSUME NEW s \in Runs PROVE SessionOfClient(s)' /\ ClientDone(s)' /\ ChangedByWriter(s)'
      BY <1>c, <3>1, <3>2, <3>4 DEF SessionOfClient, ClientDone, ChangedByWriter, Client, MayChange
    <3> QED
      BY <3>1, <3>5, <3>6 DEF RestoreInv
  <2> QED
    BY <1>2, <2>1, <2>2
\* The end of a run.
<1>d. ASSUME NEW r \in Runs, NEW code \in Codes \ {"none"}, EndRun(r, code), run[r].at # "none",
             UNCHANGED <<rows, position, advisory, session, changed>>,
             code \in PlainCodes => ~MayChange(r),
             code \in {"COMMITTED", "SEQUENCES_COMPLETED", "VERIFIED_READ_ONLY"} => position = "restored"
      PROVE  RestoreInv'
  <2> DEFINE f == [run[r] EXCEPT !.at = "ended", !.code = code]
  <2>1. run' = [run EXCEPT ![r] = f]
    BY <1>0, <1>d DEF EndRun
  <2>2. f \in RunStates /\ f.at = "ended" /\ f.mode = run[r].mode /\ f.step = run[r].step /\ f.code = code
    BY <1>c, <1>d DEF RunStates
  <2>3. RunFits(f) /\ run'[r] = f
    BY <1>0, <1>c, <2>1, <2>2 DEF RunFits
  <2> HIDE DEF f
  <2>4. SessionOfClient(r)' /\ ClientDone(r)' /\ ChangedByWriter(r)'
    BY <1>c, <1>d, <2>2, <2>3 DEF SessionOfClient, ClientDone, ChangedByWriter, Client, MayChange
  <2> QED
    BY <1>a, <1>d, <2>1, <2>2, <2>3, <2>4
<1>3. ASSUME NEW r \in Runs, CleanUpFails(r) PROVE RestoreInv'
  <2>1. "CONTAINER_CLEANUP_FAILED" \in Codes \ {"none"} /\ "CONTAINER_CLEANUP_FAILED" \notin PlainCodes
    BY DEF Codes, PlainCodes
  <2> QED
    BY <1>d, <1>3, <2>1 DEF CleanUpFails
<1>4. ASSUME NEW r \in Runs, FailRun(r) PROVE RestoreInv'
  <2>1. FailureOf(r) \in Codes \ {"none", "COMMITTED", "SEQUENCES_COMPLETED", "VERIFIED_READ_ONLY"}
        /\ (FailureOf(r) \in PlainCodes => ~MayChange(r))
    BY <1>c, Clients
  <2>2. EndRun(r, FailureOf(r)) /\ run[r].at # "none" /\ UNCHANGED <<rows, position, advisory, session, changed>>
    BY <1>4 DEF FailRun
  <2> QED
    BY <1>d, <2>1, <2>2
<1>5. ASSUME NEW r \in Runs, TakeAnswer(r) PROVE RestoreInv'
  <2>1. /\ session[r] = "finished" /\ run[r].at = "client"
        /\ UNCHANGED <<rows, position, advisory, session, changed>>
    BY <1>5 DEF TakeAnswer
  <2>2. /\ Client(r) \in {"sequences", "positions"} => position = "restored"
        /\ Client(r) = "rows" => rows = "backup"
    BY <1>c, <2>1 DEF ClientDone
  <2>3. CASE run[r].step = Len(Plan[run[r].mode])
    <3>1. Success[run[r].mode] \in Codes \ {"none"}
          /\ (Success[run[r].mode] \in PlainCodes => ~MayChange(r))
          /\ (Success[run[r].mode] \in {"COMMITTED", "SEQUENCES_COMPLETED", "VERIFIED_READ_ONLY"} => position = "restored")
      BY <1>c, <2>2, <2>3, Clients DEF Success, Codes, PlainCodes, MayChange, RunStates, Modes
    <3>2. EndRun(r, Success[run[r].mode])
      BY <1>5, <2>3 DEF TakeAnswer
    <3> QED
      BY <1>d, <2>1, <3>1, <3>2
  <2>4. CASE run[r].step # Len(Plan[run[r].mode])
    <3> DEFINE f == [run[r] EXCEPT !.at = "next", !.step = @ + 1]
    <3>1. run' = [run EXCEPT ![r] = f]
      BY <1>0, <1>5, <2>4 DEF TakeAnswer
    <3>2. Len(Plan[run[r].mode]) \in {1, 2, 3}
      BY <1>c DEF Plan, RunStates, Modes
    <3>3. run[r].step \in 1 .. 3 /\ run[r].step + 1 \in 1 .. 3 /\ run[r].step + 1 <= Len(Plan[run[r].mode])
      <4> DEFINE n == Len(Plan[run[r].mode])
      <4>1. n \in {1, 2, 3} /\ run[r].step \in 1 .. 3 /\ run[r].step <= n /\ run[r].step # n
        BY <1>c, <2>4, <3>2 DEF RunStates, RunFits
      <4> HIDE DEF n
      <4>2. run[r].step \in 1 .. 3 /\ run[r].step + 1 \in 1 .. 3 /\ run[r].step + 1 <= n
        BY <4>1
      <4> QED
        BY <4>2 DEF n
    <3>4. f \in RunStates /\ f.at = "next" /\ f.mode = run[r].mode /\ f.step = run[r].step + 1 /\ f.code = run[r].code
      BY <1>c, <3>3 DEF RunStates
    <3>5. RunFits(f) /\ run'[r] = f
      BY <1>0, <1>c, <2>1, <3>1, <3>3, <3>4 DEF RunFits
    <3> HIDE DEF f
    <3>6. run[r].mode = "verify" /\ f.step = 2 => rows = "backup"
      BY <1>c, <2>2, <3>3, <3>4, Clients
    <3>7. run[r].code = "none"
      BY <1>c, <2>1 DEF RunFits
    <3>8. MayChange(r) => MayChange(r)'
      BY <3>3, <3>4, <3>5 DEF MayChange
    <3>9. SessionOfClient(r)' /\ ClientDone(r)' /\ ChangedByWriter(r)'
      BY <1>c, <2>1, <3>4, <3>5, <3>6, <3>7, <3>8 DEF SessionOfClient, ClientDone, ChangedByWriter, PlainCodes
    <3> QED
      BY <1>a, <2>1, <3>1, <3>4, <3>5, <3>9
  <2> QED
    BY <2>3, <2>4
<1>6. ASSUME NEW r \in Runs, ReadDestination(r) PROVE RestoreInv'
  <2> DEFINE t == IF Confirms(Client(r)) THEN "finished" ELSE "failed"
  <2>1. /\ session' = [session EXCEPT ![r] = t] /\ session[r] = "open" /\ Client(r) \in Reads
        /\ UNCHANGED <<rows, position, advisory, run, changed>>
    BY <1>6 DEF ReadDestination
  <2>2. t = "finished" => /\ Client(r) = "rows" => rows = "backup"
                          /\ Client(r) = "positions" => position = "restored"
                          /\ Client(r) # "sequences"
    BY <2>1 DEF Confirms, Reads
  <2>3. t \in {"finished", "failed"}
    OBVIOUS
  <2> HIDE DEF t
  <2>4. session'[r] = t
    BY <1>0, <2>1
  <2>5. SessionOfClient(r)' /\ ClientDone(r)' /\ ChangedByWriter(r)'
    BY <1>c, <2>1, <2>2, <2>3, <2>4 DEF SessionOfClient, ClientDone, ChangedByWriter, Client, MayChange
  <2> QED
    BY <1>b, <2>1, <2>3, <2>5 DEF RestoreInv
<1>7. ASSUME NEW r \in Runs, TakeLock(r) PROVE RestoreInv'
  <2>1. PICK t \in {"writing", "failed"} :
          /\ session' = [session EXCEPT ![r] = t] /\ session[r] = "open" /\ Client(r) \in {"import", "replay"}
          /\ advisory = NoRun /\ (t = "writing" => advisory' = r /\ rows = "empty")
          /\ UNCHANGED <<rows, position, run, changed>> /\ advisory' \in {advisory, r}
    BY <1>7 DEF TakeLock, EmptyStill
  <2>2. session'[r] = t
    BY <1>0, <2>1
  <2>3. SessionOfClient(r)' /\ ClientDone(r)' /\ ChangedByWriter(r)'
    BY <1>c, <2>1, <2>2 DEF SessionOfClient, ClientDone, ChangedByWriter, Client, MayChange
  <2> QED
    BY <1>b, <2>1, <2>3 DEF RestoreInv
<1>8. ASSUME NEW r \in Runs, CommitImport(r) PROVE RestoreInv'
  <2>1. /\ session' = [session EXCEPT ![r] = "finished"] /\ session[r] = "writing" /\ Client(r) = "import"
        /\ advisory' = NoRun /\ advisory = r /\ rows = "empty" /\ rows' = "backup"
        /\ changed' = changed \cup {r} /\ UNCHANGED <<position, run>>
    BY <1>c, <1>8 DEF CommitImport, SessionOfClient
  <2>2. session'[r] = "finished" /\ MayChange(r) /\ run[r].at # "none"
    BY <1>0, <1>c, <2>1, Clients DEF MayChange, SessionOfClient
  <2>3. SessionOfClient(r)' /\ ClientDone(r)' /\ ChangedByWriter(r)'
    BY <1>c, <2>1, <2>2 DEF SessionOfClient, ClientDone, ChangedByWriter, Client, MayChange
  <2> QED
    BY <1>b, <2>1, <2>3 DEF RestoreInv
<1>9. ASSUME NEW r \in Runs, RollBackReplay(r) \/ VerifyRows(r) \/ CommitPosition(r) \/ SessionFails(r)
      PROVE  RestoreInv'
  <2>1. PICK t \in {"finished", "positioning", "failed"} :
          /\ session' = [session EXCEPT ![r] = t]
          /\ t = "finished" => \/ Client(r) = "replay" /\ session[r] = "writing"
                               \/ Client(r) = "sequences" /\ position = "restored" /\ session[r] = "positioned"
          /\ t = "positioning" => Client(r) = "sequences" /\ rows = "backup"
          /\ session[r] \in {"open", "writing", "positioning", "positioned"}
          /\ UNCHANGED <<rows, position, run, changed>>
          /\ advisory' = advisory \/ advisory = r
    <3>1. CASE RollBackReplay(r)
      BY <1>c, <3>1 DEF RollBackReplay, SessionOfClient
    <3>2. CASE VerifyRows(r)
      BY <3>2 DEF VerifyRows
    <3>3. CASE CommitPosition(r)
      BY <1>c, <3>3 DEF CommitPosition, SessionOfClient
    <3>4. CASE SessionFails(r)
      BY <3>4 DEF SessionFails
    <3> QED
      BY <1>9, <3>1, <3>2, <3>3, <3>4
  <2>2. session'[r] = t
    BY <1>0, <2>1
  <2>3. SessionOfClient(r)' /\ ClientDone(r)' /\ ChangedByWriter(r)'
    BY <1>c, <2>1, <2>2 DEF SessionOfClient, ClientDone, ChangedByWriter, Client, MayChange
  <2> QED
    BY <1>b, <2>1, <2>3 DEF RestoreInv
<1>10. ASSUME NEW r \in Runs, SetPosition(r) PROVE RestoreInv'
  <2>1. /\ session' = [session EXCEPT ![r] = "positioned"] /\ session[r] = "positioning" /\ Client(r) = "sequences"
        /\ rows = "backup" /\ position' = "restored" /\ changed' = changed \cup {r}
        /\ UNCHANGED <<rows, advisory, run>>
    BY <1>c, <1>10 DEF SetPosition, SessionOfClient
  <2>2. session'[r] = "positioned" /\ MayChange(r) /\ run[r].at # "none"
    BY <1>0, <1>c, <2>1, Clients DEF SessionOfClient
  <2>3. SessionOfClient(r)' /\ ClientDone(r)' /\ ChangedByWriter(r)'
    BY <1>c, <2>1, <2>2 DEF SessionOfClient, ClientDone, ChangedByWriter, Client, MayChange
  <2> QED
    BY <1>b, <2>1, <2>3 DEF RestoreInv
<1>11. CASE UNCHANGED restoreVars
  BY <1>11 DEF restoreVars, RestoreInv, RestoreTypes, SessionOfClient, ClientDone, ChangedByWriter, Client, MayChange
<1> QED
  BY <1>1, <1>2, <1>3, <1>4, <1>5, <1>6, <1>7, <1>8, <1>9, <1>10, <1>11 DEF RestoreNext

\* The tables are filled once and the position set over them only, and what a
\* report of success says stays true: for any number of overlapping runs.
THEOREM RestoreOnce == RestoreSpec => []RestoredOnce
<1>1. RestoreInv => RestoredOnce
  BY DEF RestoreInv, RestoreTypes, RestoredOnce, ChangedByWriter
<1> QED
  BY <1>1, RestoreInitInv, RestoreNextInv, PTL DEF RestoreSpec

\* A run that reports a plain failure, or a mode that only reads, has changed
\* nothing, and no session of it that is still under way will.
THEOREM PlainFailures == RestoreSpec => []PlainFailureChangedNothing
<1>1. RestoreInv => PlainFailureChangedNothing
  BY DEF RestoreInv, ChangedByWriter, PlainFailureChangedNothing, PlainCodes
<1> QED
  BY <1>1, RestoreInitInv, RestoreNextInv, PTL DEF RestoreSpec

-----------------------------------------------------------------------------
(* The setup helper *)

Entries == [binding: Bindings \cup {AnyBinding}, from: Setups \cup {NoSetup}]

SetupStates ==
  [at: {"none", "waiting", "exchanging", "verifying", "saving", "renaming", "revoking", "closing", "ended", "dead"},
   mode: {"setup", "diagnose"}, binding: Bindings \cup {AnyBinding}, original: SUBSET Entries,
   tokens: {"none", "both", "access"}, cancelled: BOOLEAN, saved: BOOLEAN,
   cleanup: {"UNAVAILABLE", "REFRESH_REVOKED", "ACCESS_REVOKED", "FAILED"}]

SetupTypes ==
  /\ setup \in [Setups -> SetupStates]
  /\ grant \in [Setups -> {"none", "requested", "active", "revoked"}]
  /\ bindings \subseteq Entries

\* A run that sets up holds the lock until it closes, so one at a time saves.
HoldsLock(s) == setup[s].mode = "setup" /\ setup[s].at \notin {"none", "ended", "dead"} => locked = s

\* What each place of a run says of its grant, its entry and its report.
GrantOf(s) ==
  /\ setup[s].at \in {"verifying", "saving", "renaming", "revoking"} => grant[s] = "active"
  /\ setup[s].at \in {"none", "waiting", "exchanging", "verifying", "saving", "renaming", "revoking"} =>
       setup[s].cleanup = "UNAVAILABLE" /\ ~setup[s].saved
  /\ setup[s].cleanup = "REFRESH_REVOKED" => grant[s] = "revoked"
  /\ setup[s].saved => grant[s] = "active"

EntryOf(s) ==
  /\ setup[s].at \in {"saving", "renaming"} => setup[s].mode = "setup"
  /\ setup[s].at = "renaming" => bindings = setup[s].original /\ Free(setup[s].binding, bindings)
  /\ setup[s].saved <=> \E e \in bindings : e.from = s

OneEntryEach == \A e \in bindings : Free(e.binding, bindings \ {e})

SetupInv == SetupTypes /\ (\A s \in Setups : HoldsLock(s) /\ GrantOf(s) /\ EntryOf(s)) /\ OneEntryEach

LEMMA SetupInitInv == SetupInit => SetupInv
<1> SUFFICES ASSUME SetupInit PROVE SetupInv
  OBVIOUS
<1>1. Unstarted \in SetupStates /\ Unstarted.at = "none" /\ Unstarted.cleanup = "UNAVAILABLE" /\ Unstarted.saved = FALSE
  BY DEF Unstarted, SetupStates
<1> QED
  BY <1>1 DEF SetupInit, SetupInv, SetupTypes, HoldsLock, GrantOf, EntryOf, OneEntryEach

\* An entry whose alias and business are free can be added.
LEMMA FreeOfNew ==
  ASSUME OneEntryEach, NEW n, Free(n.binding, bindings), bindings' = bindings \cup {n}
  PROVE  OneEntryEach'
BY DEF OneEntryEach, Free

LEMMA SetupNextInv == SetupInv /\ [SetupNext]_setupVars => SetupInv' /\ bindings \subseteq bindings'
<1> SUFFICES ASSUME SetupInv, [SetupNext]_setupVars PROVE SetupInv' /\ bindings \subseteq bindings'
  OBVIOUS
<1>0. setup \in [Setups -> SetupStates] /\ \A s \in Setups : setup[s] \in SetupStates
  BY DEF SetupInv, SetupTypes
\* What is known of a run.
<1>k. ASSUME NEW s \in Setups PROVE setup[s] \in SetupStates /\ HoldsLock(s) /\ GrantOf(s) /\ EntryOf(s)
  BY <1>0 DEF SetupInv
\* A step of run s that leaves the file alone: the other runs notice at most
\* that its lock is gone, which was not theirs.
<1>a. ASSUME NEW s \in Setups, NEW f \in SetupStates, setup' = [setup EXCEPT ![s] = f], UNCHANGED bindings,
             NEW g \in {"none", "requested", "active", "revoked"}, grant' = [grant EXCEPT ![s] = g],
             locked' = locked \/ locked \in {s, NoSetup}, HoldsLock(s)', GrantOf(s)', EntryOf(s)'
      PROVE  SetupInv' /\ bindings \subseteq bindings'
  <2>1. setup'[s] = f /\ (\A r \in Setups : r # s => setup'[r] = setup[r] /\ grant'[r] = grant[r])
    BY <1>0, <1>a DEF SetupInv, SetupTypes
  <2>2. SetupTypes'
    BY <1>0, <1>a DEF SetupInv, SetupTypes
  <2>3. ASSUME NEW r \in Setups, r # s PROVE HoldsLock(r)' /\ GrantOf(r)' /\ EntryOf(r)'
    BY <1>a, <1>k, <2>1, <2>3, SetupAssumption DEF HoldsLock, GrantOf, EntryOf
  <2>4. OneEntryEach'
    BY <1>a DEF SetupInv, OneEntryEach
  <2> QED
    BY <1>a, <2>2, <2>3, <2>4 DEF SetupInv
\* The same where only the place of the run moves.
<1>b. ASSUME NEW s \in Setups,
             NEW at \in {"waiting", "exchanging", "verifying", "saving", "renaming", "revoking", "closing", "ended", "dead"},
             Step(s, at), UNCHANGED bindings, UNCHANGED grant,
             locked' = locked \/ (locked = s /\ at = "ended"),
             setup[s].at # "none",
             at = "saving" => setup[s].mode = "setup",
             at = "renaming" => bindings = setup[s].original /\ Free(setup[s].binding, bindings) /\ setup[s].mode = "setup",
             at \in {"verifying", "saving", "renaming", "revoking"} => grant[s] = "active",
             at \in {"waiting", "exchanging", "verifying", "saving", "renaming", "revoking"} =>
               setup[s].at \in {"waiting", "exchanging", "verifying", "saving", "renaming", "revoking"},
             setup[s].at \notin {"ended", "dead"}
      PROVE  SetupInv' /\ bindings \subseteq bindings'
  <2> DEFINE f == [setup[s] EXCEPT !.at = at]
  <2>1. f \in SetupStates /\ f.at = at /\ f.mode = setup[s].mode /\ f.cleanup = setup[s].cleanup /\ f.saved = setup[s].saved
        /\ f.original = setup[s].original /\ f.binding = setup[s].binding
    BY <1>b, <1>k DEF SetupStates
  <2>2. setup' = [setup EXCEPT ![s] = f] /\ setup'[s] = f
    BY <1>0, <1>b DEF Step
  <2>3. grant' = [grant EXCEPT ![s] = grant[s]] /\ grant[s] \in {"none", "requested", "active", "revoked"}
    BY <1>b DEF SetupInv, SetupTypes
  <2> HIDE DEF f
  <2>4. HoldsLock(s)'
    BY <1>b, <1>k, <2>1, <2>2 DEF HoldsLock
  <2>5. GrantOf(s)'
    BY <1>b, <1>k, <2>1, <2>2 DEF GrantOf
  <2>6. EntryOf(s)'
    BY <1>b, <1>k, <2>1, <2>2 DEF EntryOf
  <2> QED
    BY <1>a, <1>b, <2>1, <2>2, <2>3, <2>4, <2>5, <2>6
<1>1. ASSUME NEW s \in Setups,
             (\E b \in Bindings : OpenStore(s, b)) \/ StartDiagnostic(s) PROVE SetupInv' /\ bindings \subseteq bindings'
  <2>1. PICK f \in SetupStates :
          /\ setup' = [setup EXCEPT ![s] = f] /\ f.at = "waiting" /\ f.cleanup = "UNAVAILABLE" /\ f.saved = FALSE
          /\ f.mode = "setup" => locked' = s
          /\ locked' = locked \/ locked = NoSetup
          /\ setup[s].at = "none" /\ UNCHANGED <<bindings, grant>>
    <3>1. CASE StartDiagnostic(s)
      <4> DEFINE f == [Unstarted EXCEPT !.at = "waiting", !.mode = "diagnose"]
      <4>1. f \in SetupStates /\ f.at = "waiting" /\ f.cleanup = "UNAVAILABLE" /\ f.saved = FALSE /\ f.mode = "diagnose"
        BY DEF Unstarted, SetupStates
      <4>2. setup' = [setup EXCEPT ![s] = f]
        BY <3>1 DEF StartDiagnostic
      <4> QED
        BY <3>1, <4>1, <4>2 DEF StartDiagnostic
    <3>2. ASSUME NEW b \in Bindings, OpenStore(s, b)
          PROVE  \E f \in SetupStates :
                   /\ setup' = [setup EXCEPT ![s] = f] /\ f.at = "waiting" /\ f.cleanup = "UNAVAILABLE" /\ f.saved = FALSE
                   /\ f.mode = "setup" => locked' = s
                   /\ locked' = locked \/ locked = NoSetup
                   /\ setup[s].at = "none" /\ UNCHANGED <<bindings, grant>>
      <4> DEFINE f == [Unstarted EXCEPT !.at = "waiting", !.binding = b, !.original = bindings]
      <4>1. f \in SetupStates /\ f.at = "waiting" /\ f.cleanup = "UNAVAILABLE" /\ f.saved = FALSE
        BY DEF Unstarted, SetupStates, SetupInv, SetupTypes
      <4>2. setup' = [setup EXCEPT ![s] = f]
        BY <3>2 DEF OpenStore
      <4> QED
        BY <3>2, <4>1, <4>2 DEF OpenStore
    <3> QED
      BY <1>1, <3>1, <3>2
  <2>2. setup'[s] = f /\ grant' = [grant EXCEPT ![s] = grant[s]] /\ grant[s] \in {"none", "requested", "active", "revoked"}
    BY <1>0, <2>1 DEF SetupInv, SetupTypes
  <2>3. HoldsLock(s)' /\ GrantOf(s)' /\ EntryOf(s)'
    BY <1>k, <2>1, <2>2 DEF HoldsLock, GrantOf, EntryOf
  <2> QED
    BY <1>a, <2>1, <2>2, <2>3
<1>2. ASSUME NEW s \in Setups, Cancel(s) PROVE SetupInv' /\ bindings \subseteq bindings'
  <2> DEFINE f == [setup[s] EXCEPT !.cancelled = TRUE]
  <2>1. f \in SetupStates /\ f.at = setup[s].at /\ f.mode = setup[s].mode /\ f.cleanup = setup[s].cleanup
        /\ f.saved = setup[s].saved /\ f.original = setup[s].original /\ f.binding = setup[s].binding
    BY <1>k DEF SetupStates
  <2>2. setup' = [setup EXCEPT ![s] = f] /\ setup'[s] = f /\ UNCHANGED <<bindings, locked, grant>>
    BY <1>0, <1>2 DEF Cancel
  <2>3. grant' = [grant EXCEPT ![s] = grant[s]] /\ grant[s] \in {"none", "requested", "active", "revoked"}
    BY <2>2 DEF SetupInv, SetupTypes
  <2> HIDE DEF f
  <2>4. HoldsLock(s)' /\ GrantOf(s)' /\ EntryOf(s)'
    BY <1>k, <2>1, <2>2 DEF HoldsLock, GrantOf, EntryOf
  <2> QED
    BY <1>a, <2>1, <2>2, <2>3, <2>4
<1>3. ASSUME NEW s \in Setups, TakeCallback(s) \/ IssueGrant(s) PROVE SetupInv' /\ bindings \subseteq bindings'
  <2>1. PICK f \in SetupStates, g \in {"none", "requested", "active", "revoked"} :
          /\ setup' = [setup EXCEPT ![s] = f] /\ grant' = [grant EXCEPT ![s] = g] /\ UNCHANGED <<bindings, locked>>
          /\ f.mode = setup[s].mode /\ f.cleanup = setup[s].cleanup
          /\ f.saved = setup[s].saved /\ f.original = setup[s].original /\ f.binding = setup[s].binding
          /\ \/ f.at = "exchanging" /\ setup[s].at = "waiting"
             \/ f.at = setup[s].at /\ g = "active" /\ grant[s] = "requested"
    <3>1. CASE TakeCallback(s)
      <4> DEFINE f == [setup[s] EXCEPT !.at = "exchanging"]
      <4>1. f \in SetupStates /\ f.at = "exchanging" /\ f.mode = setup[s].mode /\ f.cleanup = setup[s].cleanup
            /\ f.saved = setup[s].saved /\ f.original = setup[s].original /\ f.binding = setup[s].binding
        BY <1>k DEF SetupStates
      <4>2. setup' = [setup EXCEPT ![s] = f]
        BY <3>1 DEF TakeCallback, Step
      <4> QED
        BY <3>1, <4>1, <4>2 DEF TakeCallback
    <3>2. CASE IssueGrant(s)
      <4>1. setup' = [setup EXCEPT ![s] = setup[s]]
        BY <1>0, <3>2 DEF IssueGrant
      <4> QED
        BY <1>k, <3>2, <4>1 DEF IssueGrant
    <3> QED
      BY <1>3, <3>1, <3>2
  <2>2. setup'[s] = f /\ grant'[s] = g
    BY <1>0, <2>1 DEF SetupInv, SetupTypes
  <2>3. HoldsLock(s)' /\ GrantOf(s)' /\ EntryOf(s)'
    BY <1>k, <2>1, <2>2 DEF HoldsLock, GrantOf, EntryOf
  <2> QED
    BY <1>a, <2>1, <2>2, <2>3
<1>4. ASSUME NEW s \in Setups, NEW t \in {"both", "access"}, ReceiveTokens(s, t) PROVE SetupInv' /\ bindings \subseteq bindings'
  <2> DEFINE at == IF t = "both" THEN "verifying" ELSE "revoking"
             f == [setup[s] EXCEPT !.at = at, !.tokens = t]
  <2>1. f \in SetupStates /\ f.at \in {"verifying", "revoking"} /\ f.mode = setup[s].mode /\ f.cleanup = setup[s].cleanup
        /\ f.saved = setup[s].saved
    BY <1>k DEF SetupStates
  <2>2. setup' = [setup EXCEPT ![s] = f] /\ setup'[s] = f /\ UNCHANGED <<bindings, locked, grant>>
        /\ setup[s].at = "exchanging" /\ grant[s] = "active"
    BY <1>0, <1>4 DEF ReceiveTokens
  <2>3. grant' = [grant EXCEPT ![s] = grant[s]]
    BY <2>2 DEF SetupInv, SetupTypes
  <2> HIDE DEF f
  <2>4. HoldsLock(s)' /\ GrantOf(s)' /\ EntryOf(s)'
    BY <1>k, <2>1, <2>2 DEF HoldsLock, GrantOf, EntryOf
  <2> QED
    BY <1>a, <2>1, <2>2, <2>3, <2>4
<1>5. ASSUME NEW s \in Setups, StopWaiting(s) \/ ExchangeFails(s) PROVE SetupInv' /\ bindings \subseteq bindings'
  <2>1. Step(s, "closing") /\ UNCHANGED <<bindings, locked, grant>> /\ setup[s].at \in {"waiting", "exchanging"}
    BY <1>5 DEF StopWaiting, ExchangeFails
  <2> QED
    BY <1>b, <2>1
<1>6. ASSUME NEW s \in Setups, Verify(s) \/ GiveBack(s) \/ SaveGrantFails(s) PROVE SetupInv' /\ bindings \subseteq bindings'
  <2>1. PICK at \in {"saving", "revoking"} : Step(s, at) /\ UNCHANGED <<bindings, locked, grant>>
          /\ setup[s].at \in {"verifying", "saving", "renaming"} /\ (at = "saving" => setup[s].mode = "setup")
    BY <1>6 DEF Verify, GiveBack, SaveGrantFails
  <2>2. grant[s] = "active"
    BY <1>k, <2>1 DEF GrantOf
  <2> QED
    BY <1>b, <2>1, <2>2
<1>7. ASSUME NEW s \in Setups, CheckFile(s) PROVE SetupInv' /\ bindings \subseteq bindings'
  <2>1. Step(s, "renaming") /\ UNCHANGED <<bindings, locked, grant>> /\ setup[s].at = "saving"
        /\ bindings = setup[s].original /\ Free(setup[s].binding, bindings)
    BY <1>7 DEF CheckFile, UnchangedSince
  <2>2. grant[s] = "active" /\ setup[s].mode = "setup"
    BY <1>k, <2>1 DEF GrantOf, EntryOf
  <2> QED
    BY <1>b, <2>1, <2>2
<1>8. ASSUME NEW s \in Setups, RenameFile(s) PROVE SetupInv' /\ bindings \subseteq bindings'
  <2> DEFINE f == [setup[s] EXCEPT !.at = "closing", !.saved = TRUE]
             n == Entry(setup[s].binding, s)
  <2>1. /\ setup[s].at = "renaming" /\ setup[s].mode = "setup" /\ grant[s] = "active" /\ locked = s
        /\ setup[s].cleanup = "UNAVAILABLE"
        /\ Free(setup[s].binding, bindings) /\ bindings' = bindings \cup {n} /\ UNCHANGED <<locked, grant>>
    BY <1>8, <1>k DEF RenameFile, HoldsLock, GrantOf, EntryOf
  <2>2. f \in SetupStates /\ f.at = "closing" /\ f.mode = "setup" /\ f.cleanup = "UNAVAILABLE" /\ f.saved = TRUE
    BY <1>k, <2>1 DEF SetupStates
  <2>3. setup' = [setup EXCEPT ![s] = f] /\ setup'[s] = f /\ \A r \in Setups : r # s => setup'[r] = setup[r]
    BY <1>0, <1>8 DEF RenameFile
  <2>4. n \in Entries /\ n.binding = setup[s].binding /\ n.from = s
    BY <1>k DEF Entry, Entries, SetupStates
  <2> HIDE DEF f, n
  <2>5. SetupTypes'
    BY <2>1, <2>2, <2>3, <2>4 DEF SetupInv, SetupTypes
  <2>6. HoldsLock(s)' /\ GrantOf(s)' /\ EntryOf(s)'
    BY <2>1, <2>2, <2>3, <2>4 DEF HoldsLock, GrantOf, EntryOf
  <2>7. ASSUME NEW r \in Setups, r # s PROVE HoldsLock(r)' /\ GrantOf(r)' /\ EntryOf(r)'
    <3>1. setup[r].at # "renaming"
      BY <1>k, <2>1, <2>7 DEF HoldsLock, EntryOf
    <3>2. HoldsLock(r)' /\ GrantOf(r)'
      BY <1>k, <2>1, <2>3, <2>7 DEF HoldsLock, GrantOf
    <3>3. EntryOf(r)'
      BY <1>k, <2>1, <2>3, <2>4, <2>7, <3>1 DEF EntryOf
    <3> QED
      BY <3>2, <3>3
  <2>8. OneEntryEach'
    BY <2>1, <2>4, FreeOfNew DEF SetupInv
  <2> QED
    BY <2>1, <2>5, <2>6, <2>7, <2>8 DEF SetupInv
<1>9. ASSUME NEW s \in Setups, RevokeGrant(s) \/ RevokeFails(s) PROVE SetupInv' /\ bindings \subseteq bindings'
  <2>1. PICK c \in {"REFRESH_REVOKED", "ACCESS_REVOKED", "FAILED"}, g \in {"active", "revoked"} :
          /\ setup' = [setup EXCEPT ![s] = [setup[s] EXCEPT !.at = "closing", !.cleanup = c]]
          /\ grant' = [grant EXCEPT ![s] = g] /\ UNCHANGED <<bindings, locked>>
          /\ c = "REFRESH_REVOKED" => g = "revoked"
          /\ setup[s].at = "revoking"
    <3>1. setup[s].at = "revoking" /\ grant[s] = "active" /\ grant = [grant EXCEPT ![s] = "active"]
      BY <1>9, <1>k DEF RevokeGrant, RevokeFails, GrantOf, SetupInv, SetupTypes
    <3>2. CASE RevokeGrant(s)
      BY <3>1, <3>2 DEF RevokeGrant, CleanupOf
    <3>3. CASE RevokeFails(s)
      BY <3>1, <3>3 DEF RevokeFails
    <3> QED
      BY <1>9, <3>2, <3>3
  <2> DEFINE f == [setup[s] EXCEPT !.at = "closing", !.cleanup = c]
  <2>2. f \in SetupStates /\ f.at = "closing" /\ f.mode = setup[s].mode /\ f.cleanup = c /\ f.saved = setup[s].saved
    BY <1>k DEF SetupStates
  <2>3. setup' = [setup EXCEPT ![s] = f] /\ setup'[s] = f /\ grant'[s] = g
    BY <1>0, <2>1 DEF SetupInv, SetupTypes
  <2> HIDE DEF f
  <2>4. HoldsLock(s)' /\ GrantOf(s)' /\ EntryOf(s)'
    BY <1>k, <2>1, <2>2, <2>3 DEF HoldsLock, GrantOf, EntryOf
  <2> QED
    BY <1>a, <2>1, <2>2, <2>3, <2>4
<1>10. ASSUME NEW s \in Setups, (\E u \in BOOLEAN : CloseSetup(s, u)) \/ Die(s) PROVE SetupInv' /\ bindings \subseteq bindings'
  <2>1. CASE Die(s)
    <3>1. Step(s, "dead") /\ UNCHANGED <<bindings, locked, grant>> /\ setup[s].at \notin {"none", "ended", "dead"}
      BY <2>1 DEF Die
    <3> QED
      BY <1>b, <3>1
  <2>2. ASSUME NEW u \in BOOLEAN, CloseSetup(s, u) PROVE SetupInv' /\ bindings \subseteq bindings'
    <3>1. Step(s, "ended") /\ UNCHANGED <<bindings, grant>> /\ setup[s].at = "closing" /\ (locked' = locked \/ locked = s)
      BY <2>2 DEF CloseSetup
    <3> QED
      BY <1>b, <3>1
  <2> QED
    BY <1>10, <2>1, <2>2
<1>11. ASSUME NEW s \in Setups, ClearLock(s) PROVE SetupInv' /\ bindings \subseteq bindings'
  <2>1. ASSUME NEW r \in Setups PROVE HoldsLock(r)' /\ GrantOf(r)' /\ EntryOf(r)'
    BY <1>11, <1>k, <2>1 DEF ClearLock, HoldsLock, GrantOf, EntryOf
  <2> QED
    BY <1>11, <2>1 DEF ClearLock, SetupInv, SetupTypes, OneEntryEach
<1>12. ASSUME NEW b \in Bindings, EditFile(b) PROVE SetupInv' /\ bindings \subseteq bindings'
  <2> DEFINE n == Entry(b, NoSetup)
  <2>1. n \in Entries /\ n.binding = b /\ n.from = NoSetup
    BY DEF Entry, Entries
  <2>2. Free(b, bindings) /\ bindings' = bindings \cup {n} /\ UNCHANGED <<locked, grant, setup>>
        /\ \A s \in Setups : setup[s].at # "renaming"
    BY <1>12 DEF EditFile
  <2> HIDE DEF n
  <2>3. \A s \in Setups : HoldsLock(s)' /\ GrantOf(s)' /\ EntryOf(s)'
    BY <1>k, <2>1, <2>2, SetupAssumption DEF HoldsLock, GrantOf, EntryOf
  <2>4. OneEntryEach'
    BY <2>1, <2>2, FreeOfNew DEF SetupInv
  <2> QED
    BY <2>1, <2>2, <2>3, <2>4 DEF SetupInv, SetupTypes
<1>13. CASE UNCHANGED setupVars
  BY <1>13 DEF setupVars, SetupInv, SetupTypes, HoldsLock, GrantOf, EntryOf, OneEntryEach, Free
<1> QED
  BY <1>1, <1>2, <1>3, <1>4, <1>5, <1>6, <1>7, <1>8, <1>9, <1>10, <1>11, <1>12, <1>13 DEF SetupNext

\* No run leaves a grant behind in silence, and no saved grant is revoked: for
\* any number of runs over one file, whatever is cancelled, lost or edited.
THEOREM GrantsAccounted == SetupSpec => []GrantAccounted
<1>1. SetupInv => GrantAccounted
  BY DEF SetupInv, GrantOf, EntryOf, GrantAccounted
<1> QED
  BY <1>1, SetupInitInv, SetupNextInv, PTL DEF SetupSpec

\* Saved entries stay, and no alias, business or organisation has two.
THEOREM EntriesKept == SetupSpec => BindingsKept
<1> DEFINE Kept == bindings \subseteq bindings' /\ \A e \in bindings' : Free(e.binding, bindings' \ {e})
<1>1. SetupInv /\ [SetupNext]_setupVars => [Kept]_setupVars
  BY SetupNextInv DEF SetupInv, OneEntryEach, Free
<1> QED
  BY <1>1, SetupInitInv, SetupNextInv, PTL DEF SetupSpec, BindingsKept

=============================================================================
