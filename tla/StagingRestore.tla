--------------------------- MODULE StagingRestore ---------------------------
(***************************************************************************)
(* Runs of scripts/restore-staging.mjs against the one isolated            *)
(* destination. A run takes the clients of its mode in order; each client  *)
(* is one database session. A client that is killed or loses its answer    *)
(* leaves a session that may still commit, so runs overlap at the database *)
(* also when the operator starts them one after the other.                 *)
(* Nobody uses the destination: the operator confirms that before a run.   *)
(***************************************************************************)
EXTENDS Naturals, Sequences

CONSTANTS
  Runs,         \* runs of the helper, each started once, in any mode
  NoRun

ASSUME RestoreAssumption == NoRun \notin Runs

VARIABLES
  rows,      \* the tables of the destination
  position,  \* its sequence: restored, or as it was
  advisory,  \* the session that holds the advisory lock
  run,       \* each run of the helper
  session,   \* the database session of the run's present client
  changed    \* runs of which a session changed the destination

restoreVars == <<rows, position, advisory, run, session, changed>>

\* The clients a mode runs.
Plan ==
  [restore |-> <<"preflight", "import", "sequences">>,
   preflight |-> <<"preflight">>,
   verify |-> <<"rows", "positions">>,
   finish |-> <<"sequences">>,
   diagnose |-> <<"preflight", "replay", "preflight">>]

Success ==
  [restore |-> "COMMITTED", preflight |-> "PREFLIGHT_PASSED", verify |-> "VERIFIED_READ_ONLY",
   finish |-> "SEQUENCES_COMPLETED", diagnose |-> "ROLLED_BACK"]

NotStarted == [at |-> "none", mode |-> "restore", step |-> 1, aborted |-> FALSE, code |-> "none"]

RestoreInit ==
  /\ rows \in {"empty", "other"}
  /\ position = "as it was"
  /\ advisory = NoRun
  /\ run = [r \in Runs |-> NotStarted]
  /\ session = [r \in Runs |-> "none"]
  /\ changed = {}

Client(r) == Plan[run[r].mode][run[r].step]

-----------------------------------------------------------------------------
(* The helper *)

StartRun(r, mode) ==
  /\ run[r].at = "none"
  /\ run' = [run EXCEPT ![r].at = "next", ![r].mode = mode]
  /\ UNCHANGED <<rows, position, advisory, session, changed>>

InterruptRun(r) ==
  /\ run[r].at \in {"next", "client", "cleaning"} /\ ~run[r].aborted
  /\ run' = [run EXCEPT ![r].aborted = TRUE]
  /\ UNCHANGED <<rows, position, advisory, session, changed>>

\* Mutant: an import counts as begun when its answer has arrived.
BegunByAnswer(r) == {Plan[run[r].mode][i] : i \in 1 .. run[r].step - 1}

\* The flags are set before the client is run, and are never taken back.
Begun(r) == {Plan[run[r].mode][i] : i \in 1 .. run[r].step}

\* What a failure is told to be: where a commit may have been missed, unconfirmed.
FailureOf(r) ==
  CASE "replay" \in Begun(r) -> "DIAGNOSTIC_OUTCOME_UNCONFIRMED"
    [] "sequences" \in Begun(r) -> "SEQUENCE_OUTCOME_UNCONFIRMED"
    [] "import" \in Begun(r) -> "OUTCOME_UNCONFIRMED"
    [] OTHER -> "FAILED"

EndRun(r, code) == run' = [run EXCEPT ![r].at = "ended", ![r].code = code]

Connect(r) ==
  /\ run[r].at = "next" /\ ~run[r].aborted
  /\ run' = [run EXCEPT ![r].at = "client"]
  /\ session' = [session EXCEPT ![r] = "open"]
  /\ UNCHANGED <<rows, position, advisory, changed>>

\* Timeout, interrupt or a lost answer: the helper no longer listens.
GiveUp(r) ==
  /\ run[r].at = "client"
  /\ run' = [run EXCEPT ![r].at = "cleaning"]
  /\ UNCHANGED <<rows, position, advisory, session, changed>>

CleanUpFails(r) ==
  /\ run[r].at \in {"client", "cleaning"}
  /\ EndRun(r, "CONTAINER_CLEANUP_FAILED")
  /\ UNCHANGED <<rows, position, advisory, session, changed>>

\* The container is removed; of the session of a killed client nothing is known.
FailRun(r) ==
  /\ \/ run[r].at = "cleaning"
     \/ run[r].at = "next" /\ run[r].aborted
     \/ run[r].at = "client" /\ session[r] = "failed"
  /\ EndRun(r, FailureOf(r))
  /\ UNCHANGED <<rows, position, advisory, session, changed>>

\* The answer of a finished session, its container removed.
TakeAnswer(r) ==
  /\ run[r].at = "client" /\ ~run[r].aborted
  /\ session[r] = "finished"
  /\ IF run[r].step = Len(Plan[run[r].mode])
     THEN EndRun(r, Success[run[r].mode])
     ELSE run' = [run EXCEPT ![r].at = "next", ![r].step = @ + 1]
  /\ UNCHANGED <<rows, position, advisory, session, changed>>

-----------------------------------------------------------------------------
(* The sessions. One whose helper gave up still goes on, or is rolled back. *)

\* A read-only client: what it asks of the destination holds.
Confirms(client) ==
  CASE client = "preflight" -> rows = "empty"
    [] client = "rows" -> rows = "backup"
    [] client = "positions" -> position = "restored"

Reads == {"preflight", "rows", "positions"}

ReadDestination(r) ==
  /\ session[r] = "open" /\ Client(r) \in Reads
  /\ session' = [session EXCEPT ![r] = IF Confirms(Client(r)) THEN "finished" ELSE "failed"]
  /\ UNCHANGED <<rows, position, advisory, run, changed>>

\* Mutant: the emptiness of the preflight is relied on.
EmptyBefore == TRUE

EmptyStill == rows = "empty"

\* Import and schema replay take the lock, then look at the tables again.
TakeLock(r) ==
  /\ session[r] = "open" /\ Client(r) \in {"import", "replay"}
  /\ advisory = NoRun
  /\ IF EmptyStill
     THEN advisory' = r /\ session' = [session EXCEPT ![r] = "writing"]
     ELSE session' = [session EXCEPT ![r] = "failed"] /\ UNCHANGED advisory
  /\ UNCHANGED <<rows, position, run, changed>>

\* Tables, catalog and rows were verified inside the transaction.
CommitImport(r) ==
  /\ session[r] = "writing" /\ Client(r) = "import"
  /\ rows' = IF rows = "empty" THEN "backup" ELSE "mixed"
  /\ advisory' = NoRun
  /\ session' = [session EXCEPT ![r] = "finished"]
  /\ changed' = changed \cup {r}
  /\ UNCHANGED <<position, run>>

RollBackReplay(r) ==
  /\ session[r] = "writing" /\ Client(r) = "replay"
  /\ advisory' = NoRun
  /\ session' = [session EXCEPT ![r] = "finished"]
  /\ UNCHANGED <<rows, position, run, changed>>

\* Rows and catalog are verified in the session that sets the positions.
VerifyRows(r) ==
  /\ session[r] = "open" /\ Client(r) = "sequences"
  /\ session' = [session EXCEPT ![r] = IF rows = "backup" THEN "positioning" ELSE "failed"]
  /\ UNCHANGED <<rows, position, advisory, run, changed>>

\* setval does not wait for the commit and is never rolled back.
SetPosition(r) ==
  /\ session[r] = "positioning"
  /\ position' = "restored"
  /\ session' = [session EXCEPT ![r] = "positioned"]
  /\ changed' = changed \cup {r}
  /\ UNCHANGED <<rows, advisory, run>>

CommitPosition(r) ==
  /\ session[r] = "positioned"
  /\ session' = [session EXCEPT ![r] = "finished"]
  /\ UNCHANGED <<rows, position, advisory, run, changed>>

\* A timeout of the statement or the lock, a mismatch, a broken connection.
SessionFails(r) ==
  /\ session[r] \in {"open", "writing", "positioning", "positioned"}
  /\ session' = [session EXCEPT ![r] = "failed"]
  /\ advisory' = IF advisory = r THEN NoRun ELSE advisory
  /\ UNCHANGED <<rows, position, run, changed>>

RestoreNext ==
  \E r \in Runs :
    \/ \E mode \in DOMAIN Plan : StartRun(r, mode)
    \/ InterruptRun(r) \/ Connect(r) \/ GiveUp(r) \/ CleanUpFails(r) \/ FailRun(r) \/ TakeAnswer(r)
    \/ ReadDestination(r) \/ TakeLock(r) \/ CommitImport(r) \/ RollBackReplay(r)
    \/ VerifyRows(r) \/ SetPosition(r) \/ CommitPosition(r) \/ SessionFails(r)

RestoreSpec == RestoreInit /\ [][RestoreNext]_restoreVars

-----------------------------------------------------------------------------
\* The tables change once at most, from empty to the backup, however many
\* imports and late commits of killed clients meet; the position is restored
\* only over those tables, and what a run reports of them is so for good
\* (importSQL, finishSequencesSQL, the reports of restoreArchive).
RestoredOnce ==
  /\ rows # "mixed"
  /\ position = "restored" => rows = "backup"
  /\ \A r \in Runs :
       run[r].code \in {"COMMITTED", "SEQUENCES_COMPLETED", "VERIFIED_READ_ONLY"} =>
         rows = "backup" /\ position = "restored"

\* A run that ended in a plain failure has changed nothing, and no session of
\* it will: where one might, the run says that its outcome is unconfirmed or
\* that a container may be left (the catch of restoreArchive).
PlainFailureChangedNothing ==
  \A r \in Runs :
    run[r].code \in {"FAILED", "PREFLIGHT_PASSED", "VERIFIED_READ_ONLY", "ROLLED_BACK", "DIAGNOSTIC_OUTCOME_UNCONFIRMED"}
      => r \notin changed
=============================================================================
