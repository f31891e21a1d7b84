--------------------------- MODULE StagingBackup ---------------------------
(***************************************************************************)
(* The capture of scripts/backup-staging.mjs: a manifest of the source,    *)
(* its dumps, the manifest again, each read by a client container of its   *)
(* own; then key, archive and checksum on disk. The source may be written  *)
(* to although the operator was asked to stop that, the operator may       *)
(* interrupt, the process may die, and a client that was killed may still  *)
(* be run by the daemon.                                                   *)
(***************************************************************************)
EXTENDS Naturals, Sequences

CONSTANTS
  Contents,   \* what the source may hold
  RowsOf,     \* the row counts of each content
  Dumps,      \* dumps taken between the manifests: 6 in the code
  NoContent

ASSUME BackupAssumption ==
  /\ RowsOf \in [Contents -> Nat]
  /\ Dumps \in Nat \ {0}
  /\ NoContent \notin Contents

VARIABLES
  source,     \* what the source holds
  past,       \* what it held before
  returned,   \* has it ever held again what it held before?
  aborted,    \* did the operator interrupt?
  capture,    \* the run of capture()
  container,  \* the client of the present step, as the daemon sees it
  disk        \* key, archive and checksum of this run

backupVars == <<source, past, returned, aborted, capture, container, disk>>
sourceVars == <<source, past, returned>>

NoAnswer == [ok |-> FALSE, content |-> NoContent, complete |-> FALSE, code |-> "none"]
NoArchive == [written |-> FALSE, intact |-> FALSE, manifest |-> NoContent, dumps |-> <<>>]

BackupInit ==
  /\ source \in Contents
  /\ past = {} /\ returned = FALSE
  /\ aborted = FALSE
  /\ capture = [at |-> "starting", step |-> 0, before |-> NoContent, dumps |-> <<>>, answer |-> NoAnswer, code |-> "none"]
  /\ container = "none"
  /\ disk = [key |-> FALSE, archive |-> NoArchive, checksum |-> FALSE]

\* Mutant: an interrupted run is always called cancelled.
AnyFailureCancelled(code) == IF aborted THEN "BACKUP_CANCELLED" ELSE code

\* A client that may be left is reported, also when the run was interrupted.
TerminalFailure(code) ==
  IF aborted /\ code # "CONTAINER_CLEANUP_FAILED" THEN "BACKUP_CANCELLED" ELSE code

EndCapture(code) == capture' = [capture EXCEPT !.at = "ended", !.code = TerminalFailure(code)]

Goto(at) == capture' = [capture EXCEPT !.at = at]

-----------------------------------------------------------------------------
(* The source and the operator *)

WriteSource(c) ==
  /\ capture.at # "ended" /\ c # source
  /\ source' = c
  /\ past' = past \cup {source}
  /\ returned' = (returned \/ c \in past)
  /\ UNCHANGED <<aborted, capture, container, disk>>

Interrupt ==
  /\ capture.at # "ended" /\ ~aborted
  /\ aborted' = TRUE
  /\ UNCHANGED <<sourceVars, capture, container, disk>>

KillCapture ==
  /\ capture.at # "ended"
  /\ capture' = [capture EXCEPT !.at = "ended", !.code = "killed"]
  /\ UNCHANGED <<sourceVars, aborted, container, disk>>

\* Directories, certificate, daemon, image, guard, a write: each may fail
\* between two clients.
LocalFailure ==
  /\ capture.at \in {"starting", "next", "sealing", "keyed", "archived", "verified", "summed"}
  /\ EndCapture("LOCAL_FAILURE")
  /\ UNCHANGED <<sourceVars, aborted, container, disk>>

SetUp ==
  /\ capture.at = "starting" /\ ~aborted
  /\ Goto("next")
  /\ UNCHANGED <<sourceVars, aborted, container, disk>>

-----------------------------------------------------------------------------
(* One client container *)

RunClient ==
  /\ capture.at = "next" /\ ~aborted
  /\ container' = "requested"
  /\ Goto("client")
  /\ UNCHANGED <<sourceVars, aborted, disk>>

\* The command asks the daemon to create, then to start the container; a
\* request that is on its way is served also when the command was killed.
\* What is created then has nobody to start it.
DaemonCreates ==
  /\ container = "requested"
  /\ container' = IF capture.at = "client" THEN "created" ELSE "left"
  /\ UNCHANGED <<sourceVars, aborted, capture, disk>>

AskToStart ==
  /\ container = "created" /\ capture.at = "client"
  /\ container' = "starting"
  /\ UNCHANGED <<sourceVars, aborted, capture, disk>>

DaemonStarts ==
  /\ container = "starting"
  /\ container' = "running"
  /\ UNCHANGED <<sourceVars, aborted, capture, disk>>

\* One dump or manifest is one snapshot; its text may be cut off or repeated.
ClientAnswers(complete) ==
  /\ container = "running" /\ capture.at = "client"
  /\ container' = "none"
  /\ capture' = [capture EXCEPT !.at = "cleaning",
                   !.answer = [ok |-> ~aborted, content |-> source, complete |-> complete, code |-> "none"]]
  /\ UNCHANGED <<sourceVars, aborted, disk>>

\* Timeout, too much output, an interrupt or a failing client: the command is
\* gone, the container need not be.
ClientGivenUp ==
  /\ capture.at = "client"
  /\ capture' = [capture EXCEPT !.at = "cleaning", !.answer = [NoAnswer EXCEPT !.code = "CHILD_FAILED"]]
  /\ UNCHANGED <<sourceVars, aborted, container, disk>>

ContainerExits ==
  /\ container = "running" /\ capture.at # "client"
  /\ container' = "none"
  /\ UNCHANGED <<sourceVars, aborted, capture, disk>>

\* What docker ps shows of the run's label.
Listed == container \in {"created", "starting", "running", "left"}

CleanupFindsNothing ==
  /\ capture.at = "cleaning" /\ ~Listed
  /\ Goto("cleaned")
  /\ UNCHANGED <<sourceVars, aborted, container, disk>>

CleanupRemoves ==
  /\ capture.at = "cleaning" /\ Listed
  /\ container' = "none"
  /\ Goto("cleaned")
  /\ UNCHANGED <<sourceVars, aborted, disk>>

\* Listing, removing or listing again fails, with or without effect.
CleanupFails ==
  /\ capture.at = "cleaning"
  /\ container' \in {container, IF Listed THEN "none" ELSE container}
  /\ EndCapture("CONTAINER_CLEANUP_FAILED")
  /\ UNCHANGED <<sourceVars, aborted, disk>>

-----------------------------------------------------------------------------
(* What is made of the answers *)

IsManifest(step) == step \in {0, Dumps + 1}

\* Row counts of the dumps against the manifest's.
Covered(manifest, dumps) == \A i \in DOMAIN dumps : RowsOf[dumps[i]] = RowsOf[manifest]

\* Mutant: the second manifest is not compared with the first.
AnyManifest(before, after) == TRUE

SameManifest(before, after) == before = after

Acceptable(answer) ==
  /\ answer.ok
  /\ IF IsManifest(capture.step)
     THEN capture.step = 0 \/ (SameManifest(capture.before, answer.content) /\ Covered(capture.before, capture.dumps))
     ELSE answer.complete

AcceptAnswer ==
  LET a == capture.answer
  IN  /\ capture.at = "cleaned" /\ ~aborted /\ Acceptable(a)
      /\ capture' = [capture EXCEPT
                       !.at = IF capture.step = Dumps + 1 THEN "sealing" ELSE "next",
                       !.step = @ + 1,
                       !.before = IF capture.step = 0 THEN a.content ELSE @,
                       !.dumps = IF IsManifest(capture.step) THEN @ ELSE Append(@, a.content),
                       !.answer = NoAnswer]
      /\ UNCHANGED <<sourceVars, aborted, container, disk>>

RefuseAnswer ==
  /\ capture.at = "cleaned" /\ (aborted \/ ~Acceptable(capture.answer))
  /\ EndCapture("BACKUP_REFUSED")
  /\ UNCHANGED <<sourceVars, aborted, container, disk>>

-----------------------------------------------------------------------------
(* Key, archive, checksum *)

WriteKey ==
  /\ capture.at = "sealing" /\ ~aborted
  /\ disk' = [disk EXCEPT !.key = TRUE]
  /\ Goto("keyed")
  /\ UNCHANGED <<sourceVars, aborted, container>>

\* The write is cut off by a failure or a death, or leaves other bytes.
WriteArchive(intact) ==
  /\ capture.at = "keyed" /\ ~aborted
  /\ disk' = [disk EXCEPT !.archive =
                [written |-> TRUE, intact |-> intact, manifest |-> capture.before, dumps |-> capture.dumps]]
  /\ Goto("archived")
  /\ UNCHANGED <<sourceVars, aborted, container>>

\* openBackup: decrypted with the key on disk and checked again as a whole.
Opens ==
  /\ disk.key /\ disk.archive.written /\ disk.archive.intact
  /\ Len(disk.archive.dumps) = Dumps /\ Covered(disk.archive.manifest, disk.archive.dumps)

VerifyArchive ==
  /\ capture.at = "archived" /\ ~aborted /\ Opens
  /\ Goto("verified")
  /\ UNCHANGED <<sourceVars, aborted, container, disk>>

SummedAt == {"verified"}

WriteChecksum ==
  /\ capture.at \in SummedAt /\ ~aborted
  /\ disk' = [disk EXCEPT !.checksum = TRUE]
  /\ Goto("summed")
  /\ UNCHANGED <<sourceVars, aborted, container>>

FinishCapture ==
  /\ capture.at = "summed"
  /\ EndCapture("PASSED")
  /\ UNCHANGED <<sourceVars, aborted, container, disk>>

BackupNext ==
  \/ \E c \in Contents : WriteSource(c)
  \/ Interrupt \/ KillCapture \/ LocalFailure \/ SetUp
  \/ RunClient \/ DaemonCreates \/ AskToStart \/ DaemonStarts \/ ContainerExits \/ ClientGivenUp
  \/ \E b \in BOOLEAN : ClientAnswers(b) \/ WriteArchive(b)
  \/ CleanupFindsNothing \/ CleanupRemoves \/ CleanupFails
  \/ AcceptAnswer \/ RefuseAnswer
  \/ WriteKey \/ VerifyArchive \/ WriteChecksum \/ FinishCapture

BackupSpec == BackupInit /\ [][BackupNext]_backupVars

-----------------------------------------------------------------------------
\* A checksum file, and so a report of success, only ever lies beside an
\* archive that its key on disk opens; the dumps in it have the row counts of
\* its manifest and, unless the source went back to what it had held before,
\* are all of the one content the manifest tells of (capture).
ChecksumNamesBackup ==
  /\ capture.code = "PASSED" => disk.checksum
  /\ disk.checksum =>
       /\ Opens
       /\ ~returned => \A i \in DOMAIN disk.archive.dumps : disk.archive.dumps[i] = disk.archive.manifest

\* Once a step is over, no client of it reads the source any more or will yet
\* begin to: not after a timeout, not after an interrupt, unless the run said
\* that its cleanup failed or was itself killed (cleanupClient in the finally
\* of client, terminalFailure).
NoClientLeftRunning ==
  capture.at \notin {"client", "cleaning"} /\ capture.code \notin {"CONTAINER_CLEANUP_FAILED", "killed"}
    => container \notin {"starting", "running"}
=============================================================================
