-------------------------- MODULE CredentialVault --------------------------
(***************************************************************************)
(* The credential store of src/t19-vault.js: one file, replaced by the     *)
(* rename of a synced temporary file, and an exclusive lock file that a    *)
(* process creates to open the store and removes when it closes it. A      *)
(* process reads the store, then writes what it read with one update more, *)
(* one such change at a time; it may be closed or die between any two of   *)
(* its steps. A lock left behind blocks every opening until it is removed  *)
(* by hand.                                                                *)
(*                                                                         *)
(* The store's value is the set of updates it holds.                       *)
(***************************************************************************)
EXTENDS Naturals

CONSTANTS
  Openers,   \* processes that open the store: the service and the scripts
  Updates,   \* the changes they want to store
  NoOpener, NoUpdate

ASSUME VaultAssumption == NoOpener \notin Openers /\ NoUpdate \notin Updates

VARIABLES
  file,      \* the store's value on disk
  lock,      \* who created the lock file, or NoOpener
  handle,    \* the handle of each process
  acked,     \* updates whose write resolved
  refused    \* updates whose write was rejected

vaultVars == <<file, lock, handle, acked, refused>>

\* value is what the running change has read, then what it will store.
Handle ==
  [at: {"closed", "opening", "open", "dead"}, closing: BOOLEAN, poisoned: BOOLEAN,
   step: {"none", "read", "queued", "renaming", "renamed"},
   update: Updates \cup {NoUpdate}, value: SUBSET Updates]

Closed == [at |-> "closed", closing |-> FALSE, poisoned |-> FALSE, step |-> "none",
           update |-> NoUpdate, value |-> {}]

VaultInit ==
  /\ file = {}
  /\ lock = NoOpener
  /\ handle = [p \in Openers |-> Closed]
  /\ acked = {}
  /\ refused = {}

Settled(h) == [h EXCEPT !.step = "none", !.update = NoUpdate, !.value = {}]

\* Created with 'wx': only if no lock file is there.
OpenVault(p) ==
  /\ handle[p].at = "closed"
  /\ lock = NoOpener
  /\ lock' = p
  /\ handle' = [handle EXCEPT ![p].at = "opening"]
  /\ UNCHANGED <<file, acked, refused>>

\* Mutant: a failed opening removes the lock file it did not create.
LockAfterAnyFailure(p) == NoOpener

\* A failed opening removes the lock file only if it is its own.
LockAfterFailure(p) == IF handle[p].at = "opening" THEN NoOpener ELSE lock

OpeningFails(p) ==
  /\ handle[p].at = "opening" \/ (handle[p].at = "closed" /\ lock # NoOpener)
  /\ lock' = LockAfterFailure(p)
  /\ handle' = [handle EXCEPT ![p] = Closed]
  /\ UNCHANGED <<file, acked, refused>>

\* The first read shows the store is intact before the handle is returned.
Opened(p) ==
  /\ handle[p].at = "opening"
  /\ handle' = [handle EXCEPT ![p].at = "open"]
  /\ UNCHANGED <<file, lock, acked, refused>>

Active(h) == h.at = "open" /\ ~h.poisoned

\* A change the store already holds, or that was rejected, is not made again.
ReadStore(p, u) ==
  /\ Active(handle[p]) /\ ~handle[p].closing
  /\ handle[p].step = "none" /\ u \notin file \cup refused
  /\ \A q \in Openers : handle[q].update # u
  /\ handle' = [handle EXCEPT ![p].step = "read", ![p].update = u, ![p].value = file]
  /\ UNCHANGED <<file, lock, acked, refused>>

\* write() queues its task, unless the handle is being closed.
QueueWrite(p) ==
  /\ handle[p].at = "open" /\ handle[p].step = "read"
  /\ IF handle[p].closing
     THEN /\ handle' = [handle EXCEPT ![p] = Settled(@)]
          /\ refused' = refused \cup {handle[p].update}
     ELSE /\ handle' = [handle EXCEPT ![p].step = "queued", ![p].value = @ \cup {handle[p].update}]
          /\ UNCHANGED refused
  /\ UNCHANGED <<file, lock, acked>>

\* The sealed value is written to a new temporary file and synced.
WriteTemp(p) ==
  /\ Active(handle[p]) /\ handle[p].step = "queued"
  /\ handle' = [handle EXCEPT ![p].step = "renaming"]
  /\ UNCHANGED <<file, lock, acked, refused>>

RenameTemp(p) ==
  /\ Active(handle[p]) /\ handle[p].step = "renaming"
  /\ file' = handle[p].value
  /\ handle' = [handle EXCEPT ![p].step = "renamed"]
  /\ UNCHANGED <<lock, acked, refused>>

Acknowledge(p) ==
  /\ handle[p].at = "open" /\ handle[p].step = "renamed"
  /\ acked' = acked \cup {handle[p].update}
  /\ handle' = [handle EXCEPT ![p] = Settled(@)]
  /\ UNCHANGED <<file, lock, refused>>

\* Sealing, writing, the check of the target or the rename fails: the handle
\* is poisoned and the temporary file removed.
WriteFails(p) ==
  /\ handle[p].at = "open" /\ handle[p].step \in {"queued", "renaming"}
  /\ handle' = [handle EXCEPT ![p] = [Settled(@) EXCEPT !.poisoned = TRUE]]
  /\ refused' = refused \cup {handle[p].update}
  /\ UNCHANGED <<file, lock, acked>>

BeginClose(p) ==
  /\ handle[p].at = "open" /\ ~handle[p].closing
  /\ handle' = [handle EXCEPT ![p].closing = TRUE]
  /\ UNCHANGED <<file, lock, acked, refused>>

\* close() waits for the queue; a change that has only read is not in it, and
\* its write will be rejected.
QueueEmpty(h) == h.step \in {"none", "read"}

FinishClose(p) ==
  /\ handle[p].at = "open" /\ handle[p].closing
  /\ QueueEmpty(handle[p])
  /\ lock' = NoOpener
  /\ refused' = refused \cup ({handle[p].update} \ {NoUpdate})
  /\ handle' = [handle EXCEPT ![p] = Closed]
  /\ UNCHANGED <<file, acked>>

\* Nothing is reported of the change that was under way.
ProcessDies(p) ==
  /\ handle[p].at \in {"opening", "open"}
  /\ handle' = [handle EXCEPT ![p] = [Closed EXCEPT !.at = "dead"]]
  /\ UNCHANGED <<file, lock, acked, refused>>

\* The operator removes the lock file of a process known to be dead.
RemoveLock(p) ==
  /\ handle[p].at = "dead"
  /\ lock' = NoOpener
  /\ handle' = [handle EXCEPT ![p] = Closed]
  /\ UNCHANGED <<file, acked, refused>>

VaultNext ==
  \E p \in Openers :
    \/ OpenVault(p) \/ OpeningFails(p) \/ Opened(p)
    \/ (\E u \in Updates : ReadStore(p, u))
    \/ QueueWrite(p) \/ WriteTemp(p) \/ RenameTemp(p) \/ Acknowledge(p) \/ WriteFails(p)
    \/ BeginClose(p) \/ FinishClose(p) \/ ProcessDies(p) \/ RemoveLock(p)

VaultSpec == VaultInit /\ [][VaultNext]_vaultVars

-----------------------------------------------------------------------------
(* What the store must keep. *)

\* Every update whose write was acknowledged is in the store, and none whose
\* write was rejected is: through failed writes, processes that die between
\* the temporary file and its rename, and openings that race for the lock
\* (openVault's read, write and close).
AnswersAreTrue == acked \subseteq file /\ refused \cap file = {}
=============================================================================
