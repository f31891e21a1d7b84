----------------------------- MODULE ZohoSetup -----------------------------
(***************************************************************************)
(* Runs of scripts/setup-zoho-staging.mjs: a one-time consent at the       *)
(* provider becomes an entry of the private credential file, or is revoked *)
(* again. Two operators may run it at one time over one file; a run may be *)
(* cancelled, lose an answer or die; someone may edit the file by hand.    *)
(* A lock is removed by hand only when its run is gone, and the file is    *)
(* not edited by hand between the look at it and the rename.               *)
(***************************************************************************)
EXTENDS Naturals

CONSTANTS
  Setups,     \* runs of the helper
  Bindings,   \* records [alias, business]; business stands for the organisation too
  NoSetup

ASSUME SetupAssumption == NoSetup \notin Setups

VARIABLES
  bindings, \* entries of the private file: a binding and the run it is from
  locked,   \* the run whose lock file exists
  grant,    \* what the provider holds for the consent of each run
  setup     \* each run

setupVars == <<bindings, locked, grant, setup>>

Entry(b, s) == [binding |-> b, from |-> s]

AnyBinding == CHOOSE b \in Bindings : TRUE

Unstarted == [at |-> "none", mode |-> "setup", binding |-> AnyBinding, original |-> {},
              tokens |-> "none", cancelled |-> FALSE, saved |-> FALSE, cleanup |-> "UNAVAILABLE"]

SetupInit ==
  /\ bindings = {}
  /\ locked = NoSetup
  /\ grant = [s \in Setups |-> "none"]
  /\ setup = [s \in Setups |-> Unstarted]

Step(s, at) == setup' = [setup EXCEPT ![s].at = at]

\* No alias is overwritten, and no business or organisation bound twice.
Free(b, entries) == \A e \in entries : e.binding.alias # b.alias /\ e.binding.business # b.business

-----------------------------------------------------------------------------
(* Up to the tokens *)

\* The lock is a file created exclusively; what it protects is read at once.
OpenStore(s, b) ==
  /\ setup[s].at = "none"
  /\ locked = NoSetup /\ Free(b, bindings)
  /\ locked' = s
  /\ setup' = [setup EXCEPT ![s] = [Unstarted EXCEPT !.at = "waiting", !.binding = b, !.original = bindings]]
  /\ UNCHANGED <<bindings, grant>>

\* The diagnostics open no file and save nothing.
StartDiagnostic(s) ==
  /\ setup[s].at = "none"
  /\ setup' = [setup EXCEPT ![s] = [Unstarted EXCEPT !.at = "waiting", !.mode = "diagnose"]]
  /\ UNCHANGED <<bindings, locked, grant>>

Cancel(s) ==
  /\ setup[s].at \notin {"none", "ended", "dead"} /\ ~setup[s].cancelled
  /\ setup' = [setup EXCEPT ![s].cancelled = TRUE]
  /\ UNCHANGED <<bindings, locked, grant>>

\* One callback is taken; its code is exchanged at once.
TakeCallback(s) ==
  /\ setup[s].at = "waiting" /\ ~setup[s].cancelled
  /\ grant' = [grant EXCEPT ![s] = "requested"]
  /\ Step(s, "exchanging")
  /\ UNCHANGED <<bindings, locked>>

\* Cancelled, expired, no port to listen on.
StopWaiting(s) ==
  /\ setup[s].at = "waiting"
  /\ Step(s, "closing")
  /\ UNCHANGED <<bindings, locked, grant>>

\* The provider answers the exchange, whoever still waits for it.
IssueGrant(s) ==
  /\ grant[s] = "requested"
  /\ grant' = [grant EXCEPT ![s] = "active"]
  /\ UNCHANGED <<bindings, locked, setup>>

\* A response may lack the refresh token; what came is there to be revoked.
ReceiveTokens(s, tokens) ==
  /\ setup[s].at = "exchanging" /\ grant[s] = "active"
  /\ setup' = [setup EXCEPT ![s].at = IF tokens = "both" THEN "verifying" ELSE "revoking", ![s].tokens = tokens]
  /\ UNCHANGED <<bindings, locked, grant>>

\* Refused or lost: there is nothing to revoke with.
ExchangeFails(s) ==
  /\ setup[s].at = "exchanging"
  /\ Step(s, "closing")
  /\ UNCHANGED <<bindings, locked, grant>>

\* Exactly the one pinned organisation may be seen.
Verify(s) ==
  /\ setup[s].at = "verifying" /\ setup[s].mode = "setup" /\ ~setup[s].cancelled
  /\ Step(s, "saving")
  /\ UNCHANGED <<bindings, locked, grant>>

\* Another organisation, a failed read, a cancelled run, and the end of every diagnostic.
GiveBack(s) ==
  /\ setup[s].at = "verifying"
  /\ Step(s, "revoking")
  /\ UNCHANGED <<bindings, locked, grant>>

-----------------------------------------------------------------------------
(* Saving, or revoking *)

\* Mutant: what was read under the lock is relied on.
UnchangedSoFar(s) == TRUE

\* The file must still be what was read before the consent.
UnchangedSince(s) == bindings = setup[s].original

CheckFile(s) ==
  /\ setup[s].at = "saving"
  /\ UnchangedSince(s) /\ Free(setup[s].binding, setup[s].original)
  /\ Step(s, "renaming")
  /\ UNCHANGED <<bindings, locked, grant>>

\* The file of the old entries and the new one takes the place of the old file.
RenameFile(s) ==
  /\ setup[s].at = "renaming"
  /\ bindings' = setup[s].original \cup {Entry(setup[s].binding, s)}
  /\ setup' = [setup EXCEPT ![s].at = "closing", ![s].saved = TRUE]
  /\ UNCHANGED <<locked, grant>>

SaveGrantFails(s) ==
  /\ setup[s].at \in {"saving", "renaming"}
  /\ Step(s, "revoking")
  /\ UNCHANGED <<bindings, locked, grant>>

\* Mutant: whatever was revoked is called the grant.
CleanupAlwaysComplete(tokens) == "REFRESH_REVOKED"

\* Revoking the refresh token ends the grant, revoking the access token does not.
CleanupOf(tokens) == IF tokens = "both" THEN "REFRESH_REVOKED" ELSE "ACCESS_REVOKED"

RevokeGrant(s) ==
  /\ setup[s].at = "revoking"
  /\ grant' = IF setup[s].tokens = "both" THEN [grant EXCEPT ![s] = "revoked"] ELSE grant
  /\ setup' = [setup EXCEPT ![s].at = "closing", ![s].cleanup = CleanupOf(setup[s].tokens)]
  /\ UNCHANGED <<bindings, locked>>

\* The request or its answer is lost: it may have been served.
RevokeFails(s) ==
  /\ setup[s].at = "revoking"
  /\ grant' \in {grant, IF setup[s].tokens = "both" THEN [grant EXCEPT ![s] = "revoked"] ELSE grant}
  /\ setup' = [setup EXCEPT ![s].at = "closing", ![s].cleanup = "FAILED"]
  /\ UNCHANGED <<bindings, locked>>

\* The listener, the lock, the terminal: the lock may fail to go.
CloseSetup(s, unlocked) ==
  /\ setup[s].at = "closing"
  /\ locked' = IF locked = s /\ unlocked THEN NoSetup ELSE locked
  /\ Step(s, "ended")
  /\ UNCHANGED <<bindings, grant>>

Die(s) ==
  /\ setup[s].at \notin {"none", "ended", "dead"}
  /\ Step(s, "dead")
  /\ UNCHANGED <<bindings, locked, grant>>

-----------------------------------------------------------------------------
(* By hand *)

ClearLock(s) ==
  /\ locked = s /\ setup[s].at \in {"ended", "dead"}
  /\ locked' = NoSetup
  /\ UNCHANGED <<bindings, grant, setup>>

EditFile(b) ==
  /\ \A s \in Setups : setup[s].at # "renaming"
  /\ Free(b, bindings)
  /\ bindings' = bindings \cup {Entry(b, NoSetup)}
  /\ UNCHANGED <<locked, grant, setup>>

SetupNext ==
  \/ \E s \in Setups :
       \/ \E b \in Bindings : OpenStore(s, b)
       \/ StartDiagnostic(s) \/ Cancel(s) \/ TakeCallback(s) \/ StopWaiting(s) \/ IssueGrant(s) \/ ExchangeFails(s)
       \/ \E t \in {"both", "access"} : ReceiveTokens(s, t)
       \/ Verify(s) \/ GiveBack(s) \/ CheckFile(s) \/ RenameFile(s) \/ SaveGrantFails(s)
       \/ RevokeGrant(s) \/ RevokeFails(s) \/ Die(s) \/ ClearLock(s)
       \/ \E u \in BOOLEAN : CloseSetup(s, u)
  \/ \E b \in Bindings : EditFile(b)

SetupSpec == SetupInit /\ [][SetupNext]_setupVars

-----------------------------------------------------------------------------
\* No run leaves a grant behind in silence: a run that ended saved its grant,
\* or had none, or revoked it, or reports a cleanup that is not complete; and
\* the grant of a saved entry is never revoked (main, revokeUnsavedTokens,
\* exchangeAndVerify and the diagnostics).
GrantAccounted ==
  \A s \in Setups :
    /\ setup[s].cleanup = "REFRESH_REVOKED" => grant[s] = "revoked"
    /\ \A e \in bindings : e.from = s => grant[s] = "active"
    /\ setup[s].at = "ended" => (setup[s].saved <=> \E e \in bindings : e.from = s)

\* Saved entries stay, and no alias, business or organisation has two: also
\* when another run or a hand wrote to the file during the consent (save).
BindingsKept ==
  [][/\ bindings \subseteq bindings'
     /\ \A e \in bindings' : Free(e.binding, bindings' \ {e})]_setupVars
=============================================================================
