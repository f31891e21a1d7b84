------------------------- MODULE ConsentConnection -------------------------
(***************************************************************************)
(* The attended consent of one business to one provider test: the original *)
(* connection, the single successor a rejected consent may have, the local *)
(* service that runs the consent (src/t19-connection.js), the custodian's  *)
(* scripts (scripts/t19-connection.mjs, src/t19-successor.js) and the      *)
(* provider, which may grant after its answer was given up.                *)
(*                                                                         *)
(* Everything durable is one snapshot in the vault, and every change of it *)
(* is a read and a write under the service's queue, so one step; the       *)
(* vault itself is module CredentialVault. The service and the scripts     *)
(* exclude each other by the vault's lock. What a handler awaits outside   *)
(* the queue (its owner check, the exchange, the verification) separates   *)
(* its steps. Times only fail things here: a window closes, a state        *)
(* expires, a token expires.                                               *)
(***************************************************************************)
EXTENDS Naturals, SequencesExt

CONSTANTS
  Sessions,        \* signed-in sessions that call the service
  NoSession,
  MaxGeneration    \* bound on the generation an original connection is disabled to

ASSUME ConsentAssumption ==
  /\ MaxGeneration \in Nat
  /\ NoSession \notin Sessions

Manifests == {"original", "successor"}

VARIABLES
  connection,  \* connections[businessId]
  client,      \* the manifest the stored client secret was imported for, or "none"
  archive,     \* connectionHistory: the predecessor's record once it has a successor
  service,     \* the running local service: its manifest, execution gate and vault handle
  owner,       \* does the session belong to an active owner of the business?
  window,      \* is the approved window of the manifest open?
  call,        \* the request of a session that passed its gate and owner check
  pending,     \* the consent state the service waits for (at most one can exist)
  exchange,    \* the callback that carries a code
  probe,       \* the verification that runs
  consent      \* what the provider holds for the consent of each manifest

stored == <<connection, client, archive>>
memory == <<call, pending, exchange, probe>>
consentVars == <<stored, service, owner, window, memory, consent>>

Statuses == {"none", "successor_pending", "authorising", "exchanging", "authenticated", "disabled"}

\* An absent field is "none", 0 or FALSE; credentials are named by the
\* generation of their context.
NoConnection ==
  [of |-> "none", generation |-> 0, status |-> "none", events |-> <<>>, credentials |-> 0,
   cleanup |-> "none", evidence |-> FALSE, provenance |-> FALSE, attempted |-> FALSE,
   recovered |-> FALSE, cleaned |-> FALSE]

Event(e, g) == [event |-> e, generation |-> g]

\* audit() after the change d of c: the event carries the new generation.
Audited(d, e) == [d EXCEPT !.events = Append(@, Event(e, d.generation))]

EventNames(c) == [i \in DOMAIN c.events |-> c.events[i].event]

NoPending == [session |-> NoSession, generation |-> 0]
NoExchange == [at |-> "none", session |-> NoSession, generation |-> 0, answer |-> "none", allowed |-> FALSE]
NoProbe == [at |-> "none", session |-> NoSession, generation |-> 0]
NoService == [up |-> FALSE, manifest |-> "original", execution |-> FALSE, poisoned |-> FALSE]

ConsentInit ==
  /\ connection = NoConnection
  /\ client = "none"
  /\ archive = NoConnection
  /\ service = NoService
  /\ owner = [s \in Sessions |-> TRUE]
  /\ window = [m \in Manifests |-> TRUE]
  /\ call = [s \in Sessions |-> "none"]
  /\ pending = NoPending
  /\ exchange = NoExchange
  /\ probe = NoProbe
  /\ consent = [m \in Manifests |-> "none"]

-----------------------------------------------------------------------------
(* What a manifest may touch *)

\* The tombstone of an original consent that was rejected and cleaned.
RecoveredRecord(c) ==
  c = [NoConnection EXCEPT
         !.of = "original", !.generation = 3, !.status = "disabled", !.recovered = TRUE,
         !.events = <<Event("consent_started", 1), Event("locally_disabled", 2),
                      Event("rejected_consent_client_removed_locally", 3)>>]

SuccessorRecord(c) == c.of = "successor" /\ c.generation >= 4 /\ RecoveredRecord(archive)

PendingSuccessor(c) ==
  /\ SuccessorRecord(c)
  /\ c = [NoConnection EXCEPT !.of = "successor", !.generation = 4, !.status = "successor_pending",
                              !.events = <<Event("successor_prepared", 4)>>]

Loads ==
  /\ service.up /\ ~service.poisoned
  /\ IF service.manifest = "successor" THEN SuccessorRecord(connection)
                                       ELSE connection.of \in {"none", "original"}

Gate == service.execution /\ window[service.manifest]

-----------------------------------------------------------------------------
(* The custodian's scripts, run while no service holds the vault *)

ImportClient(m) ==
  /\ ~service.up
  /\ window[m]
  /\ connection.of = "successor" => m = "successor"
  /\ m = "successor" => PendingSuccessor(connection)
  /\ client = "none"
  /\ client' = m
  /\ UNCHANGED <<connection, archive, service, owner, window, memory, consent>>

CleanupImportedClient ==
  /\ ~service.up
  /\ connection.of = "none" /\ archive.of = "none"
  /\ client = "original"
  /\ client' = "none"
  /\ UNCHANGED <<connection, archive, service, owner, window, memory, consent>>

\* The evidence is truthful: revoked at the provider, or never granted.
RevocationTrue(m) == consent[m] = "revoked"
NoGrantTrue(m) == consent[m] \in {"none", "rejected"}

AttestCleanup ==
  /\ ~service.up
  /\ connection.of = "original" /\ connection.status = "disabled" /\ connection.cleanup # "none"
  /\ RevocationTrue("original")
  /\ connection' = Audited([connection EXCEPT !.cleanup = "none"], "custodian_attested_provider_revocation")
  /\ client' = "none"
  /\ UNCHANGED <<archive, service, owner, window, memory, consent>>

RejectedConsent(c) ==
  c = [NoConnection EXCEPT !.of = "original", !.generation = 2, !.status = "disabled",
         !.events = <<Event("consent_started", 1), Event("locally_disabled", 2)>>]

CleanupRejectedConsent ==
  /\ ~service.up
  /\ RejectedConsent(connection) /\ client = "original"
  /\ NoGrantTrue("original")
  /\ connection' = Audited([connection EXCEPT !.generation = @ + 1, !.recovered = TRUE],
                           "rejected_consent_client_removed_locally")
  /\ client' = "none"
  /\ UNCHANGED <<archive, service, owner, window, memory, consent>>

PrepareSuccessor ==
  /\ ~service.up
  /\ window["successor"]
  /\ RecoveredRecord(connection) /\ client = "none" /\ archive.of = "none"
  /\ archive' = connection
  /\ connection' = Audited([NoConnection EXCEPT !.of = "successor", !.generation = 4,
                              !.status = "successor_pending"], "successor_prepared")
  /\ UNCHANGED <<client, service, owner, window, memory, consent>>

-----------------------------------------------------------------------------
(* Cleaning a successor: the strict replay of its history *)

AuditStart == [phase |-> "pending", generation |-> 4, waiting |-> FALSE, exchanged |-> FALSE,
               granted |-> FALSE, attempted |-> FALSE, accepted |-> TRUE]

PhaseAfter ==
  [consent_started |-> "authorising", exchange_dispatched |-> "exchanging",
   grant_stored |-> "authenticated", verification_started |-> "verifying", verified |-> "verified",
   locally_disabled |-> "disabled", verification_failed_disabled |-> "disabled",
   exchange_failed_cleanup_review |-> "disabled", late_grant_cleanup_required |-> "disabled"]

AuditAllows(a, e) ==
  CASE e = "consent_started" -> a.phase = "pending"
    [] e = "exchange_dispatched" -> a.phase = "authorising" /\ ~a.exchanged
    [] e = "grant_stored" -> a.phase = "exchanging" /\ a.waiting
    [] e = "verification_started" -> a.phase = "authenticated" /\ ~a.attempted
    [] e \in {"verified", "verification_failed_disabled"} -> a.phase = "verifying"
    [] e = "locally_disabled" -> TRUE
    [] e \in {"exchange_failed_cleanup_review", "late_grant_cleanup_required"} ->
         a.waiting /\ a.phase \in {"exchanging", "disabled"}
    [] OTHER -> FALSE

AuditAdvances(a, e) ==
  \/ e \in {"consent_started", "locally_disabled", "verification_failed_disabled",
            "exchange_failed_cleanup_review"}
  \/ e = "late_grant_cleanup_required" /\ a.phase = "exchanging"

AuditStep(a, ev) ==
  LET e == ev.event
      g == IF AuditAdvances(a, e) THEN a.generation + 1 ELSE a.generation
  IN  IF ~AuditAllows(a, e) THEN [a EXCEPT !.accepted = FALSE]
      ELSE [phase |-> PhaseAfter[e], generation |-> g,
            waiting |-> \/ e = "exchange_dispatched"
                        \/ a.waiting /\ e \in {"locally_disabled", "consent_started"},
            exchanged |-> a.exchanged \/ e = "exchange_dispatched",
            granted |-> a.granted \/ e = "grant_stored",
            attempted |-> a.attempted \/ e = "verification_started",
            accepted |-> a.accepted /\ ev.generation = g]

AuditState(c) == FoldLeft(AuditStep, AuditStart, Tail(c.events))

AuditAgrees(c) ==
  LET a == AuditState(c)
  IN  /\ Len(c.events) >= 2 /\ Head(c.events) = Event("successor_prepared", 4)
      /\ a.accepted /\ a.phase = "disabled" /\ a.generation = c.generation
      /\ a.attempted = c.attempted /\ a.granted = c.provenance

\* No exchange was ever begun: the two histories that end so.
NothingExchanged(c, histories) ==
  /\ EventNames(c) \in histories
  /\ \A i \in DOMAIN c.events : c.events[i].generation = 3 + i
  /\ c.cleanup = "none" /\ ~c.provenance /\ ~c.attempted

CancelledBeforeConsent == <<"successor_prepared", "locally_disabled">>
CancelledAfterConsent == <<"successor_prepared", "consent_started", "locally_disabled">>

CleanupAccepts(c, kind) ==
  /\ SuccessorRecord(c)
  /\ c.status = "disabled" /\ c.generation > 4
  /\ c.credentials = 0 /\ ~c.evidence /\ ~c.cleaned
  /\ AuditAgrees(c)
  /\ CASE kind = "noGrantIssued" ->
            NothingExchanged(c, {CancelledBeforeConsent, CancelledAfterConsent})
       [] kind = "consentRevokedBeforeExchange" ->
            ~AuditState(c).exchanged /\ NothingExchanged(c, {CancelledAfterConsent})
       [] kind = "providerRevocationConfirmed" ->
            AuditState(c).exchanged /\ c.cleanup # "none"
  /\ client = "successor" \/ (client = "none" /\ kind = "noGrantIssued")

CleanupKinds == {"noGrantIssued", "consentRevokedBeforeExchange", "providerRevocationConfirmed"}

EvidenceTrue(kind) ==
  IF kind = "noGrantIssued" THEN NoGrantTrue("successor") ELSE RevocationTrue("successor")

CleanupSuccessor(kind) ==
  /\ ~service.up
  /\ CleanupAccepts(connection, kind)
  /\ EvidenceTrue(kind)
  /\ connection' = Audited([connection EXCEPT !.cleanup = "none", !.generation = @ + 1, !.cleaned = TRUE],
                           "successor_client_removed_locally")
  /\ client' = "none"
  /\ UNCHANGED <<archive, service, owner, window, memory, consent>>

-----------------------------------------------------------------------------
(* The service process *)

NoMemory ==
  /\ call' = [s \in Sessions |-> "none"]
  /\ pending' = NoPending
  /\ exchange' = NoExchange
  /\ probe' = NoProbe

Start(m, e) ==
  /\ ~service.up
  /\ e => window[m]
  /\ service' = [up |-> TRUE, manifest |-> m, execution |-> e, poisoned |-> FALSE]
  /\ UNCHANGED <<stored, owner, window, memory, consent>>

\* A stop or a crash at any point: what the vault holds stays, the rest is
\* lost. (After a crash the vault's lock is removed by hand first.)
Stop ==
  /\ service.up
  /\ service' = NoService
  /\ NoMemory
  /\ UNCHANGED <<stored, owner, window, consent>>

\* A write of the vault fails: nothing is stored, the handle refuses
\* everything from now on, and every handler that saves or loads ends.
SaveFails ==
  /\ service.up /\ ~service.poisoned
  /\ service' = [service EXCEPT !.poisoned = TRUE]
  /\ NoMemory
  /\ UNCHANGED <<stored, owner, window, consent>>

\* The gate and the awaited owner check come before a request's turn in the
\* queue; disabling has no gate.
Admit(s, op) ==
  /\ service.up /\ call[s] = "none"
  /\ op # "disable" => Gate
  /\ owner[s]
  /\ call' = [call EXCEPT ![s] = op]
  /\ UNCHANGED <<stored, service, owner, window, pending, exchange, probe, consent>>

Refused(s) ==
  /\ call[s] # "none"
  /\ call' = [call EXCEPT ![s] = "none"]
  /\ UNCHANGED <<stored, service, owner, window, pending, exchange, probe, consent>>

Authorise(s) ==
  /\ call[s] = "authorise"
  /\ Loads
  /\ connection.of # "none" => service.manifest = "successor" /\ PendingSuccessor(connection)
  /\ client = service.manifest
  /\ LET fresh == [NoConnection EXCEPT !.of = "original", !.generation = 1, !.status = "authorising"]
         next == [connection EXCEPT !.generation = @ + 1, !.status = "authorising"]
     IN  connection' = Audited(IF connection.of = "none" THEN fresh ELSE next, "consent_started")
  /\ pending' = [session |-> s, generation |-> connection'.generation]
  /\ call' = [call EXCEPT ![s] = "none"]
  /\ UNCHANGED <<client, archive, service, owner, window, exchange, probe, consent>>

StateExpires ==
  /\ pending # NoPending
  /\ pending' = NoPending
  /\ UNCHANGED <<stored, service, owner, window, call, exchange, probe, consent>>

-----------------------------------------------------------------------------
(* The callback *)

\* The state is used up even if it is another session's or the owner check fails.
TakeState(s) ==
  /\ Gate
  /\ pending # NoPending /\ exchange.at = "none"
  /\ consent[service.manifest] \in {"consented", "revoked"}
  /\ pending' = NoPending
  /\ exchange' = IF pending.session = s /\ owner[s]
                 THEN [NoExchange EXCEPT !.at = "admitted", !.session = s, !.generation = pending.generation]
                 ELSE NoExchange
  /\ UNCHANGED <<stored, service, owner, window, call, probe, consent>>

Awaited(status) == connection.generation = exchange.generation /\ connection.status = status

\* Mutant: the marker is left to the answer.
MarkedByAnswer(c) == [c EXCEPT !.status = "exchanging"]

\* The outcome is recorded as unknown before the code leaves the process.
Marked(c) == [c EXCEPT !.status = "exchanging", !.cleanup = "unknown"]

Dispatch ==
  /\ exchange.at = "admitted"
  /\ Loads /\ Awaited("authorising")
  /\ connection' = Audited(Marked(connection), "exchange_dispatched")
  /\ exchange' = [exchange EXCEPT !.at = "sent"]
  /\ consent' = [consent EXCEPT ![service.manifest] = IF @ = "consented" THEN "presented" ELSE @]
  /\ UNCHANGED <<client, archive, service, owner, window, call, pending, probe>>

DispatchStale ==
  /\ exchange.at = "admitted"
  /\ ~Awaited("authorising")
  /\ exchange' = NoExchange
  /\ UNCHANGED <<stored, service, owner, window, call, pending, probe, consent>>

\* exchangeCode returns the grant, or fails: on a timeout, a lost or a bad answer.
AnswerGrant ==
  /\ exchange.at = "sent"
  /\ consent[service.manifest] = "granted"
  /\ exchange' = [exchange EXCEPT !.at = "answered", !.answer = "grant"]
  /\ UNCHANGED <<stored, service, owner, window, call, pending, probe, consent>>

AnswerFails ==
  /\ exchange.at = "sent"
  /\ exchange' = [exchange EXCEPT !.at = "answered", !.answer = "failed"]
  /\ UNCHANGED <<stored, service, owner, window, call, pending, probe, consent>>

ExchangeFailed ==
  /\ exchange.at = "answered" /\ exchange.answer = "failed"
  /\ Loads
  /\ connection' = Audited([connection EXCEPT !.status = "disabled", !.generation = @ + 1, !.cleanup = "unknown"],
                           "exchange_failed_cleanup_review")
  /\ exchange' = NoExchange
  /\ UNCHANGED <<client, archive, service, owner, window, call, pending, probe, consent>>

\* The gate and the owner are asked again after the exchange.
Recheck ==
  /\ exchange.at = "answered" /\ exchange.answer = "grant"
  /\ exchange' = [exchange EXCEPT !.at = "rechecked", !.allowed = Gate /\ owner[exchange.session]]
  /\ UNCHANGED <<stored, service, owner, window, call, pending, probe, consent>>

\* Mutant: the grant is kept without looking at the connection again.
GrantWantedUnchecked == exchange.allowed

GrantWanted == exchange.allowed /\ Awaited("exchanging")

StoreGrant ==
  /\ exchange.at = "rechecked"
  /\ Loads /\ GrantWanted
  /\ connection' = Audited([connection EXCEPT !.status = "authenticated", !.credentials = connection.generation,
                              !.cleanup = "none", !.provenance = TRUE], "grant_stored")
  /\ exchange' = NoExchange
  /\ UNCHANGED <<client, archive, service, owner, window, call, pending, probe, consent>>

\* Only a successor is disabled by its late grant.
LateGrant ==
  /\ exchange.at = "rechecked"
  /\ Loads /\ ~GrantWanted
  /\ LET ends == service.manifest = "successor" /\ connection.status # "disabled"
     IN  connection' = Audited([connection EXCEPT
                                  !.status = IF ends THEN "disabled" ELSE @,
                                  !.generation = IF ends THEN @ + 1 ELSE @,
                                  !.cleanup = "token"], "late_grant_cleanup_required")
  /\ exchange' = NoExchange
  /\ UNCHANGED <<client, archive, service, owner, window, call, pending, probe, consent>>

-----------------------------------------------------------------------------
(* Verification and disabling *)

BeginVerify(s) ==
  /\ call[s] = "verify"
  /\ Loads
  /\ connection.status = "authenticated" /\ ~connection.attempted
  /\ connection.credentials = connection.generation
  /\ connection' = Audited([connection EXCEPT !.attempted = TRUE], "verification_started")
  /\ probe' = [at |-> "reading", session |-> s, generation |-> connection.generation]
  /\ call' = [call EXCEPT ![s] = "none"]
  /\ UNCHANGED <<client, archive, service, owner, window, pending, exchange, consent>>

ProbeContext == connection.generation = probe.generation /\ connection.status = "authenticated"

\* Both reads agree with the fixture and the last guard holds.
ProbePasses ==
  /\ probe.at = "reading"
  /\ Gate /\ owner[probe.session]
  /\ Loads /\ ProbeContext
  /\ probe' = [probe EXCEPT !.at = "passed"]
  /\ UNCHANGED <<stored, service, owner, window, call, pending, exchange, consent>>

StoreEvidence ==
  /\ probe.at = "passed"
  /\ Loads /\ ProbeContext
  /\ connection' = Audited([connection EXCEPT !.evidence = TRUE], "verified")
  /\ probe' = NoProbe
  /\ UNCHANGED <<client, archive, service, owner, window, call, pending, exchange, consent>>

\* What a failed verification leaves of its own connection.
Unverified(c) ==
  Audited([c EXCEPT !.status = "disabled", !.generation = @ + 1, !.cleanup = "token",
                    !.credentials = 0, !.evidence = FALSE], "verification_failed_disabled")

\* A guard, a read or a comparison fails, or the connection moved on meanwhile.
ProbeFails ==
  /\ probe.at = "reading" \/ (probe.at = "passed" /\ ~ProbeContext)
  /\ Loads
  /\ connection' = IF connection.generation = probe.generation THEN Unverified(connection) ELSE connection
  /\ probe' = NoProbe
  /\ UNCHANGED <<client, archive, service, owner, window, call, pending, exchange, consent>>

\* Mutant: a successor is disabled again like an original.
RepeatsEverything == FALSE

\* Disabling a disabled successor changes nothing (as Refused).
RepeatsNothing == service.manifest = "successor" /\ connection.status = "disabled"

Disable(s) ==
  /\ call[s] = "disable"
  /\ Loads
  /\ connection.of # "none" /\ ~RepeatsNothing
  /\ connection.of = "original" => connection.generation < MaxGeneration
  /\ connection' = Audited([connection EXCEPT !.generation = @ + 1, !.status = "disabled",
                              !.cleanup = IF connection.credentials # 0 THEN "token" ELSE @,
                              !.credentials = 0, !.evidence = FALSE], "locally_disabled")
  /\ pending' = IF pending.session = s THEN NoPending ELSE pending
  /\ call' = [call EXCEPT ![s] = "none"]
  /\ UNCHANGED <<client, archive, service, owner, window, exchange, probe, consent>>

-----------------------------------------------------------------------------
(* The provider, the owner's role and the clock *)

HandedOut(m) == connection.of = m /\ \E i \in DOMAIN connection.events : connection.events[i].event = "consent_started"

Decide(m, d) ==
  /\ HandedOut(m) /\ consent[m] = "none"
  /\ consent' = [consent EXCEPT ![m] = d]
  /\ UNCHANGED <<stored, service, owner, window, memory>>

\* A presented code is granted at any time, also after its answer was given up.
ProviderGrants(m) ==
  /\ consent[m] = "presented"
  /\ consent' = [consent EXCEPT ![m] = "granted"]
  /\ UNCHANGED <<stored, service, owner, window, memory>>

\* The custodian revokes the consent at the provider, its code included.
Revoke(m) ==
  /\ consent[m] \in {"consented", "presented", "granted"}
  /\ consent' = [consent EXCEPT ![m] = "revoked"]
  /\ UNCHANGED <<stored, service, owner, window, memory>>

ChangeOwner(s) ==
  /\ owner' = [owner EXCEPT ![s] = ~@]
  /\ UNCHANGED <<stored, service, window, memory, consent>>

CloseWindow(m) ==
  /\ window[m]
  /\ window' = [window EXCEPT ![m] = FALSE]
  /\ UNCHANGED <<stored, service, owner, memory, consent>>

Script ==
  \/ \E m \in Manifests : ImportClient(m)
  \/ CleanupImportedClient \/ AttestCleanup \/ CleanupRejectedConsent \/ PrepareSuccessor
  \/ \E kind \in CleanupKinds : CleanupSuccessor(kind)

ServiceStep ==
  \/ \E m \in Manifests, e \in BOOLEAN : Start(m, e)
  \/ Stop \/ SaveFails \/ StateExpires
  \/ \E s \in Sessions :
       \/ \E op \in {"authorise", "verify", "disable"} : Admit(s, op)
       \/ Refused(s) \/ Authorise(s) \/ TakeState(s) \/ BeginVerify(s) \/ Disable(s)
  \/ Dispatch \/ DispatchStale \/ AnswerGrant \/ AnswerFails \/ ExchangeFailed \/ Recheck
  \/ StoreGrant \/ LateGrant
  \/ ProbePasses \/ StoreEvidence \/ ProbeFails

Outside ==
  \/ \E m \in Manifests :
       (\E d \in {"consented", "rejected"} : Decide(m, d)) \/ ProviderGrants(m) \/ Revoke(m) \/ CloseWindow(m)
  \/ \E s \in Sessions : ChangeOwner(s)

ConsentNext == Script \/ ServiceStep \/ Outside

ConsentSpec == ConsentInit /\ [][ConsentNext]_consentVars

-----------------------------------------------------------------------------
(* What the attended consent must keep, and where a test would hardly look. *)

\* A consent the provider granted and nobody revoked is never forgotten: the
\* vault still holds its credentials, or the marker to clean it up, and the
\* client secret. (callback writes the marker before the code leaves, the
\* scripts remove it only on an attested revocation.)
GrantRemembered ==
  \A m \in Manifests :
    consent[m] = "granted" =>
      /\ connection.of = m /\ client = m
      /\ connection.credentials # 0 \/ connection.cleanup # "none"

\* The evidence a truthful custodian can bring once the consent is settled.
Evidence ==
  IF AuditState(connection).exchanged THEN "providerRevocationConfirmed"
  ELSE IF consent["successor"] \in {"none", "rejected"} THEN "noGrantIssued"
  ELSE "consentRevokedBeforeExchange"

\* However a successor came to be disabled - before its consent, during the
\* exchange, by a late grant, by two sessions at once, around a crash - its
\* cleanup is not refused for its history (cleanupSuccessor, auditState).
EveryEndCanBeCleaned ==
  connection.of = "successor" /\ connection.status = "disabled" /\ ~connection.cleaned
    => CleanupAccepts(connection, Evidence)

\* A connection that was disabled is never authenticated again, whatever
\* exchange or verification of it was still under way: only a successor can
\* follow, and only the recovered original.
DisabledForGood ==
  [][connection.status = "disabled" =>
       \/ connection'.status = "disabled" /\ connection'.credentials = 0 /\ ~connection'.evidence
            /\ connection'.of = connection.of
       \/ RecoveredRecord(connection) /\ PendingSuccessor(connection)']_consentVars
=============================================================================
