---------------------------- MODULE AccessTokens ----------------------------
(***************************************************************************)
(* Access tokens of one accounting connection (src/t19-c1.js): callers of  *)
(* several service processes ask for a token, the callers of one process   *)
(* share one refresh, and the processes compete for the lease of the       *)
(* authoritative row (the coordinator of test-support/t19-c1-dummy.mjs).   *)
(* The provider may rotate the refresh token with every refresh it         *)
(* performs, also one whose answer never arrives.                          *)
(*                                                                         *)
(* Every awaited check of a flight (owner, row, custody) can only make it  *)
(* fail, and a flight may fail at any await; so a step takes the last      *)
(* check before its effect, and FlightFails may happen before each.        *)
(* Flights of two bindings in one process share nothing but the row, as    *)
(* those of two processes do: a process runs one at a time here.           *)
(***************************************************************************)
EXTENDS Naturals

CONSTANTS
  Callers,        \* sessions that ask for a token
  Services,       \* processes, each with its own cache and flights
  NoCaller,
  LastGeneration,  \* bound on reauthorisations
  MaxVersion,     \* bound on versions of a credential
  MaxClaims       \* bound on claims of the lease

ASSUME TokenAssumption ==
  /\ LastGeneration \in Nat /\ MaxVersion \in Nat /\ MaxClaims \in Nat
  /\ NoCaller \notin Callers

VARIABLES
  row,       \* the authoritative row
  claims,    \* leases handed out: the newest is the row's, if it has one
  cache,     \* binding and freshness of the token a process caches
  flight,    \* the refresh a process runs
  caller,    \* what each caller waits for
  isOwner,   \* is the session of the caller an owner's?
  valid,     \* the refresh token the provider accepts, numbered as issued
  inbox      \* refresh requests the provider has yet to serve

tokenVars == <<row, claims, cache, flight, caller, isOwner, valid, inbox>>

Binding(g, v) == [generation |-> g, version |-> v]
NoBinding == Binding(0, 0)
NextVersion(b) == Binding(b.generation, b.version + 1)

Sealed(b, t) == [binding |-> b, token |-> t]

Holds == {"recovery_required", "reauthorisation_required"}

NoFlight == [at |-> "none", binding |-> NoBinding, starter |-> NoCaller, lease |-> 0,
             token |-> 0, answer |-> "none", received |-> 0]
NoCache == [binding |-> NoBinding, fresh |-> FALSE]
Resting == [at |-> "idle", service |-> 0, binding |-> NoBinding]

TokensInit ==
  /\ row = [binding |-> Binding(1, 1), status |-> "active", phase |-> "idle", lease |-> 0,
            live |-> FALSE, sealed |-> Sealed(Binding(1, 1), 1)]
  /\ claims = 0
  /\ cache = [p \in Services |-> NoCache]
  /\ flight = [p \in Services |-> NoFlight]
  /\ caller = [c \in Callers |-> Resting]
  /\ isOwner = [c \in Callers |-> TRUE]
  /\ valid = 1
  /\ inbox = {}

-----------------------------------------------------------------------------
(* The coordinator's row *)

Current(b) == row.binding = b /\ row.status = "active" /\ row.phase \notin Holds

HasLease(b, l) == Current(b) /\ row.lease = l /\ l # 0

Fenced(b, l) == HasLease(b, l) /\ row.live

\* Mutant: a lease that expired after its dispatch is handed out again.
ReclaimableExpired == row.lease = 0 \/ ~row.live

Reclaimable == row.phase # "dispatched" /\ (row.lease = 0 \/ ~row.live)

\* A dispatched refresh is never called idle again.
PhaseAfterFailure(state) ==
  IF row.phase = "dispatched" /\ state = "idle" THEN "recovery_required" ELSE state

\* fail(): ignored unless the row is still that of the flight's lease.
RowAfterFailure(b, l, state) ==
  IF HasLease(b, l) THEN [row EXCEPT !.phase = PhaseAfterFailure(state), !.lease = 0, !.live = FALSE]
                    ELSE row

LeaseExpires ==
  /\ row.live
  /\ row' = [row EXCEPT !.live = FALSE]
  /\ UNCHANGED <<claims, cache, flight, caller, isOwner, valid, inbox>>

\* The connection is disabled, or reauthorised with a new grant.
ChangeCredential(reauthorise) ==
  /\ row.binding.generation < LastGeneration
  /\ LET b == Binding(row.binding.generation + 1, 1)
     IN  /\ row' = [binding |-> b, status |-> IF reauthorise THEN "active" ELSE "disabled",
                    phase |-> "idle", lease |-> 0, live |-> FALSE, sealed |-> Sealed(b, valid + 1)]
         /\ valid' = valid + 1
  /\ UNCHANGED <<claims, cache, flight, caller, isOwner, inbox>>

-----------------------------------------------------------------------------
(* access(): the cache, the flight of the process, and those who wait for it *)

Cached(p, b) == cache[p].binding = b /\ cache[p].fresh

\* A caller joins the flight of its binding, or starts it. What is in the
\* cache it takes at once, and nothing changes.
Access(c, p) ==
  /\ caller[c].at = "idle"
  /\ isOwner[c] /\ Current(row.binding) /\ ~Cached(p, row.binding)
  /\ \/ flight[p].at # "none" /\ flight[p].binding = row.binding /\ UNCHANGED flight
     \/ /\ flight[p].at = "none"
        /\ flight' = [flight EXCEPT ![p] = [NoFlight EXCEPT !.at = "started", !.binding = row.binding, !.starter = c]]
  /\ cache' = [cache EXCEPT ![p] = NoCache]
  /\ caller' = [caller EXCEPT ![c] = [at |-> "waiting", service |-> p, binding |-> row.binding]]
  /\ UNCHANGED <<row, claims, isOwner, valid, inbox>>

Waiters(p) == {c \in Callers : caller[c].at = "waiting" /\ caller[c].service = p}

\* What the end of a flight makes of those who share it.
Woken(p, at, b) ==
  [c \in Callers |-> IF c \in Waiters(p) THEN [caller[c] EXCEPT !.at = at, !.binding = b] ELSE caller[c]]

\* Each caller's own ownership, the row and the cached token are looked at again.
Answer(c) ==
  /\ caller[c].at = "answering"
  /\ isOwner[c] /\ Current(caller[c].binding) /\ Cached(caller[c].service, caller[c].binding)
  /\ caller' = [caller EXCEPT ![c].at = "answered"]
  /\ UNCHANGED <<row, claims, cache, flight, isOwner, valid, inbox>>

Refuse(c) ==
  /\ caller[c].at = "answering"
  /\ ~(isOwner[c] /\ Current(caller[c].binding) /\ Cached(caller[c].service, caller[c].binding))
  /\ caller' = [caller EXCEPT ![c].at = "refused"]
  /\ cache' = IF isOwner[c] /\ ~Current(caller[c].binding) /\ cache[caller[c].service].binding = caller[c].binding
              THEN [cache EXCEPT ![caller[c].service] = NoCache] ELSE cache
  /\ UNCHANGED <<row, claims, flight, isOwner, valid, inbox>>

AskAgain(c) ==
  /\ caller[c].at \in {"answered", "refused"}
  /\ caller' = [caller EXCEPT ![c] = Resting]
  /\ UNCHANGED <<row, claims, cache, flight, isOwner, valid, inbox>>

-----------------------------------------------------------------------------
(* perform(): one refresh *)

Claim(p) ==
  LET f == flight[p]
  IN  /\ f.at = "started"
      /\ Current(f.binding) /\ Reclaimable
      /\ claims < MaxClaims
      /\ claims' = claims + 1
      /\ row' = [row EXCEPT !.phase = "claimed", !.lease = claims + 1, !.live = TRUE]
      /\ flight' = [flight EXCEPT ![p].at = "claimed", ![p].lease = claims + 1]
      /\ UNCHANGED <<cache, caller, isOwner, valid, inbox>>

\* Nothing is claimed: the lease is another's, or its dispatch is over time
\* and is now held for recovery. A claim that fails leaves cache and lease alone.
ClaimFails(p) ==
  LET f == flight[p]
  IN  /\ f.at = "started"
      /\ ~(Current(f.binding) /\ Reclaimable)
      /\ row' = IF Current(f.binding) /\ row.phase = "dispatched" /\ ~row.live
                THEN [row EXCEPT !.phase = "recovery_required"] ELSE row
      /\ flight' = [flight EXCEPT ![p] = NoFlight]
      /\ caller' = Woken(p, "refused", f.binding)
      /\ UNCHANGED <<claims, cache, isOwner, valid, inbox>>

\* Custody opens only what was sealed for this very binding; the intent is on
\* the row before the request leaves.
DispatchRefresh(p) ==
  LET f == flight[p]
  IN  /\ f.at = "claimed"
      /\ isOwner[f.starter] /\ row.sealed.binding = f.binding
      /\ Fenced(f.binding, f.lease) /\ row.phase = "claimed"
      /\ row' = [row EXCEPT !.phase = "dispatched"]
      /\ flight' = [flight EXCEPT ![p].at = "sent", ![p].token = row.sealed.token]
      /\ inbox' = inbox \cup {[service |-> p, lease |-> f.lease, token |-> row.sealed.token]}
      /\ UNCHANGED <<claims, cache, caller, isOwner, valid>>

\* The provider serves a request, whoever still waits for it; it may rotate.
ServeRefresh(q, rotate) ==
  LET accepted == q.token = valid
      t == IF rotate THEN valid + 1 ELSE valid
      p == q.service
  IN  /\ q \in inbox
      /\ inbox' = inbox \ {q}
      /\ valid' = IF accepted THEN t ELSE valid
      /\ flight' = IF flight[p].at = "sent" /\ flight[p].lease = q.lease
                   THEN [flight EXCEPT ![p].at = "served", ![p].received = IF accepted THEN t ELSE 0,
                                       ![p].answer = IF accepted THEN "success" ELSE "invalid_grant"]
                   ELSE flight
      /\ UNCHANGED <<row, claims, cache, caller, isOwner>>

\* The token to keep: the rotated one where the provider sent one.
MaterialToSeal(f) == f.received

\* Sealed for the next version, then published by one fenced step.
Complete(p) ==
  LET f == flight[p]
  IN  /\ f.at = "served" /\ f.answer = "success"
      /\ isOwner[f.starter]
      /\ Fenced(f.binding, f.lease) /\ row.phase = "dispatched"
      /\ f.binding.version < MaxVersion
      /\ row' = [row EXCEPT !.binding = NextVersion(f.binding), !.phase = "idle", !.lease = 0, !.live = FALSE,
                            !.sealed = Sealed(NextVersion(f.binding), MaterialToSeal(f))]
      /\ flight' = [flight EXCEPT ![p].at = "completed"]
      /\ UNCHANGED <<claims, cache, caller, isOwner, valid, inbox>>

Publish(p) ==
  LET f == flight[p]
  IN  /\ f.at = "completed"
      /\ isOwner[f.starter] /\ Current(NextVersion(f.binding))
      /\ cache' = [cache EXCEPT ![p] = [binding |-> NextVersion(f.binding), fresh |-> TRUE]]
      /\ flight' = [flight EXCEPT ![p] = NoFlight]
      /\ caller' = Woken(p, "answering", NextVersion(f.binding))
      /\ UNCHANGED <<row, claims, isOwner, valid, inbox>>

\* An await fails: a check, custody, the provider's answer or its lifetime.
\* Recording the failure may itself fail, and is given up.
FlightFails(p, recorded) ==
  LET f == flight[p]
      state == IF f.at = "claimed" THEN "idle" ELSE "recovery_required"
  IN  /\ f.at \in {"claimed", "sent", "served", "completed"}
      /\ row' = IF recorded THEN RowAfterFailure(f.binding, f.lease, state) ELSE row
      /\ cache' = IF cache[p].binding = f.binding THEN [cache EXCEPT ![p] = NoCache] ELSE cache
      /\ flight' = [flight EXCEPT ![p] = NoFlight]
      /\ caller' = Woken(p, "refused", f.binding)
      /\ UNCHANGED <<claims, isOwner, valid, inbox>>

\* The provider refused the material: held for reauthorisation while the lease lives.
InvalidGrant(p) ==
  LET f == flight[p]
  IN  /\ f.at = "served" /\ f.answer = "invalid_grant"
      /\ Fenced(f.binding, f.lease)
      /\ row' = RowAfterFailure(f.binding, f.lease, "reauthorisation_required")
      /\ flight' = [flight EXCEPT ![p] = NoFlight]
      /\ caller' = Woken(p, "refused", f.binding)
      /\ UNCHANGED <<claims, cache, isOwner, valid, inbox>>

-----------------------------------------------------------------------------
(* Memberships, time and crashes *)

ChangeOwnership(c) ==
  /\ isOwner' = [isOwner EXCEPT ![c] = ~@]
  /\ UNCHANGED <<row, claims, cache, flight, caller, valid, inbox>>

TokenExpires(p) ==
  /\ cache[p].fresh
  /\ cache' = [cache EXCEPT ![p].fresh = FALSE]
  /\ UNCHANGED <<row, claims, flight, caller, isOwner, valid, inbox>>

\* The row outlives the process; cache, flight and waiting callers do not.
Crash(p) ==
  /\ flight[p].at # "none" \/ cache[p] # NoCache
  /\ cache' = [cache EXCEPT ![p] = NoCache]
  /\ flight' = [flight EXCEPT ![p] = NoFlight]
  /\ caller' = [c \in Callers |-> IF caller[c].service = p THEN Resting ELSE caller[c]]
  /\ UNCHANGED <<row, claims, isOwner, valid, inbox>>

TokensNext ==
  \/ LeaseExpires
  \/ \E r \in BOOLEAN : ChangeCredential(r)
  \/ \E c \in Callers : (\E p \in Services : Access(c, p)) \/ Answer(c) \/ Refuse(c) \/ AskAgain(c) \/ ChangeOwnership(c)
  \/ \E p \in Services :
       \/ Claim(p) \/ ClaimFails(p) \/ DispatchRefresh(p) \/ Complete(p) \/ Publish(p)
       \/ (\E r \in BOOLEAN : FlightFails(p, r)) \/ InvalidGrant(p) \/ TokenExpires(p) \/ Crash(p)
  \/ \E q \in inbox, r \in BOOLEAN : ServeRefresh(q, r)

TokensSpec == TokensInit /\ [][TokensNext]_tokenVars

-----------------------------------------------------------------------------
(* What the claims must keep. *)

\* While the row lets a refresh begin, custody holds for its very binding the
\* refresh token the provider accepts now, and no request is under way that
\* could rotate it: whatever leases expired, processes died and answers were
\* lost (claim, dispatch, complete and fail, and perform's order of them).
UsableIsCurrent ==
  row.status = "active" /\ row.phase \in {"idle", "claimed"} =>
    /\ row.sealed = Sealed(row.binding, valid)
    /\ \A q \in inbox : q.token # valid
=============================================================================
