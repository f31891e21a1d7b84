--------------------------- MODULE SignInSessions ---------------------------
(***************************************************************************)
(* The server's signed-in sessions (src/auth-session.js): a bounded map    *)
(* from ids to clients of the database, filled by logins and read by every *)
(* request, each of which awaits the Auth server and the memberships       *)
(* (src/identity.js) between its look at the map and what it does.         *)
(***************************************************************************)
EXTENDS Naturals, FiniteSets

CONSTANTS
  Ids,          \* the session ids logins may draw; never drawn twice
  Browsers,     \* what can sign in or request at one time, each one thing
  Operations,   \* the operations requested: members of DOMAIN Required
  SessionLimit, \* 100 in the code
  NoId, NoOperation

Permissions ==
  [owner |-> {"quotes.manage", "staff.read", "staff.manage", "catalogue.read", "catalogue.manage",
              "business.manage", "customers.manage", "bookings.manage", "finance.read", "invoices.manage"},
   manager |-> {"quotes.manage", "staff.read", "catalogue.read", "customers.manage", "bookings.manage",
                "finance.read", "invoices.manage"},
   staff |-> {},
   none |-> {}]

\* The permission each operation asks for; two of them ask for a role.
Required ==
  [readEarnings |-> "finance.read", writeEarnings |-> "business.manage",
   readCatalogue |-> "catalogue.read", writeCatalogue |-> "catalogue.manage",
   readStaff |-> "staff.read", writeStaff |-> "staff.manage", invoices |-> "invoices.manage",
   quotes |-> "quotes.manage", bookings |-> "bookings.manage", customers |-> "customers.manage",
   settings |-> "owner", adjustments |-> "member"]

Permitted(role, op) ==
  CASE op = "settings" -> role = "owner"
    [] op = "adjustments" -> role # "none"
    [] OTHER -> Required[op] \in Permissions[role]

ASSUME SignInAssumption ==
  /\ SessionLimit \in Nat \ {0}
  /\ IsFiniteSet(Ids) /\ IsFiniteSet(Browsers)
  /\ NoId \notin Ids
  /\ Operations \subseteq DOMAIN Required

VARIABLES
  sessions,   \* ids in the map
  drawn,      \* ids drawn so far
  expired,    \* drawn ids whose time is over
  membership, \* the role of the signed-in user in the business
  browser     \* what each browser has under way

signInVars == <<sessions, drawn, expired, membership, browser>>

Away == [at |-> "away", id |-> NoId, op |-> NoOperation, role |-> "none"]

SignInInit ==
  /\ sessions = {}
  /\ drawn = {}
  /\ expired = {}
  /\ membership \in DOMAIN Permissions
  /\ browser = [b \in Browsers |-> Away]

\* Mutant: the limit lets one more in.
RoomForOneMore(s) == Cardinality(s) <= SessionLimit

HasRoom(s) == Cardinality(s) < SessionLimit

\* Every login and every read first drops the sessions whose time is over.
Pruned == sessions \ expired

BeginLogin(b) ==
  /\ browser[b].at = "away"
  /\ sessions' = Pruned
  /\ HasRoom(Pruned)
  /\ browser' = [browser EXCEPT ![b].at = "signing in"]
  /\ UNCHANGED <<drawn, expired, membership>>

LoginFails(b) ==
  /\ browser[b].at = "signing in"
  /\ browser' = [browser EXCEPT ![b] = Away]
  /\ UNCHANGED <<sessions, drawn, expired, membership>>

\* Password and identity are accepted after two awaits: the session is added.
FinishLogin(b, i) ==
  /\ browser[b].at = "signing in"
  /\ i \notin drawn
  /\ sessions' = sessions \cup {i}
  /\ drawn' = drawn \cup {i}
  /\ browser' = [browser EXCEPT ![b] = Away]
  /\ UNCHANGED <<expired, membership>>

BeginRequest(b, i, op) ==
  /\ browser[b].at = "away"
  /\ i \in Pruned
  /\ sessions' = Pruned
  /\ browser' = [browser EXCEPT ![b] = [at |-> "identifying", id |-> i, op |-> op, role |-> "none"]]
  /\ UNCHANGED <<drawn, expired, membership>>

\* resolveIdentity and the active businesses, read on behalf of the user.
Identify(b) ==
  /\ browser[b].at = "identifying"
  /\ browser' = [browser EXCEPT ![b].at = "identified", ![b].role = membership]
  /\ UNCHANGED <<sessions, drawn, expired, membership>>

\* Any failure of those reads ends the session.
IdentityFails(b) ==
  /\ browser[b].at = "identifying"
  /\ sessions' = sessions \ {browser[b].id}
  /\ browser' = [browser EXCEPT ![b] = Away]
  /\ UNCHANGED <<drawn, expired, membership>>

\* The map is asked again after the awaits.
StillSignedIn(i) == i \in sessions

Act(b) ==
  /\ browser[b].at = "identified"
  /\ Permitted(browser[b].role, browser[b].op) /\ StillSignedIn(browser[b].id)
  /\ browser' = [browser EXCEPT ![b].at = "acting"]
  /\ UNCHANGED <<sessions, drawn, expired, membership>>

Deny(b) ==
  /\ browser[b].at = "identified"
  /\ ~(Permitted(browser[b].role, browser[b].op) /\ StillSignedIn(browser[b].id))
  /\ browser' = [browser EXCEPT ![b] = Away]
  /\ UNCHANGED <<sessions, drawn, expired, membership>>

Done(b) ==
  /\ browser[b].at = "acting"
  /\ browser' = [browser EXCEPT ![b] = Away]
  /\ UNCHANGED <<sessions, drawn, expired, membership>>

\* The local session goes first, whatever the remote sign-out answers.
Logout(b, i) ==
  /\ browser[b].at = "away" /\ i \in sessions
  /\ sessions' = sessions \ {i}
  /\ UNCHANGED <<drawn, expired, membership, browser>>

Expire(i) ==
  /\ i \in drawn \ expired
  /\ expired' = expired \cup {i}
  /\ UNCHANGED <<sessions, drawn, membership, browser>>

ChangeRole(r) ==
  /\ membership' = r
  /\ UNCHANGED <<sessions, drawn, expired, browser>>

SignInNext ==
  \/ \E b \in Browsers :
       \/ BeginLogin(b) \/ LoginFails(b) \/ Identify(b) \/ IdentityFails(b) \/ Act(b) \/ Deny(b) \/ Done(b)
       \/ \E i \in Ids : FinishLogin(b, i) \/ Logout(b, i) \/ \E op \in Operations : BeginRequest(b, i, op)
  \/ \E i \in Ids : Expire(i)
  \/ \E r \in DOMAIN Permissions : ChangeRole(r)

SignInSpec == SignInInit /\ [][SignInNext]_signInVars

-----------------------------------------------------------------------------
(* What the map of sessions must keep. *)

\* The limit is looked at before two awaits and the session added after them:
\* the map still never holds more than the limit and the logins that were
\* under way together beyond the first (login).
SessionsBounded == Cardinality(sessions) < SessionLimit + Cardinality(Browsers)

=============================================================================
