------------------------------ MODULE Accounts ------------------------------
(***************************************************************************)
(* Accounts and web sessions: users.yml behind UserStore, the token table  *)
(* of SessionStore, and the HTTP handlers that combine them with the       *)
(* sessions and the per-user directory (auth/users.go, auth/sessions.go,   *)
(* api/auth.go, api/admin_users.go, api/middleware.go, hosts/registry.go). *)
(*                                                                         *)
(* Each store takes its own mutex for one call only, so a handler is a     *)
(* sequence of atomic store calls and two requests interleave between any  *)
(* two of them. That is what the module is about: a first administrator    *)
(* created twice, two administrators removing each other, an account       *)
(* deleted while its owner signs in or creates a session.                  *)
(*                                                                         *)
(* A request is one record: the step it is at, the account it acts for and *)
(* the account it acts on. A user.yml that is written by rename changes    *)
(* with memory or not at all, so one variable stands for both.             *)
(***************************************************************************)
EXTENDS Naturals, FiniteSets

CONSTANTS
  Ids,       \* account ids (uuid.NewString), each used once
  Names,     \* user names, equal under EqualFold
  Tokens,    \* session cookies (randomToken), each issued once
  Sessions,  \* terminal session ids
  Requests,  \* requests the server handles at once
  Ttl,       \* ticks of inactivity after which a token lapses
  MaxCrashes,
  NoUser

ASSUME AccountsAssumption ==
  /\ Ttl \in Nat /\ MaxCrashes \in Nat
  /\ NoUser \notin Ids /\ IsFiniteSet(Ids)

VARIABLES
  role,      \* users.yml: "unused", "user", "admin", or "gone" once deleted
  name,      \* the user name each account was created with
  holder,    \* the account a token was issued to
  entries,   \* SessionStore.entries: the tokens in the table
  idle,      \* ticks since a token was issued or presented
  sessions,  \* owner of each session the manager lists, live or stored
  cached,    \* Registry.stores: accounts whose Store is open
  dir,       \* accounts whose directory users/<id> is on disk
  req,       \* what each request is doing
  crashes,
  cleaned,   \* history: accounts whose deletion cascade ran without a failure
  late       \* history: accounts some other request acted for when it revoked

vars == <<role, name, holder, entries, idle, sessions, cached, dir, req,
          crashes, cleaned, late>>
tokenVars == <<holder, entries, idle>>
dataVars == <<sessions, cached, dir>>
history == <<crashes, cleaned, late>>

Roles == {"unused", "user", "admin", "gone"}
Steps == {"idle", "bootstrap", "register", "issue", "session", "open", "store",
          "requireAdmin", "admin", "revoke", "list", "cascade", "remove"}
Idle == [at |-> "idle", as |-> NoUser, on |-> NoUser, todo |-> {}]

Accounts == {u \in Ids : role[u] \in {"user", "admin"}}
Admins == {u \in Ids : role[u] = "admin"}
Valid(t) == t \in entries /\ idle[t] <= Ttl
SigningIn == {"bootstrap", "register", "issue"}
\* Bound: a sign-in starts only if a token is left for it.
TokenLeft ==
  Cardinality({r \in Requests : req[r].at \in SigningIn})
    < Cardinality({t \in Tokens : holder[t] = NoUser})
Goto(r, step) == req' = [req EXCEPT ![r].at = step]
Finish(r) == req' = [req EXCEPT ![r] = Idle]

Init ==
  /\ role = [u \in Ids |-> "unused"]
  /\ name \in [Ids -> Names]       \* chosen up front, read once created
  /\ holder = [t \in Tokens |-> NoUser]
  /\ entries = {}
  /\ idle = [t \in Tokens |-> 0]
  /\ sessions = [s \in Sessions |-> NoUser]
  /\ cached = {} /\ dir = {}
  /\ req = [r \in Requests |-> Idle]
  /\ crashes = 0 /\ cleaned = {} /\ late = {}

-----------------------------------------------------------------------------
(* Signing up and in.                                                      *)

\* authBootstrap's pre-check: the body is parsed and hashed afterwards.
StartBootstrap(r) ==
  /\ req[r].at = "idle"
  /\ TokenLeft
  /\ Accounts = {}
  /\ Goto(r, "bootstrap")
  /\ UNCHANGED <<role, name, tokenVars, dataVars, history>>

\* authRegister, when allowRegistration is on.
StartRegister(r) ==
  /\ req[r].at = "idle"
  /\ TokenLeft
  /\ Accounts # {}
  /\ Goto(r, "register")
  /\ UNCHANGED <<role, name, tokenVars, dataVars, history>>

\* Variant: authBootstrap's pre-check is trusted.
CreatableUnchecked(r, u) == \A v \in Accounts : name[v] # name[u]

\* create's checks, made under the store's lock with the write.
Creatable(r, u) ==
  /\ req[r].at = "bootstrap" => Accounts = {}
  /\ \A v \in Accounts : name[v] # name[u]

\* CreateFirstAdmin and Create: refused, not written, or in the file and in
\* memory.
CreateUser(r) ==
  /\ req[r].at \in {"bootstrap", "register"}
  /\ \/ \E u \in Ids :
          /\ role[u] = "unused"
          /\ Creatable(r, u)
          /\ role' = [role EXCEPT ![u] =
                        IF req[r].at = "bootstrap" THEN "admin" ELSE "user"]
          /\ req' = [req EXCEPT ![r].at = "issue", ![r].as = u]
     \/ Finish(r) /\ UNCHANGED role
  /\ UNCHANGED <<name, tokenVars, dataVars, history>>

\* authLogin: Verify copies the account out of the store and compares the
\* hash outside the lock.
Login(r) ==
  /\ req[r].at = "idle"
  /\ TokenLeft
  /\ \E u \in Accounts : req' = [req EXCEPT ![r].at = "issue", ![r].as = u]
  /\ UNCHANGED <<role, name, tokenVars, dataVars, history>>

\* webSessions.Create, for an account that may be gone by now.
IssueToken(r) ==
  /\ req[r].at = "issue"
  /\ \E t \in Tokens :
       /\ holder[t] = NoUser
       /\ holder' = [holder EXCEPT ![t] = req[r].as]
       /\ entries' = entries \cup {t}
       /\ idle' = [idle EXCEPT ![t] = 0]
  /\ Finish(r)
  /\ UNCHANGED <<role, name, dataVars, history>>

-----------------------------------------------------------------------------
(* Presenting a token.                                                     *)

\* Variant: every token that is still in the table is renewed.
LookupRenews(t) == idle' = [idle EXCEPT ![t] = 0] /\ UNCHANGED entries

\* SessionStore.Lookup: an expired entry is removed, a valid one renewed, and
\* a token that is not in the table changes nothing.
Lookup(t) ==
  IF Valid(t)
  THEN idle' = [idle EXCEPT ![t] = 0] /\ UNCHANGED entries
  ELSE entries' = entries \ {t} /\ UNCHANGED idle

\* requireAuth in front of a handler that creates a session, one that opens
\* the account's hosts, or one behind requireAdmin.
Authenticate(r, t, step) ==
  /\ req[r].at = "idle"
  /\ step \in {"session", "open", "requireAdmin"}
  /\ holder[t] # NoUser
  /\ Lookup(t)
  /\ IF Valid(t)
     THEN req' = [req EXCEPT ![r].at = step, ![r].as = holder[t]]
     ELSE UNCHANGED req
  /\ UNCHANGED <<role, name, holder, dataVars, history>>

\* requireAuth and authLogout.
Logout(t) ==
  /\ t \in entries
  /\ entries' = entries \ {t}
  /\ UNCHANGED <<role, name, holder, idle, dataVars, req, history>>

\* Time passes for every token; Ttl + 1 stands for any longer silence.
Tick ==
  /\ \E t \in entries : idle[t] <= Ttl
  /\ idle' = [t \in Tokens |->
                IF t \in entries /\ idle[t] <= Ttl THEN idle[t] + 1 ELSE idle[t]]
  /\ UNCHANGED <<role, name, holder, entries, dataVars, req, history>>

\* One round of sweepLoop.
Sweep ==
  /\ \E t \in entries : ~Valid(t)
  /\ entries' = {t \in entries : Valid(t)}
  /\ UNCHANGED <<role, name, holder, idle, dataVars, req, history>>

-----------------------------------------------------------------------------
(* What an authenticated request leaves behind.                            *)

\* createSession: the manager lists the session from here on, or the create
\* failed.
CreateSession(r) ==
  /\ req[r].at = "session"
  /\ \/ \E s \in Sessions :
          /\ sessions[s] = NoUser
          /\ sessions' = [sessions EXCEPT ![s] = req[r].as]
     \/ UNCHANGED sessions
  /\ Finish(r)
  /\ UNCHANGED <<role, name, tokenVars, cached, dir, history>>

\* Registry.For: a store that is not open is opened, which creates the
\* directory and an empty hosts.yml.
OpenHosts(r) ==
  /\ req[r].at = "open"
  /\ cached' = cached \cup {req[r].as}
  /\ dir' = IF req[r].as \in cached THEN dir ELSE dir \cup {req[r].as}
  /\ Goto(r, "store")
  /\ UNCHANGED <<role, name, tokenVars, sessions, history>>

\* createHost and its siblings: persist makes the directory anew if need be.
StoreHost(r) ==
  /\ req[r].at = "store"
  /\ dir' \in {dir, dir \cup {req[r].as}}
  /\ Finish(r)
  /\ UNCHANGED <<role, name, tokenVars, sessions, cached, history>>

-----------------------------------------------------------------------------
(* Managing accounts.                                                      *)

\* requireAdmin looks the account up on every request.
RequireAdmin(r) ==
  /\ req[r].at = "requireAdmin"
  /\ IF role[req[r].as] = "admin" THEN Goto(r, "admin") ELSE Finish(r)
  /\ UNCHANGED <<role, name, tokenVars, dataVars, history>>

\* Variant: counts the accounts instead of the administrators.
NotTheLastAccount(u) == role[u] = "admin" => Cardinality(Accounts) > 1

\* The guard of Delete and of a demotion, under the store's lock.
NotTheLastAdmin(u) == role[u] = "admin" => Cardinality(Admins) > 1

\* setUserAdmin.
SetAdmin(r) ==
  /\ req[r].at = "admin"
  /\ \E u \in Accounts, to \in {"user", "admin"} :
       /\ to = "user" => NotTheLastAdmin(u)
       /\ role' = [role EXCEPT ![u] = to]
  /\ Finish(r)
  /\ UNCHANGED <<name, tokenVars, dataVars, history>>

\* deleteUser: the account goes first.
DeleteUser(r) ==
  /\ req[r].at = "admin"
  /\ \E u \in Accounts :
       /\ NotTheLastAdmin(u)
       /\ role' = [role EXCEPT ![u] = "gone"]
       /\ req' = [req EXCEPT ![r].at = "revoke", ![r].on = u]
  /\ UNCHANGED <<name, tokenVars, dataVars, history>>

\* An admin request that is refused or whose write fails.
RefuseAdmin(r) ==
  /\ req[r].at = "admin"
  /\ Finish(r)
  /\ UNCHANGED <<role, name, tokenVars, dataVars, history>>

\* The request a reader would call late: it acts for u and did not notice.
ActsFor(r, u) == req[r].at # "idle" /\ req[r].as = u

\* Variant: revokes the tokens of the administrator who asked.
RevokeByUserOwn(r) ==
  /\ req[r].at = "revoke"
  /\ entries' = {t \in entries : holder[t] # req[r].as}
  /\ late' = IF \E q \in Requests \ {r} : ActsFor(q, req[r].on)
             THEN late \cup {req[r].on} ELSE late
  /\ Goto(r, "list")
  /\ UNCHANGED <<role, name, holder, idle, dataVars, crashes, cleaned>>

\* webSessions.RevokeByUser.
RevokeByUser(r) ==
  /\ req[r].at = "revoke"
  /\ LET u == req[r].on IN
       /\ entries' = {t \in entries : holder[t] # u}
       /\ late' = IF \E q \in Requests \ {r} : ActsFor(q, u)
                  THEN late \cup {u} ELSE late
  /\ Goto(r, "list")
  /\ UNCHANGED <<role, name, holder, idle, dataVars, crashes, cleaned>>

\* The cascade is logged as failed and goes on: it counts as not clean.
Failed == "failed"

\* manager.List, a snapshot of what the account owns; it may fail.
ListSessions(r) ==
  /\ req[r].at = "list"
  /\ \/ req' = [req EXCEPT ![r].at = "cascade",
                  ![r].todo = {s \in Sessions : sessions[s] = req[r].on}]
     \/ req' = [req EXCEPT ![r].at = "cascade", ![r].todo = {Failed}]
  /\ UNCHANGED <<role, name, tokenVars, dataVars, history>>

\* manager.Delete for each session of that snapshot; it may fail.
DeleteSession(r) ==
  /\ req[r].at = "cascade"
  /\ \E s \in req[r].todo \ {Failed} :
       \/ /\ sessions' = [sessions EXCEPT ![s] = NoUser]
          /\ req' = [req EXCEPT ![r].todo = @ \ {s}]
       \/ /\ req' = [req EXCEPT ![r].todo = (@ \ {s}) \cup {Failed}]
          /\ UNCHANGED sessions
  /\ UNCHANGED <<role, name, tokenVars, cached, dir, history>>

\* hosts.Remove, first half: the open stores are evicted under the lock.
EvictStores(r) ==
  /\ req[r].at = "cascade"
  /\ req[r].todo \subseteq {Failed}
  /\ cached' = cached \ {req[r].on}
  /\ Goto(r, "remove")
  /\ UNCHANGED <<role, name, tokenVars, sessions, dir, history>>

\* hosts.Remove, second half, without the lock: RemoveAll, which may fail.
RemoveDir(r) ==
  /\ req[r].at = "remove"
  /\ \/ /\ dir' = dir \ {req[r].on}
        /\ cleaned' = IF req[r].todo = {} THEN cleaned \cup {req[r].on}
                      ELSE cleaned
     \/ UNCHANGED <<dir, cleaned>>
  /\ Finish(r)
  /\ UNCHANGED <<role, name, tokenVars, sessions, cached, crashes, late>>

\* The process dies: tokens, requests and open stores are gone with it, the
\* files and the stored sessions stay. OpenUsers reads the accounts back.
Crash ==
  /\ crashes < MaxCrashes
  /\ crashes' = crashes + 1
  /\ entries' = {} /\ cached' = {}
  /\ req' = [r \in Requests |-> Idle]
  /\ UNCHANGED <<role, name, holder, idle, sessions, dir, cleaned, late>>

-----------------------------------------------------------------------------
SignIn(r) ==
  StartBootstrap(r) \/ StartRegister(r) \/ CreateUser(r) \/ Login(r) \/ IssueToken(r)
Use(r) ==
  \/ \E t \in Tokens, step \in {"session", "open", "requireAdmin"} :
       Authenticate(r, t, step)
  \/ CreateSession(r) \/ OpenHosts(r) \/ StoreHost(r)
Manage(r) ==
  \/ RequireAdmin(r) \/ SetAdmin(r) \/ DeleteUser(r) \/ RefuseAdmin(r)
  \/ RevokeByUser(r) \/ ListSessions(r) \/ DeleteSession(r)
  \/ EvictStores(r) \/ RemoveDir(r)

Next ==
  \/ \E r \in Requests : SignIn(r) \/ Use(r) \/ Manage(r)
  \/ \E t \in Tokens : Logout(t)
  \/ Tick \/ Sweep \/ Crash

Spec == Init /\ [][Next]_vars

-----------------------------------------------------------------------------
\* Every variable keeps its type, and only issued tokens are in the table.
TypeOK ==
  /\ role \in [Ids -> Roles]
  /\ name \in [Ids -> Names]
  /\ holder \in [Tokens -> Ids \cup {NoUser}]
  /\ entries \subseteq {t \in Tokens : holder[t] # NoUser}
  /\ idle \in [Tokens -> 0..(Ttl + 1)]
  /\ sessions \in [Sessions -> Ids \cup {NoUser}]
  /\ cached \subseteq Ids /\ dir \subseteq Ids
  /\ req \in [Requests -> [at : Steps, as : Ids \cup {NoUser},
                           on : Ids \cup {NoUser},
                           todo : SUBSET (Sessions \cup {Failed})]]
  /\ crashes \in 0..MaxCrashes
  /\ cleaned \subseteq Ids /\ late \subseteq Ids

\* A server that has ever had an account has an administrator: two of them
\* who delete or demote each other at the same time cannot lock it, whatever
\* requireAdmin told each of them before (ErrLastAdmin, users.go).
AdminRemains == (\E u \in Ids : role[u] # "unused") => Admins # {}

\* No two accounts share a user name, although the check and the hashing of
\* two concurrent sign-ups overlap.
NamesUnique == \A u, v \in Accounts : name[u] = name[v] => u = v

\* The unlocked state ends once and for all: an account that becomes an
\* administrator as it is created is the first one ever (CreateFirstAdmin).
FirstAdminOnce ==
  [][\A u \in Ids : role[u] = "unused" /\ role'[u] = "admin"
       => \A v \in Ids : role[v] = "unused"]_vars

\* A token that was revoked or has lapsed is never accepted again: neither a
\* lookup, nor the sweep, nor a sign-in brings it back (SessionStore).
TokenStaysDead ==
  [][\A t \in Tokens : holder[t] # NoUser /\ ~Valid(t) => ~Valid(t)']_vars

\* Once a deletion's cascade has run without an error, nothing of the account
\* is left - no token, no session, no directory with its credentials - unless
\* a request that acts for the account was already past its check when the
\* tokens were revoked. The order account, tokens, sessions, files is what
\* makes this true: after the revocation no new request can act for it.
DeletedIsClean ==
  \A u \in cleaned \ late :
    /\ \A t \in entries : holder[t] # u
    /\ \A s \in Sessions : sessions[s] # u
    /\ u \notin dir
=============================================================================
