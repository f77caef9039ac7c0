--------------------------- MODULE AccountsProofs ---------------------------
(***************************************************************************)
(* Proofs about Accounts, for any number of accounts, tokens, sessions and *)
(* requests.                                                               *)
(*                                                                         *)
(* AdminRemains is not inductive: a registration that is under way makes   *)
(* an ordinary account, and it must be known that it began when there was  *)
(* one already.  With that, the guard of a deletion and of a demotion,     *)
(* evaluated in the same step, leaves an administrator whatever the check  *)
(* of the request (requireAdmin) saw earlier.  FirstAdminOnce follows from *)
(* AdminRemains: where no account is left none was ever made.              *)
(*                                                                         *)
(* DeletedIsClean says of an account outside `late' that nobody else acted *)
(* for it when its tokens were revoked.  Then nobody ever will (CutOff),   *)
(* and nothing is made for it while the cascade goes through its list:     *)
(* either the list still holds every session there is, or a step has       *)
(* failed and the account does not count as cleaned (Covered).             *)
(***************************************************************************)
EXTENDS Accounts, FiniteSetTheorems, TLAPS

\* Some account was created once.
Founded == \E u \in Ids : role[u] # "unused"

RequestType ==
  [at : Steps, as : Ids \cup {NoUser}, on : Ids \cup {NoUser},
   todo : SUBSET (Sessions \cup {Failed})]

Typed ==
  /\ role \in [Ids -> Roles]
  /\ holder \in [Tokens -> Ids \cup {NoUser}]
  /\ req \in [Requests -> RequestType]

RegisterFollows ==
  \A r \in Requests : req[r].at = "register" => Founded

AccountInv == Typed /\ RegisterFollows /\ AdminRemains

\* The idle time of every token is a number.
TokenInv == idle \in [Tokens -> Nat]

-----------------------------------------------------------------------------
(* Administrators                                                          *)

\* Beside an administrator who may go there is another one.
LEMMA AnotherAdmin ==
  ASSUME NEW u \in Ids, role[u] = "admin", NotTheLastAdmin(u)
  PROVE  \E v \in Admins : v # u
<1>1. IsFiniteSet(Admins)
  BY AccountsAssumption, FS_Subset DEF Admins
<1>2. Cardinality(Admins) > 1 BY DEF NotTheLastAdmin
<1> SUFFICES ASSUME \A v \in Admins : v = u PROVE FALSE OBVIOUS
<1>3. Admins = {u} BY DEF Admins
<1> QED BY <1>2, <1>3, FS_Singleton

\* A step that changes no role keeps the invariant if it starts no
\* registration before the first account.
LEMMA RolesKept ==
  ASSUME AccountInv, UNCHANGED role, Typed',
         \A r \in Requests : req'[r].at = "register" =>
            req[r].at = "register" \/ Founded
  PROVE  AccountInv'
  BY DEF AccountInv, RegisterFollows, Founded, AdminRemains, Admins

\* A step that changes one role keeps it, if it leaves an administrator.
LEMMA OneRole ==
  ASSUME AccountInv, NEW u \in Ids, NEW x \in Roles \ {"unused"},
         role' = [role EXCEPT ![u] = x],
         x = "admin" \/ \E v \in Admins : v # u,
         Typed'
  PROVE  AccountInv'
<1>1. role'[u] = x /\ \A v \in Ids \ {u} : role'[v] = role[v]
  BY DEF AccountInv, Typed
<1>2. Founded' BY <1>1 DEF Founded
<1>3. Admins' # {} BY <1>1 DEF Admins
<1> QED BY <1>2, <1>3 DEF AccountInv, RegisterFollows, AdminRemains

-----------------------------------------------------------------------------
(* Types                                                                   *)

\* What the helpers make of a request.
LEMMA GotoMoves ==
  ASSUME Typed, NEW r \in Requests, NEW step \in Steps, Goto(r, step)
  PROVE  /\ req' \in [Requests -> RequestType]
         /\ req'[r].at = step
         /\ \A q \in Requests \ {r} : req'[q] = req[q]
  BY DEF Typed, Goto, RequestType

LEMMA FinishMoves ==
  ASSUME Typed, NEW r \in Requests, Finish(r)
  PROVE  /\ req' \in [Requests -> RequestType]
         /\ req'[r].at = "idle"
         /\ \A q \in Requests \ {r} : req'[q] = req[q]
<1>1. Idle \in RequestType BY DEF Idle, RequestType, Steps
<1> QED BY <1>1 DEF Typed, Finish, Idle

\* A request that begins to act for an account, or to remove one.
LEMMA RequestChanges ==
  ASSUME Typed, NEW r \in Requests, NEW step \in Steps, NEW u \in Ids \cup {NoUser},
         \/ req' = [req EXCEPT ![r].at = step, ![r].as = u]
         \/ req' = [req EXCEPT ![r].at = step, ![r].on = u]
  PROVE  /\ req' \in [Requests -> RequestType]
         /\ req'[r].at = step
         /\ \A q \in Requests \ {r} : req'[q] = req[q]
<1>1. \A q \in Requests \ {r} : req'[q] = req[q] BY DEF Typed
<1>2. req[r] \in RequestType /\ DOMAIN req' = Requests BY DEF Typed
<1>3. req'[r] = [req[r] EXCEPT !.at = step, !.as = u]
      \/ req'[r] = [req[r] EXCEPT !.at = step, !.on = u]
  BY DEF Typed
<1>4. req'[r] \in RequestType /\ req'[r].at = step BY <1>2, <1>3 DEF RequestType
<1>5. req' = [q \in Requests |-> req'[q]] BY <1>2 DEF Typed
<1> QED BY <1>1, <1>4, <1>5 DEF Typed

\* A step that changes no role, and starts no registration before there was an
\* account.
Settles ==
  /\ Typed' /\ UNCHANGED role
  /\ \A q \in Requests : req'[q].at = "register" =>
       req[q].at = "register" \/ Founded

LEMMA SignInSettles ==
  ASSUME Typed, NEW r \in Requests,
         StartBootstrap(r) \/ StartRegister(r) \/ Login(r) \/ IssueToken(r)
  PROVE  Settles
<1>1. CASE StartBootstrap(r)
  <2>1. Goto(r, "bootstrap") /\ UNCHANGED <<role, holder>>
    BY <1>1 DEF StartBootstrap, tokenVars
  <2> QED BY <2>1, GotoMoves DEF Settles, Typed, Steps
<1>2. CASE StartRegister(r)
  <2>1. Goto(r, "register") /\ UNCHANGED <<role, holder>> /\ Accounts # {}
    BY <1>2 DEF StartRegister, tokenVars
  <2>2. Founded BY <2>1 DEF Founded, Accounts
  <2> QED BY <2>1, <2>2, GotoMoves DEF Settles, Typed, Steps
<1>3. CASE Login(r)
  <2>1. PICK u \in Ids : req' = [req EXCEPT ![r].at = "issue", ![r].as = u]
    BY <1>3 DEF Login, Accounts
  <2>2. UNCHANGED <<role, holder>> BY <1>3 DEF Login, tokenVars
  <2> QED BY <2>1, <2>2, RequestChanges DEF Settles, Typed, Steps
<1>4. CASE IssueToken(r)
  <2>1. Finish(r) /\ UNCHANGED role
        /\ \E t \in Tokens : holder' = [holder EXCEPT ![t] = req[r].as]
    BY <1>4 DEF IssueToken
  <2>2. holder' \in [Tokens -> Ids \cup {NoUser}]
    BY <2>1 DEF Typed, RequestType
  <2> QED BY <2>1, <2>2, FinishMoves DEF Settles, Typed
<1> QED BY <1>1, <1>2, <1>3, <1>4

LEMMA AuthenticateSettles ==
  ASSUME Typed, NEW r \in Requests, NEW t \in Tokens, NEW step,
         Authenticate(r, t, step)
  PROVE  Settles
<1>1. /\ UNCHANGED <<role, holder>> /\ step \in Steps \ {"register"}
      /\ \/ req' = [req EXCEPT ![r].at = step, ![r].as = holder[t]]
         \/ UNCHANGED req
  BY DEF Authenticate, Steps
<1>2. holder[t] \in Ids \cup {NoUser} BY DEF Typed
<1>3. CASE UNCHANGED req BY <1>1, <1>3 DEF Settles, Typed
<1>4. CASE req' = [req EXCEPT ![r].at = step, ![r].as = holder[t]]
  BY <1>1, <1>2, <1>4, RequestChanges DEF Settles, Typed
<1> QED BY <1>1, <1>3, <1>4

\* Every other action that ends, or moves on, one request.
LEMMA RequestSettles ==
  ASSUME Typed, NEW r \in Requests,
         \/ CreateSession(r) \/ OpenHosts(r) \/ StoreHost(r) \/ RequireAdmin(r)
         \/ RefuseAdmin(r) \/ RevokeByUser(r) \/ EvictStores(r) \/ RemoveDir(r)
  PROVE  Settles
<1>1. /\ UNCHANGED <<role, holder>>
      /\ Finish(r) \/ \E step \in Steps \ {"register"} : Goto(r, step)
  BY DEF CreateSession, OpenHosts, StoreHost, RequireAdmin, RefuseAdmin,
         RevokeByUser, EvictStores, RemoveDir, tokenVars, Steps
<1>2. CASE Finish(r) BY <1>1, <1>2, FinishMoves DEF Settles, Typed
<1>3. CASE \E step \in Steps \ {"register"} : Goto(r, step)
  BY <1>1, <1>3, GotoMoves DEF Settles, Typed
<1> QED BY <1>1, <1>2, <1>3

LEMMA CascadeSettles ==
  ASSUME Typed, NEW r \in Requests, ListSessions(r) \/ DeleteSession(r)
  PROVE  Settles
<1>1. UNCHANGED <<role, holder>>
  BY DEF ListSessions, DeleteSession, tokenVars
<1>2. \E S \in SUBSET (Sessions \cup {Failed}) :
         \/ req' = [req EXCEPT ![r].at = "cascade", ![r].todo = S]
         \/ req' = [req EXCEPT ![r].todo = S]
  <2>1. CASE ListSessions(r) BY <2>1 DEF ListSessions
  <2>2. CASE DeleteSession(r)
    <3>1. req[r].todo \in SUBSET (Sessions \cup {Failed})
      BY DEF Typed, RequestType
    <3>2. PICK s : \/ req' = [req EXCEPT ![r].todo = @ \ {s}]
                   \/ req' = [req EXCEPT ![r].todo = (@ \ {s}) \cup {Failed}]
      BY <2>2 DEF DeleteSession
    <3>3. CASE req' = [req EXCEPT ![r].todo = @ \ {s}]
      BY <3>1, <3>3
    <3>4. CASE req' = [req EXCEPT ![r].todo = (@ \ {s}) \cup {Failed}]
      BY <3>1, <3>4
    <3> QED BY <3>2, <3>3, <3>4
  <2> QED BY <2>1, <2>2
<1>3. req' \in [Requests -> RequestType]
  BY <1>2 DEF Typed, RequestType, Steps
<1>4. \A q \in Requests : req'[q].at \in {req[q].at, "cascade"}
  BY <1>2 DEF Typed, RequestType
<1> QED BY <1>1, <1>3, <1>4 DEF Settles, Typed

LEMMA TimeSettles ==
  ASSUME Typed,
         (\E t \in Tokens : Logout(t)) \/ Tick \/ Sweep \/ Crash \/ UNCHANGED vars
  PROVE  Settles
<1>1. UNCHANGED <<role, holder>> BY DEF Logout, Tick, Sweep, Crash, vars
<1>2. UNCHANGED req \/ req' = [r \in Requests |-> Idle]
  BY DEF Logout, Tick, Sweep, Crash, vars
<1>3. Idle \in RequestType /\ Idle.at = "idle" BY DEF Idle, RequestType, Steps
<1> QED BY <1>1, <1>2, <1>3 DEF Settles, Typed

LEMMA OthersSettle ==
  ASSUME Typed, [Next]_vars,
         \A r \in Requests : ~(CreateUser(r) \/ SetAdmin(r) \/ DeleteUser(r))
  PROVE  Settles
BY SignInSettles, AuthenticateSettles, RequestSettles, CascadeSettles, TimeSettles
   DEF Next, SignIn, Use, Manage

-----------------------------------------------------------------------------
(* The three actions that change a role                                    *)

LEMMA AccountInvInit == Init => AccountInv
  BY DEF Init, AccountInv, Typed, RegisterFollows, AdminRemains, Idle, Roles,
         RequestType, Steps

\* Creating an account: the first one is an administrator, and later ones are
\* made beside one.
LEMMA CreateKeeps ==
  ASSUME AccountInv, NEW r \in Requests, CreateUser(r)
  PROVE  AccountInv'
<1> USE DEF AccountInv
<1>0. UNCHANGED holder BY DEF CreateUser, tokenVars
<1>1. CASE Finish(r) /\ UNCHANGED role
  <2>1. Typed' /\ \A q \in Requests : req'[q].at = "register" => req[q].at = "register"
    BY <1>0, <1>1, FinishMoves DEF Typed
  <2> QED BY <2>1, <1>1, RolesKept
<1>2. ASSUME NEW u \in Ids, role[u] = "unused", Creatable(r, u),
             role' = [role EXCEPT ![u] =
                        IF req[r].at = "bootstrap" THEN "admin" ELSE "user"],
             req' = [req EXCEPT ![r].at = "issue", ![r].as = u]
      PROVE  AccountInv'
  <2>0. req' \in [Requests -> RequestType]
    BY <1>2, RequestChanges DEF Steps
  <2>1. Typed' BY <1>0, <1>2, <2>0 DEF Typed, Roles
  <2>2. CASE req[r].at = "bootstrap"
    BY <2>1, <2>2, <1>2, OneRole DEF Roles
  <2>3. CASE req[r].at = "register"
    <3>1. Admins # {}
      BY <2>3 DEF RegisterFollows, AdminRemains, Founded
    <3>2. \E v \in Admins : v # u BY <3>1, <1>2 DEF Admins
    <3> QED BY <2>1, <2>3, <3>2, <1>2, OneRole DEF Roles
  <2> QED BY <2>2, <2>3 DEF CreateUser
<1> QED BY <1>1, <1>2 DEF CreateUser

\* Where an account that is not alone among the administrators is, another
\* administrator is as well.
LEMMA AdminBeside ==
  ASSUME AccountInv, NEW u \in Accounts, NotTheLastAdmin(u)
  PROVE  \E v \in Admins : v # u
<1>1. u \in Ids /\ role[u] \in {"user", "admin"} BY DEF Accounts
<1>2. CASE role[u] = "admin" BY <1>1, <1>2, AnotherAdmin
<1>3. CASE role[u] = "user"
  <2>1. Admins # {} BY <1>1, <1>3 DEF AccountInv, AdminRemains
  <2> QED BY <1>3, <2>1 DEF Admins
<1> QED BY <1>1, <1>2, <1>3

LEMMA SetAdminKeeps ==
  ASSUME AccountInv, NEW r \in Requests, SetAdmin(r)
  PROVE  AccountInv'
<1>1. PICK u \in Accounts, to \in {"user", "admin"} :
        /\ to = "user" => NotTheLastAdmin(u)
        /\ role' = [role EXCEPT ![u] = to]
  BY DEF SetAdmin
<1>2. u \in Ids /\ to \in Roles \ {"unused"} BY DEF Accounts, Roles
<1>3. Typed'
  BY <1>1, <1>2, FinishMoves DEF SetAdmin, tokenVars, AccountInv, Typed
<1>4. to = "admin" \/ \E v \in Admins : v # u BY <1>1, AdminBeside
<1> QED BY <1>1, <1>2, <1>3, <1>4, OneRole

LEMMA DeleteKeeps ==
  ASSUME AccountInv, NEW r \in Requests, DeleteUser(r)
  PROVE  AccountInv'
<1>1. PICK u \in Accounts :
        /\ NotTheLastAdmin(u)
        /\ role' = [role EXCEPT ![u] = "gone"]
        /\ req' = [req EXCEPT ![r].at = "revoke", ![r].on = u]
  BY DEF DeleteUser
<1>2. u \in Ids /\ "gone" \in Roles \ {"unused"} BY DEF Accounts, Roles
<1>3. req' \in [Requests -> RequestType]
  BY <1>1, <1>2, RequestChanges DEF AccountInv, Steps
<1>4. Typed'
  BY <1>1, <1>2, <1>3 DEF DeleteUser, tokenVars, AccountInv, Typed
<1>5. \E v \in Admins : v # u BY <1>1, AdminBeside
<1> QED BY <1>1, <1>2, <1>4, <1>5, OneRole

LEMMA AccountInvNext == AccountInv /\ [Next]_vars => AccountInv'
<1> SUFFICES ASSUME AccountInv, [Next]_vars PROVE AccountInv' OBVIOUS
<1>1. CASE \E r \in Requests : CreateUser(r) \/ SetAdmin(r) \/ DeleteUser(r)
  BY <1>1, CreateKeeps, SetAdminKeeps, DeleteKeeps
<1>2. CASE \A r \in Requests : ~(CreateUser(r) \/ SetAdmin(r) \/ DeleteUser(r))
  <2>1. Settles BY <1>2, OthersSettle DEF AccountInv
  <2> QED BY <2>1, RolesKept DEF Settles
<1> QED BY <1>1, <1>2

-----------------------------------------------------------------------------
(* Tokens                                                                  *)

\* What a step may do to the token table: time passes, entries go, valid ones
\* are renewed, and a token that nobody held yet is issued.
TokensEvolve ==
  /\ idle' \in [Tokens -> Nat]
  /\ \A t \in Tokens : holder[t] # NoUser =>
       /\ t \in entries' => t \in entries
       /\ t \in entries' /\ ~Valid(t) => idle'[t] >= idle[t]

LEMMA TokenInvInit == Init => TokenInv
  BY DEF Init, TokenInv

\* Only these actions touch the table.
LEMMA IssueEvolves ==
  ASSUME TokenInv, NEW r \in Requests, IssueToken(r)
  PROVE  TokensEvolve
<1>1. PICK t \in Tokens :
        /\ holder[t] = NoUser
        /\ entries' = entries \cup {t}
        /\ idle' = [idle EXCEPT ![t] = 0]
  BY DEF IssueToken
<1>2. \A x \in Tokens \ {t} : idle'[x] = idle[x] BY <1>1 DEF TokenInv
<1> QED BY <1>1, <1>2 DEF TokensEvolve, TokenInv

LEMMA LookupEvolves ==
  ASSUME TokenInv, NEW t \in Tokens, Lookup(t)
  PROVE  TokensEvolve
<1>1. CASE Valid(t)
  <2>1. idle' = [idle EXCEPT ![t] = 0] /\ entries' = entries
    BY <1>1 DEF Lookup
  <2>2. \A x \in Tokens \ {t} : idle'[x] = idle[x] BY <2>1 DEF TokenInv
  <2> QED BY <1>1, <2>1, <2>2 DEF TokensEvolve, TokenInv
<1>2. CASE ~Valid(t)
  BY <1>2 DEF Lookup, TokensEvolve, TokenInv
<1> QED BY <1>1, <1>2

LEMMA TickEvolves == TokenInv /\ Tick => TokensEvolve
<1> SUFFICES ASSUME TokenInv, Tick PROVE TokensEvolve OBVIOUS
<1>1. entries' = entries /\ \A t \in Tokens : idle'[t] \in {idle[t], idle[t] + 1}
  BY DEF Tick
<1>2. idle' \in [Tokens -> Nat] BY DEF Tick, TokenInv
<1> QED BY <1>1, <1>2 DEF TokensEvolve, TokenInv

LEMMA EntriesGo ==
  ASSUME TokenInv, entries' \subseteq entries, UNCHANGED idle
  PROVE  TokensEvolve
  BY DEF TokensEvolve, TokenInv

LEMMA StepsEvolve == TokenInv /\ [Next]_vars => TokensEvolve
<1> SUFFICES ASSUME TokenInv, [Next]_vars PROVE TokensEvolve OBVIOUS
<1>1. ASSUME NEW r \in Requests, SignIn(r) PROVE TokensEvolve
  <2>1. CASE IssueToken(r) BY <2>1, IssueEvolves
  <2>2. CASE StartBootstrap(r) \/ StartRegister(r) \/ CreateUser(r) \/ Login(r)
    BY <2>2, EntriesGo
       DEF StartBootstrap, StartRegister, CreateUser, Login, tokenVars
  <2> QED BY <1>1, <2>1, <2>2 DEF SignIn
<1>2. ASSUME NEW r \in Requests, Use(r) PROVE TokensEvolve
  <2>1. ASSUME NEW t \in Tokens, NEW step, Authenticate(r, t, step)
        PROVE  TokensEvolve
    BY <2>1, LookupEvolves DEF Authenticate
  <2>2. CASE CreateSession(r) \/ OpenHosts(r) \/ StoreHost(r)
    BY <2>2, EntriesGo DEF CreateSession, OpenHosts, StoreHost, tokenVars
  <2> QED BY <1>2, <2>1, <2>2 DEF Use
<1>3. ASSUME NEW r \in Requests, Manage(r) PROVE TokensEvolve
  <2>1. entries' \subseteq entries /\ UNCHANGED idle
    BY <1>3 DEF Manage, RequireAdmin, SetAdmin, DeleteUser, RefuseAdmin,
                RevokeByUser, ListSessions, DeleteSession, EvictStores, RemoveDir,
                tokenVars
  <2> QED BY <2>1, EntriesGo
<1>4. CASE (\E t \in Tokens : Logout(t)) \/ Sweep \/ Crash \/ UNCHANGED vars
  <2>1. entries' \subseteq entries /\ UNCHANGED idle
    BY <1>4 DEF Logout, Sweep, Crash, vars
  <2> QED BY <2>1, EntriesGo
<1> QED BY <1>1, <1>2, <1>3, <1>4, TickEvolves DEF Next

\* A token that does not open a door now does not after the step.
LEMMA DeadStaysDead ==
  ASSUME TokenInv, TokensEvolve, NEW t \in Tokens, holder[t] # NoUser, ~Valid(t)
  PROVE  ~Valid(t)'
<1>1. CASE t \notin entries BY <1>1 DEF TokensEvolve, Valid
<1>2. CASE t \in entries' /\ t \in entries
  <2>1. idle[t] > Ttl /\ idle'[t] >= idle[t]
    BY <1>2, AccountsAssumption DEF TokensEvolve, TokenInv, Valid
  <2> QED BY <2>1, AccountsAssumption DEF TokensEvolve, TokenInv, Valid
<1>3. CASE t \notin entries' BY <1>3 DEF Valid
<1> QED BY <1>1, <1>2, <1>3

-----------------------------------------------------------------------------
\* A server that has ever had an account has an administrator, whatever the
\* order in which administrators delete and demote one another (ErrLastAdmin).
THEOREM AnAdminRemains == Spec => []AdminRemains
<1>1. AccountInv => AdminRemains BY DEF AccountInv
<1> QED BY <1>1, AccountInvInit, AccountInvNext, PTL DEF Spec

\* An account that is created as an administrator is the first one ever
\* (CreateFirstAdmin), however many visitors found no account.
THEOREM TheFirstAdminComesOnce == Spec => FirstAdminOnce
<1> DEFINE First == \A u \in Ids : role[u] = "unused" /\ role'[u] = "admin"
                      => \A v \in Ids : role[v] = "unused"
<1>1. AccountInv /\ [Next]_vars => [First]_vars
  <2> SUFFICES ASSUME AccountInv, Next PROVE First
    BY DEF vars
  <2> SUFFICES ASSUME NEW u \in Ids, role[u] = "unused", role'[u] = "admin"
               PROVE  \A v \in Ids : role[v] = "unused"
    OBVIOUS
  <2>1. CASE \E r \in Requests : CreateUser(r)
    <3>1. PICK r \in Requests : CreateUser(r) BY <2>1
    <3>2. PICK x \in Ids :
            /\ Creatable(r, x)
            /\ role' = [role EXCEPT ![x] =
                          IF req[r].at = "bootstrap" THEN "admin" ELSE "user"]
      BY <3>1 DEF CreateUser
    <3>3. role'[u] = IF u # x THEN role[u]
                     ELSE IF req[r].at = "bootstrap" THEN "admin" ELSE "user"
      BY <3>2 DEF AccountInv, Typed
    <3>4. Accounts = {} BY <3>2, <3>3 DEF Creatable
    <3>5. Admins = {} BY <3>4 DEF Accounts, Admins
    <3> QED BY <3>5 DEF AccountInv, AdminRemains
  <2>2. CASE \E r \in Requests : SetAdmin(r)
    <3>1. PICK x \in Accounts, to \in {"user", "admin"} :
            role' = [role EXCEPT ![x] = to]
      BY <2>2 DEF SetAdmin
    <3> QED BY <3>1 DEF AccountInv, Typed, Accounts
  <2>3. CASE \E r \in Requests : DeleteUser(r)
    <3>1. PICK x \in Accounts : role' = [role EXCEPT ![x] = "gone"]
      BY <2>3 DEF DeleteUser
    <3> QED BY <3>1 DEF AccountInv, Typed, Accounts
  <2>4. CASE \A r \in Requests : ~(CreateUser(r) \/ SetAdmin(r) \/ DeleteUser(r))
    BY <2>4, OthersSettle DEF Settles, AccountInv
  <2> QED BY <2>1, <2>2, <2>3, <2>4
<1> QED BY <1>1, AccountInvInit, AccountInvNext, PTL DEF Spec, FirstAdminOnce

\* A token that was revoked or has lapsed is never accepted again: no lookup,
\* sweep, sign-in or crash brings it back (SessionStore).
THEOREM DeadTokensStayDead == Spec => TokenStaysDead
<1> DEFINE Dead == \A t \in Tokens : holder[t] # NoUser /\ ~Valid(t) => ~Valid(t)'
<1>1. TokenInv /\ [Next]_vars => TokenInv'
  BY StepsEvolve DEF TokensEvolve, TokenInv
<1>2. TokenInv /\ [Next]_vars => [Dead]_vars
  BY StepsEvolve, DeadStaysDead
<1> QED BY <1>1, <1>2, TokenInvInit, PTL DEF Spec, TokenStaysDead

-----------------------------------------------------------------------------
(* Deleting an account                                                     *)

DeletionSteps == {"revoke", "list", "cascade", "remove"}

\* The tokens of the account are revoked: its deletion is past that step.
Revoked(u) ==
  u \in cleaned \/ \E r \in Requests : req[r].on = u /\ req[r].at # "revoke"

\* A request names the account it deletes, which is gone, from the first step
\* of the deletion to the last; one that is over acts for nobody.
Doing ==
  \A r \in Requests :
    /\ req[r].at = "idle" => req[r].as = NoUser
    /\ req[r].on # NoUser <=> req[r].at \in DeletionSteps
    /\ req[r].on # NoUser => role[req[r].on] = "gone"

\* Nobody can act for the account any more, but for the request that deletes
\* it, if the administrator deletes itself.
CutOff(u) ==
  /\ role[u] = "gone"
  /\ \A t \in entries : holder[t] # u
  /\ \A q \in Requests : req[q].as = u => req[q].on = u

\* The cascade has failed somewhere or still has every session before it.
Covered(r) ==
  req[r].at \in {"cascade", "remove"} =>
    \/ Failed \in req[r].todo
    \/ \A s \in Sessions : sessions[s] = req[r].on => s \in req[r].todo

Erased(u) == u \notin dir /\ \A s \in Sessions : sessions[s] # u

CleanInv ==
  /\ sessions \in [Sessions -> Ids \cup {NoUser}] /\ cleaned \subseteq Ids
  /\ Doing
  /\ \A u \in Ids \ late : Revoked(u) => CutOff(u)
  /\ \A r \in Requests : req[r].on \in Ids \ late => Covered(r)
  /\ \A u \in cleaned \ late : Erased(u)

LEMMA CleanInvInit == Init => CleanInv
  BY AccountsAssumption
     DEF Init, CleanInv, Doing, Revoked, Covered, DeletionSteps, Idle

\* Every step but those of a deletion: the account that a request acts for and
\* nobody deletes may get a token, a session or a directory, a request may end
\* or begin to act for an account that is there or has a token.
LEMMA ActorKeeps ==
  ASSUME Typed, CleanInv, Typed', NEW r \in Requests, req[r].on = NoUser,
         \A q \in Requests \ {r} : req'[q] = req[q],
         req'[r].on = NoUser, req'[r].at \notin DeletionSteps,
         req'[r].at = "idle" => req'[r].as = NoUser,
         \/ req'[r].as \in {NoUser, req[r].as}
         \/ req'[r].as \in Ids /\ role[req'[r].as] # "gone"
         \/ \E t \in entries : holder[t] = req'[r].as,
         \A u \in Ids : role[u] = "gone" => role'[u] = "gone",
         \A t \in entries' :
            (t \in entries /\ holder'[t] = holder[t]) \/ holder'[t] = req[r].as,
         sessions' \in [Sessions -> Ids \cup {NoUser}],
         \A s \in Sessions : sessions'[s] \in {sessions[s], req[r].as},
         dir' \subseteq dir \cup {req[r].as},
         UNCHANGED <<cleaned, late>>
  PROVE  CleanInv'
<1> USE DEF CleanInv
<1>0. NoUser \notin Ids BY AccountsAssumption
<1>1. Doing'
  <2> SUFFICES ASSUME NEW q \in Requests
               PROVE  /\ req'[q].at = "idle" => req'[q].as = NoUser
                      /\ req'[q].on # NoUser <=> req'[q].at \in DeletionSteps
                      /\ req'[q].on # NoUser => role'[req'[q].on] = "gone"
    BY DEF Doing
  <2>1. CASE q = r BY <2>1
  <2>2. CASE q # r
    <3>1. req'[q] = req[q] /\ req[q].on \in Ids \cup {NoUser}
      BY <2>2 DEF Typed, RequestType
    <3> QED BY <3>1 DEF Doing
  <2> QED BY <2>1, <2>2
<1>2. \A u \in Ids : Revoked(u)' => Revoked(u) BY <1>0 DEF Revoked
<1>3. ASSUME NEW u \in Ids \ late, Revoked(u)
      PROVE  CutOff(u)' /\ req[r].as # u
  <2>1. CutOff(u) BY <1>3
  <2>2. req[r].as # u BY <2>1, <1>0 DEF CutOff
  <2>3. req'[r].as # u BY <2>1, <2>2, <1>0 DEF CutOff
  <2>4. role'[u] = "gone" /\ \A t \in entries' : holder'[t] # u
    BY <2>1, <2>2 DEF CutOff
  <2>5. \A q \in Requests : req'[q].as = u => req'[q].on = u
    BY <2>1, <2>3 DEF CutOff
  <2> QED BY <2>2, <2>4, <2>5 DEF CutOff
<1>4. ASSUME NEW q \in Requests, req'[q].on \in Ids \ late PROVE Covered(q)'
  <2>1. q # r /\ req'[q] = req[q] BY <1>4, <1>0
  <2>2. Covered(q) BY <2>1, <1>4
  <2>3. CASE req[q].at \in {"cascade", "remove"}
    <3>1. Revoked(req[q].on) BY <2>3 DEF Revoked
    <3>2. req[r].as # req[q].on BY <3>1, <2>1, <1>3, <1>4
    <3>3. \A s \in Sessions : sessions'[s] = req[q].on => sessions[s] = req[q].on
      BY <3>2
    <3> QED BY <3>3, <2>1, <2>2 DEF Covered
  <2> QED BY <2>1, <2>3 DEF Covered
<1>5. ASSUME NEW u \in cleaned \ late PROVE Erased(u)'
  <2>1. Erased(u) /\ u \in Ids BY <1>5
  <2>2. req[r].as # u BY <2>1, <1>3, <1>5 DEF Revoked
  <2> QED BY <2>1, <2>2 DEF Erased
<1> QED BY <1>1, <1>2, <1>3, <1>4, <1>5

\* Time, a logout and a crash only take away.
LEMMA TimeKeeps ==
  ASSUME Typed, CleanInv,
         (\E t \in Tokens : Logout(t)) \/ Tick \/ Sweep \/ Crash \/ UNCHANGED vars
  PROVE  CleanInv'
<1> USE DEF CleanInv
<1>0. NoUser \notin Ids BY AccountsAssumption
<1>1. /\ UNCHANGED <<role, holder, sessions, dir, cleaned, late>>
      /\ entries' \subseteq entries
  BY DEF Logout, Tick, Sweep, Crash, vars, dataVars, history
<1>2. UNCHANGED req \/ req' = [r \in Requests |-> Idle]
  BY DEF Logout, Tick, Sweep, Crash, vars
<1>3. CASE UNCHANGED req
  BY <1>1, <1>3 DEF Doing, Revoked, CutOff, Covered, Erased
<1>4. CASE req' = [r \in Requests |-> Idle]
  <2>1. \A r \in Requests : req'[r].at = "idle" /\ req'[r].as = NoUser /\ req'[r].on = NoUser
    BY <1>4 DEF Idle
  <2>2. Doing' BY <2>1 DEF Doing, DeletionSteps
  <2>3. \A u \in Ids : Revoked(u)' => Revoked(u) BY <2>1, <1>0, <1>1 DEF Revoked
  <2>4. \A u \in Ids : CutOff(u) => CutOff(u)' BY <2>1, <1>0, <1>1 DEF CutOff
  <2>5. \A r \in Requests : Covered(r)' BY <2>1 DEF Covered
  <2>6. \A u \in cleaned' \ late' : Erased(u)' BY <1>1 DEF Erased
  <2> QED BY <1>1, <2>2, <2>3, <2>4, <2>5, <2>6
<1> QED BY <1>2, <1>3, <1>4

\* A request that moves on or ends, outside a deletion.
LEMMA Outside ==
  ASSUME Typed, CleanInv, NEW r \in Requests, req[r].at \notin DeletionSteps
  PROVE  req[r].on = NoUser
  BY DEF CleanInv, Doing

LEMMA FinishClears ==
  ASSUME Typed, NEW r \in Requests, Finish(r)
  PROVE  req'[r].on = NoUser /\ req'[r].as = NoUser /\ req'[r].at = "idle"
  BY DEF Typed, Finish, Idle

LEMMA GotoKeepsNames ==
  ASSUME Typed, NEW r \in Requests, NEW step \in Steps, Goto(r, step)
  PROVE  /\ req'[r].on = req[r].on /\ req'[r].as = req[r].as
         /\ req'[r].todo = req[r].todo /\ req'[r].at = step
  BY DEF Typed, Goto, RequestType

LEMMA ActsBegin ==
  ASSUME Typed, NEW r \in Requests, NEW step \in Steps, NEW u \in Ids \cup {NoUser},
         req' = [req EXCEPT ![r].at = step, ![r].as = u]
  PROVE  /\ req'[r].on = req[r].on /\ req'[r].as = u /\ req'[r].at = step
         /\ \A q \in Requests \ {r} : req'[q] = req[q]
<1>1. req[r] \in RequestType BY DEF Typed
<1>2. req'[r] = [req[r] EXCEPT !.at = step, !.as = u] BY DEF Typed
<1> QED BY <1>1, <1>2 DEF RequestType, Typed

\* The step of one request that touches no account, token or file.
LEMMA MovesKeep ==
  ASSUME Typed, CleanInv, Typed', NEW r \in Requests, req[r].at \notin DeletionSteps,
         Finish(r) \/ \E step \in Steps \ (DeletionSteps \cup {"idle"}) : Goto(r, step),
         UNCHANGED <<role, holder, entries, sessions, dir, cleaned, late>>
  PROVE  CleanInv'
<1>1. req[r].on = NoUser BY Outside
<1>2. /\ \A q \in Requests \ {r} : req'[q] = req[q]
      /\ req'[r].on = NoUser /\ req'[r].at \notin DeletionSteps
      /\ req'[r].at = "idle" => req'[r].as = NoUser
      /\ req'[r].as \in {NoUser, req[r].as}
  BY <1>1, FinishMoves, GotoMoves, FinishClears, GotoKeepsNames DEF DeletionSteps
<1>3. sessions' \in [Sessions -> Ids \cup {NoUser}] BY DEF CleanInv
<1> QED BY <1>1, <1>2, <1>3, ActorKeeps

LEMMA SignInClean ==
  ASSUME Typed, CleanInv, Typed', NEW r \in Requests, SignIn(r)
  PROVE  CleanInv'
<1>1. CASE StartBootstrap(r)
  BY <1>1, MovesKeep
     DEF StartBootstrap, tokenVars, dataVars, history, DeletionSteps, Steps
<1>2. CASE StartRegister(r)
  BY <1>2, MovesKeep
     DEF StartRegister, tokenVars, dataVars, history, DeletionSteps, Steps
<1>3. CASE CreateUser(r)
  <2>0. /\ req[r].at \notin DeletionSteps /\ req[r].on = NoUser
        /\ UNCHANGED <<holder, entries, sessions, dir, cleaned, late>>
    BY <1>3, Outside DEF CreateUser, tokenVars, dataVars, history, DeletionSteps
  <2>1. CASE Finish(r) /\ UNCHANGED role BY <2>0, <2>1, MovesKeep
  <2>2. ASSUME NEW u \in Ids, role[u] = "unused",
               role' = [role EXCEPT ![u] =
                          IF req[r].at = "bootstrap" THEN "admin" ELSE "user"],
               req' = [req EXCEPT ![r].at = "issue", ![r].as = u]
        PROVE  CleanInv'
    <3>1. /\ req'[r].on = NoUser /\ req'[r].as = u /\ req'[r].at = "issue"
          /\ \A q \in Requests \ {r} : req'[q] = req[q]
      BY <2>0, <2>2, ActsBegin DEF Steps
    <3>2. \A v \in Ids : role[v] = "gone" => role'[v] = "gone"
      BY <2>2 DEF Typed
    <3>3. sessions' \in [Sessions -> Ids \cup {NoUser}] BY <2>0 DEF CleanInv
    <3> QED BY <2>0, <2>2, <3>1, <3>2, <3>3, ActorKeeps DEF DeletionSteps
  <2> QED BY <1>3, <2>1, <2>2 DEF CreateUser
<1>4. CASE Login(r)
  <2>1. PICK u \in Accounts : req' = [req EXCEPT ![r].at = "issue", ![r].as = u]
    BY <1>4 DEF Login
  <2>2. /\ req[r].on = NoUser
        /\ UNCHANGED <<role, holder, entries, sessions, dir, cleaned, late>>
    BY <1>4, Outside DEF Login, tokenVars, dataVars, history, DeletionSteps
  <2>3. /\ req'[r].on = NoUser /\ req'[r].as = u /\ req'[r].at = "issue"
        /\ \A q \in Requests \ {r} : req'[q] = req[q]
    BY <2>1, <2>2, ActsBegin DEF Steps, Accounts
  <2>4. u \in Ids /\ role[u] # "gone" BY DEF Accounts
  <2>5. sessions' \in [Sessions -> Ids \cup {NoUser}] BY <2>2 DEF CleanInv
  <2> QED BY <2>2, <2>3, <2>4, <2>5, ActorKeeps DEF DeletionSteps
<1>5. CASE IssueToken(r)
  <2>1. PICK t \in Tokens :
          /\ holder[t] = NoUser
          /\ holder' = [holder EXCEPT ![t] = req[r].as]
          /\ entries' = entries \cup {t}
    BY <1>5 DEF IssueToken
  <2>2. /\ req[r].on = NoUser /\ Finish(r)
        /\ UNCHANGED <<role, sessions, dir, cleaned, late>>
    BY <1>5, Outside DEF IssueToken, dataVars, history, DeletionSteps
  <2>3. \A x \in entries' :
          (x \in entries /\ holder'[x] = holder[x]) \/ holder'[x] = req[r].as
    BY <2>1 DEF Typed
  <2>4. /\ req'[r].on = NoUser /\ req'[r].as = NoUser /\ req'[r].at = "idle"
        /\ \A q \in Requests \ {r} : req'[q] = req[q]
    BY <2>2, FinishClears, FinishMoves
  <2>5. sessions' \in [Sessions -> Ids \cup {NoUser}] BY <2>2 DEF CleanInv
  <2> QED BY <2>2, <2>3, <2>4, <2>5, ActorKeeps DEF DeletionSteps
<1> QED BY <1>1, <1>2, <1>3, <1>4, <1>5 DEF SignIn

LEMMA UseClean ==
  ASSUME Typed, CleanInv, Typed', NEW r \in Requests, Use(r)
  PROVE  CleanInv'
<1>0. sessions \in [Sessions -> Ids \cup {NoUser}] BY DEF CleanInv
<1>1. ASSUME NEW t \in Tokens, NEW step \in {"session", "open", "requireAdmin"},
             Authenticate(r, t, step)
      PROVE  CleanInv'
  <2>1. /\ req[r].at = "idle" /\ entries' \subseteq entries
        /\ UNCHANGED <<role, holder, sessions, dir, cleaned, late>>
    BY <1>1 DEF Authenticate, Lookup, dataVars, history
  <2>2. req[r].on = NoUser /\ req[r].as = NoUser
    BY <2>1, Outside DEF CleanInv, Doing, DeletionSteps
  <2>3. CASE UNCHANGED req
    BY <1>0, <2>1, <2>2, <2>3, ActorKeeps DEF DeletionSteps
  <2>4. CASE Valid(t) /\ req' = [req EXCEPT ![r].at = step, ![r].as = holder[t]]
    <3>0. holder[t] \in Ids \cup {NoUser} /\ step \in Steps BY DEF Typed, Steps
    <3>1. /\ req'[r].on = NoUser /\ req'[r].as = holder[t] /\ req'[r].at = step
          /\ \A q \in Requests \ {r} : req'[q] = req[q]
      BY <2>2, <2>4, <3>0, ActsBegin
    <3>2. t \in entries BY <2>4 DEF Valid
    <3> QED BY <1>0, <2>1, <2>2, <3>1, <3>2, ActorKeeps DEF DeletionSteps
  <2> QED BY <1>1, <2>3, <2>4 DEF Authenticate
<1>2. CASE CreateSession(r)
  <2>1. /\ req[r].on = NoUser /\ Finish(r)
        /\ UNCHANGED <<role, holder, entries, dir, cleaned, late>>
    BY <1>2, Outside DEF CreateSession, tokenVars, history, DeletionSteps
  <2>2. req[r].as \in Ids \cup {NoUser} BY DEF Typed, RequestType
  <2>3. /\ sessions' \in [Sessions -> Ids \cup {NoUser}]
        /\ \A s \in Sessions : sessions'[s] \in {sessions[s], req[r].as}
    BY <1>0, <1>2, <2>2 DEF CreateSession
  <2>4. /\ req'[r].on = NoUser /\ req'[r].as = NoUser /\ req'[r].at = "idle"
        /\ \A q \in Requests \ {r} : req'[q] = req[q]
    BY <2>1, FinishClears, FinishMoves
  <2> QED BY <2>1, <2>3, <2>4, ActorKeeps DEF DeletionSteps
<1>3. CASE OpenHosts(r) \/ StoreHost(r)
  <2>1. /\ req[r].on = NoUser /\ (Finish(r) \/ Goto(r, "store"))
        /\ dir' \subseteq dir \cup {req[r].as}
        /\ UNCHANGED <<role, holder, entries, sessions, cleaned, late>>
    BY <1>3, Outside DEF OpenHosts, StoreHost, tokenVars, history, DeletionSteps
  <2>2. /\ req'[r].on = NoUser /\ req'[r].as \in {NoUser, req[r].as}
        /\ req'[r].at \in {"idle", "store"}
        /\ req'[r].at = "idle" => req'[r].as = NoUser
        /\ \A q \in Requests \ {r} : req'[q] = req[q]
    BY <2>1, FinishClears, FinishMoves, GotoMoves, GotoKeepsNames DEF Steps
  <2> QED BY <1>0, <2>1, <2>2, ActorKeeps DEF DeletionSteps
<1> QED BY <1>1, <1>2, <1>3 DEF Use

-----------------------------------------------------------------------------
(* The steps of a deletion                                                 *)

\* Only one request changes, and all that CleanInv says of the others stays.
LEMMA DeleteClean ==
  ASSUME Typed, CleanInv, Typed', NEW r \in Requests, DeleteUser(r)
  PROVE  CleanInv'
<1> USE DEF CleanInv
<1>0. NoUser \notin Ids BY AccountsAssumption
<1>1. PICK u \in Accounts :
        /\ role' = [role EXCEPT ![u] = "gone"]
        /\ req' = [req EXCEPT ![r].at = "revoke", ![r].on = u]
  BY DEF DeleteUser
<1>2. /\ u \in Ids /\ role[u] # "gone" /\ req[r].at = "admin" /\ req[r].on = NoUser
      /\ UNCHANGED <<holder, entries, sessions, dir, cleaned, late>>
  BY Outside DEF DeleteUser, Accounts, tokenVars, dataVars, history, DeletionSteps
<1>3. /\ req'[r].at = "revoke" /\ req'[r].on = u /\ req'[r].as = req[r].as
      /\ \A q \in Requests \ {r} : req'[q] = req[q]
  <2>1. req[r] \in RequestType BY DEF Typed
  <2>2. req'[r] = [req[r] EXCEPT !.at = "revoke", !.on = u] BY <1>1 DEF Typed
  <2> QED BY <2>1, <2>2, <1>1 DEF RequestType, Typed
<1>4. role'[u] = "gone" /\ \A v \in Ids \ {u} : role'[v] = role[v]
  BY <1>1, <1>2 DEF Typed
<1>5. Doing'
  <2>1. \A q \in Requests : req[q].on \in Ids \cup {NoUser} BY DEF Typed, RequestType
  <2>2. \A v \in Ids : role[v] = "gone" => role'[v] = "gone" BY <1>2, <1>4
  <2>3. \A q \in Requests \ {r} : req[q].on # NoUser => role'[req[q].on] = "gone"
    BY <2>1, <2>2 DEF Doing
  <2>4. /\ req'[r].on # NoUser /\ role'[req'[r].on] = "gone"
        /\ req'[r].at \in DeletionSteps /\ req'[r].at # "idle"
    BY <1>0, <1>2, <1>3, <1>4 DEF DeletionSteps
  <2> QED BY <2>3, <2>4, <1>3 DEF Doing
<1>6. ASSUME NEW v \in Ids \ late, Revoked(v)' PROVE CutOff(v)'
  <2>1. Revoked(v) BY <1>2, <1>3, <1>6 DEF Revoked
  <2>2. CutOff(v) /\ v # u BY <2>1, <1>2 DEF CutOff
  <2>3. req[r].as # v BY <2>2, <1>2, <1>0 DEF CutOff
  <2>4. \A q \in Requests : req'[q].as = v => req'[q].on = v
    BY <2>2, <2>3, <1>3 DEF CutOff
  <2>5. role'[v] = "gone" BY <2>2, <1>4 DEF CutOff
  <2> QED BY <2>2, <2>4, <2>5, <1>2 DEF CutOff
<1>7. ASSUME NEW q \in Requests, req'[q].on \in Ids \ late PROVE Covered(q)'
  BY <1>2, <1>3, <1>7 DEF Covered
<1>8. \A v \in cleaned \ late : Erased(v)' BY <1>2 DEF Erased
<1> QED BY <1>2, <1>5, <1>6, <1>7, <1>8

\* Who revokes finds every request that acts for the account, or none does.
LEMMA RevokeClean ==
  ASSUME Typed, CleanInv, Typed', NEW r \in Requests, RevokeByUser(r)
  PROVE  CleanInv'
<1> USE DEF CleanInv
<1>0. NoUser \notin Ids BY AccountsAssumption
<1> DEFINE u == req[r].on
<1>1. /\ req[r].at = "revoke" /\ u # NoUser /\ role[u] = "gone" /\ u \in Ids
      /\ entries' = {t \in entries : holder[t] # u}
      /\ UNCHANGED <<role, holder, sessions, dir, cleaned>>
  BY DEF RevokeByUser, dataVars, Doing, DeletionSteps, Typed, RequestType
<1>2. /\ req'[r].on = u /\ req'[r].as = req[r].as /\ req'[r].at = "list"
      /\ \A q \in Requests \ {r} : req'[q] = req[q]
  BY GotoKeepsNames, GotoMoves DEF RevokeByUser, Steps
<1>3. /\ late \subseteq late'
      /\ u \notin late' => \A q \in Requests \ {r} : ~ActsFor(q, u)
  BY DEF RevokeByUser
<1>4. Doing'
  <2>1. \A q \in Requests : req[q].on \in Ids \cup {NoUser} BY DEF Typed, RequestType
  <2> QED BY <2>1, <1>1, <1>2 DEF Doing, DeletionSteps
<1>5. ASSUME NEW v \in Ids \ late', Revoked(v)' PROVE CutOff(v)'
  <2>1. CASE v = u
    <3>1. \A q \in Requests \ {r} : req[q].as # u
      BY <1>0, <1>1, <1>3, <1>5, <2>1 DEF ActsFor, Doing
    <3>2. \A q \in Requests : req'[q].as = v => req'[q].on = v
      BY <3>1, <2>1, <1>2
    <3> QED BY <3>2, <2>1, <1>1 DEF CutOff
  <2>2. CASE v # u
    <3>1. Revoked(v) BY <2>2, <1>1, <1>2, <1>5 DEF Revoked
    <3>2. CutOff(v) BY <3>1, <1>3, <1>5
    <3>3. \A q \in Requests : req'[q].as = v => req'[q].on = v
      BY <3>2, <1>2 DEF CutOff
    <3> QED BY <3>2, <3>3, <1>1 DEF CutOff
  <2> QED BY <2>1, <2>2
<1>6. ASSUME NEW q \in Requests, req'[q].on \in Ids \ late' PROVE Covered(q)'
  BY <1>1, <1>2, <1>3, <1>6 DEF Covered
<1>7. \A v \in cleaned' \ late' : Erased(v)' BY <1>1, <1>3 DEF Erased
<1> QED BY <1>1, <1>4, <1>5, <1>6, <1>7

\* A step of a cascade: it removes sessions or the directory of an account and
\* moves its request on, which keeps everything but what the step is about.
LEMMA CascadeKeeps ==
  ASSUME Typed, CleanInv, Typed', NEW r \in Requests,
         req[r].at \in {"list", "cascade"}, req'[r].at \in {"cascade", "remove"},
         req'[r].on = req[r].on, req'[r].as = req[r].as,
         \A q \in Requests \ {r} : req'[q] = req[q],
         sessions' \in [Sessions -> Ids \cup {NoUser}],
         \A s \in Sessions : sessions'[s] \in {sessions[s], NoUser},
         UNCHANGED <<role, holder, entries, dir, cleaned, late>>,
         req[r].on \in Ids \ late => Covered(r)'
  PROVE  CleanInv'
<1> USE DEF CleanInv
<1>0. NoUser \notin Ids BY AccountsAssumption
<1>1. Doing'
  <2>1. \A q \in Requests : req[q].on \in Ids \cup {NoUser} BY DEF Typed, RequestType
  <2> QED BY <2>1 DEF Doing, DeletionSteps
<1>2. ASSUME NEW v \in Ids \ late', Revoked(v)' PROVE CutOff(v)'
  <2>1. Revoked(v) BY <1>2 DEF Revoked
  <2>2. CutOff(v) BY <2>1, <1>2
  <2>3. \A q \in Requests : req'[q].as = v => req'[q].on = v BY <2>2 DEF CutOff
  <2> QED BY <2>2, <2>3 DEF CutOff
<1>3. ASSUME NEW q \in Requests \ {r}, req'[q].on \in Ids \ late' PROVE Covered(q)'
  <2>1. Covered(q) /\ req'[q] = req[q] /\ req[q].on # NoUser BY <1>0, <1>3
  <2>2. \A s \in Sessions : sessions'[s] = req[q].on => sessions[s] = req[q].on
    BY <2>1
  <2> QED BY <2>1, <2>2 DEF Covered
<1>4. ASSUME NEW v \in cleaned' \ late' PROVE Erased(v)'
  <2>1. Erased(v) /\ v # NoUser BY <1>0, <1>4
  <2> QED BY <2>1 DEF Erased
<1> QED BY <1>1, <1>2, <1>3, <1>4

LEMMA ListClean ==
  ASSUME Typed, CleanInv, Typed', NEW r \in Requests, ListSessions(r)
  PROVE  CleanInv'
<1>1. PICK S \in {{s \in Sessions : sessions[s] = req[r].on}, {Failed}} :
        req' = [req EXCEPT ![r].at = "cascade", ![r].todo = S]
  BY DEF ListSessions
<1>2. /\ req[r].at = "list"
      /\ UNCHANGED <<role, holder, entries, sessions, dir, cleaned, late>>
  BY DEF ListSessions, tokenVars, dataVars, history
<1>3. req'[r] = [req[r] EXCEPT !.at = "cascade", !.todo = S]
      /\ \A q \in Requests \ {r} : req'[q] = req[q]
  BY <1>1 DEF Typed
<1>4. /\ req'[r].at = "cascade" /\ req'[r].todo = S
      /\ req'[r].on = req[r].on /\ req'[r].as = req[r].as
  <2>1. req[r] \in RequestType BY DEF Typed
  <2> QED BY <2>1, <1>3 DEF RequestType
<1>5. Covered(r)' BY <1>2, <1>4 DEF Covered
<1>6. sessions' \in [Sessions -> Ids \cup {NoUser}] BY <1>2 DEF CleanInv
<1> QED BY <1>2, <1>3, <1>4, <1>5, <1>6, CascadeKeeps

LEMMA DeleteSessionClean ==
  ASSUME Typed, CleanInv, Typed', NEW r \in Requests, DeleteSession(r)
  PROVE  CleanInv'
<1>0. /\ req[r].at = "cascade" /\ sessions \in [Sessions -> Ids \cup {NoUser}]
      /\ UNCHANGED <<role, holder, entries, dir, cleaned, late>>
  BY DEF DeleteSession, tokenVars, history, CleanInv
<1>1. PICK s \in req[r].todo \ {Failed} :
        \E T \in {req[r].todo \ {s}, (req[r].todo \ {s}) \cup {Failed}} :
          /\ req' = [req EXCEPT ![r].todo = T]
          /\ \/ sessions' = [sessions EXCEPT ![s] = NoUser]
             \/ Failed \in T /\ UNCHANGED sessions
  <2>1. PICK s \in req[r].todo \ {Failed} :
          \/ /\ sessions' = [sessions EXCEPT ![s] = NoUser]
             /\ req' = [req EXCEPT ![r].todo = @ \ {s}]
          \/ /\ req' = [req EXCEPT ![r].todo = (@ \ {s}) \cup {Failed}]
             /\ UNCHANGED sessions
    BY DEF DeleteSession
  <2>2. CASE req' = [req EXCEPT ![r].todo = @ \ {s}]
             /\ sessions' = [sessions EXCEPT ![s] = NoUser]
    BY <2>2
  <2>3. CASE req' = [req EXCEPT ![r].todo = (@ \ {s}) \cup {Failed}] /\ UNCHANGED sessions
    BY <2>3
  <2> QED BY <2>1, <2>2, <2>3
<1>11. PICK T \in {req[r].todo \ {s}, (req[r].todo \ {s}) \cup {Failed}} :
          /\ req' = [req EXCEPT ![r].todo = T]
          /\ \/ sessions' = [sessions EXCEPT ![s] = NoUser]
             \/ Failed \in T /\ UNCHANGED sessions
  BY <1>1
<1>2. req'[r] = [req[r] EXCEPT !.todo = T] /\ \A q \in Requests \ {r} : req'[q] = req[q]
  BY <1>11 DEF Typed
<1>3. /\ req'[r].at = "cascade" /\ req'[r].todo = T
      /\ req'[r].on = req[r].on /\ req'[r].as = req[r].as
  <2>1. req[r] \in RequestType BY DEF Typed
  <2> QED BY <2>1, <1>0, <1>2 DEF RequestType
<1>4. /\ sessions' \in [Sessions -> Ids \cup {NoUser}]
      /\ \A x \in Sessions : sessions'[x] \in {sessions[x], NoUser}
  BY <1>0, <1>11
<1>5. ASSUME req[r].on \in Ids \ late PROVE Covered(r)'
  <2>1. Covered(r) /\ req[r].on # NoUser
    BY <1>5, AccountsAssumption DEF CleanInv
  <2>2. CASE Failed \in T BY <2>2, <1>3 DEF Covered
  <2>3. CASE Failed \notin T
    <3>1. /\ sessions' = [sessions EXCEPT ![s] = NoUser] /\ T = req[r].todo \ {s}
          /\ Failed \notin req[r].todo
      BY <1>11, <2>3
    <3>2. \A x \in Sessions : sessions'[x] = req[r].on =>
             sessions[x] = req[r].on /\ x # s
      BY <3>1, <2>1, <1>0
    <3> QED BY <3>1, <3>2, <2>1, <1>0, <1>3 DEF Covered
  <2> QED BY <2>2, <2>3
<1> QED BY <1>0, <1>2, <1>3, <1>4, <1>5, CascadeKeeps

LEMMA EvictClean ==
  ASSUME Typed, CleanInv, Typed', NEW r \in Requests, EvictStores(r)
  PROVE  CleanInv'
<1>1. /\ req[r].at = "cascade" /\ sessions \in [Sessions -> Ids \cup {NoUser}]
      /\ UNCHANGED <<role, holder, entries, sessions, dir, cleaned, late>>
  BY DEF EvictStores, tokenVars, history, CleanInv
<1>2. /\ req'[r].on = req[r].on /\ req'[r].as = req[r].as /\ req'[r].at = "remove"
      /\ req'[r].todo = req[r].todo /\ \A q \in Requests \ {r} : req'[q] = req[q]
  BY GotoKeepsNames, GotoMoves DEF EvictStores, Steps
<1>3. req[r].on \in Ids \ late => Covered(r)' BY <1>1, <1>2 DEF CleanInv, Covered
<1>4. sessions' \in [Sessions -> Ids \cup {NoUser}] BY <1>1
<1> QED BY <1>1, <1>2, <1>3, <1>4, CascadeKeeps

\* The last step: an account counts as cleaned if nothing of it is left.
LEMMA RemoveClean ==
  ASSUME Typed, CleanInv, Typed', NEW r \in Requests, RemoveDir(r)
  PROVE  CleanInv'
<1> USE DEF CleanInv
<1>0. NoUser \notin Ids BY AccountsAssumption
<1> DEFINE u == req[r].on
<1>1. /\ req[r].at = "remove" /\ u \in Ids
      /\ UNCHANGED <<role, holder, entries, sessions, late>>
      /\ dir' \subseteq dir /\ cleaned' \subseteq cleaned \cup {u}
      /\ u \in cleaned' \ cleaned => u \notin dir' /\ req[r].todo = {}
  BY DEF RemoveDir, tokenVars, Doing, DeletionSteps, Typed, RequestType
<1>2. /\ req'[r].on = NoUser /\ req'[r].as = NoUser /\ req'[r].at = "idle"
      /\ \A q \in Requests \ {r} : req'[q] = req[q]
  BY FinishClears, FinishMoves DEF RemoveDir
<1>3. Doing'
  <2>1. \A q \in Requests : req[q].on \in Ids \cup {NoUser} BY DEF Typed, RequestType
  <2> QED BY <2>1, <1>1, <1>2 DEF Doing, DeletionSteps
<1>4. \A v \in Ids : Revoked(v)' => Revoked(v) BY <1>0, <1>1, <1>2 DEF Revoked
<1>5. ASSUME NEW v \in Ids \ late', Revoked(v)' PROVE CutOff(v)'
  <2>1. CutOff(v) BY <1>1, <1>4, <1>5
  <2>2. \A q \in Requests : req'[q].as = v => req'[q].on = v
    BY <2>1, <1>0, <1>2 DEF CutOff
  <2> QED BY <2>1, <2>2, <1>1 DEF CutOff
<1>6. ASSUME NEW q \in Requests, req'[q].on \in Ids \ late' PROVE Covered(q)'
  BY <1>0, <1>1, <1>2, <1>6 DEF Covered
<1>7. ASSUME NEW v \in cleaned' \ late' PROVE Erased(v)'
  <2>1. CASE v \in cleaned BY <2>1, <1>1, <1>7 DEF Erased
  <2>2. CASE v \notin cleaned
    <3>1. v = u /\ u \notin dir' /\ req[r].todo = {} BY <2>2, <1>1, <1>7
    <3>2. \A s \in Sessions : sessions[s] # u BY <3>1, <1>1, <1>7 DEF Covered
    <3> QED BY <3>1, <3>2, <1>1 DEF Erased
  <2> QED BY <2>1, <2>2
<1>8. cleaned' \subseteq Ids /\ sessions' \in [Sessions -> Ids \cup {NoUser}] BY <1>1
<1> QED BY <1>3, <1>5, <1>6, <1>7, <1>8

LEMMA CleanInvNext == AccountInv /\ CleanInv /\ [Next]_vars => CleanInv'
<1> SUFFICES ASSUME AccountInv, CleanInv, [Next]_vars PROVE CleanInv' OBVIOUS
<1>0. Typed /\ Typed' BY AccountInvNext DEF AccountInv
<1>1. ASSUME NEW r \in Requests, SignIn(r) \/ Use(r) PROVE CleanInv'
  BY <1>0, <1>1, SignInClean, UseClean
<1>2. ASSUME NEW r \in Requests, RequireAdmin(r) \/ RefuseAdmin(r) PROVE CleanInv'
  <2>1. /\ req[r].at \notin DeletionSteps
        /\ Finish(r) \/ Goto(r, "admin")
        /\ UNCHANGED <<role, holder, entries, sessions, dir, cleaned, late>>
    BY <1>2 DEF RequireAdmin, RefuseAdmin, tokenVars, dataVars, history, DeletionSteps
  <2> QED BY <1>0, <2>1, MovesKeep DEF DeletionSteps, Steps
<1>3. ASSUME NEW r \in Requests, SetAdmin(r) PROVE CleanInv'
  <2>1. /\ req[r].on = NoUser /\ Finish(r)
        /\ \A u \in Ids : role[u] = "gone" => role'[u] = "gone"
        /\ UNCHANGED <<holder, entries, sessions, dir, cleaned, late>>
    BY <1>0, <1>3, Outside
       DEF SetAdmin, Accounts, Typed, tokenVars, dataVars, history, DeletionSteps
  <2>2. /\ req'[r].on = NoUser /\ req'[r].as = NoUser /\ req'[r].at = "idle"
        /\ \A q \in Requests \ {r} : req'[q] = req[q]
    BY <1>0, <2>1, FinishClears, FinishMoves
  <2>3. sessions' \in [Sessions -> Ids \cup {NoUser}] BY <2>1 DEF CleanInv
  <2> QED BY <1>0, <2>1, <2>2, <2>3, ActorKeeps DEF DeletionSteps
<1>4. ASSUME NEW r \in Requests, Manage(r) PROVE CleanInv'
  BY <1>0, <1>2, <1>3, <1>4, DeleteClean, RevokeClean, ListClean, DeleteSessionClean,
     EvictClean, RemoveClean
     DEF Manage
<1> QED BY <1>0, <1>1, <1>4, TimeKeeps DEF Next

\* Once a deletion's cascade has run without an error nothing of the account is
\* left, unless a request that acts for it was past its check when its tokens
\* were revoked: for any number of requests, deletions and crashes (deleteUser).
THEOREM ADeletedAccountIsClean == Spec => []DeletedIsClean
<1>1. Init => AccountInv /\ CleanInv BY AccountInvInit, CleanInvInit
<1>2. AccountInv /\ CleanInv /\ [Next]_vars => AccountInv' /\ CleanInv'
  BY AccountInvNext, CleanInvNext
<1>3. CleanInv => DeletedIsClean
  BY DEF CleanInv, Revoked, CutOff, Erased, DeletedIsClean
<1> QED BY <1>1, <1>2, <1>3, PTL DEF Spec

-----------------------------------------------------------------------------
\* No two accounts share a user name: create looks the name up under the lock
\* under which it writes, however many sign-ups were checked and hashed before.
THEOREM NamesStayUnique == Spec => []NamesUnique
<1>1. Init => NamesUnique BY DEF Init, NamesUnique, Accounts
<1>2. AccountInv /\ NamesUnique /\ [Next]_vars => NamesUnique'
  <2> SUFFICES ASSUME AccountInv, NamesUnique, [Next]_vars PROVE NamesUnique' OBVIOUS
  <2>0. UNCHANGED name /\ Typed
    BY DEF AccountInv, Next, vars, SignIn, Use, Manage, StartBootstrap, StartRegister,
           CreateUser, Login, IssueToken, Authenticate, CreateSession, OpenHosts,
           StoreHost, RequireAdmin, SetAdmin, DeleteUser, RefuseAdmin, RevokeByUser,
           ListSessions, DeleteSession, EvictStores, RemoveDir, Logout, Tick, Sweep,
           Crash
  <2>1. CASE Accounts' \subseteq Accounts BY <2>0, <2>1 DEF NamesUnique
  <2>2. ASSUME NEW r \in Requests, CreateUser(r) PROVE NamesUnique'
    <3>1. CASE UNCHANGED role BY <2>1, <3>1 DEF Accounts
    <3>2. ASSUME NEW u \in Ids, Creatable(r, u),
                 role' = [role EXCEPT ![u] =
                            IF req[r].at = "bootstrap" THEN "admin" ELSE "user"]
          PROVE  NamesUnique'
      <4>1. Accounts' \subseteq Accounts \cup {u} BY <2>0, <3>2 DEF Accounts, Typed
      <4>2. \A v \in Accounts : name[v] # name[u] BY <3>2 DEF Creatable
      <4> QED BY <2>0, <4>1, <4>2 DEF NamesUnique
    <3> QED BY <2>2, <3>1, <3>2 DEF CreateUser
  <2>3. ASSUME NEW r \in Requests, SetAdmin(r) \/ DeleteUser(r) PROVE NamesUnique'
    <3>1. PICK u \in Accounts, x \in {"user", "admin", "gone"} :
            role' = [role EXCEPT ![u] = x]
      BY <2>3 DEF SetAdmin, DeleteUser
    <3>2. Accounts' \subseteq Accounts BY <2>0, <3>1 DEF Accounts, Typed
    <3> QED BY <2>1, <3>2
  <2>4. CASE \A r \in Requests : ~(CreateUser(r) \/ SetAdmin(r) \/ DeleteUser(r))
    <3>1. UNCHANGED role BY <2>0, <2>4, OthersSettle DEF Settles
    <3> QED BY <2>1, <3>1 DEF Accounts
  <2> QED BY <2>2, <2>3, <2>4
<1> QED BY <1>1, <1>2, AccountInvInit, AccountInvNext, PTL DEF Spec
=============================================================================
