------------------------- MODULE EnvironmentProofs -------------------------
(***************************************************************************)
(* Proofs about Environment, for any names, values, lists, limits and      *)
(* number of overlapping edits.                                            *)
(*                                                                         *)
(* What the three properties need in common is the edit between its read   *)
(* and its write: it holds EnvStore.mu, so what it is about to write is    *)
(* still the patch of what is stored now (Locked).  Then the entries that  *)
(* it keeps are the stored ones, and NoLostDefault is inductive.  A value  *)
(* of a list that is about to be written is as public as of one that is    *)
(* stored (Hidden), and the list was found within the limits when it was   *)
(* put together (Fitting).                                                 *)
(*                                                                         *)
(* What a shell starts with needs the .env read to its end.  Reading folds *)
(* over the lines, so the fold is first turned into the accepted entries   *)
(* after each line (ParseIs), and an induction over the lines shows what   *)
(* they are: for each name the last line that meant something              *)
(* (ParseReads).  That no limit interferes on the way compares two sums:   *)
(* the size of what is accepted, and of the most the file could have       *)
(* (NextTotal).  The rest is which of three lists wins (MergeIs), which    *)
(* needs that every entry of a list is either inherited or not (Flagged).  *)
(***************************************************************************)
EXTENDS Environment, FiniteSetTheorems, WellFoundedInduction, TLAPS

\* A stored list: every entry has its three parts.
IsEntry(e) == e = [value |-> e.value, secret |-> e.secret, default |-> e.default]
IsList(env) == \A n \in DOMAIN env : IsEntry(env[n])

\* What no list may show that nobody sent in the clear.
Shows(env) == {env[n].value : n \in {m \in DOMAIN env : ~env[m].secret}}

Writing(q) == q # Idle

Shape ==
  /\ req = [r \in Requests |-> req[r]]
  /\ \A r \in Requests : Writing(req[r]) =>
       req[r] = [at |-> "write", patch |-> req[r].patch, next |-> req[r].next]
  /\ sess = [at |-> sess.at, env |-> sess.env, dotenv |-> sess.dotenv,
             remote |-> sess.remote]
  /\ IsList(defaults) /\ IsList(sess.env)

\* An edit between read and write holds the lock, and nothing that it read has
\* changed.
Locked ==
  \A r \in Requests : Writing(req[r]) =>
    /\ holder = r
    /\ ~PatchRefused(defaults, req[r].patch)
    /\ req[r].next = Patched(defaults, req[r].patch)

Hidden ==
  /\ Shows(defaults) \cup Shows(sess.env) \subseteq public
  /\ \A r \in Requests : Writing(req[r]) => Shows(req[r].next) \subseteq public

Fitting ==
  /\ Validate(defaults) /\ Validate(sess.env)
  /\ \A r \in Requests : Writing(req[r]) => Validate(req[r].next)

Inv == Shape /\ Locked /\ NoLostDefault /\ Hidden /\ Fitting

-----------------------------------------------------------------------------
\* A list of nothing has no size: the sums over it are their base case.
LEMMA EmptyBytes == MapThenSumSet(LAMBDA n : Bytes(NoEnv[n].value), {}) = 0
<1> DEFINE Body(f) == [s \in SUBSET {} |->
                          IF s = {} THEN 0
                          ELSE LET x == CHOOSE x \in s : TRUE
                               IN  Bytes(NoEnv[x].value) + f[s \ {x}]]
           iter == CHOOSE f : f = Body(f)
<1>1. SUBSET {} = {{}} OBVIOUS
<1>2. \A f : Body(f) = [s \in {{}} |-> 0] BY <1>1
<1>3. \E f : f = Body(f) BY <1>2
<1> HIDE DEF Body
<1>4. iter = Body(iter) BY <1>3
<1>5. iter[{}] = 0 BY <1>2, <1>4
<1> USE DEF Body
<1> QED BY <1>5 DEF MapThenSumSet, MapThenFoldSet

LEMMA EmptyExports == MapThenSumSet(LAMBDA n : Exported(NoEnv[n].value), {}) = 0
<1> DEFINE Body(f) == [s \in SUBSET {} |->
                          IF s = {} THEN 0
                          ELSE LET x == CHOOSE x \in s : TRUE
                               IN  Exported(NoEnv[x].value) + f[s \ {x}]]
           iter == CHOOSE f : f = Body(f)
<1>1. SUBSET {} = {{}} OBVIOUS
<1>2. \A f : Body(f) = [s \in {{}} |-> 0] BY <1>1
<1>3. \E f : f = Body(f) BY <1>2
<1> HIDE DEF Body
<1>4. iter = Body(iter) BY <1>3
<1>5. iter[{}] = 0 BY <1>2, <1>4
<1> USE DEF Body
<1> QED BY <1>5 DEF MapThenSumSet, MapThenFoldSet

LEMMA NothingFits == Validate(NoEnv)
<1>1. DOMAIN NoEnv = {} BY DEF NoEnv
<1>2. Cardinality({}) = 0 BY FS_EmptySet
<1>3. MapThenSumSet(LAMBDA n : Bytes(NoEnv[n].value), DOMAIN NoEnv) = 0
  BY <1>1, EmptyBytes
<1>4. MapThenSumSet(LAMBDA n : Exported(NoEnv[n].value), DOMAIN NoEnv) = 0
  BY <1>1, EmptyExports
<1>5. ExportSize(NoEnv) = 2 BY <1>4 DEF ExportSize
<1>6. MaxExportBytes \in Nat /\ 2 <= MaxExportBytes
      /\ {MaxEntries, MaxValueLen, MaxTotalBytes} \subseteq Nat
  BY EnvironmentAssumption
<1> QED BY <1>1, <1>2, <1>3, <1>5, <1>6 DEF Validate

LEMMA InvInit == Init => Inv
<1> SUFFICES ASSUME Init PROVE Inv OBVIOUS
<1>1. DOMAIN NoEnv = {} BY DEF NoEnv
<1>2. defaults = NoEnv /\ latest = NoEnv /\ sess.env = NoEnv /\ sess = NoSession
  BY DEF Init, NoSession
<1>3. \A r \in Requests : ~Writing(req[r]) BY DEF Init, Writing
<1>4. Shape BY <1>1, <1>2, <1>3 DEF Shape, IsList, NoSession, Init
<1>5. Locked BY <1>3 DEF Locked
<1>6. NoLostDefault BY <1>1, <1>2 DEF NoLostDefault
<1>7. Hidden BY <1>1, <1>2, <1>3 DEF Hidden, Shows
<1>8. Fitting BY <1>2, <1>3, NothingFits DEF Fitting
<1> QED BY <1>4, <1>5, <1>6, <1>7, <1>8 DEF Inv

-----------------------------------------------------------------------------
(* Lists                                                                   *)

LEMMA EntryOf ==
  ASSUME NEW e, NEW v, NEW s, NEW d, e = [value |-> v, secret |-> s, default |-> d]
  PROVE  IsEntry(e) /\ e.value = v /\ e.secret = s /\ e.default = d
  BY DEF IsEntry

LEMMA ClearOf ==
  ASSUME NEW b, NEW n \in DOMAIN b, ~b[n].secret
  PROVE  b[n].value \in Shows(b) /\ (b[n].value # Keep => b[n].value \in SentInTheClear(b))
  BY DEF SentInTheClear, Shows

\* A patch of a list that it may patch: a list again, which has what the patch
\* sends, and where it keeps an entry the stored value, as a secret.
LEMMA PatchMakes ==
  ASSUME NEW existing, NEW patch, IsList(existing), ~PatchRefused(existing, patch)
  PROVE  /\ IsList(Patched(existing, patch))
         /\ DOMAIN Patched(existing, patch) = DOMAIN patch
         /\ \A n \in DOMAIN patch :
              Patched(existing, patch)[n].value =
                IF patch[n].value = Keep THEN existing[n].value ELSE patch[n].value
         /\ \A n \in DOMAIN patch :
              patch[n].value = Keep => n \in DOMAIN existing
         /\ Shows(Patched(existing, patch)) \subseteq SentInTheClear(patch)
<1> DEFINE p == Patched(existing, patch)
<1>1. DOMAIN p = DOMAIN patch BY DEF Patched
<1>2. ASSUME NEW n \in DOMAIN patch, patch[n].value = Keep
      PROVE  /\ n \in DOMAIN existing
             /\ p[n] = [value |-> existing[n].value, secret |-> TRUE,
                        default |-> existing[n].default]
  <2>1. n \in DOMAIN existing BY <1>2 DEF PatchRefused
  <2>2. p[n] = [existing[n] EXCEPT !.secret = TRUE] BY <1>2 DEF Patched
  <2>3. existing[n] = [value |-> existing[n].value, secret |-> existing[n].secret,
                       default |-> existing[n].default]
    BY <2>1 DEF IsList, IsEntry
  <2> QED BY <2>1, <2>2, <2>3
<1>3. ASSUME NEW n \in DOMAIN patch, patch[n].value # Keep
      PROVE  \E d : p[n] = [value |-> patch[n].value, secret |-> patch[n].secret,
                            default |-> d]
  BY <1>3 DEF Patched
<1> HIDE DEF p
<1>4. ASSUME NEW n \in DOMAIN patch
      PROVE  /\ IsEntry(p[n])
             /\ p[n].value =
                  IF patch[n].value = Keep THEN existing[n].value ELSE patch[n].value
             /\ patch[n].value = Keep => n \in DOMAIN existing
             /\ ~p[n].secret => p[n].value \in SentInTheClear(patch)
  <2>1. CASE patch[n].value = Keep
    <3>1. p[n] = [value |-> existing[n].value, secret |-> TRUE,
                  default |-> existing[n].default]
      BY <1>2, <2>1
    <3>2. IsEntry(p[n]) /\ p[n].value = existing[n].value /\ p[n].secret = TRUE
      BY <3>1, EntryOf
    <3> QED BY <1>2, <2>1, <3>2
  <2>2. CASE patch[n].value # Keep
    <3>1. PICK d : p[n] = [value |-> patch[n].value, secret |-> patch[n].secret,
                           default |-> d]
      BY <1>3, <2>2
    <3>2. /\ IsEntry(p[n]) /\ p[n].value = patch[n].value
          /\ p[n].secret = patch[n].secret
      BY <3>1, EntryOf
    <3> QED BY <2>2, <3>2, ClearOf
  <2> QED BY <2>1, <2>2
<1>5. IsList(p) /\ Shows(p) \subseteq SentInTheClear(patch)
  BY <1>1, <1>4 DEF IsList, Shows
<1> QED BY <1>1, <1>4, <1>5 DEF p

\* What a session inherits shows what the defaults show and what was sent.
LEMMA InheritMakes ==
  ASSUME NEW from, NEW own, NEW removed, IsList(from),
         \A n \in DOMAIN own : own[n].value # Keep
  PROVE  /\ IsList(Inherit(from, own, removed))
         /\ Shows(Inherit(from, own, removed)) \subseteq Shows(from) \cup SentInTheClear(own)
<1> DEFINE i == Inherit(from, own, removed)
<1>1. DOMAIN i = (DOMAIN from \ removed) \cup DOMAIN own BY DEF Inherit
<1>2. ASSUME NEW n \in DOMAIN own
      PROVE  \E d : i[n] = [value |-> own[n].value, secret |-> own[n].secret,
                            default |-> d]
  BY DEF Inherit
<1>3. ASSUME NEW n \in DOMAIN from \ removed, n \notin DOMAIN own
      PROVE  \E d : i[n] = [value |-> from[n].value, secret |-> from[n].secret,
                            default |-> d]
  <2>1. i[n] = [from[n] EXCEPT !.default = TRUE] BY <1>3 DEF Inherit
  <2>2. from[n] = [value |-> from[n].value, secret |-> from[n].secret,
                   default |-> from[n].default]
    BY DEF IsList, IsEntry
  <2> QED BY <2>1, <2>2
<1>4. ASSUME NEW n \in DOMAIN i
      PROVE  /\ IsEntry(i[n])
             /\ ~i[n].secret => i[n].value \in Shows(from) \cup SentInTheClear(own)
  <2>1. CASE n \in DOMAIN own
    <3>1. PICK d : i[n] = [value |-> own[n].value, secret |-> own[n].secret,
                           default |-> d]
      BY <1>2, <2>1
    <3>2. /\ IsEntry(i[n]) /\ i[n].value = own[n].value
          /\ i[n].secret = own[n].secret
      BY <3>1, EntryOf
    <3> QED BY <2>1, <3>2, ClearOf
  <2>2. CASE n \notin DOMAIN own
    <3>1. n \in DOMAIN from \ removed BY <1>1, <2>2
    <3>2. PICK d : i[n] = [value |-> from[n].value, secret |-> from[n].secret,
                           default |-> d]
      BY <1>3, <2>2, <3>1
    <3>3. /\ IsEntry(i[n]) /\ i[n].value = from[n].value
          /\ i[n].secret = from[n].secret
      BY <3>2, EntryOf
    <3> QED BY <3>1, <3>3, ClearOf
  <2> QED BY <2>1, <2>2
<1> HIDE DEF i
<1>5. IsList(i) /\ Shows(i) \subseteq Shows(from) \cup SentInTheClear(own)
  BY <1>4 DEF IsList, Shows
<1> QED BY <1>5 DEF i

-----------------------------------------------------------------------------
(* Steps                                                                   *)

\* Whatever touches the session only, if it leaves it a list like the others.
LEMMA SessionKeeps ==
  ASSUME Inv, UNCHANGED <<defaults, holder, req, latest>>, public \subseteq public',
         sess' = [at |-> sess'.at, env |-> sess'.env, dotenv |-> sess'.dotenv,
                  remote |-> sess'.remote],
         IsList(sess'.env), Shows(sess'.env) \subseteq public', Validate(sess'.env)
  PROVE  Inv'
<1>1. Shape' BY DEF Inv, Shape
<1>2. Locked' BY DEF Inv, Locked
<1>3. NoLostDefault' BY DEF Inv, NoLostDefault
<1>4. Hidden' BY DEF Inv, Hidden
<1>5. Fitting' BY DEF Inv, Fitting
<1> QED BY <1>1, <1>2, <1>3, <1>4, <1>5 DEF Inv

LEMMA SessionOf ==
  ASSUME NEW s, NEW a, NEW e, NEW d, NEW m,
         s = [at |-> a, env |-> e, dotenv |-> d, remote |-> m]
  PROVE  /\ s = [at |-> s.at, env |-> s.env, dotenv |-> s.dotenv, remote |-> s.remote]
         /\ s.env = e
  OBVIOUS

\* An edit that begins takes the lock, so no other one is on its way.
LEMMA ReadKeeps ==
  ASSUME Inv, NEW r \in Requests, ReadDefaults(r)
  PROVE  Inv'
<1>1. PICK patch \in Bodies :
        /\ public' = public \cup SentInTheClear(patch)
        /\ IF PatchApplies(defaults, patch)
             THEN /\ holder' = r
                  /\ req' = [req EXCEPT ![r] =
                       [at |-> "write", patch |-> patch,
                        next |-> Patched(defaults, patch)]]
             ELSE UNCHANGED <<holder, req>>
  BY DEF ReadDefaults
<1>2. UNCHANGED <<defaults, sess, latest>> BY DEF ReadDefaults
<1>3. CASE ~PatchApplies(defaults, patch)
  BY <1>1, <1>2, <1>3, SessionKeeps DEF Inv, Shape, Hidden, Fitting
<1>4. CASE PatchApplies(defaults, patch)
  <2> DEFINE q == [at |-> "write", patch |-> patch, next |-> Patched(defaults, patch)]
  <2>1. \A x \in Requests : ~Writing(req[x])
    BY EnvironmentAssumption DEF ReadDefaults, LockFree, Inv, Locked
  <2>2. /\ req' = [req EXCEPT ![r] = q] /\ holder' = r
        /\ public' = public \cup SentInTheClear(patch)
    BY <1>1, <1>4
  <2>3. req = [x \in Requests |-> req[x]] BY DEF Inv, Shape
  <2>4. /\ req' = [x \in Requests |-> req'[x]] /\ req'[r] = q
        /\ \A x \in Requests \ {r} : req'[x] = req[x]
    BY <2>2, <2>3
  <2>5. q = [at |-> "write", patch |-> q.patch, next |-> q.next]
        /\ q.patch = patch /\ q.next = Patched(defaults, patch)
    OBVIOUS
  <2> HIDE DEF q
  <2>6. ~PatchRefused(defaults, patch) /\ Validate(q.next)
    BY <1>4, <2>5 DEF PatchApplies
  <2>7. Shows(q.next) \subseteq public'
    BY <2>2, <2>5, <2>6, PatchMakes DEF Inv, Shape
  <2>8. \A x \in Requests : Writing(req'[x]) => x = r BY <2>1, <2>4 DEF Writing
  <2>9. Shape' BY <1>2, <2>4, <2>5, <2>8 DEF Inv, Shape
  <2>10. Locked' BY <1>2, <2>2, <2>4, <2>5, <2>6, <2>8 DEF Locked
  <2>11. NoLostDefault' BY <1>2 DEF Inv, NoLostDefault
  <2>12. Hidden' BY <1>2, <2>2, <2>4, <2>7, <2>8 DEF Inv, Hidden
  <2>13. Fitting' BY <1>2, <2>4, <2>6, <2>8 DEF Inv, Fitting
  <2> QED BY <2>9, <2>10, <2>11, <2>12, <2>13 DEF Inv
<1> QED BY <1>3, <1>4

\* The edit that ends wrote the patch of what was stored until then.
LEMMA WriteKeeps ==
  ASSUME Inv, NEW r \in Requests, WriteDefaults(r)
  PROVE  Inv'
<1> DEFINE patch == req[r].patch
<1>1. Writing(req[r]) BY DEF WriteDefaults, Writing, Idle
<1>2. /\ ~PatchRefused(defaults, patch) /\ req[r].next = Patched(defaults, patch)
      /\ holder = r /\ IsList(defaults)
      /\ Shows(req[r].next) \subseteq public /\ Validate(req[r].next)
  BY <1>1 DEF Inv, Shape, Locked, Hidden, Fitting
<1>3. \A x \in Requests : ~Writing(req'[x])
  <2>1. req' = [req EXCEPT ![r] = Idle] BY DEF WriteDefaults
  <2>2. req = [x \in Requests |-> req[x]] BY DEF Inv, Shape
  <2>3. \A x \in Requests \ {r} : ~Writing(req[x]) BY <1>2 DEF Inv, Locked
  <2> QED BY <2>1, <2>2, <2>3 DEF Writing
<1>4. req' = [x \in Requests |-> req'[x]] BY DEF WriteDefaults, Inv, Shape
<1>5. UNCHANGED <<sess, public>> BY DEF WriteDefaults
<1>6. Locked' BY <1>3 DEF Locked
<1>7. CASE UNCHANGED <<defaults, latest>>
  <2>1. Shape' BY <1>3, <1>4, <1>5, <1>7 DEF Inv, Shape
  <2>2. NoLostDefault' BY <1>7 DEF Inv, NoLostDefault
  <2>3. Hidden' BY <1>3, <1>5, <1>7 DEF Inv, Hidden
  <2>4. Fitting' BY <1>3, <1>5, <1>7 DEF Inv, Fitting
  <2> QED BY <1>6, <2>1, <2>2, <2>3, <2>4 DEF Inv
<1>8. CASE /\ defaults' = req[r].next
           /\ latest' = [n \in DOMAIN patch |->
                IF patch[n].value = Keep /\ n \in DOMAIN latest THEN latest[n]
                ELSE patch[n].value]
  <2>1. /\ IsList(defaults') /\ DOMAIN defaults' = DOMAIN patch
        /\ \A n \in DOMAIN patch :
             defaults'[n].value =
               IF patch[n].value = Keep THEN defaults[n].value ELSE patch[n].value
        /\ \A n \in DOMAIN patch : patch[n].value = Keep => n \in DOMAIN defaults
    BY <1>2, <1>8, PatchMakes
  <2>2. Shape' BY <1>3, <1>4, <1>5, <2>1 DEF Inv, Shape
  <2>3. NoLostDefault'
    <3>1. DOMAIN latest' = DOMAIN defaults' BY <1>8, <2>1
    <3>2. ASSUME NEW n \in DOMAIN patch PROVE defaults'[n].value = latest'[n]
      <4>1. CASE patch[n].value = Keep
        <5>1. n \in DOMAIN defaults /\ DOMAIN defaults = DOMAIN latest
              /\ defaults[n].value = latest[n]
          BY <2>1, <4>1 DEF Inv, NoLostDefault
        <5> QED BY <5>1, <4>1, <2>1, <1>8
      <4>2. CASE patch[n].value # Keep BY <4>2, <2>1, <1>8
      <4> QED BY <4>1, <4>2
    <3> QED BY <3>1, <3>2, <2>1 DEF NoLostDefault
  <2>4. Hidden' BY <1>2, <1>3, <1>5, <1>8 DEF Inv, Hidden
  <2>5. Fitting' BY <1>2, <1>3, <1>5, <1>8 DEF Inv, Fitting
  <2> QED BY <1>6, <2>2, <2>3, <2>4, <2>5 DEF Inv
<1> QED BY <1>7, <1>8 DEF WriteDefaults

LEMMA CreateKeeps == Inv /\ Create => Inv'
<1> SUFFICES ASSUME Inv, Create PROVE Inv' OBVIOUS
<1>1. PICK own \in Bodies, removed \in SUBSET Names, dotenv \in BOOLEAN,
          remote \in BOOLEAN :
        LET unable == remote /\ ~supports
            env == IF unable THEN NoEnv ELSE Inherit(defaults, own, removed) IN
        /\ \A n \in DOMAIN own : own[n].value # Keep
        /\ Accepted(own, env)
        /\ Spawns(env, dotenv, remote)
        /\ public' = public \cup SentInTheClear(own)
  BY DEF Create
<1> DEFINE env == IF remote /\ ~supports THEN NoEnv ELSE Inherit(defaults, own, removed)
<1>2. /\ \A n \in DOMAIN own : own[n].value # Keep
      /\ Validate(env) /\ public' = public \cup SentInTheClear(own)
      /\ sess' = [at |-> "running", env |-> env, dotenv |-> dotenv, remote |-> remote]
  BY <1>1 DEF Accepted, Spawns
<1>3. IsList(env) /\ Shows(env) \subseteq Shows(defaults) \cup SentInTheClear(own)
  <2>1. CASE remote /\ ~supports
    BY <2>1 DEF NoEnv, IsList, Shows
  <2>2. CASE ~(remote /\ ~supports)
    BY <2>2, <1>2, InheritMakes DEF Inv, Shape
  <2> QED BY <2>1, <2>2
<1> HIDE DEF env
<1>4. /\ sess' = [at |-> sess'.at, env |-> sess'.env, dotenv |-> sess'.dotenv,
                  remote |-> sess'.remote]
      /\ sess'.env = env
  BY <1>2, SessionOf
<1>5. Shows(sess'.env) \subseteq public' BY <1>2, <1>3, <1>4 DEF Inv, Hidden
<1> QED BY <1>2, <1>3, <1>4, <1>5, SessionKeeps DEF Create

LEMMA EditKeeps == Inv /\ Edit => Inv'
<1> SUFFICES ASSUME Inv, Edit PROVE Inv' OBVIOUS
<1>1. PICK patch \in Bodies, dotenv \in BOOLEAN :
        /\ PatchApplies(sess.env, patch)
        /\ sess' = [sess EXCEPT !.env = Patched(sess.env, patch), !.dotenv = dotenv]
        /\ public' = public \cup SentInTheClear(patch)
  BY DEF Edit
<1>2. sess' = [at |-> sess.at, env |-> Patched(sess.env, patch), dotenv |-> dotenv,
               remote |-> sess.remote]
  BY <1>1 DEF Inv, Shape
<1>3. /\ sess' = [at |-> sess'.at, env |-> sess'.env, dotenv |-> sess'.dotenv,
                  remote |-> sess'.remote]
      /\ sess'.env = Patched(sess.env, patch)
  BY <1>2, SessionOf
<1>4. /\ IsList(sess'.env) /\ Validate(sess'.env)
      /\ Shows(sess'.env) \subseteq SentInTheClear(patch)
  BY <1>1, <1>3, PatchMakes DEF PatchApplies, Inv, Shape
<1> QED BY <1>1, <1>3, <1>4, SessionKeeps DEF Edit

\* A session that runs, stops, starts again or goes.
LEMMA LifeKeeps ==
  Inv /\ (ShellExits \/ Restart \/ Delete \/ WorldChanges \/ UNCHANGED vars) => Inv'
<1> SUFFICES ASSUME Inv, ShellExits \/ Restart \/ Delete \/ WorldChanges
                         \/ UNCHANGED vars
             PROVE Inv'
  OBVIOUS
<1>1. UNCHANGED <<defaults, holder, req, latest, public>>
  BY DEF ShellExits, Restart, Delete, WorldChanges, vars
<1>2. \E a, d, m :
        \E e \in {sess.env, NoEnv} : sess' = [at |-> a, env |-> e, dotenv |-> d, remote |-> m]
  BY DEF ShellExits, Restart, Spawns, Delete, NoSession, WorldChanges, vars, Inv, Shape
<1>3. /\ sess' = [at |-> sess'.at, env |-> sess'.env, dotenv |-> sess'.dotenv,
                  remote |-> sess'.remote]
      /\ sess'.env \in {sess.env, NoEnv}
  BY <1>2, SessionOf
<1>4. IsList(NoEnv) /\ Shows(NoEnv) = {} BY DEF NoEnv, IsList, Shows
<1>5. IsList(sess'.env) /\ Shows(sess'.env) \subseteq public' /\ Validate(sess'.env)
  BY <1>1, <1>3, <1>4, NothingFits DEF Inv, Shape, Hidden, Fitting
<1> QED BY <1>1, <1>3, <1>5, SessionKeeps

LEMMA InvNext == Inv /\ [Next]_vars => Inv'
  BY ReadKeeps, WriteKeeps, CreateKeeps, EditKeeps, LifeKeeps DEF Next

-----------------------------------------------------------------------------
\* However many replacements of the defaults overlap, each default has the value
\* last written to it (EnvStore.Update).
THEOREM DefaultsAreNotLost == Spec => []NoLostDefault
<1>1. Inv => NoLostDefault BY DEF Inv
<1> QED BY <1>1, InvInit, InvNext, PTL DEF Spec

\* No sequence of inheriting, keeping, editing and making public shows a value
\* that nobody sent as not secret (ApplyPatch, Inherit).
THEOREM SecretsAreNotShown == Spec => []NeverRevealed
<1>1. Inv => NeverRevealed BY DEF Inv, Hidden, Shows, NeverRevealed
<1> QED BY <1>1, InvInit, InvNext, PTL DEF Spec

\* Every list that is stored is within the limits, put together from two that
\* were or not (Validate in CreateLocal, CreateSSH and ApplyPatch).
THEOREM StoredListsFit == Spec => []StoredFits
<1>1. Inv => StoredFits BY DEF Inv, Fitting, StoredFits
<1> QED BY <1>1, InvInit, InvNext, PTL DEF Spec

-----------------------------------------------------------------------------
(* Induction, greatest elements and sums                                   *)

Before == {ss \in Nat \X Nat : ss[1] < ss[2]}

\* A set that has 0, and with every number the next, has all numbers.
LEMMA SetInduction ==
  ASSUME NEW S, 0 \in S, \A n \in Nat : n \in S => n + 1 \in S
  PROVE  Nat \subseteq S
<1> DEFINE T == Nat \ S
<1> SUFFICES ASSUME T # {} PROVE FALSE OBVIOUS
<1>1. IsWellFoundedOn(Before, Nat) BY NatLessThanWellFounded DEF OpToRel, Before
<1>2. PICK x \in T : \A y \in T : ~(<<y, x>> \in Before) BY <1>1, WFMin
<1>3. \A y \in Nat : <<y, x>> \in Before <=> y < x BY <1>2 DEF Before
<1>4. x \in Nat /\ x # 0 /\ x \notin S BY <1>2
<1>5. x - 1 \in Nat /\ x - 1 < x /\ x - 1 + 1 = x BY <1>4
<1>6. x - 1 \in S BY <1>2, <1>3, <1>5
<1> QED BY <1>4, <1>5, <1>6

Bounded(k) ==
  \A s \in SUBSET Nat : s # {} /\ (\A y \in s : y <= k) => Max(s) \in s /\ \A y \in s : Max(s) >= y

LEMMA MaxOf == \A k \in Nat : Bounded(k)
<1> DEFINE S == {k \in Nat : Bounded(k)}
<1>0. ASSUME NEW s, NEW m \in s, \A y \in s : m >= y
      PROVE  Max(s) \in s /\ \A y \in s : Max(s) >= y
  BY <1>0 DEF Max
<1>1. 0 \in S
  <2> SUFFICES ASSUME NEW s \in SUBSET Nat, s # {}, \A y \in s : y <= 0
               PROVE  Max(s) \in s /\ \A y \in s : Max(s) >= y
    BY DEF Bounded
  <2>1. \A y \in s : y \in Nat /\ y <= 0 OBVIOUS
  <2>2. \A y \in s : y = 0 /\ 0 >= y BY <2>1
  <2>3. 0 \in s BY <2>2
  <2> QED BY <1>0, <2>2, <2>3
<1>2. ASSUME NEW k \in Nat, k \in S PROVE k + 1 \in S
  <2> SUFFICES ASSUME NEW s \in SUBSET Nat, s # {}, \A y \in s : y <= k + 1
               PROVE  Max(s) \in s /\ \A y \in s : Max(s) >= y
    BY DEF Bounded
  <2>1. CASE k + 1 \in s
    <3>1. \A y \in s : k + 1 >= y OBVIOUS
    <3> QED BY <1>0, <2>1, <3>1
  <2>2. CASE k + 1 \notin s
    <3>1. \A y \in s : y <= k BY <2>2
    <3> QED BY <1>2, <3>1 DEF Bounded
  <2> QED BY <2>1, <2>2
<1> HIDE DEF S
<1>3. Nat \subseteq S BY <1>1, <1>2, SetInduction
<1> QED BY <1>3 DEF S

\* The greatest element of a set of numbers up to k.
LEMMA MaxUpTo ==
  ASSUME NEW k \in Nat, NEW s \in SUBSET (1..k), s # {}
  PROVE  Max(s) \in s /\ (\A y \in s : Max(s) >= y) /\ \A j \in Nat : j + 1 = k => s \ {Max(s)} \subseteq 1..j
<1>1. s \in SUBSET Nat /\ \A y \in s : y <= k OBVIOUS
<1>2. Max(s) \in s /\ \A y \in s : Max(s) >= y BY <1>1, MaxOf DEF Bounded
<1>3. ASSUME NEW j \in Nat, j + 1 = k, NEW y \in s \ {Max(s)} PROVE y \in 1..j
  <2> DEFINE m == Max(s)
  <2>1. m \in s /\ m >= y /\ y # m /\ y \in s BY <1>2, <1>3
  <2> HIDE DEF m
  <2>2. m \in 1..k /\ y \in 1..k BY <2>1
  <2> QED BY <1>3, <2>1, <2>2
<1> QED BY <1>2, <1>3

OneOf(s) == CHOOSE x \in s : TRUE

\* a has the sums of h over the subsets of S.
SumsOf(a, h, S) ==
  a = [s \in SUBSET S |-> IF s = {} THEN 0 ELSE h[OneOf(s)] + a[s \ {OneOf(s)}]]

Smaller(S, k) == {s \in SUBSET S : Cardinality(s) <= k}

\* A subset with an element less.
LEMMA OneLess ==
  ASSUME NEW S, IsFiniteSet(S), NEW s \in SUBSET S
  PROVE  /\ Cardinality(s) \in Nat /\ (Cardinality(s) = 0 <=> s = {})
         /\ s # {} => /\ OneOf(s) \in s /\ s \ {OneOf(s)} \in SUBSET S
                      /\ Cardinality(s \ {OneOf(s)}) = Cardinality(s) - 1
<1>1. IsFiniteSet(s) BY FS_Subset
<1>2. Cardinality(s) \in Nat /\ (Cardinality(s) = 0 <=> s = {}) BY <1>1, FS_CardinalityType, FS_EmptySet
<1>3. s # {} => OneOf(s) \in s BY DEF OneOf
<1> QED BY <1>1, <1>2, <1>3, FS_RemoveElement

LEMMA SumsExist ==
  ASSUME NEW S, IsFiniteSet(S), NEW h
  PROVE  \E a : SumsOf(a, h, S)
<1> DEFINE E(g, k) == g = [s \in Smaller(S, k) |-> IF s = {} THEN 0 ELSE h[OneOf(s)] + g[s \ {OneOf(s)}]]
           K == {k \in Nat : \E g : E(g, k)}
<1>1. 0 \in K
  <2>1. ASSUME NEW s \in Smaller(S, 0) PROVE s = {}
    <3>1. s \in SUBSET S /\ Cardinality(s) <= 0 BY DEF Smaller
    <3>2. Cardinality(s) \in Nat /\ (Cardinality(s) = 0 <=> s = {}) BY <3>1, OneLess
    <3> QED BY <3>1, <3>2
  <2> DEFINE g == [s \in Smaller(S, 0) |-> 0]
  <2>2. g = [s \in Smaller(S, 0) |-> IF s = {} THEN 0 ELSE h[OneOf(s)] + g[s \ {OneOf(s)}]] BY <2>1
  <2>3. E(g, 0) BY <2>2
  <2> QED BY <2>3
<1>2. ASSUME NEW k \in Nat, k \in K PROVE k + 1 \in K
  <2>1. PICK g : E(g, k) BY <1>2
  <2> DEFINE f == [s \in Smaller(S, k + 1) |-> IF s = {} THEN 0 ELSE h[OneOf(s)] + g[s \ {OneOf(s)}]]
  <2>2. ASSUME NEW s \in Smaller(S, k) PROVE s \in Smaller(S, k + 1)
    <3>1. s \in SUBSET S /\ Cardinality(s) <= k BY DEF Smaller
    <3>2. Cardinality(s) \in Nat BY <3>1, OneLess
    <3>3. Cardinality(s) <= k + 1 BY <3>1, <3>2
    <3> QED BY <3>1, <3>3 DEF Smaller
  <2>3. \A s \in Smaller(S, k) : f[s] = g[s] BY <2>1, <2>2
  <2>4. \A s \in Smaller(S, k + 1) : s # {} => s \ {OneOf(s)} \in Smaller(S, k)
    BY OneLess DEF Smaller
  <2>5. \A s \in Smaller(S, k + 1) : s # {} => f[s \ {OneOf(s)}] = g[s \ {OneOf(s)}] BY <2>3, <2>4
  <2>6. f = [s \in Smaller(S, k + 1) |-> IF s = {} THEN 0 ELSE h[OneOf(s)] + f[s \ {OneOf(s)}]] BY <2>5
  <2>7. E(f, k + 1) BY <2>6
  <2> HIDE DEF E, f
  <2> QED BY <2>7
<1>3. Cardinality(S) \in Nat BY FS_CardinalityType
<1> HIDE DEF K
<1>4. Cardinality(S) \in K BY <1>1, <1>2, <1>3, SetInduction
<1>5. PICK g : E(g, Cardinality(S)) BY <1>4 DEF K
<1>6. Smaller(S, Cardinality(S)) = SUBSET S BY FS_Subset DEF Smaller
<1> QED BY <1>5, <1>6 DEF SumsOf

\* A sum of no more is no more.
LEMMA SumsCompare ==
  ASSUME NEW S, IsFiniteSet(S), NEW a, NEW b, NEW g, NEW h, SumsOf(a, g, S), SumsOf(b, h, S),
         \A n \in S : g[n] \in Nat /\ h[n] \in Nat /\ g[n] <= h[n]
  PROVE  a[S] \in Nat /\ b[S] \in Nat /\ a[S] <= b[S]
<1> DEFINE OK(s) == a[s] \in Nat /\ b[s] \in Nat /\ a[s] <= b[s]
           K == {k \in Nat : \A s \in SUBSET S : Cardinality(s) = k => OK(s)}
<1>0. \A s \in SUBSET S : /\ a[s] = IF s = {} THEN 0 ELSE g[OneOf(s)] + a[s \ {OneOf(s)}]
                          /\ b[s] = IF s = {} THEN 0 ELSE h[OneOf(s)] + b[s \ {OneOf(s)}]
  BY DEF SumsOf
<1>1. 0 \in K
  <2> SUFFICES ASSUME NEW s \in SUBSET S, Cardinality(s) = 0 PROVE OK(s) OBVIOUS
  <2>1. s = {} BY OneLess
  <2>2. a[s] = 0 /\ b[s] = 0 BY <1>0, <2>1
  <2> QED BY <2>1, <2>2
<1>2. ASSUME NEW k \in Nat, k \in K PROVE k + 1 \in K
  <2> SUFFICES ASSUME NEW s \in SUBSET S, Cardinality(s) = k + 1 PROVE OK(s) OBVIOUS
  <2> DEFINE x == OneOf(s)
             r == s \ {x}
  <2>1. s # {} /\ x \in s /\ r \in SUBSET S /\ Cardinality(r) = k
    <3>0. Cardinality(s) \in Nat /\ (Cardinality(s) = 0 <=> s = {})
      <4> HIDE DEF K, OK, x, r
      <4> QED BY OneLess
    <3>1. s # {} BY <3>0
    <3>2. x \in s /\ r \in SUBSET S /\ Cardinality(r) = Cardinality(s) - 1 BY <3>1, OneLess
    <3> QED BY <3>1, <3>2
  <2>2. OK(r) BY <1>2, <2>1
  <2>3. a[s] = g[x] + a[r] /\ b[s] = h[x] + b[r] BY <1>0, <2>1
  <2>4. g[x] \in Nat /\ h[x] \in Nat /\ g[x] <= h[x] BY <2>1
  <2> HIDE DEF x, r
  <2> QED BY <2>2, <2>3, <2>4
<1> HIDE DEF K
<1>3. Cardinality(S) \in K BY <1>1, <1>2, FS_CardinalityType, SetInduction
<1> QED BY <1>3 DEF K

\* Sums that differ in one number.
LEMMA SumsDiffer ==
  ASSUME NEW S, IsFiniteSet(S), NEW a, NEW b, NEW g, NEW h, SumsOf(a, g, S), SumsOf(b, h, S),
         \A n \in S : g[n] \in Nat /\ h[n] \in Nat,
         NEW m \in S, \A n \in S : n # m => g[n] = h[n]
  PROVE  a[S] \in Nat /\ b[S] = a[S] + h[m] - g[m]
<1> DEFINE OK(s) == a[s] \in Nat /\ b[s] = IF m \in s THEN a[s] + h[m] - g[m] ELSE a[s]
           K == {k \in Nat : \A s \in SUBSET S : Cardinality(s) = k => OK(s)}
<1>0. \A s \in SUBSET S : /\ a[s] = IF s = {} THEN 0 ELSE g[OneOf(s)] + a[s \ {OneOf(s)}]
                          /\ b[s] = IF s = {} THEN 0 ELSE h[OneOf(s)] + b[s \ {OneOf(s)}]
  BY DEF SumsOf
<1>1. 0 \in K
  <2> SUFFICES ASSUME NEW s \in SUBSET S, Cardinality(s) = 0 PROVE OK(s) OBVIOUS
  <2>1. s = {} BY OneLess
  <2>2. a[s] = 0 /\ b[s] = 0 BY <1>0, <2>1
  <2> QED BY <2>1, <2>2
<1>2. ASSUME NEW k \in Nat, k \in K PROVE k + 1 \in K
  <2> SUFFICES ASSUME NEW s \in SUBSET S, Cardinality(s) = k + 1 PROVE OK(s) OBVIOUS
  <2> DEFINE x == OneOf(s)
             r == s \ {x}
  <2>1. s # {} /\ x \in s /\ r \in SUBSET S /\ Cardinality(r) = k
    <3>0. Cardinality(s) \in Nat /\ (Cardinality(s) = 0 <=> s = {})
      <4> HIDE DEF K, OK, x, r
      <4> QED BY OneLess
    <3>1. s # {} BY <3>0
    <3>2. x \in s /\ r \in SUBSET S /\ Cardinality(r) = Cardinality(s) - 1 BY <3>1, OneLess
    <3> QED BY <3>1, <3>2
  <2>2. OK(r) BY <1>2, <2>1
  <2>3. a[s] = g[x] + a[r] /\ b[s] = h[x] + b[r] BY <1>0, <2>1
  <2>4. g[x] \in Nat /\ h[x] \in Nat /\ g[m] \in Nat /\ h[m] \in Nat /\ (x # m => g[x] = h[x]) BY <2>1
  <2>5. m \in s <=> x = m \/ m \in r BY <2>1
  <2>6. x = m => m \notin r OBVIOUS
  <2> HIDE DEF x, r
  <2>7. CASE x = m BY <2>2, <2>3, <2>4, <2>5, <2>6, <2>7
  <2>8. CASE x # m BY <2>2, <2>3, <2>4, <2>5, <2>8
  <2> QED BY <2>7, <2>8
<1> HIDE DEF K
<1>3. Cardinality(S) \in K BY <1>1, <1>2, FS_CardinalityType, SetInduction
<1> QED BY <1>3 DEF K

-----------------------------------------------------------------------------
(* Reading the .env line by line                                           *)

NoLines == [env |-> NoEnv, total |-> 0]

\* at holds what is accepted of the first i lines.
AreAccepted(at, lines, k) ==
  at[0] = NoLines /\ \A i \in 1..k : at[i] = AcceptLine(at[i - 1], lines[i])

\* g has what is accepted of each set of lines up to k.
FoldsLines(g, lines, k) ==
  g = [s \in SUBSET (1..k) |-> IF s = {} THEN NoLines
                               ELSE AcceptLine(g[s \ {Max(s)}], lines[Max(s)])]

LEMMA FoldExists ==
  ASSUME NEW lines, NEW k \in Nat
  PROVE  \E g : FoldsLines(g, lines, k)
<1> DEFINE K == {j \in Nat : \E g : FoldsLines(g, lines, j)}
<1>1. 0 \in K
  <2> DEFINE g == [s \in SUBSET (1..0) |-> NoLines]
  <2>1. 1..0 = {} OBVIOUS
  <2>2. \A s \in SUBSET (1..0) : s = {} BY <2>1
  <2>3. g = [s \in SUBSET (1..0) |-> IF s = {} THEN NoLines
                                     ELSE AcceptLine(g[s \ {Max(s)}], lines[Max(s)])]
    BY <2>2
  <2>4. FoldsLines(g, lines, 0) BY <2>3 DEF FoldsLines
  <2> QED BY <2>4
<1>2. ASSUME NEW j \in Nat, j \in K PROVE j + 1 \in K
  <2>1. PICK g : FoldsLines(g, lines, j) BY <1>2
  <2> DEFINE S == SUBSET (1..(j + 1))
             f == [s \in S |-> IF s = {} THEN NoLines
                               ELSE AcceptLine(g[s \ {Max(s)}], lines[Max(s)])]
  <2>2. \A s \in SUBSET (1..j) : s \in S OBVIOUS
  <2>3. \A s \in SUBSET (1..j) : f[s] = g[s]
    <3>1. \A s \in SUBSET (1..j) :
            f[s] = IF s = {} THEN NoLines ELSE AcceptLine(g[s \ {Max(s)}], lines[Max(s)])
      BY <2>2
    <3> QED BY <2>1, <3>1 DEF FoldsLines
  <2>4. \A s \in S : s # {} => s \ {Max(s)} \in SUBSET (1..j)
    <3>1. j + 1 \in Nat OBVIOUS
    <3> QED BY <3>1, MaxUpTo
  <2>5. \A s \in S : s # {} => f[s \ {Max(s)}] = g[s \ {Max(s)}] BY <2>3, <2>4
  <2>6. f = [s \in S |-> IF s = {} THEN NoLines ELSE AcceptLine(f[s \ {Max(s)}], lines[Max(s)])]
    BY <2>5
  <2>7. FoldsLines(f, lines, j + 1) BY <2>6 DEF FoldsLines
  <2> HIDE DEF f
  <2> QED BY <2>7
<1> HIDE DEF K
<1>3. k \in K BY <1>1, <1>2, SetInduction
<1> QED BY <1>3 DEF K

LEMMA ParseIs ==
  ASSUME NEW lines, NEW k \in Nat, DOMAIN lines = 1..k
  PROVE  \E at : AreAccepted(at, lines, k) /\ Parse(lines) = at[k].env
<1> DEFINE Body(g) == [s \in SUBSET DOMAIN lines |->
                         IF s = {} THEN [env |-> NoEnv, total |-> 0]
                         ELSE LET x == Max(s) IN AcceptLine(g[s \ {x}], lines[x])]
           iter == CHOOSE g : g = Body(g)
<1>0. \A g : Body(g) = [s \in SUBSET (1..k) |-> IF s = {} THEN NoLines
                                 ELSE AcceptLine(g[s \ {Max(s)}], lines[Max(s)])]
  BY DEF NoLines
<1> HIDE DEF Body
<1>1. \E g : g = Body(g)
  <2>1. PICK g : FoldsLines(g, lines, k) BY FoldExists
  <2>2. g = Body(g) BY <1>0, <2>1 DEF FoldsLines
  <2> QED BY <2>2
<1>2. iter = Body(iter) BY <1>1
<1> USE DEF Body
<1>3. Parse(lines) = iter[DOMAIN lines].env
  BY DEF Parse, FoldLeft, MapThenFoldSet
<1> HIDE DEF iter
<1>4. \A s \in SUBSET (1..k) :
        iter[s] = IF s = {} THEN NoLines ELSE AcceptLine(iter[s \ {Max(s)}], lines[Max(s)])
  BY <1>2 DEF NoLines
<1> DEFINE at == [i \in 0..k |-> iter[1..i]]
<1>5. at[0] = NoLines
  <2>1. 1..0 = {} /\ 0 \in 0..k OBVIOUS
  <2> QED BY <1>4, <2>1
<1>6. ASSUME NEW i \in 1..k PROVE at[i] = AcceptLine(at[i - 1], lines[i])
  <2>0. i \in Nat /\ 1 <= i /\ i <= k OBVIOUS
  <2>1. /\ 1..i \in SUBSET (1..k) /\ 1..i # {}
        /\ i \in 0..k /\ i - 1 \in 0..k /\ (1..i) \ {i} = 1..(i - 1)
    <3>1. i \in 0..k /\ i - 1 \in 0..k /\ i \in 1..i BY <2>0
    <3>2. \A y \in 1..i : y \in 1..k BY <2>0
    <3>3. \A y : y \in (1..i) \ {i} <=> y \in 1..(i - 1) BY <2>0
    <3>4. (1..i) \ {i} = 1..(i - 1) BY <3>3
    <3> QED BY <3>1, <3>2, <3>4
  <2>2. Max(1..i) = i
    <3>0. \A y \in 1..i : y \in Nat /\ y <= i BY <2>0
    <3>1. 1..i \in SUBSET Nat /\ i \in 1..i /\ i \in Nat /\ \A y \in 1..i : y <= i
      BY <2>0, <3>0
    <3>2. Max(1..i) \in 1..i /\ Max(1..i) >= i BY <3>1, MaxOf DEF Bounded
    <3> QED BY <3>1, <3>2
  <2> QED BY <1>4, <2>1, <2>2
<1>7. AreAccepted(at, lines, k) BY <1>5, <1>6 DEF AreAccepted
<1>8. Parse(lines) = at[k].env BY <1>3
<1> HIDE DEF at
<1> QED BY <1>7, <1>8

\* The most the lines of f can mean by n.
Most(f, n) == Max({0} \cup {Bytes(f.lines[i].means) : i \in Meant(f, n)})

MostOfAll(f) ==
  MapThenSumSet(
    LAMBDA n : Max({0} \cup {Bytes(f.lines[i].means) : i \in Meant(f, n)}), Names)

LEMMA MostIs ==
  ASSUME IsFiniteSet(Names), NEW f
  PROVE  \E a : SumsOf(a, [n \in Names |-> Most(f, n)], Names) /\ a[Names] = MostOfAll(f)
<1> DEFINE h == [n \in Names |-> Most(f, n)]
           Body(a) == [s \in SUBSET Names |->
                         IF s = {} THEN 0
                         ELSE LET x == CHOOSE x \in s : TRUE
                              IN  Max({0} \cup {Bytes(f.lines[i].means) : i \in Meant(f, x)}) + a[s \ {x}]]
           iter == CHOOSE a : a = Body(a)
<1>0. \A a : Body(a) = [s \in SUBSET Names |-> IF s = {} THEN 0 ELSE h[OneOf(s)] + a[s \ {OneOf(s)}]]
  BY DEF OneOf, Most
<1> HIDE DEF h
<1>1. \E a : a = Body(a)
  <2>1. PICK a : SumsOf(a, h, Names) BY SumsExist
  <2>2. a = Body(a) BY <1>0, <2>1 DEF SumsOf
  <2> HIDE DEF Body
  <2> QED BY <2>2
<1> HIDE DEF Body
<1>2. iter = Body(iter) BY <1>1
<1>3. SumsOf(iter, h, Names) BY <1>0, <1>2 DEF SumsOf
<1> USE DEF Body
<1>4. iter[Names] = MostOfAll(f)
  BY DEF MostOfAll, MapThenSumSet, MapThenFoldSet
<1> HIDE DEF iter
<1>5. SumsOf(iter, [n \in Names |-> Most(f, n)], Names) BY <1>3 DEF h
<1> QED BY <1>4, <1>5

-----------------------------------------------------------------------------
(* What the .env means                                                     *)

\* The first i lines of f that mean something for n.
MeantBy(f, n, i) == {j \in 1..i : f.lines[j].name = n /\ f.lines[j].means # Keep}

SizeIn(env, n) == IF n \in DOMAIN env THEN Bytes(env[n]) ELSE 0

Sums(env, total) ==
  \E a : SumsOf(a, [n \in Names |-> SizeIn(env, n)], Names) /\ total = a[Names]

\* env has what the first i lines mean.
HasMeant(env, f, i) ==
  /\ DOMAIN env = {n \in Names : MeantBy(f, n, i) # {}}
  /\ \A n \in DOMAIN env : env[n] = f.lines[Max(MeantBy(f, n, i))].means

LEMMA MostBounds ==
  ASSUME NEW f, Fits(f), LinesAreMeant(f), NEW n \in Names
  PROVE  /\ Most(f, n) \in Nat
         /\ \A i \in Meant(f, n) : /\ Bytes(f.lines[i].means) \in Nat
                                   /\ Bytes(f.lines[i].means) <= Most(f, n)
                                   /\ Len(f.lines[i].means) <= MaxValueLen
<1> DEFINE S == {0} \cup {Bytes(f.lines[i].means) : i \in Meant(f, n)}
<1>1. MaxValueLen \in Nat BY EnvironmentAssumption
<1>2. ASSUME NEW i \in Meant(f, n)
      PROVE  /\ Len(f.lines[i].means) <= MaxValueLen
             /\ Bytes(f.lines[i].means) \in Nat
             /\ Bytes(f.lines[i].means) <= 1 + MaxValueLen
  <2>1. Len(f.lines[i].means) \in Nat BY DEF Meant, LinesAreMeant, LineIsMeant
  <2>2. Len(f.lines[i].means) <= MaxValueLen BY DEF Fits
  <2> QED BY <1>1, <2>1, <2>2 DEF Bytes
<1>3. S \in SUBSET Nat /\ 0 \in S /\ \A y \in S : y <= 1 + MaxValueLen BY <1>1, <1>2
<1>4. \A i \in Meant(f, n) : Bytes(f.lines[i].means) \in S OBVIOUS
<1>5. Most(f, n) = Max(S) BY DEF Most
<1> HIDE DEF S
<1>6. 1 + MaxValueLen \in Nat /\ S # {} BY <1>1, <1>3
<1>7. Max(S) \in S /\ \A y \in S : Max(S) >= y BY <1>3, <1>6, MaxOf DEF Bounded
<1>8. Max(S) \in Nat BY <1>3, <1>7
<1>9. \A i \in Meant(f, n) : Bytes(f.lines[i].means) <= Max(S)
  <2> SUFFICES ASSUME NEW i \in Meant(f, n) PROVE Bytes(f.lines[i].means) <= Max(S) OBVIOUS
  <2>1. Max(S) >= Bytes(f.lines[i].means) /\ Bytes(f.lines[i].means) \in Nat BY <1>2, <1>4, <1>7
  <2> QED BY <1>8, <2>1
<1> QED BY <1>2, <1>5, <1>8, <1>9

\* The last of the lines so far is one of them.
LEMMA LastMeant ==
  ASSUME NEW f, NEW n, NEW i \in Nat, MeantBy(f, n, i) # {}
  PROVE  Max(MeantBy(f, n, i)) \in MeantBy(f, n, i)
<1>1. MeantBy(f, n, i) \in SUBSET (1..i) BY DEF MeantBy
<1> QED BY <1>1, MaxUpTo

\* A line that means nothing changes nothing.
LEMMA MeantSkips ==
  ASSUME NEW f, NEW i \in Nat, f.lines[i + 1].means = Keep, NEW n
  PROVE  MeantBy(f, n, i + 1) = MeantBy(f, n, i)
<1>1. \A j : j \in 1..(i + 1) <=> j \in 1..i \/ j = i + 1 OBVIOUS
<1> QED BY <1>1 DEF MeantBy

\* A line that means something is the last of its name.
LEMMA MeantAdds ==
  ASSUME NEW f, NEW i \in Nat, f.lines[i + 1].means # Keep, NEW n
  PROVE  IF f.lines[i + 1].name = n
         THEN /\ MeantBy(f, n, i + 1) = MeantBy(f, n, i) \cup {i + 1}
              /\ Max(MeantBy(f, n, i + 1)) = i + 1
         ELSE MeantBy(f, n, i + 1) = MeantBy(f, n, i)
<1>1. \A j : j \in 1..(i + 1) <=> j \in 1..i \/ j = i + 1 OBVIOUS
<1>2. CASE f.lines[i + 1].name # n BY <1>1, <1>2 DEF MeantBy
<1>3. CASE f.lines[i + 1].name = n
  <2> DEFINE S == MeantBy(f, n, i + 1)
  <2>1. S = MeantBy(f, n, i) \cup {i + 1} BY <1>1, <1>3 DEF MeantBy
  <2>2. S \in SUBSET (1..(i + 1)) BY DEF MeantBy
  <2>3. i + 1 \in S BY <2>1
  <2> HIDE DEF S
  <2>4. Max(S) \in S /\ Max(S) >= i + 1
    <3>1. i + 1 \in Nat /\ S # {} BY <2>3
    <3> QED BY <2>2, <2>3, <3>1, MaxUpTo
  <2>5. Max(S) \in 1..(i + 1) BY <2>2, <2>4
  <2>6. Max(S) = i + 1 BY <2>4, <2>5
  <2> QED BY <1>3, <2>1, <2>6 DEF S
<1> QED BY <1>2, <1>3

\* What the lines mean with one more that means something.
LEMMA MeantNext ==
  ASSUME NEW f, NEW i \in Nat, NEW env, HasMeant(env, f, i),
         LineIsMeant(f.lines[i + 1]), f.lines[i + 1].means # Keep
  PROVE  HasMeant(Overlaid(env, [n \in {f.lines[i + 1].name} |-> f.lines[i + 1].means]), f, i + 1)
<1> DEFINE m == f.lines[i + 1].name
           v == f.lines[i + 1].means
           new == Overlaid(env, [n \in {m} |-> v])
<1>1. /\ DOMAIN new = DOMAIN env \cup {m} /\ new[m] = v
      /\ \A n \in DOMAIN env : n # m => new[n] = env[n]
  <2> HIDE DEF m, v
  <2> QED BY DEF Overlaid
<1>2. m \in Names BY DEF LineIsMeant
<1>3. /\ MeantBy(f, m, i + 1) = MeantBy(f, m, i) \cup {i + 1}
      /\ Max(MeantBy(f, m, i + 1)) = i + 1
  BY MeantAdds
<1>4. \A n : n # m => MeantBy(f, n, i + 1) = MeantBy(f, n, i) BY MeantAdds
<1> HIDE DEF m, new
<1>5. DOMAIN env = {n \in Names : MeantBy(f, n, i) # {}}
      /\ \A n \in DOMAIN env : env[n] = f.lines[Max(MeantBy(f, n, i))].means
  BY DEF HasMeant
<1>6. DOMAIN new = {n \in Names : MeantBy(f, n, i + 1) # {}} BY <1>1, <1>2, <1>3, <1>4, <1>5
<1>7. ASSUME NEW n \in DOMAIN new PROVE new[n] = f.lines[Max(MeantBy(f, n, i + 1))].means
  <2>1. CASE n = m BY <1>1, <1>3, <2>1
  <2>2. CASE n # m BY <1>1, <1>4, <1>5, <2>2
  <2> QED BY <2>1, <2>2
<1>8. HasMeant(new, f, i + 1) BY <1>6, <1>7 DEF HasMeant
<1> QED BY <1>8 DEF m, v, new

\* What has been accepted of a prefix has a size for each name that is within
\* the most that the name can have.
LEMMA MeantSizes ==
  ASSUME NEW f, Fits(f), LinesAreMeant(f), NEW i \in Nat, i <= Len(f.lines),
         NEW env, HasMeant(env, f, i), NEW n \in Names
  PROVE  /\ SizeIn(env, n) \in Nat /\ Most(f, n) \in Nat /\ SizeIn(env, n) <= Most(f, n)
         /\ n \in DOMAIN env => SizeIn(env, n) = Bytes(env[n])
<1>1. Most(f, n) \in Nat BY MostBounds
<1>2. CASE n \notin DOMAIN env BY <1>1, <1>2 DEF SizeIn
<1>3. CASE n \in DOMAIN env
  <2> DEFINE j == Max(MeantBy(f, n, i))
  <2>1. j \in MeantBy(f, n, i) /\ env[n] = f.lines[j].means BY <1>3, LastMeant DEF HasMeant
  <2> HIDE DEF j
  <2>2. Len(f.lines) \in Nat /\ DOMAIN f.lines = 1..Len(f.lines) BY DEF LinesAreMeant
  <2>3. j \in 1..i /\ f.lines[j].name = n /\ f.lines[j].means # Keep BY <2>1 DEF MeantBy
  <2>4. j \in DOMAIN f.lines BY <2>2, <2>3
  <2>5. j \in Meant(f, n) BY <2>3, <2>4 DEF Meant
  <2> QED BY <1>1, <1>3, <2>1, <2>5, MostBounds DEF SizeIn
<1> QED BY <1>2, <1>3

\* Within the limits, the total of the next line is that of its entries, and is
\* no more than the most the file can have.
LEMMA NextTotal ==
  ASSUME NEW f, Fits(f), LinesAreMeant(f), IsFiniteSet(Names),
         NEW i \in Nat, i + 1 <= Len(f.lines), NEW acc, HasMeant(acc.env, f, i),
         Sums(acc.env, acc.total), f.lines[i + 1].means # Keep
  PROVE  LET m == f.lines[i + 1].name
             v == f.lines[i + 1].means
             total == DotenvTotal(acc, m, v)
         IN  /\ total \in Nat /\ total <= MaxDotenvBytes
             /\ Sums(Overlaid(acc.env, [n \in {m} |-> v]), total)
<1> DEFINE m == f.lines[i + 1].name
           v == f.lines[i + 1].means
           new == Overlaid(acc.env, [n \in {m} |-> v])
           g == [n \in Names |-> SizeIn(acc.env, n)]
           h == [n \in Names |-> SizeIn(new, n)]
           most == [n \in Names |-> Most(f, n)]
<1>1. i + 1 \in DOMAIN f.lines BY DEF LinesAreMeant
<1>2. LineIsMeant(f.lines[i + 1]) BY <1>1 DEF LinesAreMeant
<1>3. m \in Names BY <1>2 DEF LineIsMeant
<1>4. HasMeant(new, f, i + 1) BY <1>2, MeantNext
<1>5. /\ DOMAIN new = DOMAIN acc.env \cup {m} /\ new[m] = v
      /\ \A n \in DOMAIN acc.env : n # m => new[n] = acc.env[n]
  <2> HIDE DEF m, v
  <2> QED BY DEF Overlaid
<1> HIDE DEF new, m, v
<1>6. Len(f.lines) \in Nat /\ i <= Len(f.lines) /\ i + 1 \in Nat BY DEF LinesAreMeant
<1>7. \A n \in Names :
        /\ SizeIn(acc.env, n) \in Nat
        /\ n \in DOMAIN acc.env => SizeIn(acc.env, n) = Bytes(acc.env[n])
  BY <1>6, MeantSizes
<1>8. \A n \in Names : SizeIn(new, n) \in Nat /\ Most(f, n) \in Nat /\ SizeIn(new, n) <= Most(f, n)
                       /\ (n \in DOMAIN new => SizeIn(new, n) = Bytes(new[n]))
  BY <1>4, <1>6, MeantSizes
<1>9. \A n \in Names : n # m => SizeIn(acc.env, n) = SizeIn(new, n) BY <1>5 DEF SizeIn
<1>10. PICK a : SumsOf(a, g, Names) /\ acc.total = a[Names] BY DEF Sums
<1>11. PICK b : SumsOf(b, h, Names) BY SumsExist
<1>12. PICK c : SumsOf(c, most, Names) /\ c[Names] = MostOfAll(f) BY MostIs
<1>13. c[Names] <= MaxDotenvBytes BY <1>12 DEF Fits, MostOfAll
<1>14. (\A n \in Names : g[n] = SizeIn(acc.env, n)) /\ (\A n \in Names : h[n] = SizeIn(new, n))
       /\ (\A n \in Names : most[n] = Most(f, n))
  OBVIOUS
<1> HIDE DEF g, h, most
<1>15. a[Names] \in Nat /\ b[Names] = a[Names] + h[m] - g[m]
  <2>1. \A n \in Names : g[n] \in Nat /\ h[n] \in Nat BY <1>7, <1>8, <1>14
  <2>2. \A n \in Names : n # m => g[n] = h[n] BY <1>9, <1>14
  <2> QED BY <1>3, <1>10, <1>11, <2>1, <2>2, SumsDiffer
<1>16. b[Names] \in Nat /\ c[Names] \in Nat /\ b[Names] <= c[Names]
  <2>1. \A n \in Names : h[n] \in Nat /\ most[n] \in Nat /\ h[n] <= most[n] BY <1>8, <1>14
  <2> QED BY <1>11, <1>12, <2>1, SumsCompare
<1>17. DotenvTotal(acc, m, v) = b[Names]
  <2>1. h[m] = Bytes(v) BY <1>3, <1>5, <1>8, <1>14
  <2>2. g[m] = IF m \in DOMAIN acc.env THEN Bytes(acc.env[m]) ELSE 0 BY <1>3, <1>14 DEF SizeIn
  <2>3. h[m] \in Nat /\ g[m] \in Nat BY <1>3, <1>7, <1>8, <1>14
  <2> QED BY <1>10, <1>15, <2>1, <2>2, <2>3 DEF DotenvTotal
<1>18. MaxDotenvBytes \in Nat BY EnvironmentAssumption
<1>19. DotenvTotal(acc, m, v) \in Nat /\ DotenvTotal(acc, m, v) <= MaxDotenvBytes
  BY <1>13, <1>16, <1>17, <1>18
<1>20. Sums(new, DotenvTotal(acc, m, v))
  BY <1>11, <1>17 DEF Sums, h
<1> QED BY <1>19, <1>20 DEF new, m, v

\* Within the limits, there is room for the next name.
LEMMA RoomForNext ==
  ASSUME NEW f, Fits(f), LinesAreMeant(f), IsFiniteSet(Names),
         NEW i \in Nat, i + 1 <= Len(f.lines), NEW env, HasMeant(env, f, i)
  PROVE  f.lines[i + 1].name \in DOMAIN env \/ Cardinality(DOMAIN env) < MaxEntries
<1> DEFINE m == f.lines[i + 1].name
           All == {f.lines[j].name : j \in DOMAIN f.lines}
           D == DOMAIN env
<1>1. Len(f.lines) \in Nat /\ DOMAIN f.lines = 1..Len(f.lines)
      /\ \A j \in DOMAIN f.lines : f.lines[j].name \in Names
  BY DEF LinesAreMeant, LineIsMeant
<1>2. m \in All /\ All \subseteq Names BY <1>1
<1>3. D \subseteq All
  <2> SUFFICES ASSUME NEW n \in D PROVE n \in All OBVIOUS
  <2>1. PICK j \in 1..i : f.lines[j].name = n BY DEF HasMeant, MeantBy
  <2>2. j \in DOMAIN f.lines BY <1>1
  <2> QED BY <2>1, <2>2
<1>4. Cardinality(All) <= MaxEntries BY DEF Fits
<1> HIDE DEF All, D, m
<1>5. IsFiniteSet(All) BY <1>2, FS_Subset
<1>6. IsFiniteSet(D) /\ IsFiniteSet(D \cup {m}) /\ Cardinality(D \cup {m}) <= Cardinality(All)
  BY <1>2, <1>3, <1>5, FS_Subset
<1>7. m \notin D => Cardinality(D \cup {m}) = Cardinality(D) + 1 BY <1>6, FS_AddElement
<1>8. MaxEntries \in Nat /\ Cardinality(D) \in Nat /\ Cardinality(All) \in Nat
  BY <1>5, <1>6, EnvironmentAssumption, FS_CardinalityType
<1>9. m \in D \/ Cardinality(D) < MaxEntries BY <1>4, <1>6, <1>7, <1>8
<1> QED BY <1>9 DEF D, m

\* What is accepted of the first i lines of a file within the limits.
Accepts(acc, f, i) == HasMeant(acc.env, f, i) /\ Sums(acc.env, acc.total)

LEMMA NothingAccepted ==
  ASSUME NEW f, IsFiniteSet(Names)
  PROVE  Accepts(NoLines, f, 0)
<1> DEFINE g == [n \in Names |-> 0]
<1>1. DOMAIN NoEnv = {} /\ NoLines.env = NoEnv /\ NoLines.total = 0 BY DEF NoEnv, NoLines
<1>2. \A n : MeantBy(f, n, 0) = {} BY DEF MeantBy
<1>3. HasMeant(NoEnv, f, 0) BY <1>1, <1>2 DEF HasMeant
<1>4. g = [n \in Names |-> SizeIn(NoEnv, n)] BY <1>1 DEF SizeIn
<1>5. PICK b : SumsOf(b, [n \in Names |-> 0], Names) /\ b[Names] = 0
  <2> DEFINE b == [s \in SUBSET Names |-> 0]
  <2>1. \A s \in SUBSET Names : s # {} => OneOf(s) \in Names /\ s \ {OneOf(s)} \in SUBSET Names
    BY OneLess
  <2>2. b = [s \in SUBSET Names |-> IF s = {} THEN 0 ELSE g[OneOf(s)] + b[s \ {OneOf(s)}]]
    BY <2>1
  <2>3. SumsOf(b, g, Names) BY <2>2 DEF SumsOf
  <2>4. b[Names] = 0 OBVIOUS
  <2> HIDE DEF b
  <2> QED BY <2>3, <2>4
<1>6. Sums(NoEnv, 0) BY <1>4, <1>5 DEF Sums
<1> QED BY <1>1, <1>3, <1>6 DEF Accepts

LEMMA NextAccepted ==
  ASSUME NEW f, Fits(f), LinesAreMeant(f), IsFiniteSet(Names),
         NEW i \in Nat, i + 1 <= Len(f.lines), NEW acc, Accepts(acc, f, i)
  PROVE  Accepts(AcceptLine(acc, f.lines[i + 1]), f, i + 1)
<1> DEFINE l == f.lines[i + 1]
           p == ParseValue(l.text)
           total == DotenvTotal(acc, l.name, p.value)
           new == [env |-> Overlaid(acc.env, [n \in {l.name} |-> p.value]), total |-> total]
           Takes == /\ l.pair /\ p.ok
                    /\ Len(p.value) <= MaxValueLen
                    /\ l.name \in DOMAIN acc.env \/ Cardinality(DOMAIN acc.env) < MaxEntries
                    /\ total <= MaxDotenvBytes
<1>1. AcceptLine(acc, l) = IF Takes THEN new ELSE acc BY DEF AcceptLine
<1>2. i + 1 \in DOMAIN f.lines BY DEF LinesAreMeant
<1>3. LineIsMeant(l) BY <1>2 DEF LinesAreMeant
<1>4. CASE l.means = Keep
  <2>1. ~Takes BY <1>3, <1>4 DEF LineIsMeant
  <2>2. \A n : MeantBy(f, n, i + 1) = MeantBy(f, n, i) BY <1>4, MeantSkips
  <2>3. Accepts(acc, f, i + 1) BY <2>2 DEF Accepts, HasMeant
  <2> QED BY <1>1, <2>1, <2>3
<1>5. CASE l.means # Keep
  <2>1. l.pair /\ p.ok /\ p.value = l.means BY <1>3, <1>5 DEF LineIsMeant
  <2>2. HasMeant(acc.env, f, i) /\ Sums(acc.env, acc.total) BY DEF Accepts
  <2>3. i + 1 \in Meant(f, l.name) /\ l.name \in Names BY <1>2, <1>3, <1>5 DEF Meant, LineIsMeant
  <2>4. Len(l.means) <= MaxValueLen BY <2>3 DEF Fits
  <2>5. l.name \in DOMAIN acc.env \/ Cardinality(DOMAIN acc.env) < MaxEntries
    BY <2>2, RoomForNext
  <2>6. /\ DotenvTotal(acc, l.name, l.means) <= MaxDotenvBytes
        /\ Sums(Overlaid(acc.env, [n \in {l.name} |-> l.means]), DotenvTotal(acc, l.name, l.means))
    BY <1>5, <2>2, NextTotal
  <2>7. HasMeant(Overlaid(acc.env, [n \in {l.name} |-> l.means]), f, i + 1)
    BY <1>3, <1>5, <2>2, MeantNext
  <2>8. Takes BY <2>1, <2>4, <2>5, <2>6
  <2>9. new.env = Overlaid(acc.env, [n \in {l.name} |-> l.means])
        /\ new.total = DotenvTotal(acc, l.name, l.means)
    BY <2>1
  <2>10. Accepts(new, f, i + 1) BY <2>6, <2>7, <2>9 DEF Accepts
  <2> QED BY <1>1, <2>8, <2>10
<1> QED BY <1>4, <1>5

\* A file within the limits is read as what its lines mean, the last one of each
\* name.
Reads(env, f) ==
  /\ DOMAIN env = {n \in Names : Meant(f, n) # {}}
  /\ \A n \in DOMAIN env : env[n] = f.lines[Max(Meant(f, n))].means

LEMMA ParseReads ==
  ASSUME NEW f, Fits(f), LinesAreMeant(f), IsFiniteSet(Names)
  PROVE  Reads(Parse(f.lines), f)
<1> DEFINE k == Len(f.lines)
<1>1. k \in Nat /\ DOMAIN f.lines = 1..k BY DEF LinesAreMeant
<1> HIDE DEF k
<1>2. PICK at : AreAccepted(at, f.lines, k) /\ Parse(f.lines) = at[k].env BY <1>1, ParseIs
<1> DEFINE K == {i \in Nat : i <= k => Accepts(at[i], f, i)}
<1>3. 0 \in K
  <2>1. at[0] = NoLines BY <1>2 DEF AreAccepted
  <2> QED BY <2>1, NothingAccepted
<1>4. ASSUME NEW i \in Nat, i \in K PROVE i + 1 \in K
  <2> SUFFICES ASSUME i + 1 <= k PROVE Accepts(at[i + 1], f, i + 1) OBVIOUS
  <2>1. Accepts(at[i], f, i) /\ i + 1 \in 1..k /\ i + 1 - 1 = i BY <1>1, <1>4
  <2>2. at[i + 1] = AcceptLine(at[i], f.lines[i + 1]) BY <1>2, <2>1 DEF AreAccepted
  <2>3. i + 1 <= Len(f.lines) BY DEF k
  <2> QED BY <2>1, <2>2, <2>3, NextAccepted
<1> HIDE DEF K
<1>5. k \in K BY <1>1, <1>3, <1>4, SetInduction
<1>6. HasMeant(at[k].env, f, k) BY <1>1, <1>5 DEF K, Accepts
<1>7. \A n : MeantBy(f, n, k) = Meant(f, n) BY <1>1 DEF MeantBy, Meant
<1> QED BY <1>2, <1>6, <1>7 DEF HasMeant, Reads

-----------------------------------------------------------------------------
(* What a shell starts with                                                *)

\* An entry is inherited or the session's own.
AreFlagged(env) == \A n \in DOMAIN env : env[n].default \in BOOLEAN

\* The session's own entries, then the file's, then the inherited ones.
LEMMA MergeIs ==
  ASSUME NEW env, AreFlagged(env), NEW dotenv, NEW n
  PROVE  /\ n \in DOMAIN Merge(env, dotenv) <=> n \in DOMAIN env \/ n \in DOMAIN dotenv
         /\ n \in DOMAIN env /\ ~env[n].default => Merge(env, dotenv)[n] = env[n].value
         /\ n \in DOMAIN dotenv /\ ~(n \in DOMAIN env /\ ~env[n].default) =>
              Merge(env, dotenv)[n] = dotenv[n]
         /\ n \notin DOMAIN dotenv /\ n \in DOMAIN env => Merge(env, dotenv)[n] = env[n].value
<1> DEFINE under == Part(env, TRUE)
           own == Part(env, FALSE)
           mid == Overlaid(under, dotenv)
<1>1. /\ \A m : m \in DOMAIN under <=> m \in DOMAIN env /\ env[m].default
      /\ \A m : m \in DOMAIN own <=> m \in DOMAIN env /\ ~env[m].default
      /\ \A m \in DOMAIN under : under[m] = env[m].value
      /\ \A m \in DOMAIN own : own[m] = env[m].value
  BY DEF Part, AreFlagged
<1> HIDE DEF under, own
<1>2. DOMAIN mid = DOMAIN under \cup DOMAIN dotenv
      /\ \A m \in DOMAIN mid : mid[m] = IF m \in DOMAIN dotenv THEN dotenv[m] ELSE under[m]
  BY DEF Overlaid
<1> HIDE DEF mid
<1>3. Merge(env, dotenv) = Overlaid(mid, own) BY DEF Merge, mid, under, own
<1>4. DOMAIN Merge(env, dotenv) = DOMAIN mid \cup DOMAIN own
      /\ \A m \in DOMAIN mid \cup DOMAIN own :
           Merge(env, dotenv)[m] = IF m \in DOMAIN own THEN own[m] ELSE mid[m]
  BY <1>3 DEF Overlaid
<1> QED BY <1>1, <1>2, <1>4

\* The variables of a shell, from the list of its session and the file.
StartsWith(final, env, f, dotenv, remote) ==
  \A n \in Names :
    LET own == {m \in DOMAIN env : m = n /\ ~env[m].default}
        lines == IF dotenv /\ Readable(f, remote) THEN Meant(f, n) ELSE {}
    IN  IF own = {} /\ lines = {} /\ n \notin DOMAIN env
        THEN n \notin DOMAIN final
        ELSE final[n] = IF own = {} /\ lines # {}
                        THEN f.lines[Max(lines)].means
                        ELSE env[n].value

LEMMA MergeStarts ==
  ASSUME NEW env, AreFlagged(env), NEW f, LinesAreMeant(f), IsFiniteSet(Names),
         NEW dotenv, NEW remote, dotenv => Fits(f)
  PROVE  StartsWith(Merge(env, IF dotenv THEN ReadDotenv(f, remote) ELSE NoEnv),
                    env, f, dotenv, remote)
<1> DEFINE read == IF dotenv THEN ReadDotenv(f, remote) ELSE NoEnv
           final == Merge(env, read)
<1> SUFFICES ASSUME NEW n \in Names
             PROVE  LET own == {m \in DOMAIN env : m = n /\ ~env[m].default}
                        lines == IF dotenv /\ Readable(f, remote) THEN Meant(f, n) ELSE {}
                    IN  IF own = {} /\ lines = {} /\ n \notin DOMAIN env
                        THEN n \notin DOMAIN final
                        ELSE final[n] = IF own = {} /\ lines # {}
                                        THEN f.lines[Max(lines)].means
                                        ELSE env[n].value
  BY DEF StartsWith
<1> DEFINE own == {m \in DOMAIN env : m = n /\ ~env[m].default}
           lines == IF dotenv /\ Readable(f, remote) THEN Meant(f, n) ELSE {}
<1>1. /\ n \in DOMAIN read <=> lines # {}
      /\ lines # {} => read[n] = f.lines[Max(lines)].means
  <2>1. CASE dotenv /\ Readable(f, remote)
    <3>1. read = Parse(f.lines) BY <2>1 DEF ReadDotenv, Readable
    <3>2. Reads(Parse(f.lines), f) BY <2>1, ParseReads
    <3> QED BY <2>1, <3>1, <3>2 DEF Reads
  <2>2. CASE ~(dotenv /\ Readable(f, remote))
    <3>1. read = NoEnv BY <2>2 DEF ReadDotenv, Readable
    <3> QED BY <2>2, <3>1 DEF NoEnv
  <2> QED BY <2>1, <2>2
<1>2. own = {} <=> ~(n \in DOMAIN env /\ ~env[n].default) OBVIOUS
<1>3. /\ n \in DOMAIN final <=> n \in DOMAIN env \/ n \in DOMAIN read
      /\ n \in DOMAIN env /\ ~env[n].default => final[n] = env[n].value
      /\ n \in DOMAIN read /\ ~(n \in DOMAIN env /\ ~env[n].default) => final[n] = read[n]
      /\ n \notin DOMAIN read /\ n \in DOMAIN env => final[n] = env[n].value
  <2> HIDE DEF read
  <2> QED BY MergeIs
<1> HIDE DEF read, final, lines, own
<1>4. IF own = {} /\ lines = {} /\ n \notin DOMAIN env
      THEN n \notin DOMAIN final
      ELSE final[n] = IF own = {} /\ lines # {}
                      THEN f.lines[Max(lines)].means
                      ELSE env[n].value
  BY <1>1, <1>2, <1>3
<1> QED BY <1>4 DEF final, lines, own

\* A list keeps its flags when it is patched or inherited.
LEMMA PatchFlags ==
  ASSUME NEW existing, NEW patch, IsList(existing), AreFlagged(existing),
         ~PatchRefused(existing, patch)
  PROVE  AreFlagged(Patched(existing, patch))
<1> DEFINE p == Patched(existing, patch)
<1>1. ASSUME NEW n \in DOMAIN patch, patch[n].value = Keep
      PROVE  p[n].default \in BOOLEAN
  <2>1. n \in DOMAIN existing BY <1>1 DEF PatchRefused
  <2>2. p[n] = [existing[n] EXCEPT !.secret = TRUE] BY <1>1 DEF Patched
  <2>3. existing[n] = [value |-> existing[n].value, secret |-> existing[n].secret,
                       default |-> existing[n].default]
    BY <2>1 DEF IsList, IsEntry
  <2>4. p[n].default = existing[n].default BY <2>2, <2>3
  <2> QED BY <2>1, <2>4 DEF AreFlagged
<1>2. ASSUME NEW n \in DOMAIN patch, patch[n].value # Keep
      PROVE  p[n].default \in BOOLEAN
  <2> DEFINE d == n \in DOMAIN existing /\ StillInherited(existing[n], patch[n])
  <2>1. p[n] = [value |-> patch[n].value, secret |-> patch[n].secret, default |-> d]
    BY <1>2 DEF Patched
  <2>2. d \in BOOLEAN BY DEF StillInherited
  <2> HIDE DEF d
  <2> QED BY <2>1, <2>2
<1>3. DOMAIN p = DOMAIN patch BY DEF Patched
<1> HIDE DEF p
<1>4. AreFlagged(p) BY <1>1, <1>2, <1>3 DEF AreFlagged
<1> QED BY <1>4 DEF p

LEMMA InheritFlags ==
  ASSUME NEW from, NEW own, NEW removed, IsList(from)
  PROVE  AreFlagged(Inherit(from, own, removed))
<1> DEFINE i == Inherit(from, own, removed)
<1>1. DOMAIN i = (DOMAIN from \ removed) \cup DOMAIN own BY DEF Inherit
<1>2. ASSUME NEW n \in DOMAIN own PROVE i[n].default \in BOOLEAN BY DEF Inherit
<1>3. ASSUME NEW n \in DOMAIN from \ removed, n \notin DOMAIN own
      PROVE  i[n].default \in BOOLEAN
  <2>1. i[n] = [from[n] EXCEPT !.default = TRUE] BY <1>3 DEF Inherit
  <2>2. from[n] = [value |-> from[n].value, secret |-> from[n].secret,
                   default |-> from[n].default]
    BY DEF IsList, IsEntry
  <2>3. i[n].default = TRUE BY <2>1, <2>2
  <2> QED BY <2>3
<1> HIDE DEF i
<1>4. AreFlagged(i) BY <1>1, <1>2, <1>3 DEF AreFlagged
<1> QED BY <1>4 DEF i

Flagged ==
  /\ file \in Files
  /\ AreFlagged(defaults) /\ AreFlagged(sess.env)
  /\ \A r \in Requests : Writing(req[r]) => AreFlagged(req[r].next)

LEMMA FlagsInit == Init => Flagged
<1> SUFFICES ASSUME Init PROVE Flagged OBVIOUS
<1>1. AreFlagged(NoEnv) BY DEF NoEnv, AreFlagged
<1>2. defaults = NoEnv /\ sess.env = NoEnv /\ file \in Files BY DEF Init, NoSession
<1>3. \A r \in Requests : ~Writing(req[r]) BY DEF Init, Writing
<1> QED BY <1>1, <1>2, <1>3 DEF Flagged

LEMMA FlagsRead ==
  ASSUME Inv, Flagged, NEW r \in Requests, ReadDefaults(r)
  PROVE  Flagged'
<1>1. PICK patch \in Bodies :
        IF PatchApplies(defaults, patch)
          THEN req' = [req EXCEPT ![r] =
                 [at |-> "write", patch |-> patch, next |-> Patched(defaults, patch)]]
          ELSE UNCHANGED req
  BY DEF ReadDefaults
<1>2. UNCHANGED <<defaults, sess, file>> BY DEF ReadDefaults, world
<1>3. CASE ~PatchApplies(defaults, patch) BY <1>1, <1>2, <1>3 DEF Flagged
<1>4. CASE PatchApplies(defaults, patch)
  <2>1. AreFlagged(Patched(defaults, patch))
    BY <1>4, PatchFlags DEF PatchApplies, Inv, Shape, Flagged
  <2>2. \A q \in Requests :
          req'[q] = IF q = r
                    THEN [at |-> "write", patch |-> patch, next |-> Patched(defaults, patch)]
                    ELSE req[q]
    BY <1>1, <1>4 DEF Inv, Shape
  <2>3. \A q \in Requests : Writing(req'[q]) => AreFlagged(req'[q].next)
    BY <2>1, <2>2 DEF Flagged
  <2> QED BY <1>2, <2>3 DEF Flagged
<1> QED BY <1>3, <1>4

LEMMA FlagsWrite ==
  ASSUME Inv, Flagged, NEW r \in Requests, WriteDefaults(r)
  PROVE  Flagged'
<1>1. /\ defaults' = req[r].next \/ defaults' = defaults
      /\ req' = [req EXCEPT ![r] = Idle]
      /\ UNCHANGED <<sess, file>> /\ req[r].at = "write"
  BY DEF WriteDefaults, world
<1>2. Writing(req[r]) BY <1>1 DEF Writing, Idle
<1>3. AreFlagged(defaults') BY <1>1, <1>2 DEF Flagged
<1>4. \A q \in Requests : req'[q] = IF q = r THEN Idle ELSE req[q] BY <1>1 DEF Inv, Shape
<1>5. \A q \in Requests : Writing(req'[q]) => AreFlagged(req'[q].next)
  BY <1>4 DEF Flagged, Writing
<1> QED BY <1>1, <1>3, <1>5 DEF Flagged

\* Every list a session gets has its flags.
LEMMA FlagsSession ==
  ASSUME Inv, Flagged,
         Create \/ ShellExits \/ Edit \/ Restart \/ Delete \/ WorldChanges \/ UNCHANGED vars
  PROVE  Flagged'
<1>1. UNCHANGED <<defaults, req>> /\ file' \in Files
  BY DEF Create, ShellExits, Edit, Restart, Delete, WorldChanges, vars, world, Flagged
<1>2. AreFlagged(NoEnv) BY DEF NoEnv, AreFlagged
<1>3. sess = [at |-> sess.at, env |-> sess.env, dotenv |-> sess.dotenv, remote |-> sess.remote]
  BY DEF Inv, Shape
<1>4. AreFlagged(sess'.env)
  <2>1. CASE Create
    <3>1. PICK own \in Bodies, removed \in SUBSET Names, dotenv \in BOOLEAN,
                remote \in BOOLEAN :
              LET unable == remote /\ ~supports
                  env == IF unable THEN NoEnv ELSE Inherit(defaults, own, removed) IN
              Spawns(env, dotenv, remote)
      BY <2>1 DEF Create
    <3> DEFINE env == IF remote /\ ~supports THEN NoEnv ELSE Inherit(defaults, own, removed)
    <3>2. sess'.env = env BY <3>1 DEF Spawns
    <3>3. AreFlagged(env) BY <1>2, InheritFlags DEF Inv, Shape
    <3> QED BY <3>2, <3>3
  <2>2. CASE Edit
    <3>1. PICK patch \in Bodies, dotenv \in BOOLEAN :
            /\ PatchApplies(sess.env, patch)
            /\ sess' = [sess EXCEPT !.env = Patched(sess.env, patch), !.dotenv = dotenv]
      BY <2>2 DEF Edit
    <3>2. sess'.env = Patched(sess.env, patch) BY <1>3, <3>1
    <3> QED BY <3>1, <3>2, PatchFlags DEF PatchApplies, Inv, Shape, Flagged
  <2>3. CASE ShellExits \/ Restart \/ Delete \/ WorldChanges \/ UNCHANGED vars
    <3>1. sess'.env \in {sess.env, NoEnv}
      BY <1>3, <2>3 DEF ShellExits, Restart, Spawns, Delete, NoSession, WorldChanges, vars
    <3> QED BY <1>2, <3>1 DEF Flagged
  <2> QED BY <2>1, <2>2, <2>3
<1> QED BY <1>1, <1>4 DEF Flagged

LEMMA FlagsNext == Inv /\ Flagged /\ [Next]_vars => Flagged'
  BY FlagsRead, FlagsWrite, FlagsSession DEF Next

\* The two ways a shell starts.
LEMMA StartsFaithfully ==
  ASSUME IsFiniteSet(Names), \A f \in Files : LinesAreMeant(f),
         Inv, Flagged, [Next]_vars, sess.at # "running", sess'.at = "running",
         sess'.dotenv => Fits(file)
  PROVE  StartsWith(applied', sess'.env, file, sess'.dotenv, sess'.remote)
<1>1. sess = [at |-> sess.at, env |-> sess.env, dotenv |-> sess.dotenv, remote |-> sess.remote]
  BY DEF Inv, Shape
<1>2. Create \/ Restart
  <2>1. UNCHANGED sess => FALSE OBVIOUS
  <2>2. \A r \in Requests : ReadDefaults(r) \/ WriteDefaults(r) => UNCHANGED sess
    BY DEF ReadDefaults, WriteDefaults
  <2>3. WorldChanges \/ UNCHANGED vars => UNCHANGED sess BY DEF WorldChanges, vars
  <2>4. ShellExits \/ Delete => sess'.at # "running"
    BY <1>1 DEF ShellExits, Delete, NoSession
  <2>5. Edit => sess'.at # "running"
    <3> SUFFICES ASSUME Edit PROVE sess'.at # "running" OBVIOUS
    <3>1. PICK new, dotenv : sess' = [sess EXCEPT !.env = new, !.dotenv = dotenv]
      BY DEF Edit
    <3>2. sess'.at = sess.at BY <1>1, <3>1
    <3> QED BY <3>2
  <2> QED BY <2>1, <2>2, <2>3, <2>4, <2>5 DEF Next
<1>3. PICK env, dotenv, remote : Spawns(env, dotenv, remote) BY <1>2 DEF Create, Restart
<1>4. /\ sess'.env = env /\ sess'.dotenv = dotenv /\ sess'.remote = remote
      /\ applied' = Merge(env, IF dotenv THEN ReadDotenv(file, remote) ELSE NoEnv)
  BY <1>3 DEF Spawns
<1>5. AreFlagged(sess'.env) BY FlagsNext DEF Flagged
<1>6. LinesAreMeant(file) BY DEF Flagged
<1> QED BY <1>4, <1>5, <1>6, MergeStarts

\* A shell starts with the session's own value of each variable, or else with
\* what the last line of a readable .env means by it, or else with the default
\* the session inherited, whatever was done to the lists before (Parse, Merge).
\* Of each line it is assumed that it means what its spelling is read as.
THEOREM SpawnsAreFaithful ==
  ASSUME IsFiniteSet(Names), \A f \in Files : LinesAreMeant(f)
  PROVE  Spec => SpawnFaithful
<1>1. Inv /\ Flagged /\ [Next]_vars =>
        (sess.at # "running" /\ sess'.at = "running" /\ (sess'.dotenv => Fits(file)) =>
           StartsWith(applied', sess'.env, file, sess'.dotenv, sess'.remote))
  BY StartsFaithfully
<1>2. Inv /\ Flagged /\ [Next]_vars =>
        [sess.at # "running" /\ sess'.at = "running" /\ (sess'.dotenv => Fits(file)) =>
       \A n \in Names :
         LET own == {m \in DOMAIN sess'.env : m = n /\ ~sess'.env[m].default}
             lines == IF sess'.dotenv /\ Readable(file, sess'.remote)
                      THEN Meant(file, n) ELSE {}
         IN  IF own = {} /\ lines = {} /\ n \notin DOMAIN sess'.env
             THEN n \notin DOMAIN applied'
             ELSE applied'[n] = IF own = {} /\ lines # {}
                                THEN file.lines[Max(lines)].means
                                ELSE sess'.env[n].value]_vars
  BY <1>1 DEF StartsWith
<1> QED BY <1>2, InvInit, InvNext, FlagsInit, FlagsNext, PTL DEF Spec, SpawnFaithful
=============================================================================
