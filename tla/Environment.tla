----------------------------- MODULE Environment -----------------------------
(***************************************************************************)
(* The environment variables of sessions (envfile, hosts/envstore.go,      *)
(* session/env.go, sshpty/env.go and the handlers around them): a user's   *)
(* defaults in env.yml, the list a session inherits from them when it is   *)
(* created, its edits while the session is stopped, and the environment    *)
(* every spawn puts together from that list and the .env file it finds.    *)
(*                                                                         *)
(* Secret values are write-only, so an edit sends Keep for the ones it     *)
(* leaves alone and the server fills them in from what it has stored. The  *)
(* dangers: two edits of the defaults at once, a flag lost on the way from *)
(* the defaults to the session, a list that passes each check and is too   *)
(* large as a whole, a .env that wins over what it should not.             *)
(*                                                                         *)
(* A value is a sequence of characters, each one that the .env syntax or   *)
(* the remote command line treats in a way of its own. A list of entries   *)
(* is a function from names: Validate refuses a name given twice, a bad or *)
(* a reserved one before anything else, and the lists are sorted by name.  *)
(***************************************************************************)
EXTENDS Naturals, FiniteSets, Sequences, SequencesExt

CONSTANTS
  Names,          \* variable names that are valid and not reserved
  Bodies,         \* lists a user may send: name -> [value, secret]
  Files,          \* what the start directory's .env may be
  Requests,       \* edits of the defaults that may overlap
  MaxEntries,     \* envfile.MaxEntries
  MaxValueLen,    \* envfile.MaxValueLen
  MaxTotalBytes,  \* envfile.MaxTotalBytes
  MaxDotenvBytes, \* envfile.MaxDotenvBytes
  MaxExportBytes, \* envfile.MaxExportBytes
  Overhead,       \* what wrapWithPIDRecording adds to the exports
  Keep, NoOne

ASSUME EnvironmentAssumption ==
  /\ {MaxEntries, MaxValueLen, MaxTotalBytes} \subseteq Nat
  /\ {MaxDotenvBytes, MaxExportBytes, Overhead} \subseteq Nat
  /\ NoOne \notin Requests
  /\ 2 <= MaxExportBytes   \* an empty list fits

VARIABLES
  defaults, \* EnvStore.env, and env.yml with it
  holder,   \* who holds EnvStore.mu
  file,     \* the .env in the start directory: what it is, and its lines
  supports, \* whether the host of an SSH session can take variables
  sess,     \* one session: its stored list, its .env switch, where it runs
  applied,  \* the environment the running shell was started with
  req,      \* what each edit of the defaults is doing
  latest,   \* history: the value last written to each default
  public    \* history: the values ever sent as not secret

vars == <<defaults, holder, file, supports, sess, applied, req, latest, public>>
world == <<file, supports>>

NoEnv == <<>>
NoSession == [at |-> "none", env |-> NoEnv, dotenv |-> FALSE, remote |-> FALSE]
Idle == [at |-> "idle"]

-----------------------------------------------------------------------------
(* The .env file                                                           *)
(*                                                                         *)
(* Characters: "q" and "d" are the single and double quote, "b" the        *)
(* backslash, "h" the hash, "s" a blank, "n" the letter, "nl" a line feed; *)
(* every other one stands for itself.                                      *)

Good(v) == [ok |-> TRUE, value |-> v]
Bad == [ok |-> FALSE, value |-> NoEnv]

\* The entries of over replace those of under.
Overlaid(under, over) ==
  [n \in DOMAIN under \cup DOMAIN over |-> IF n \in DOMAIN over THEN over[n] ELSE under[n]]

From(s, i) == SubSeq(s, i, Len(s))
TrimLeft(s) ==
  LET kept == {i \in DOMAIN s : s[i] # "s"}
  IN  IF kept = {} THEN <<>> ELSE From(s, Min(kept))
Trim(s) == Reverse(TrimLeft(Reverse(TrimLeft(s))))
OnlyComment(s) == TrimLeft(s) = <<>> \/ TrimLeft(s)[1] = "h"

SingleQuoted(t) ==
  LET ends == {i \in 2..Len(t) : t[i] = "q"}
  IN  IF ends = {} \/ ~OnlyComment(From(t, Min(ends) + 1)) THEN Bad
      ELSE Good(SubSeq(t, 2, Min(ends) - 1))

Escape(c) == IF c = "n" THEN <<"nl">>
             ELSE IF c \in {"b", "d"} THEN <<c>> ELSE <<"b", c>>

DoubleQuoted(t) ==
  LET Read(st, c) ==
        CASE st.at = "out" -> [st EXCEPT !.rest = Append(@, c)]
          [] st.at = "escape" -> [st EXCEPT !.at = "in", !.value = @ \o Escape(c)]
          [] st.at = "in" /\ c = "d" -> [st EXCEPT !.at = "out"]
          [] st.at = "in" /\ c = "b" -> [st EXCEPT !.at = "escape"]
          [] OTHER -> [st EXCEPT !.value = Append(@, c)]
      end == FoldLeft(Read, [at |-> "in", value |-> <<>>, rest |-> <<>>], Tail(t))
  IN  IF end.at = "out" /\ OnlyComment(end.rest) THEN Good(end.value) ELSE Bad

\* Up to a hash that follows a blank.
Unquoted(s) ==
  LET comments == {i \in 1..(Len(s) - 1) : s[i] = "s" /\ s[i + 1] = "h"}
  IN  Good(Trim(IF comments = {} THEN s ELSE SubSeq(s, 1, Min(comments) - 1)))

ParseValue(s) ==
  LET t == TrimLeft(s)
  IN  CASE t # <<>> /\ t[1] = "q" -> SingleQuoted(t)
        [] t # <<>> /\ t[1] = "d" -> DoubleQuoted(t)
        [] OTHER -> Unquoted(s)

Bytes(v) == 1 + Len(v)   \* a name counts for one

\* Variant: a line that replaces an earlier one still pays for it.
DotenvTotalPaysTwice(acc, name, v) == acc.total + Bytes(v)

\* The size of the accepted entries with name = v.
DotenvTotal(acc, name, v) ==
  acc.total + Bytes(v)
    - (IF name \in DOMAIN acc.env THEN Bytes(acc.env[name]) ELSE 0)

\* A line that is no KEY=VALUE pair, or not within the limits, is skipped.
AcceptLine(acc, line) ==
  LET p == ParseValue(line.text)
      total == DotenvTotal(acc, line.name, p.value)
  IN  IF /\ line.pair /\ p.ok
         /\ Len(p.value) <= MaxValueLen
         /\ line.name \in DOMAIN acc.env \/ Cardinality(DOMAIN acc.env) < MaxEntries
         /\ total <= MaxDotenvBytes
      THEN [env |-> Overlaid(acc.env, [n \in {line.name} |-> p.value]), total |-> total]
      ELSE acc

Parse(lines) == FoldLeft(AcceptLine, [env |-> NoEnv, total |-> 0], lines).env

\* readLocalDotenv does not follow a link out of the workspace; the remote one
\* has no workspace. A missing or too large file is a warning and no entries.
ReadDotenv(f, remote) ==
  IF f.kind = "regular" \/ (f.kind = "link" /\ remote) THEN Parse(f.lines) ELSE NoEnv

-----------------------------------------------------------------------------
(* Lists of entries                                                        *)

Quotes(v) == Cardinality({i \in DOMAIN v : v[i] = "q"})
\* Quoted twice, a single quote costs 12 bytes more than itself.
Exported(v) == 18 + Bytes(v) + 12 * Quotes(v)
ExportSize(env) ==
  2 + MapThenSumSet(LAMBDA n : Exported(env[n].value), DOMAIN env)

Validate(env) ==
  /\ Cardinality(DOMAIN env) <= MaxEntries
  /\ \A n \in DOMAIN env : Len(env[n].value) <= MaxValueLen
  /\ MapThenSumSet(LAMBDA n : Bytes(env[n].value), DOMAIN env) <= MaxTotalBytes
  /\ ExportSize(env) <= MaxExportBytes

\* Variant: an inherited entry is copied without its flag.
InheritsPlainly(from, own, removed) ==
  [n \in (DOMAIN from \ removed) \cup DOMAIN own |->
     IF n \in DOMAIN own
     THEN [value |-> own[n].value, secret |-> own[n].secret, default |-> FALSE]
     ELSE [value |-> from[n].value, secret |-> FALSE, default |-> TRUE]]

Inherit(from, own, removed) ==
  [n \in (DOMAIN from \ removed) \cup DOMAIN own |->
     IF n \in DOMAIN own
     THEN [value |-> own[n].value, secret |-> own[n].secret, default |-> FALSE]
     ELSE [from[n] EXCEPT !.default = TRUE]]

Part(env, inherited) ==
  [n \in {m \in DOMAIN env : env[m].default = inherited} |-> env[n].value]

\* Variant: the .env is overlaid last.
MergeFileLast(env, dotenv) == Overlaid(Overlaid(Part(env, TRUE), Part(env, FALSE)), dotenv)

Merge(env, dotenv) == Overlaid(Overlaid(Part(env, TRUE), dotenv), Part(env, FALSE))

\* ApplyPatch: what an edit may not ask for, and what it leads to.
PatchRefused(existing, patch) ==
  \E n \in DOMAIN patch :
    patch[n].value = Keep /\ (~patch[n].secret \/ n \notin DOMAIN existing)

StillInherited(old, p) ==
  old.default /\ ~old.secret /\ ~p.secret /\ old.value = p.value

Patched(existing, patch) ==
  [n \in DOMAIN patch |->
     IF patch[n].value = Keep THEN [existing[n] EXCEPT !.secret = TRUE]
     ELSE [value |-> patch[n].value, secret |-> patch[n].secret,
           default |-> n \in DOMAIN existing /\ StillInherited(existing[n], patch[n])]]

PatchApplies(existing, patch) ==
  ~PatchRefused(existing, patch) /\ Validate(Patched(existing, patch))

SentInTheClear(body) ==
  {body[n].value : n \in {m \in DOMAIN body : ~body[m].secret}} \ {Keep}

-----------------------------------------------------------------------------
Init ==
  /\ defaults = NoEnv
  /\ holder = NoOne
  /\ file \in Files
  /\ supports \in BOOLEAN
  /\ sess = NoSession
  /\ applied = NoEnv
  /\ req = [r \in Requests |-> Idle]
  /\ latest = NoEnv
  /\ public = {}

\* Variant: fn runs on a copy taken before the lock.
LockNotHeld == TRUE

\* EnvStore.mu is free to take.
LockFree == holder = NoOne

\* PUT /api/env-defaults: EnvStore.Update takes the lock and runs ApplyPatch
\* on the stored list.
ReadDefaults(r) ==
  /\ req[r] = Idle /\ LockFree
  /\ \E patch \in Bodies :
       /\ public' = public \cup SentInTheClear(patch)
       /\ IF PatchApplies(defaults, patch)
            THEN /\ holder' = r
                 /\ req' = [req EXCEPT ![r] =
                      [at |-> "write", patch |-> patch,
                       next |-> Patched(defaults, patch)]]
            ELSE UNCHANGED <<holder, req>>
  /\ UNCHANGED <<defaults, sess, applied, latest, world>>

\* writeLocked renames the new env.yml into place and releases the lock, or
\* fails and changes nothing.
WriteDefaults(r) ==
  /\ req[r].at = "write"
  /\ \/ LET patch == req[r].patch IN
          /\ defaults' = req[r].next
          /\ latest' = [n \in DOMAIN patch |->
               IF patch[n].value = Keep /\ n \in DOMAIN latest THEN latest[n]
               ELSE patch[n].value]
     \/ UNCHANGED <<defaults, latest>>
  /\ holder' = NoOne
  /\ req' = [req EXCEPT ![r] = Idle]
  /\ UNCHANGED <<sess, applied, public, world>>

\* The session's own list after its spawn read the .env.  An SSH spawn puts
\* the variables on the command line, which has a limit.
Spawns(env, dotenv, remote) ==
  LET final == Merge(env, IF dotenv THEN ReadDotenv(file, remote) ELSE NoEnv)
      command == Overhead + 2
                   + MapThenSumSet(LAMBDA n : Exported(final[n]), DOMAIN final)
  IN  /\ remote => command <= MaxExportBytes
      /\ applied' = final
      /\ sess' = [at |-> "running", env |-> env, dotenv |-> dotenv, remote |-> remote]

\* Variant: only what the user sent is checked.
AcceptedAsSent(own, env) == Validate(own)

Accepted(own, env) == Validate(own) /\ Validate(env)

\* POST /api/sessions: createEnvOptions reads the host and the defaults, each
\* once; CreateLocal and CreateSSH check the merged list and start the shell.
\* Nothing read earlier is read again, so it is one step.  A start that fails
\* leaves no session.  A host that cannot take variables inherits none, and
\* refuses the ones asked for.
Create ==
  /\ sess.at = "none" /\ LockFree
  /\ \E own \in Bodies, removed \in SUBSET Names, dotenv, remote \in BOOLEAN :
       LET unable == remote /\ ~supports
           env == IF unable THEN NoEnv ELSE Inherit(defaults, own, removed) IN
       /\ \A n \in DOMAIN own : own[n].value # Keep
       /\ unable => own = NoEnv /\ ~dotenv
       /\ Accepted(own, env)
       /\ Spawns(env, dotenv, remote)
       /\ public' = public \cup SentInTheClear(own)
  /\ UNCHANGED <<defaults, holder, req, latest, world>>

ShellExits ==
  /\ sess.at = "running"
  /\ sess' = [sess EXCEPT !.at = "stopped"]
  /\ applied' = NoEnv
  /\ UNCHANGED <<defaults, holder, req, latest, public, world>>

\* PUT /api/sessions/:id with an environment: under the reservation that a
\* restart takes as well (see SessionManager), so it is one step here.
Edit ==
  /\ sess.at = "stopped"
  /\ \E patch \in Bodies, dotenv \in BOOLEAN :
       /\ PatchApplies(sess.env, patch)
       /\ sess' = [sess EXCEPT !.env = Patched(@, patch), !.dotenv = dotenv]
       /\ public' = public \cup SentInTheClear(patch)
  /\ UNCHANGED <<defaults, holder, applied, req, latest, world>>

\* Restart checks the host as it is now; a refused one changes nothing.
Restart ==
  /\ sess.at = "stopped"
  /\ sess.remote /\ ~supports => sess.env = NoEnv /\ ~sess.dotenv
  /\ Spawns(sess.env, sess.dotenv, sess.remote)
  /\ UNCHANGED <<defaults, holder, req, latest, public, world>>

Delete ==
  /\ sess.at = "stopped"
  /\ sess' = NoSession
  /\ UNCHANGED <<defaults, holder, applied, req, latest, public, world>>

\* The user edits the .env, or the target system of the host.
WorldChanges ==
  /\ \/ file' \in Files /\ UNCHANGED supports
     \/ supports' = ~supports /\ UNCHANGED file
  /\ UNCHANGED <<defaults, holder, sess, applied, req, latest, public>>

Next ==
  \/ \E r \in Requests : ReadDefaults(r) \/ WriteDefaults(r)
  \/ Create \/ ShellExits \/ Edit \/ Restart \/ Delete \/ WorldChanges

Spec == Init /\ [][Next]_vars

-----------------------------------------------------------------------------
(* What a user means by a line                                             *)

Lit(c) == IF c = "nl" THEN <<"b", "n">> ELSE IF c \in {"b", "d"} THEN <<"b", c>> ELSE <<c>>

\* How a value may be written in a .env.
Plain(v) == v
Single(v) == <<"s", "q">> \o v \o <<"q", "s", "h", "d">>
Double(v) == <<"d">> \o FoldLeft(LAMBDA s, c : s \o Lit(c), <<>>, v) \o <<"d", "h">>

\* A line means what its spelling is read as, and nothing where it is no pair
\* or its quoting is wrong.
LineIsMeant(l) ==
  /\ l.name \in Names
  /\ l.means = Keep <=> ~(l.pair /\ ParseValue(l.text).ok)
  /\ l.means # Keep => l.means = ParseValue(l.text).value /\ Len(l.means) \in Nat

LinesAreMeant(f) ==
  /\ Len(f.lines) \in Nat /\ DOMAIN f.lines = 1..Len(f.lines)
  /\ \A i \in DOMAIN f.lines : LineIsMeant(f.lines[i])

\* The lines of f that mean something, for name n, the last of which wins.
Meant(f, n) == {i \in DOMAIN f.lines : f.lines[i].name = n /\ f.lines[i].means # Keep}

\* The limits of the .env play no part when every line would fit beside the
\* longest values of the other name.
Fits(f) ==
  /\ Cardinality({f.lines[i].name : i \in DOMAIN f.lines}) <= MaxEntries
  /\ MapThenSumSet(
       LAMBDA n : Max({0} \cup {Bytes(f.lines[i].means) : i \in Meant(f, n)}), Names)
       <= MaxDotenvBytes
  /\ \A n \in Names : \A i \in Meant(f, n) : Len(f.lines[i].means) <= MaxValueLen

Readable(f, remote) == f.kind = "regular" \/ (f.kind = "link" /\ remote)

-----------------------------------------------------------------------------
(* Properties                                                              *)

\* Each default has the value last written to it: of two replacements at once
\* the one that keeps a secret keeps what the other one stored, and no value
\* comes back after it was replaced (EnvStore.Update).
NoLostDefault ==
  /\ DOMAIN defaults = DOMAIN latest
  /\ \A n \in DOMAIN defaults : defaults[n].value = latest[n]

\* A value the API shows was at some time sent as not secret: no sequence of
\* inheriting, keeping, editing and making public shows a stored secret.
NeverRevealed ==
  \A env \in {defaults, sess.env} : \A n \in DOMAIN env :
    ~env[n].secret => env[n].value \in public

\* A list that is stored is within the limits, and so can be edited and
\* inherited again, even where it was put together from two that were.
StoredFits == Validate(defaults) /\ Validate(sess.env)

\* A shell starts with the session's own value of each variable, or else with
\* what the last line of a readable .env means by it, or else with the default
\* the session inherited (Merge, Parse, parseValue).
SpawnFaithful ==
  [][sess.at # "running" /\ sess'.at = "running" /\ (sess'.dotenv => Fits(file)) =>
       \A n \in Names :
         LET own == {m \in DOMAIN sess'.env : m = n /\ ~sess'.env[m].default}
             lines == IF sess'.dotenv /\ Readable(file, sess'.remote)
                      THEN Meant(file, n) ELSE {}
         IN  IF own = {} /\ lines = {} /\ n \notin DOMAIN sess'.env
             THEN n \notin DOMAIN applied'
             ELSE applied'[n] = IF own = {} /\ lines # {}
                                THEN file.lines[Max(lines)].means
                                ELSE sess'.env[n].value]_vars
=============================================================================
