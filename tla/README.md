# sessile in TLA+

sessile keeps shells alive on a server and shows them in browsers: a session is a
shell (local, or over SSH) with a name, a directory and an environment that
survives the browsers that watch it, can be restarted after it ends, and keeps a
row in SQLite and a scrollback file so that it also survives the server. This
directory models the parts of its Go backend where the order of things matters,
checks the models with TLC on small instances and proves the main ones with TLAPS.

Paths below are relative to `src/backend/internal` unless they say otherwise.

## 1. Inventory

| Component | State | Operations | What is hard | What makes it correct |
|---|---|---|---|---|
| Session manager (`session/manager.go`, `session.go`) | `sessions`, `restarting`, `shuttingDown`; per session status, `discarded`, environment, name, group; the shells | create, Restart, Update, Delete, Shutdown, read loop per shell, PruneStopped at startup | every call runs on its own goroutine and holds locks only briefly; the read loop outlives its session; a process can hold the terminal open; the server is killed | no shell is ever lost; none survives shutdown; restarts and edits exclude each other; a deleted session stays quiet; calls end |
| Session rows (`storage/`) | one row per session | upsert, SetStatus, Delete, reconcile, prune | whole-record upserts from snapshots; writes that fail; crashes | a row is what the next process needs to restart the session |
| Client set and replay (`session/session.go`, `ringbuffer.go`) | ring buffer, `clients` | attach, detach, broadcast, markStopped, takeClients, closeClients | attach against output, restart against attach and detach | each browser gets the output once, in order, complete, or loses its connection |
| WebSocket client and handler (`ws/`) | bounded queue, `done`, write pump | Send, SendControl, Close, flush, Attach/readPump/Detach | slow consumers, close racing queued frames | a closed client is torn down, what was queued goes out first |
| Scrollback files (`session/scrollback.go`) | one file per session | Save, Load, Delete; flush loop, read loop, Shutdown | snapshot under the lock, write after it | a restart sees the last output; a delete leaves nothing |
| Event channel (`session/events.go`, `ws/events.go`, frontend stores) | subscribers, the dashboard's list | subscribe, snapshot, publish, merge | snapshots taken early, published late | the dashboard ends with the latest state |
| Terminal size (`session/session.go`) | size per client, size in force | resize, detach, applySize | the size is applied outside the lock | size in force = smallest window |
| Foreground sampler, titles | derived state | sample, setTitle | publishes what it read earlier | never revives a deleted session |
| Scanners (`session/modes.go`, `title.go`, `replay.go`, `scrollback.go`) | scanner state across reads | scan, preamble, sanitizeReplay, endsInAltScreen | reads and the ring cut sequences anywhere, programs abandon them | as a terminal that saw the whole output |
| SSH terminals (`sshpty/`, `session/backend.go`) | connection, pipes, remote shell, PID file | startPTY, Read, Write, Signal, Wait, Close, End, discard | nine steps that may fail; a server that ignores signals, reads nothing, or vanishes | keeps the promise of a local terminal, leaves nothing open |
| Host operations (`api/hostops*.go`, `hostops/`) | stubs, operation status, the PID cache | upload, move, copy, delete; PID lookup | nothing locks a file; servers rename differently | no half upload under its name, no destination lost |
| Host browse cache (`api/hostbrowse.go`) | cached SSH connections, dials, timers | acquire, release, expire, drop, closeAll | single-flight dial shared by callers that leave; everything may happen during a dial | no leak, exact counts, current credentials |
| Host records (`hosts/`, `api/hosts.go`, `hostkeys.go`, `exchangekeys.go`) | YAML per user | read-modify-write of whole records around a dial: edit, trust, exchange keys, connect | lost updates, machines that change keys | no credentials to a machine nobody confirmed |
| Accounts (`auth/`, `api/auth.go`, `admin_users.go`, `middleware.go`) | tokens, users | bootstrap, register, login, sliding expiry, admin changes, delete with cascade | a request that acts during the cascade; two administrators at once | an administrator remains; nothing of a deleted user survives |
| Environment (`envfile/`, `hosts/envstore.go`, `session/env.go`) | defaults, a session's list | validate, inherit, patch, merge with `.env`, spawn | secrets that are kept without being sent; limits on merged lists | no edit lost, no secret shown, the right value wins |
| Upgrade (`upgrade/`, `storage/sqlite.go`) | backups, schema version | back up, migrate, prune | a crash between steps | never migrated without a backup |
| Frontend (`src/frontend/src`) | terminal, stores | reconnect, merge of events, uploads | late messages after reconnect | shows the server's state |

Interactions. `ws.Handler` calls `Manager.Attach`/`Detach`/`WriteInput`/`Resize`; a
session calls back into its clients (`Send`, `SendControl`, `Close`) under its own
lock, and these never block. `api` calls the manager's operations; the manager
writes rows through `storage` and files through `ScrollbackStore`, and publishes to
subscribers through `publish`. `cmd/server` opens the store (which reconciles
rows), prunes, serves, and at the end calls `Shutdown` and `Server.Close`. The hosts
API changes records and then drops the browse connection of the host. A session's
backend is a local pty or an SSH terminal; both look alike to the read loop, which is what
`Backend` states. Deleting an account goes through users, tokens, the manager's sessions and
the registry of per-user stores, in this order.

`PROJECT.json` lists every component with its status, and under `hazards` every
place found that is hard to test, with the properties that cover it.

## 2. Modules

| Module | Models | Composed with |
|---|---|---|
| `Lifecycle` | abstract: a session as its user sees it, running or stopped, edited, replaced, closed | |
| `SessionManager` | the lifecycle of sessions, over sets of ids, objects and callers | core; implements `Lifecycle` |
| `SessionManagerProofs` | its inductive invariant, the theorems and the refinement | extends it |
| `MCSessionManager` | symmetry for TLC | extends it |
| `Watch` | abstract: what browsers are shown of a session's shells | |
| `SessionStream` | clients, ring buffer, queues, write pumps, handlers, restarts and deletes as far as they move clients | implements `Watch` |
| `SessionStreamProofs` | order and completeness of what each browser is sent, and the refinement | extends `SessionStream` |
| `Scrollback` | the file and everyone who writes, reads or removes it | alone |
| `HostBrowse`, `MCHostBrowse` | the browse cache, its requests, changes of a host record | alone |
| `HostBrowseProofs` | nothing leaks, exact counts, the cap | extends `HostBrowse` |
| `HostRecords`, `MCHostRecords` | one host's record and every request that reads, changes or uses it | alone |
| `HostRecordsProofs` | every copy of a record is sound, and what follows | extends `HostRecords` |
| `Accounts`, `MCAccounts` | users, tokens, the handlers over them and the deletion cascade | with the sessions and stores it removes, as sets |
| `AccountsProofs` | administrators, names, tokens, the cascade | extends `Accounts` |
| `Environment`, `MCEnvironment` | defaults, a session's list, the `.env` file, the spawn | alone |
| `EnvironmentProofs` | edits, secrets and limits of the lists, what a shell starts with | extends `Environment` |
| `VtScanners`, `MCVtScanners` | the four walks over output, beside a reference terminal | alone |
| `OutputProofs` | what the file holds after a stop, a delete and a shutdown; what the scanners, the separator, the preamble and the replay filter make of any output, cut anywhere | extends `Scrollback` and `VtScanners` |
| `Backend` | abstract: what the read loop may rely on | |
| `SshTerminal` | an SSH shell from dial to end, its PID lookup | implements `Backend` |
| `HostFiles`, `MCHostFiles` | uploads, moves, copies, deletions on a small tree | alone |
| `HostProofs` | that a terminal over SSH is a `Backend`, failed starts, PID lookups; half uploads, the destination | extends `SshTerminal` and `HostFiles` |

### SessionManager

State is the code's: `sessions`, `restarting`, `shuttingDown`, the `store` rows, and
per session object its status, `discarded`, environment, label (name and group
together), where its read loop is and what its shell is: `alive`, `held` (dead, but
a process outside its group keeps the terminal open, so the read loop still blocks)
or `dead`. `call` holds the requests in flight with what each has read so far,
`sd` the progress of Shutdown, `published` the last message per id.

One action is one critical section or one SQL statement, so every place where the
code gives up a lock is a place where others run. Some steps are merged where nothing
between them can be told apart from outside: register's publish with the `Info` it
reads, restartable with the claim's outcome, claimEnvEdit with the lookup that
follows, the store's Get and Delete of a session that is only a row,
closeClients + markDiscarded + the signals of a Delete, SetStatus + signals of Shutdown,
a read loop's last publish with Wait and close(exited). Calls by someone who does
not own the session are refused without effect and left out; clients name only ids
they can have seen (`Known`). `terminate` returns when the read loop is done, or
when it is still blocked in Read on a held terminal: the grace periods are assumed
long enough for a read loop that is past its Read to finish, as the code assumes.
A reboot wipes memory, kills every shell, reconciles the rows and may prune any. That the shells die with
the process is assumed: their terminals hang up. A comment of register (`manager.go:476`) says that a
shell nobody tracks outlives the process, so what the module shows of shells after a reboot rests on this.

`Lifecycle` is what all of this amounts to for a user: per id nothing, or a shell, whether it
runs and the environment it has. A running session is neither replaced nor edited, a stopped one
never runs again but as a new shell with the last environment, and none comes up while the
manager is down. `View` reads that off the map and the object in it, which is what `Get` and `List`
do under their locks; `IsALifecycle` says that every behaviour is one of `Lifecycle`.

### SessionStream

Output is numbered, so buffer, file and frames are intervals, and "in order, nothing
twice, nothing missing" is a relation between neighbouring frames. `attach` queues
its two frames in one step although the pump could run between them: either way what
does not fit is recorded in `refused`. A `select` with several ready cases is a
choice (`Takers`, `Primed`: a closed client may or may not take a frame). The file is the
final snapshot here; its races are Scrollback's subject. Close codes and pings are left out. Of input only
this is kept: `WriteInput` writes to a terminal without a deadline, so a handler can be held by a
shell that reads nothing (`InputBegins`, `InputEnds`, `HeldByShell`) until that terminal is closed (`shut`). A
resize sent to an SSH server that does not answer holds it in the same way.
Shutdown closes clients as Delete does and is not repeated.

`Watch` is what a browser is promised, with no queue, buffer or client set in it: which shells
the session has had, how much each has written, and the frame each browser was shown last.
`Watched` maps the stream to it (`status`, the end of each `buf`, `seen`, `refused`), and
`IsAWatch` says that every behaviour is one of `Watch`: a browser that lost no frame is shown each
shell's output without a gap or a repetition, nothing before it is written, and the exit only after
all of it. Old output may be gone from the ring, so what is shown may begin anywhere.

### Scrollback

A snapshot is the number of the last chunk in it. The read loop, the flush loop and
Shutdown each capture in one step (`snapshotRunning`) and save in a later one; a save
is atomic (a rename) and does not fail: the code logs a failed one and goes on.

### HostBrowse

An entry is dialing, open or closed; `err`, `dropped`, `waiters`, `busy` and the
cancellation are the code's. Of a host record only "changed since it was read" is
kept (`stale`). Which entry is evicted is left open (least recently used in the
code), and the idle timer may fire whenever nothing is in flight. `Entry` is a pool of
names: a closed entry nobody refers to can be used again.

### HostRecords

`Store`'s mutex covers one `Get` or one `Update`, so a request is a copy of the record, a dial
or a probe that may take its time, and a write of the whole copy. `record` is a set of at most
one record, so that a request for a host that is gone simply finds nothing. What is kept of a
record is what the promises are about: address, account, method, which secrets are there, the
pinned fingerprint, and (not in the code) where the record came from. Machines may change
their keys at any time. `confirmed`, `met` and `retired` are history. A name may be sent with blanks
around it (`Trim`): the exchange logs in with the name as it was sent, and the record keeps the trimmed one.

### Accounts

Each store takes its mutex for one call, so each handler is a sequence of store calls (`at`) and
two requests interleave between any two. A file that is written by a rename changes with memory
or not at all, so `role` stands for both. Time is counted in ticks and stops mattering past
`Ttl`. The cascade is the code's: account, tokens, list of sessions, each session, evict, remove
the directory; any step may fail. `late` holds the accounts some other request was already acting
for when its tokens were revoked: those requests may still create something, in the code too.

### Environment

A value is a short sequence of characters, each of which the `.env` syntax or the remote
command line treats in its own way, because which of them a shell gets is the point. Lists
are functions from names. `EnvStore.Update` holds its lock from the read to the rename, so it is
two actions and a holder. A session's create, edit and restart are one step each, as they read
nothing twice and exclude one another (SessionManager shows that). `latest` and `public` are history.

### VtScanners

Bytes are members of a small alphabet, chosen so that each branch of the four functions is
taken by some member: two spellings of the alternate screen, a mode with a spelling of its own, a
mode that is on after a reset, queries of both kinds, titles. The scanners are translated case
by case; next to them stands the section Reference, which says what a terminal makes of the same
bytes without looking at the code's states. The properties compare the two after every way of
cutting the output into reads and of the ring dropping its oldest bytes. The limits of the code are
part of both sides: a title keeps `MaxTitle` bytes of its payload (`Added`, `Kept`), and a sequence with
more than `MaxParams` parameters is neither a mode nor a query. Two known weak
spots are excluded by name (`CutShort`, `Doubled`) rather than by shortening the alphabet.

### SshTerminal and Backend

`startPTY` is a chain of steps with what each opens and what its error path closes. The output
goes over the wire, through the library's copying goroutine, into a pipe, to the read loop;
`Wait` returns after the copy is done. The PID lookup shares the connection: its calls, the
mutex that makes them one, the file, its removal and the backoff after a miss. An ended session stays in
the manager's map, stopped, until a restart, Delete or Shutdown takes it out (`kept`). Until then it holds one
descriptor, the read end of its input pipe, which `CloseFile` leaves to the runtime (`StdinCollected`). `Promised` is
`INSTANCE Backend WITH` the output that has come or is on its way (`Made`) and the phase of the
session (`Phase`); `IsABackend` says that every behaviour, with its fairness, is one of `Backend`, whose
liveness is that a killed backend ends.

### HostFiles

A tree of nine paths: a directory with the destination, the stubs and a link to another
directory with one file. A target is local (rename overwrites), SFTP with posix-rename or SFTP
without. Each call of a `FileTransport` is a step that may fail; requests and removals interleave.
Over SFTP a commit goes on to `Stat`, `Remove` and a second rename after any error of the first two, on every
kind of server, as the code does. A copy may name its source as its target, which a local one then
empties. Moves are of files only: a directory that moves takes its stubs and the destination with it,
which no promise here speaks of.
A file remembers who wrote it and whether it is whole. A deletion takes with it what it comes to from its path: on a local target what is under it (`Under`),
over SFTP also what links lead to (`Walk`).
Of the tree it is assumed that a stub's name is random and nobody else's, that no path is deeper than
`Depth`, and that a link ends at something that is no link (`HostFilesAssumption`).

## 3. Runs

Deadlock checking is off except in `accounts` and `environment`: shells, chunks, boots, requests
and objects are bounded, and a system whose clients do nothing more, or that has been shut
down, rightly stops.

| Run | Instance | Shows |
|---|---|---|
| `manager` | 1 session, 2 objects, 2 callers, all operations, 1 failing write, 1 reboot | ReservationExclusive, NoOrphanShell, NoShellAfterShutdown, QuietAfterDelete, IsALifecycle |
| `manager_live` | 1 session, 2 objects, 2 callers, 2 environments, fairness; no renames, no shutdown | EnvPersisted, IsALifecycle, CallsReturn |
| `stream` | 1 browser, 2 shells, 3 chunks, buffer 2, queue 2, fairness | StreamComplete, OneSession, NoneForgotten, IsAWatch, ClosedIsTornDown |
| `scrollback` | 3 shells, 4 chunks | StoppedFileIsFinal, NoOrphanOfTheLoop, ShutdownKeepsOutput |
| `browse` | 2 hosts, 2 requests, 1 edit, 3 entries, cap 1 | NoLeakedConnection, WithinCap, CountsExact, AbandonedDialCancelled |
| `accounts` | 3 accounts, 2 names, 2 tokens, 1 session, 2 requests, expiry after 1 tick, 1 crash | AdminRemains, DeletedIsClean, FirstAdminOnce, TokenStaysDead |
| `scanners` | all outputs of 5 fragments out of 12, ring of 10 bytes | TitleFollows, AttachRestores, ReplayIsInert, SeparatorResets |
| `ssh` | 3 chunks, pipe of 1, 2 lookups, fairness | FailedStartHoldsNothing, NoneReadsARemovedFile, EndedGivesBack, IsABackend |
| `environment` | 2 variables, 9 lists, 7 files, 2 edits of the defaults | NoLostDefault, NeverRevealed, StoredFits, SpawnFaithful |
| `host_records` | 2 addresses, 2 accounts that differ by a blank, 2 host keys, 2 requests, 2 exchanges, 1 change of a machine | OnlyConfirmedKeys, ExchangedKeyWorks |
| `host_files` | 9 paths, 3 requests, 3 kinds of target | NoPartialUpload, KeepsDestination |

One more run, `delete_restart`, ends in a violation: a Restart claimed while a Delete is under
way publishes a session whose row is then erased. The comment of `Manager.Delete` says that
cannot be; `PROJECT.json` quotes it and tells the story.

### Known divergences

The following configurations are kept beside the runs, to be given to TLC by hand (module in
brackets). Each ends in a violation within seconds, and each is a place where the code does
something else than a comment or a document says.

| Configuration | Property | What happens |
|---|---|---|
| `RestartGroup.cfg` (MCSessionManager) | RestartKeepsGroup | a group set while a restart spawns is lost; `session/manager.go:230` says a restart must not drop it |
| `LateAttach.cfg` (SessionStream) | RestartMovesClients | a browser that attaches across a restart stays on the old shell (`manager.go:1051`; PROJECT_PLAN.md 975) |
| `StaleScrollback.cfg` (Scrollback) | RestartSeesFinal | a flush in flight replaces the final snapshot by an older one (`manager.go:608` against 559) |
| `StaleBrowse.cfg` (HostBrowse) | ConnectionIsCurrent | a key exchange leaves the connection dialed with the retired password cached (`exchangekeys.go:72`; `hostbrowse.go:293`) |
| `ReplayQueries.cfg` (MCVtScanners) | QueriesRemoved | a query behind an ESC that interrupts another sequence stays in the replay (`replay.go:23`) |
| `SshDiscard.cfg` (SshTerminal) | DiscardReturns | discard of an SSH session waits for a `Wait` that waits for somebody to read the output (`session.go:466`) |
| `HostSecrets.cfg` (MCHostRecords) | PasswordRetired | an edit or a trust that overlaps a key exchange writes the retired password back (`hostkeys.go:133`; README.md 378) |
| `HostAccount.cfg` (MCHostRecords) | ExchangedAccount | a key exchanged for a name with blanks around it is stored with the trimmed name, which may be another account (`exchangekeys.go:65` against its comment and line 51) |
| `DeleteLinks.cfg` (MCHostFiles) | DeletesInside | an SFTP deletion follows a link out of the directory it was given (`transport_ssh.go:315`) |

`BrowseLive.cfg` (HostBrowse) is the other way round: with fairness and one host every browse
request ends (RequestsReturn holds).

Smaller disagreements met on the way, without a configuration: a cancelled lookup caches its
miss for a minute for everybody (`transport_ssh.go:397`); `FileTransport.Commit`'s comment asks
implementations to keep refusing to clobber, the local one overwrites; an upload is said to
leave the destination untouched when it fails, which over SFTP is not so if the first renames fail, for
whatever reason, and the second one too; `uploadStubPath` says a failed upload leaves its stub, which
`cleanupUploadStub` removes; `ExportSize` leaves out what the PID preamble adds to the command line.

Bounds. In the manager every hazard needs one session: sessions share the three
maps, but every guard looks at one id only (the proofs do not fix the number). Two
calls, the read loops of two or three objects and Shutdown already give every pair of
interfering steps. A third object would let two restarts of one session replace one another: that none
does is proved instead (`OnlyStoppedIsReplaced`). `IsALifecycle` is in both runs because `manager` has
shutdowns and reboots but a single environment, and `manager_live` two environments. That every
reservation is given back follows from `CallsReturn` and `ReservationExclusive`. One
browser is enough for `stream`, because clients of a session never affect each other; a
queue of two is overrun by a burst of two chunks and an exit, a buffer of two drops its
oldest chunk, and the third chunk is what overruns either, before a restart or, as its separator, after.
In `browse`, a cap of one makes any second host evict, and three entries allow a dropped
dial, a new one and the other host's connection at the same time. In `accounts`, two requests
and two tokens are two administrators acting on each other; the third account shows that a name
can be used again. In `scanners`, five fragments open, interrupt, abandon and close a sequence and a
ring of ten bytes drops one or two of them. Between the broadcast of a read and its scan an attach restores
the modes only if the ring holds that read and the beginning of a sequence that it ends, which is ESC, `[`
and the parameters (`UnreadIsHeld`). It does with the default of 512 KiB against reads of 32 KiB, but
the configuration takes any size above 0 (`config/config.go:135`). With four fragments the run
was also seen to pass with rings of 9, 7, 3 and 1. In `environment`
the limits are so small that each of them is hit by one list or by the union of two. In
`host_records` two requests are a copy read early and whatever happens before it is written. In
`host_files` the third request is a deletion or a move between the steps of two uploads.

`EnvPersisted` is checked without renames on purpose: a change of name or group takes no
reservation and upserts the whole row it captured, so when it overlaps an environment edit
it can put the old environment back in the store. That is listed as a hazard.

`IsAWatch` and `StreamComplete` promise something to clients no frame was refused: attach
and markStopped ignore a full queue, which is listed as a hazard as well.

Fairness. A goroutine that can take its next step eventually does (weak fairness of
call steps, read loops, Shutdown, handlers, pumps): the Go scheduler is fair and none of
these steps blocks except where the model says so. A write to a socket ends within its
deadline, and a closed connection ends the reads on it, after the frames that were read ahead: since
each of these may start another input, that fairness is strong. An input ends once its terminal is
closed; before that nothing is assumed of it, so `ClosedIsTornDown` leaves out a handler that a shell holds for ever. A dial ends (the SSH client has
time limits). For browse requests fairness is strong: the mutex does not starve
anyone, and the pool of entry names is an artefact of the model. For `ssh`, goroutines that can run do; nothing is
assumed of the server, the network or the remote shell, which is why every ending rests on the
connection being closed. Nothing is assumed of
browsers, shells, processes holding a terminal, edits or crashes.

## 4. Proofs

Everything proved holds for all values of the constants: any number of sessions, requests,
accounts, tokens, hosts, addresses, chunks. Eight modules hold the proofs.

| Module | Theorems | Assumes of the constants |
|---|---|---|
| `SessionManagerProofs` | Invariance, TypeCorrect, ReservationIsExclusive, NoShellIsOrphaned, ShutdownLeavesNoShell, DeleteIsQuiet, OnlyStoppedIsReplaced, RestartCarriesTheEnv, EnvIsPersisted, SessionsFollowTheLifecycle | `None` is none of the values it stands beside; the bounds are numbers. EnvIsPersisted: no renames (`"label" \notin Ops`) |
| `SessionStreamProofs` | BrowsersAreShownTheSession, StreamsAreInOrder, StreamsAreComplete, OneSessionEach, NobodyIsForgotten, NothingIsCutOff, TypeCorrect | `SizesAssumption`: the bounds and the sizes of buffer and queue are numbers |
| `OutputProofs` | StoppedHasItsOutput, DeletedLoopLeavesNothing, CleanExitKeepsOutput, TheTitleFollows, ModesIgnoreCuts, TheSeparatorResets, TheReplayIsInert, AnAttachRestores | the bounds are numbers; `ConstantsAssumption`: fragments are sequences of bytes, a sequence may have the two parameter bytes (`?`, `1049`) that the preamble and the separator send (64 in the code) |
| `HostBrowseProofs` | NothingLeaks, CapHolds, CountsAreExact, AbandonedIsCancelled, ClosedIsEmpty | finitely many hosts and requests: a user's records, one process's goroutines; the placeholder is none of them; the cap is a number |
| `AccountsProofs` | AnAdminRemains, TheFirstAdminComesOnce, DeadTokensStayDead, ADeletedAccountIsClean, NamesStayUnique | `AccountsAssumption`: finitely many ids; the placeholders are none of the values beside them; the bounds are numbers |
| `HostRecordsProofs` | OnlyConfirmedKeysAreMet, ExchangedKeysWork | `HostRecordsAssumption`: the forms and what trimming makes of an account are well formed; `Unset` is no key; the bound is a number |
| `EnvironmentProofs` | DefaultsAreNotLost, SecretsAreNotShown, StoredListsFit, SpawnsAreFaithful | `EnvironmentAssumption`: the limits are numbers; the placeholder is no request; an empty list fits (the limit is 131072 bytes, `envfile/envfile.go:25`). SpawnsAreFaithful: finitely many names; each line of a `.env` means what its spelling is read as (`LinesAreMeant`) |
| `HostProofs` | SshIsABackend, FailedStartIsClean, LookupsDoNotRace, NoUploadIsPartial, TheDestinationIsKept | of the SSH terminal nothing; `HostFilesAssumption`. TheDestinationIsKept: all targets are local, or no link leads above the destination (`DeletesInside` shows what happens otherwise) |

Most of these state a property of some run, named in `PROJECT.json`. Invariance, TypeCorrect,
OnlyStoppedIsReplaced, RestartCarriesTheEnv, StreamsAreInOrder, NothingIsCutOff,
ClosedIsEmpty, NamesStayUnique, ModesIgnoreCuts and SshIsABackend do not: they are types, parts of what
`IsALifecycle` or `IsAWatch` say, facts the other proofs rest on, or (SshIsABackend) the safety half of
`IsABackend`.

**SessionManager.** None of the invariants is inductive alone.
`NoOrphanShell` must know that a map entry a restart overwrites is stopped, hence that its
shell is dead (`StoppedIsDead`), which holds only because the reservation keeps a second
restart out (`ReservationExclusive`) and because the session a restart is about to replace
stays stopped (`RestartPending`). Register must find the object it publishes in nobody
else's hands (`Unregistered`), a create its id unknown (`FreshId`, `IdsUsed`), and every
reference an object of this process (`RefsLive`, `AliveIsLive`). `Inv` is their conjunction.
The proof follows it: effect lemmas say what the helpers (`GoTo`, `Return`, `SetProc`, ...)
do; change lemmas say for each variable which actions touch it and how; for each
conjunct one lemma shows that a step preserves it, going only through the actions that can
disturb it; `InvNext` puts them together, and the action properties follow from `Inv` at the
one action that replaces a map entry.

EnvIsPersisted needs to follow an environment from where it is chosen to its row (`EnvInv`): a
session waits for register still running (`Registering`); between register's publication and its
insert nobody edits or replaces the object, because it runs and, in a restart, is reserved
(`Inserting`); nobody else has a row to write for a session that is being created (`FirstRow`); an
edit works on the object in the map, if there is one (`Editing`). So a row differs from its
object only while the call that will write it is under way (`Stored`).

SessionsFollowTheLifecycle maps every step to a step of `Lifecycle` or to a stutter. register
opens or replaces (`RegisterShows`; `ReplacedBy` gives that the old session is stopped and that
the new one has its environment); Delete closes; Shutdown and a reboot close all; any other step
changes one object at most (`OneObject`), and of a session that is shown it can only stop it or
edit it once stopped (`ViewChange`).

**SessionStream.** A browser's queue is appended to or written out at its head, so its order is
kept if what is appended follows what it was last sent. `Inv` knows that of every place a client
can be in (`Places`, `Streams`): one that has not been attached has been sent nothing; one in the
client set of a life has been sent that life last, and all of it while the life runs; one that a
restart has in hand was last sent an older life. `Lives` says which lives exist and what a handler
can know of them.

BrowsersAreShownTheSession maps every step to a step of `Watch` or to a stutter. Only a pump shows
anything, and what it shows is the head of a queue, so the queue must already hold what `Watch`
will ask for when its turn comes, which may be long after the shell has gone on, exited and been
replaced. Each frame in a queue is therefore backed by what its shell had written (`Backs`:
the output only grows, and an exit is queued when it can grow no more), and each is what may be
shown after the one before it (`Chain`); `WatchInv` is the two for every client that lost
nothing. NothingIsCutOff follows a closing client's queue through the pump (`Pumps`): what is
owed at the close never exceeds what is queued and is worked off before the close frame.

**Scrollback.** Of all the lives of a session only the latest can have a read loop at work
(`OnlyTheLatestRuns`), and it is in the map or with a Delete or with Shutdown, never two of them
(`OneInCharge`). Its final snapshot reaches as far as its output, because nothing is read after it
is taken (`SnapIsFinal`), and is on disk before the loop goes on (`SavedFirst`). A session that
is being deleted takes no snapshot once it is marked (`OnlyDeleteDiscards`, `DiscardedSavesNothing`).

**HostBrowse.** An entry is registered, and then dialing or open; or dropped, and then its
connection is closed or its dial will be thrown away; or done with (`Shape`: `RequestsHoldEntries`,
`OneEntryPerHost`, `NothingElseIsLive`). The counts are part of the argument, since an entry is
forgotten when both are zero (`CountsExact`), and counting needs finitely many requests. `WithinCap`
holds because room is made in the critical section that registers.

**Accounts.** `AccountInv` is `AdminRemains` with the types and `RegisterFollows`: a registration
that is under way, which will make an ordinary account, began when there was an account already.
The rest is counting: the guard of a deletion or a demotion is evaluated in the same
critical section as the change, so beside the administrator that goes there is another
(`AnotherAdmin`), whatever `requireAdmin` saw before. `FirstAdminOnce` follows, because an account
list that is empty now has always been. `TokenStaysDead` needs only that idle times are numbers:
a token that is past `Ttl` is refused before it could slide. `DeletedIsClean` is about accounts
outside `late`. Nobody acts for such an account any more (`CutOff`), so nothing is made for
it while the cascade goes through its list (`Doing`), and the list still holds every session there
is, or a step has failed and the account does not count as cleaned (`Covered`); at the end nothing
is left (`Erased`).

**HostRecords.** A request writes a copy it took long ago, so an invariant of the stored record
alone can never be inductive. `Inv` says of every copy, stored or held, that its pin was confirmed by
somebody and that a generated key was installed at the address and, up to blanks, for the account it stands
beside (`Sound`). Both are facts that, once true, stay true (`SoundStays`), which is why a late write
is harmless for these two promises; `PasswordRetired` is not of that kind, and fails.

**Environment.** An edit between its read and its write holds `EnvStore.mu`, so what it is about
to write is still the patch of what is stored (`Locked`), and the entries it keeps are the stored ones
(`NoLostDefault`). What a list about to be written shows is as public as what is stored (`Hidden`),
and it was found within the limits when it was put together (`Fitting`).

SpawnsAreFaithful needs the `.env` read to its end. The fold over its lines becomes a sequence of accepted
entries, one per line (`ParseIs`), and an induction over the lines shows that after each of them every name
has what its last meaningful line meant (`HasMeant`). A limit could interfere on the way; that it does not, for
a file that `Fits`, compares two sums over the names, the accepted sizes (kept by a running total that adds
the new value and takes off the replaced one) and the largest each name could have (`NextTotal`). `MergeIs`
then says which list wins, given that each entry is either inherited or not (`Flagged`). What the spelling of
one line is read as is a hypothesis: the quoting rules are a fold over characters, which the instance
tries out spelling by spelling (`FilesAreMeant` in `MCEnvironment`, evaluated by its run).

**SshTerminal.** Every step maps to a step of `Backend` or to a stutter. Three facts, which the
code states in no single place, carry it: end-of-file is seen only after `session.Wait` has
returned, because nothing else closes the write end of the pipe (`EofAfterWait`, `WriterOpen`);
by then nothing is on the wire (`WaitIsLast`); a killed session is cut off from its command
(`KilledIsCut`). What ends the connection loses at most what is on the wire (`EndsLoseLittle`). A failed start
leaves nothing open because a step finds open at most what its error path closes (`May`, `Held`).
No lookup reads a removed file because one reads at a time, and only while none has had an
answer, which a removal waits for (`OneLookup`).

**HostFiles.** A stub has one owner, the upload that made its name, and only its owner writes to it
(`StubsAreOwn`); it is committed only whole, and only by a commit does an upload get another name, so
every file elsewhere, and every file a copy has read, is clean (`CopiesAreClean`). `LinksStay`: no request
makes a link. For the destination, a deletion has to know whether it can come to it. What a walk
reaches is found level by level, by `SetInduction` over the levels: one that follows no links reaches only
what is under its start, and one that follows them reaches the destination only from above it, if no link
leads above it (`WalkFromAbove`). So whenever a deletion has the destination before it somebody has asked
for that (`Answered`). A commit that removes it is one over SFTP that had seen its stub (`saw`), and `lost`
records that its second rename then failed; what the theorem excuses is just that.

**VtScanners.** The reference reads a whole run of bytes, the scanner one byte at a time, so the
invariant of the walk says where in the reference the scanner stands: in no sequence, behind the
ESC of the last one, inside it with this much of its payload (`Sees`). One byte then either
completes the last sequence (`NewTitle`) or no sequence (`NoNewTitle`), and the ends of all earlier ones
are where they were (`EndOfOsc`). That reads may cut a sequence is not in this invariant at all: a
walk over two chunks is a walk over both (`ModeWalkOn`), and the fast path of `scan` is a walk that
changes nothing (`FastPath`). All of it is induction over positions, with `SetInduction`.

For the modes and the replay the reference gets walks of its own, inside the proof: `TermStep` keeps
the modes of a terminal, `ScreenStep` what it draws and whether it was asked anything, and one byte at a
time they agree with what the module `VtScanners` reads off all bytes at once (`TerminalIs`, `ScreenIs`).
Everything else is then about walks.
- The modeScanner walks beside the terminal (`Mirrors`), except after an ESC that follows an ESC in a string
  and after a control byte in a CSI sequence, which are what `Doubled` and `CutShort` exclude.
- TheSeparatorResets: from any modes the separator is a short walk to the reset ones (`SeparatorWalk`), and
  `endsInAltScreen` decides about its first sequence as a terminal that reads the ring would.
- AnAttachRestores: the preamble walks a new terminal to the session's modes (`PreambleWalk`); what follows
  is output it is led through a second time. Each of its modes is then either as it will be or as the
  preamble made it, which is how it will be (`Mixed`); and where the ring begins inside a sequence the new
  terminal lags by at most that sequence, until it ends or is too long to count (`Behind`). So both are in the same
  modes at the end of the replay, which may hold a chunk that is not scanned yet (`CatchUp`), if the ring still
  holds it (`UnreadIsHeld`). With a smaller ring modes are missed between broadcast and scan, in the code too.
- TheReplayIsInert: the filter has read `c` and the sequence `y` it is in, and has kept `o` and `y`; to
  terminal and screen `c` and `o` are alike, and `y` stands at the same place in filter, terminal and screen
  (`Splits`). A query that is dropped draws nothing and changes no mode (`Vanishes`); what is kept asks
  nothing (`Harmless`). Dropping it by cutting the output back to `start` is right because `start` is one past the
  length of `o`. `Abandoned` bounds the claim: `ReplayQueries` shows what happens beyond.

Only model-checked:
- all liveness, because fairness and ENABLED are beyond the prover: that calls return, that a closed
  client is torn down unless a shell holds its handler, that a killed SSH session ends and gives back what it held (`EndedGivesBack`), and
  the fair half of `IsABackend`;
- how the spelling of a single `.env` line is read (`ParseValue`), which SpawnsAreFaithful assumes line by
  line.

## 5. Not modelled

- Encodings: JSON, YAML, SQL, the schema and its migrations, the frames of the WebSocket protocol,
  the SSH and SFTP protocols. They are sequential and covered by unit tests.
- Routing, validation of paths and names in requests, rate limits: pure functions of one request. Where
  their outcome matters it is a guard. Whether registration is open is left open.
- Terminal input as bytes, activity timestamps: no guard depends on them. Moves of directories.
- Terminal size (`resize`, `applySize`): a real race, listed as a hazard, planned below.
- The event channel's delivery to a dashboard and the sampler: SessionManager keeps the last
  message per session, which already shows which orders of publishing there are; the browser's merge
  is planned below.
- Host operations: the status a client polls, listings, downloads, and the directory browser. Reads
  without state, or a progress bar.
- SSH: reading the remote `.env` over SFTP (a step that may fail in `SshTerminal`); what it
  returns is `Environment`'s subject. Authentication is an outcome in `HostRecords`.
- The local pty, ioctls and `/proc`: the operating system's behaviour, of which `held` terminals are
  what matters.
- History files: written by the shell; the manager only names and removes them.
- Upgrade and backup: planned below.
- The frontend: presentation, apart from reconnect, the merge of events and uploads.

## 6. Plan

Done: `SessionManager` with proofs and its refinement of `Lifecycle`; `SessionStream`, `Scrollback`,
`HostBrowse`, `HostRecords`, `Accounts` and `Environment`, each with proofs; `Watch` and the refinement
by `SessionStream`; `VtScanners` with proofs of all that its run checks; `Backend`
and `SshTerminal` with its refinement; `HostFiles` with proofs.

Left:

1. `EventChannel`: subscribe, snapshot, publish of calls, read loops and the sampler, the
   dashboard's merge (`stores/sessions.ts`). Abstract specification: each dashboard
   converges to the list of the manager. Covers the ordering hazards of `published`.
2. `TerminalSize`: resize, detach, applySize; abstract specification: the size in force is the
   smallest window; refinement where it holds.
3. `Upgrade`: backup, migrate, record the version, prune, with crashes between steps.
4. Progress reports of host operations and the frontend's transfers store.
