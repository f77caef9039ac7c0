--------------------------- MODULE SessionManager ---------------------------
(***************************************************************************)
(* The lifecycle of sessions in session.Manager: the map of live session   *)
(* objects, the restart reservations, the metadata rows in the store and   *)
(* the shells, under concurrent calls of CreateLocal / CreateSSH, Restart, *)
(* Delete, Update and Shutdown, the read loop of every session, shells     *)
(* that exit or are held open by a process outside their group, store      *)
(* writes that fail, and the backend being killed and started again.       *)
(*                                                                         *)
(* One step of this module is one critical section of the source (under    *)
(* Manager.mu, under Session.mu, or one SQL statement) or one goroutine    *)
(* action between two of them.  A refused call that changes nothing is a   *)
(* stuttering step.  Scrollback, attached clients and terminal sizes are   *)
(* the subject of other modules; all calls here are made by the owner of   *)
(* the session, since a call by anyone else is refused without effect.     *)
(***************************************************************************)
EXTENDS Naturals, FiniteSets

CONSTANTS
  Id,         \* session ids (uuid.NewString never repeats one)
  Obj,        \* *Session objects; each owns one shell
  Caller,     \* goroutines serving a request
  Env,        \* values of a session's environment list
  Label,      \* values of its name and group, taken together
  None,       \* nil pointer, missing row
  Ops,        \* the operations the clients of this instance call
  MaxFaults,  \* bound: store writes that fail
  MaxBoots    \* bound: times the backend is killed or exits and starts again

AllOps == {"create", "restart", "delete", "label", "env", "shutdown"}
Info == [status: {"running", "stopped"}, env: Env, label: Label]
Shown == [shell: Obj, running: BOOLEAN, env: Env]   \* a session to its lookups

ASSUME NoneAssumption == None \notin Obj \cup Id \cup Env \cup Label \cup Info \cup Shown
ASSUME BoundsAssumption == MaxFaults \in Nat /\ MaxBoots \in Nat /\ Ops \subseteq AllOps

VARIABLES
  sessions,      \* Manager.sessions
  restarting,    \* Manager.restarting
  shuttingDown,  \* Manager.shuttingDown
  store,         \* the sessions table
  obj,           \* the Session objects and their shells
  call,          \* the requests in flight
  sd,            \* the progress of Manager.Shutdown
  published,     \* per id, the last message sent to the event subscribers
  faults,        \* store writes that have failed
  boots          \* restarts of the backend so far

vars == <<sessions, restarting, shuttingDown, store, obj, call, sd, published,
          faults, boots>>

-----------------------------------------------------------------------------
(* Data                                                                    *)

Phases == {"spawn", "register", "insert", "reinfo", "publish", "release",
           "apply", "sget", "upsert", "stored", "terminate", "wait", "row", "gone"}
Idle == [op |-> "none", pc |-> "idle", id |-> None, o |-> None, info |-> None]
Unused == [id |-> None, status |-> "unused", proc |-> "none", loop |-> "none",
           discarded |-> FALSE, env |-> None, label |-> None]
NotDown == [pc |-> "no", todo |-> {}, cur |-> None]

\* The session object spawnLocal or spawnSSH returns: running, not yet known
\* to the manager and without a read loop.
Spawned(id, e, l) ==
  [id |-> id, status |-> "running", proc |-> "alive", loop |-> "none",
   discarded |-> FALSE, env |-> e, label |-> l]

\* Session.Info
InfoOf(o) == [status |-> obj[o].status, env |-> obj[o].env, label |-> obj[o].label]

ObjRec == [id: Id \cup {None},
           status: {"unused", "running", "stopped"},
           proc: {"none", "alive", "held", "dead"},
           loop: {"none", "reading", "marked", "stored", "announcing", "done"},
           discarded: BOOLEAN,
           env: Env \cup {None}, label: Label \cup {None}]
CallRec == [op: AllOps \cup {"none"}, pc: Phases \cup {"idle"}, id: Id \cup {None},
            o: Obj \cup {None}, info: Info \cup {None}]
SdRec == [pc: {"no", "next", "terminate", "wait", "done"}, todo: SUBSET Obj,
          cur: Obj \cup {None}]

\* The type of every variable.
TypeOK ==
  /\ sessions \in [Id -> Obj \cup {None}]
  /\ restarting \in SUBSET Id
  /\ shuttingDown \in BOOLEAN
  /\ store \in [Id -> Info \cup {None}]
  /\ obj \in [Obj -> ObjRec]
  /\ call \in [Caller -> CallRec]
  /\ sd \in SdRec
  /\ published \in [Id -> {"none", "running", "stopped", "gone"}]
  /\ faults \in 0..MaxFaults
  /\ boots \in 0..MaxBoots

Init ==
  /\ sessions = [id \in Id |-> None]
  /\ restarting = {}
  /\ shuttingDown = FALSE
  /\ store = [id \in Id |-> None]
  /\ obj = [o \in Obj |-> Unused]
  /\ call = [c \in Caller |-> Idle]
  /\ sd = NotDown
  /\ published = [id \in Id |-> "none"]
  /\ faults = 0
  /\ boots = 0

-----------------------------------------------------------------------------
(* Pieces the handlers share                                               *)

At(c, op, pc) == call[c].op \in op /\ call[c].pc = pc
Begin(c, op) == call[c] = Idle /\ op \in Ops
GoTo(c, pc) == call' = [call EXCEPT ![c].pc = pc]
GoWith(c, pc, info) == call' = [call EXCEPT ![c] = [@ EXCEPT !.pc = pc, !.info = info]]
Return(c) == call' = [call EXCEPT ![c] = Idle]
SetProc(o, p) == obj' = [obj EXCEPT ![o].proc = p]
SetLoop(o, l) == obj' = [obj EXCEPT ![o].loop = l]

\* The ids a client can name: those it was shown in a list or by an event.  A
\* call on any other id is refused without effect.
Known(id) == sessions[id] # None \/ store[id] # None \/ published[id] # "none"
Request(c, op, id) == Begin(c, op) /\ Known(id)

\* Restart and an environment edit defer releaseRestart; the other calls
\* return at once.
Reserving == {"restart", "env"}
Leave(c) == IF call[c].op \in Reserving THEN GoTo(c, "release") ELSE Return(c)

\* One SQL write that may fail; the error is logged and the handler goes on.
StoreWrite(rows) ==
  \/ store' = rows /\ UNCHANGED faults
  \/ faults < MaxFaults /\ faults' = faults + 1 /\ UNCHANGED store

StoreFails == faults < MaxFaults /\ faults' = faults + 1 /\ UNCHANGED store

\* Store.SetStatus: an UPDATE, so without a row it changes nothing.
WithStatus(id, st) ==
  IF store[id] = None THEN store ELSE [store EXCEPT ![id].status = st]

\* Variant: the SIGKILL is missing, and a shell may ignore the other signals.
KillPolitely(o) ==
  IF obj[o].proc = "alive" THEN {"alive", "dead", "held"} ELSE {obj[o].proc}

\* SIGHUP+SIGTERM, and SIGKILL after the grace: the shell is gone, but a
\* process that left its group may still hold the terminal open.
Kill(o) ==
  IF obj[o].proc = "alive" THEN {"dead", "held"} ELSE {obj[o].proc}

\* Variant: the second wait is not bounded.
TerminateWaitsForever(o) == obj[o].loop = "done"

\* terminate reports: the read loop has finished, or it is still blocked in
\* Read because the terminal is held open and the grace is over.
TerminateReturns(o) ==
  \/ obj[o].loop = "done"
  \/ obj[o].loop = "reading" /\ obj[o].proc = "held"

-----------------------------------------------------------------------------
(* CreateLocal, CreateSSH and Restart                                      *)

\* CreateLocal / CreateSSH up to register: a fresh id and a started shell.
\* A failed spawn returns an error and changes nothing.
Create(c) ==
  /\ Begin(c, "create")
  /\ \E id \in Id, o \in Obj, e \in Env, l \in Label :
       /\ \A x \in Obj : obj[x].id # id
       /\ obj[o] = Unused
       /\ obj' = [obj EXCEPT ![o] = Spawned(id, e, l)]
       /\ call' = [call EXCEPT ![c] = [op |-> "create", pc |-> "register",
                                       id |-> id, o |-> o, info |-> None]]
  /\ UNCHANGED <<sessions, restarting, shuttingDown, store, sd, published, faults, boots>>

\* Variant: the reservation is not consulted.
CanClaimUnchecked(id) ==
  /\ ~shuttingDown
  /\ sessions[id] # None => obj[sessions[id]].status # "running"

\* claimRestart grants the reservation.
CanClaim(id) ==
  /\ ~shuttingDown
  /\ id \notin restarting
  /\ sessions[id] # None => obj[sessions[id]].status # "running"

ClaimRestart(c, id) ==
  /\ Request(c, "restart", id)
  /\ CanClaim(id)
  /\ restarting' = restarting \cup {id}
  /\ call' = [call EXCEPT ![c] = [op |-> "restart", pc |-> "spawn", id |-> id,
                                  o |-> None, info |-> None]]
  /\ UNCHANGED <<sessions, shuttingDown, store, obj, sd, published, faults, boots>>

\* restartable: the metadata of the stopped object, or else of the stopped
\* row; None when there is nothing that may be restarted.
Restartable(id) ==
  LET info == IF sessions[id] # None THEN InfoOf(sessions[id]) ELSE store[id]
  IN  IF info # None /\ info.status = "stopped" THEN info ELSE None

\* restartable, then spawnLocal / spawnSSH from what it read: nothing sees the
\* new object before register.
RestartSpawn(c) ==
  /\ At(c, {"restart"}, "spawn")
  /\ LET info == Restartable(call[c].id) IN
     /\ info # None
     /\ \E o \in Obj :
          /\ obj[o] = Unused
          /\ obj' = [obj EXCEPT ![o] = Spawned(call[c].id, info.env, info.label)]
          /\ call' = [call EXCEPT ![c] = [@ EXCEPT !.pc = "register", !.o = o]]
  /\ UNCHANGED <<sessions, restarting, shuttingDown, store, sd, published, faults, boots>>

\* Not restartable after all, or the host is gone, its key changed, the
\* directory was removed, fork failed.
RestartFails(c) ==
  /\ At(c, {"restart"}, "spawn")
  /\ GoTo(c, "release")
  /\ UNCHANGED <<sessions, restarting, shuttingDown, store, obj, sd, published, faults, boots>>

\* register: under the lock, a manager that is shutting down refuses (and kills
\* the shell), any other publishes the object; s.Info() is read right after.
AdmitsAlways == TRUE           \* variant: register does not look at the flag

Admits == ~shuttingDown

RegisterRefused(c) ==
  /\ At(c, {"create", "restart"}, "register")
  /\ ~Admits
  /\ obj' = [obj EXCEPT ![call[c].o] = [@ EXCEPT !.proc = "dead", !.loop = "done"]]
  /\ Leave(c)
  /\ UNCHANGED <<sessions, restarting, shuttingDown, store, sd, published, faults, boots>>

RegisterPublish(c) ==
  /\ At(c, {"create", "restart"}, "register")
  /\ Admits
  /\ sessions' = [sessions EXCEPT ![call[c].id] = call[c].o]
  /\ GoWith(c, "insert", InfoOf(call[c].o))
  /\ UNCHANGED <<restarting, shuttingDown, store, obj, sd, published, faults, boots>>

\* Then the row is written and the read loop started.  CreateLocal goes on to
\* publish this info, Restart takes a fresh one.
RegisterInsert(c) ==
  /\ At(c, {"create", "restart"}, "insert")
  /\ StoreWrite([store EXCEPT ![call[c].id] = call[c].info])
  /\ SetLoop(call[c].o, "reading")
  /\ GoTo(c, IF call[c].op = "create" THEN "publish" ELSE "reinfo")
  /\ UNCHANGED <<sessions, restarting, shuttingDown, sd, published, boots>>

\* Restart: info := s.Info(), after the clients of the old object were moved.
RestartInfo(c) ==
  /\ At(c, {"restart"}, "reinfo")
  /\ GoWith(c, "publish", InfoOf(call[c].o))
  /\ UNCHANGED <<sessions, restarting, shuttingDown, store, obj, sd, published, faults, boots>>

\* publishSession at the end of CreateLocal, CreateSSH, Restart and Update.
PublishSession(c) ==
  /\ At(c, {"create", "restart", "label", "env"}, "publish")
  /\ published' = [published EXCEPT ![call[c].id] = call[c].info.status]
  /\ Leave(c)
  /\ UNCHANGED <<sessions, restarting, shuttingDown, store, obj, sd, faults, boots>>

\* releaseRestart, deferred by Restart and by Update with an environment.
ReleaseRestart(c) ==
  /\ At(c, Reserving, "release")
  /\ restarting' = restarting \ {call[c].id}
  /\ Return(c)
  /\ UNCHANGED <<sessions, shuttingDown, store, obj, sd, published, faults, boots>>

-----------------------------------------------------------------------------
(* Update                                                                  *)

\* Update reads the map: the live object is edited, or else the stored row.
Lookup(c, op, id) ==
  call' = [call EXCEPT ![c] = [op |-> op, id |-> id, o |-> sessions[id], info |-> None,
                               pc |-> IF sessions[id] = None THEN "sget" ELSE "apply"]]

\* Update with a name or a group only: no reservation.
UpdateLabel(c, id) ==
  /\ Request(c, "label", id)
  /\ Lookup(c, "label", id)
  /\ UNCHANGED <<sessions, restarting, shuttingDown, store, obj, sd, published, faults, boots>>

\* Update with an environment: claimEnvEdit takes the restart reservation.
CanClaimEnvUnchecked(id) == TRUE   \* variant: no reservation for the edit

CanClaimEnv(id) == id \notin restarting

ClaimEnvEdit(c, id) ==
  /\ Request(c, "env", id)
  /\ CanClaimEnv(id)
  /\ restarting' = restarting \cup {id}
  /\ Lookup(c, "env", id)
  /\ UNCHANGED <<sessions, shuttingDown, store, obj, sd, published, faults, boots>>

\* The edit of the live object, one critical section of Session.mu.  The
\* environment of a running session is refused, and so is one that applyEnvUpdate
\* does not accept.
EnvEditableAlways(status) == TRUE   \* variant: the refusal is missing
EnvEditable(status) == status = "stopped"

UpdateApply(c) ==
  /\ At(c, {"label", "env"}, "apply")
  /\ LET o == call[c].o IN
     \/ /\ call[c].op = "label"
        /\ \E l \in Label :
             /\ obj' = [obj EXCEPT ![o].label = l]
             /\ GoWith(c, "upsert", [InfoOf(o) EXCEPT !.label = l])
     \/ /\ call[c].op = "env" /\ EnvEditable(obj[o].status)
        /\ \E e \in Env :
             /\ obj' = [obj EXCEPT ![o].env = e]
             /\ GoWith(c, "upsert", [InfoOf(o) EXCEPT !.env = e])
     \/ call[c].op = "env" /\ GoTo(c, "release") /\ UNCHANGED obj
  /\ UNCHANGED <<sessions, restarting, shuttingDown, store, sd, published, faults, boots>>

\* updateStoredOnly reads the row and edits its copy, or returns: it cannot read
\* it, there is none, or the environment is refused.
UpdateStoredGet(c) ==
  /\ At(c, {"label", "env"}, "sget")
  /\ LET row == store[call[c].id] IN
     \/ Leave(c)
     \/ /\ row # None /\ call[c].op = "label"
        /\ \E l \in Label : GoWith(c, "upsert", [row EXCEPT !.label = l])
     \/ /\ row # None /\ call[c].op = "env" /\ EnvEditable(row.status)
        /\ \E e \in Env : GoWith(c, "upsert", [row EXCEPT !.env = e])
  /\ UNCHANGED <<sessions, restarting, shuttingDown, store, obj, sd, published, faults, boots>>

\* store.Insert writes the whole record, status included, and creates the row
\* if it is gone.
UpdateUpsert(c) ==
  /\ At(c, {"label", "env"}, "upsert")
  /\ \/ /\ store' = [store EXCEPT ![call[c].id] = call[c].info]
        /\ GoTo(c, "publish")
        /\ UNCHANGED faults
     \/ StoreFails /\ Leave(c)
  /\ UNCHANGED <<sessions, restarting, shuttingDown, obj, sd, published, boots>>

-----------------------------------------------------------------------------
(* Delete                                                                  *)

CanDelete(id) == id \notin restarting

\* The one critical section of Delete: refuse under a reservation, unpublish.
DeleteBegin(c, id) ==
  /\ Request(c, "delete", id)
  /\ CanDelete(id)
  /\ sessions' = [sessions EXCEPT ![id] = None]
  /\ call' = [call EXCEPT ![c] = [op |-> "delete", id |-> id, o |-> sessions[id],
                                  pc |-> IF sessions[id] = None THEN "stored" ELSE "terminate",
                                  info |-> None]]
  /\ UNCHANGED <<restarting, shuttingDown, store, obj, sd, published, faults, boots>>

\* A session that exists only as a row is removed; without a row Delete reports
\* not found.  Nothing is published on this path.
DeleteStored(c) ==
  /\ At(c, {"delete"}, "stored")
  /\ StoreWrite([store EXCEPT ![call[c].id] = None])
  /\ Return(c)
  /\ UNCHANGED <<sessions, restarting, shuttingDown, obj, sd, published, boots>>

\* closeClients, markDiscarded, and terminate up to its wait.
DeleteTerminate(c) ==
  /\ At(c, {"delete"}, "terminate")
  /\ \E p \in Kill(call[c].o) :
       obj' = [obj EXCEPT ![call[c].o] = [@ EXCEPT !.proc = p, !.discarded = TRUE]]
  /\ GoTo(c, "wait")
  /\ UNCHANGED <<sessions, restarting, shuttingDown, store, sd, published, faults, boots>>

DeleteWait(c) ==
  /\ At(c, {"delete"}, "wait")
  /\ TerminateReturns(call[c].o)
  /\ GoTo(c, "row")
  /\ UNCHANGED <<sessions, restarting, shuttingDown, store, obj, sd, published, faults, boots>>

\* A failed store.Delete returns at once: no event, and the row stays.
DeleteRow(c) ==
  /\ At(c, {"delete"}, "row")
  /\ \/ /\ store' = [store EXCEPT ![call[c].id] = None]
        /\ GoTo(c, "gone")
        /\ UNCHANGED faults
     \/ StoreFails /\ Return(c)
  /\ UNCHANGED <<sessions, restarting, shuttingDown, obj, sd, published, boots>>

DeleteGone(c) ==
  /\ At(c, {"delete"}, "gone")
  /\ published' = [published EXCEPT ![call[c].id] = "gone"]
  /\ Return(c)
  /\ UNCHANGED <<sessions, restarting, shuttingDown, store, obj, sd, faults, boots>>

-----------------------------------------------------------------------------
(* The read loop of a session, and its shell                               *)

ShellExits(o) ==
  /\ obj[o].proc = "alive"
  /\ \E p \in {"dead", "held"} : SetProc(o, p)
  /\ UNCHANGED <<sessions, restarting, shuttingDown, store, call, sd, published, faults, boots>>

\* The last process outside the shell's group lets go of the terminal.
HolderExits(o) ==
  /\ obj[o].proc = "held"
  /\ SetProc(o, "dead")
  /\ UNCHANGED <<sessions, restarting, shuttingDown, store, call, sd, published, faults, boots>>

\* Read fails; after the final snapshot, markStopped.
LoopMarkStopped(o) ==
  /\ obj[o].loop = "reading" /\ obj[o].proc = "dead"
  /\ obj' = [obj EXCEPT ![o] = [@ EXCEPT !.loop = "marked", !.status = "stopped"]]
  /\ UNCHANGED <<sessions, restarting, shuttingDown, store, call, sd, published, faults, boots>>

LoopSetStatus(o) ==
  /\ obj[o].loop = "marked"
  /\ StoreWrite(WithStatus(obj[o].id, "stopped"))
  /\ SetLoop(o, "stored")
  /\ UNCHANGED <<sessions, restarting, shuttingDown, call, sd, published, boots>>

\* releaseBuffer, clearDerived and the isDiscarded check; a discarded session
\* goes straight to Wait, CloseFile and close(exited).
AnnouncesAlways(o) == TRUE         \* variant: no isDiscarded check

Announces(o) == ~obj[o].discarded

LoopCheckDiscarded(o) ==
  /\ obj[o].loop = "stored"
  /\ SetLoop(o, IF Announces(o) THEN "announcing" ELSE "done")
  /\ UNCHANGED <<sessions, restarting, shuttingDown, store, call, sd, published, faults, boots>>

\* publishSession, then Wait, CloseFile and close(exited).
LoopPublish(o) ==
  /\ obj[o].loop = "announcing"
  /\ published' = [published EXCEPT ![obj[o].id] = "stopped"]
  /\ SetLoop(o, "done")
  /\ UNCHANGED <<sessions, restarting, shuttingDown, store, call, sd, faults, boots>>

-----------------------------------------------------------------------------
(* Shutdown, and the process going away                                    *)

PublishedOrNil == {sessions[id] : id \in Id}   \* variant: a nil entry is kept
Published == {sessions[id] : id \in Id} \ {None}

\* The flag is set with the drain of the map.
ShutdownBegin ==
  /\ "shutdown" \in Ops
  /\ sd = NotDown
  /\ shuttingDown' = TRUE
  /\ sd' = [pc |-> "next", todo |-> Published, cur |-> None]
  /\ sessions' = [id \in Id |-> None]
  /\ UNCHANGED <<restarting, store, obj, call, published, faults, boots>>

\* The next object of the drained list, in the map's order, or the end.
ShutdownNext ==
  /\ sd.pc = "next"
  /\ \/ \E o \in sd.todo : sd' = [pc |-> "terminate", todo |-> sd.todo \ {o}, cur |-> o]
     \/ sd.todo = {} /\ sd' = [sd EXCEPT !.pc = "done"]
  /\ UNCHANGED <<sessions, restarting, shuttingDown, store, obj, call, published, faults, boots>>

\* closeClients, SetStatus, the snapshot, and terminate up to its wait.
ShutdownTerminate ==
  /\ sd.pc = "terminate"
  /\ StoreWrite(WithStatus(obj[sd.cur].id, "stopped"))
  /\ \E p \in Kill(sd.cur) : SetProc(sd.cur, p)
  /\ sd' = [sd EXCEPT !.pc = "wait"]
  /\ UNCHANGED <<sessions, restarting, shuttingDown, call, published, boots>>

ShutdownWait ==
  /\ sd.pc = "wait"
  /\ TerminateReturns(sd.cur)
  /\ sd' = [sd EXCEPT !.pc = "next", !.cur = None]
  /\ UNCHANGED <<sessions, restarting, shuttingDown, store, obj, call, published, faults, boots>>

\* The process is killed, or exits after Shutdown, and starts again: memory is
\* gone and with it every terminal, OpenWith reconciles the rows it finds
\* running to stopped, and PruneStopped drops those beyond the retention.
Reconciled(row) == IF row = None THEN None ELSE [row EXCEPT !.status = "stopped"]

Reboot ==
  /\ boots < MaxBoots
  /\ boots' = boots + 1
  /\ \E pruned \in SUBSET Id :
       LET rows == [id \in Id |-> IF id \in pruned THEN None ELSE Reconciled(store[id])]
       IN /\ store' = rows
          /\ published' = [id \in Id |-> IF rows[id] = None THEN "none" ELSE "stopped"]
  /\ sessions' = [id \in Id |-> None]
  /\ restarting' = {}
  /\ shuttingDown' = FALSE
  /\ obj' = [o \in Obj |-> IF obj[o] = Unused THEN Unused
                           ELSE [Unused EXCEPT !.id = obj[o].id, !.status = "stopped",
                                               !.proc = "dead", !.loop = "done"]]
  /\ call' = [c \in Caller |-> Idle]
  /\ sd' = NotDown
  /\ UNCHANGED faults

-----------------------------------------------------------------------------

CallStep(c) ==
  \/ RestartSpawn(c) \/ RestartFails(c)
  \/ RegisterRefused(c) \/ RegisterPublish(c) \/ RegisterInsert(c)
  \/ RestartInfo(c) \/ PublishSession(c) \/ ReleaseRestart(c)
  \/ UpdateApply(c) \/ UpdateStoredGet(c) \/ UpdateUpsert(c)
  \/ DeleteStored(c) \/ DeleteTerminate(c)
  \/ DeleteWait(c) \/ DeleteRow(c) \/ DeleteGone(c)

CallBegin(c) ==
  \/ Create(c)
  \/ \E id \in Id : ClaimRestart(c, id) \/ UpdateLabel(c, id) \/ ClaimEnvEdit(c, id)
                    \/ DeleteBegin(c, id)

LoopStep(o) ==
  LoopMarkStopped(o) \/ LoopSetStatus(o) \/ LoopCheckDiscarded(o) \/ LoopPublish(o)

ShutdownStep == ShutdownNext \/ ShutdownTerminate \/ ShutdownWait

Next ==
  \/ \E c \in Caller : CallBegin(c) \/ CallStep(c)
  \/ \E o \in Obj : ShellExits(o) \/ HolderExits(o) \/ LoopStep(o)
  \/ ShutdownBegin \/ ShutdownStep
  \/ Reboot

Spec == Init /\ [][Next]_vars

\* A goroutine that can go on does: calls, read loops and Shutdown never stop
\* for good.  Nothing is assumed of clients, shells, holders or crashes.
Fairness ==
  /\ \A c \in Caller : WF_vars(CallStep(c))
  /\ \A o \in Obj : WF_vars(LoopStep(o))
  /\ WF_vars(ShutdownStep)

FairSpec == Spec /\ Fairness

-----------------------------------------------------------------------------
(* Safety                                                                  *)

\* The reservation is exact: an id is reserved iff one restart or environment
\* edit of it is in flight, and never two (claimRestart, claimEnvEdit,
\* releaseRestart on every path out).
ReservationExclusive ==
  /\ restarting = {call[c].id : c \in {d \in Caller : call[d].op \in Reserving}}
  /\ \A c, d \in Caller :
       call[c].op \in Reserving /\ call[d].op \in Reserving /\ call[c].id = call[d].id
         => c = d

\* Who will still terminate a shell that is not in the map: the call that has
\* spawned it, the Delete that took it out, or Shutdown.
CallHolds(c, o) ==
  /\ call[c].o = o
  /\ \/ call[c].pc = "register"
     \/ call[c].op = "delete" /\ call[c].pc = "terminate"
ShutdownHolds(o) ==
  \/ o \in sd.todo
  \/ sd.cur = o /\ sd.pc = "terminate"

\* No shell is ever lost: one that is alive is reachable in the map or is in
\* the hands of a step that will kill it.  This is what the reservation and
\* the shuttingDown check of register exist for.
NoOrphanShell ==
  \A o \in Obj : obj[o].proc = "alive" =>
    \/ sessions[obj[o].id] = o
    \/ \E c \in Caller : CallHolds(c, o)
    \/ ShutdownHolds(o)

\* Once Shutdown has returned, the only live shells are those spawned by calls
\* still in flight (which register will refuse) or being deleted.
NoShellAfterShutdown ==
  sd.pc = "done" =>
    \A o \in Obj : obj[o].proc = "alive" => \E c \in Caller : CallHolds(c, o)

\* A read loop that outlives its Delete never announces the session again: a
\* deleted session with an announcement still to come is one whose Delete is
\* waiting for it and has not yet published sessionGone.
QuietAfterDelete ==
  \A o \in Obj : obj[o].loop = "announcing" /\ obj[o].discarded =>
    \E c \in Caller : At(c, {"delete"}, "wait") /\ call[c].o = o

\* id gets a new object in place of an old one.
Replaced(id) == sessions[id] # None /\ sessions'[id] \notin {None, sessions[id]}

\* Publishing a replacement never drops a running session from the map.
OnlyStoppedReplaced ==
  [][\A id \in Id : Replaced(id) => obj[sessions[id]].status = "stopped"]_vars

\* A restart spawns with the environment the stopped session has when its
\* replacement is published: no edit slips in between and is lost.
RestartCarriesEnv ==
  [][\A id \in Id : Replaced(id) =>
       obj'[sessions'[id]].env = obj[sessions[id]].env]_vars

\* A session as its lookups show it: the object in the map, under its lock.
View(id) ==
  IF sessions[id] = None THEN None
  ELSE [shell |-> sessions[id], running |-> obj[sessions[id]].status = "running",
        env |-> obj[sessions[id]].env]
Views == [id \in Id |-> View(id)]

Shows == INSTANCE Lifecycle WITH
  Shell <- Obj, Nothing <- None, session <- Views, down <- shuttingDown

\* Whatever interleaves, each session goes through the states of Lifecycle: a
\* running one is neither replaced nor edited, a stopped one never runs again but
\* as a new shell with the last environment, none comes up during Shutdown.
IsALifecycle == Shows!Spec

\* A restart keeps the session's name and group (manager.go: "a restart must
\* not drop the session out of its group").
RestartKeepsGroup ==
  [][\A id \in Id : Replaced(id) =>
       obj'[sessions'[id]].label = obj[sessions[id]].label]_vars

Touching(id) == {c \in Caller : call[c].id = id}

\* With nothing in flight on a session and every write successful, its row
\* carries the environment of the live object: what the next process restarts
\* it with is what this one would.  The reservation gives that against restarts,
\* deletes and other edits of the environment, so it is checked without "label":
\* a change of the name, which reserves nothing, upserts the whole row and can
\* put an older environment back.
EnvPersisted ==
  faults = 0 =>
    \A id \in Id : Touching(id) = {} /\ sessions[id] # None /\ store[id] # None
      => store[id].env = obj[sessions[id]].env

\* With nothing in flight on it and every write successful, a session in the
\* map has its row: Delete did not erase under a restart it did not see.
LiveSessionHasRow ==
  faults = 0 =>
    \A id \in Id : Touching(id) = {} /\ sessions[id] # None => store[id] # None

-----------------------------------------------------------------------------
(* Liveness, under FairSpec                                                *)

\* Every call returns: a Delete does although something holds the terminal
\* open, and a call blocked on another's read loop does.  With ReservationExclusive
\* every reservation is then given back.
CallsReturn == \A c \in Caller : call[c] # Idle ~> call[c] = Idle

\* Shutdown comes to its end (or the process is killed first).
ShutdownFinishes == shuttingDown ~> (sd.pc = "done" \/ ~shuttingDown)

=============================================================================
