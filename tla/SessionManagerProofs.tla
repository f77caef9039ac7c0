------------------------ MODULE SessionManagerProofs ------------------------
(***************************************************************************)
(* Proofs about SessionManager, for every set of sessions, objects,        *)
(* callers, environments and labels and every bound.  Inv is the inductive *)
(* invariant; the theorems after it are what it implies.  The last two     *)
(* sections add EnvInv, which follows an environment from register or an   *)
(* edit to the row, and show that every step is one of Lifecycle.          *)
(***************************************************************************)
EXTENDS SessionManager, TLAPS

-----------------------------------------------------------------------------
(* The inductive invariant                                                 *)

\* An object of this process: in use, and not one a reboot has wiped.
IsLive(r) ==
  /\ r.id \in Id
  /\ r.status \in {"running", "stopped"}
  /\ r.proc \in {"alive", "held", "dead"}
  /\ r.env \in Env
  /\ r.label \in Label
Live(o) == IsLive(obj[o])

\* Every object the map, a call or Shutdown refers to is live and has the id
\* it is referred to by.
RefsLive ==
  /\ \A id \in Id : sessions[id] # None =>
       sessions[id] \in Obj /\ Live(sessions[id]) /\ obj[sessions[id]].id = id
  /\ \A c \in Caller : call[c].o # None =>
       call[c].o \in Obj /\ Live(call[c].o) /\ obj[call[c].o].id = call[c].id
  /\ \A o \in sd.todo : Live(o)
  /\ sd.cur # None => Live(sd.cur)

\* The program counters each operation goes through, and what a call carries
\* at each of them.
PcsOf == [
  create  |-> {"register", "insert", "publish"},
  restart |-> {"spawn", "register", "insert", "reinfo", "publish", "release"},
  label   |-> {"apply", "sget", "upsert", "publish"},
  env     |-> {"apply", "sget", "upsert", "publish", "release"},
  delete  |-> {"stored", "terminate", "wait", "row", "gone"}]

CallShape(c) ==
  call[c] # Idle =>
    /\ call[c].op \in {"create", "restart", "label", "env", "delete"}
    /\ call[c].pc \in PcsOf[call[c].op]
    /\ call[c].id \in Id
    /\ call[c].pc \in {"register", "insert", "reinfo", "apply", "terminate", "wait"}
         => call[c].o \in Obj
    /\ call[c].pc \in {"insert", "publish", "upsert"} => call[c].info \in Info

ShutdownShape ==
  /\ shuttingDown <=> sd.pc # "no"
  /\ shuttingDown => \A id \in Id : sessions[id] = None
  /\ sd.pc \in {"no", "done"} => sd.todo = {}
  /\ sd.pc \in {"terminate", "wait"} <=> sd.cur # None

\* A session object is stopped only after its shell is gone.
StoppedIsDead == \A o \in Obj : obj[o].status = "stopped" => obj[o].proc = "dead"

\* A live shell belongs to an object of this process.
AliveIsLive == \A o \in Obj : obj[o].proc = "alive" => Live(o)

\* Every id a client may name and every id in a call is that of an object, so a
\* create finds its fresh id unknown.
IdsUsed ==
  /\ \A id \in Id : Known(id) => \E o \in Obj : obj[o].id = id
  /\ \A c \in Caller : call[c].id \in Id => \E o \in Obj : obj[o].id = call[c].id

\* An object that waits for register is in the hands of that one call.
Unregistered ==
  \A c \in Caller : call[c].pc = "register" =>
    /\ obj[call[c].o].loop = "none"
    /\ \A id \in Id : sessions[id] # call[c].o
    /\ \A d \in Caller : d # c => call[d].o # call[c].o
    /\ call[c].o \notin sd.todo /\ call[c].o # sd.cur

\* The id of a create that has not registered is known to nobody else.
FreshId ==
  \A c \in Caller : call[c].op = "create" /\ call[c].pc = "register" =>
    /\ ~Known(call[c].id)
    /\ \A d \in Caller : d # c => call[d].id # call[c].id
    /\ \A o \in Obj : obj[o].id = call[c].id => o = call[c].o

\* While a restart is between its claim and register, the session it is about
\* to replace stays stopped and keeps the environment the restart read.
RestartPending ==
  \A c \in Caller : call[c].op = "restart" /\ call[c].pc \in {"spawn", "register"} =>
    LET old == sessions[call[c].id] IN
      old # None => /\ obj[old].status = "stopped"
                    /\ call[c].pc = "register" => obj[call[c].o].env = obj[old].env

CoreInv ==
  /\ TypeOK
  /\ RefsLive
  /\ \A c \in Caller : CallShape(c)
  /\ ShutdownShape
  /\ ReservationExclusive

Inv == CoreInv /\ StoppedIsDead /\ AliveIsLive /\ IdsUsed /\ Unregistered /\ FreshId /\ RestartPending
         /\ NoOrphanShell /\ QuietAfterDelete

-----------------------------------------------------------------------------
(* Effects: what the building blocks of the actions do, field by field     *)

\* GoTo moves one call and leaves the others.
LEMMA GoToEffect ==
  ASSUME TypeOK, NEW c \in Caller, NEW pc \in Phases, GoTo(c, pc)
  PROVE  /\ call' \in [Caller -> CallRec]
         /\ call'[c].op = call[c].op /\ call'[c].pc = pc /\ call'[c].id = call[c].id
         /\ call'[c].o = call[c].o /\ call'[c].info = call[c].info
         /\ \A d \in Caller \ {c} : call'[d] = call[d]
  BY DEF TypeOK, CallRec, GoTo

\* GoWith moves one call and gives it the metadata it read.
LEMMA GoWithEffect ==
  ASSUME TypeOK, NEW c \in Caller, NEW pc \in Phases, NEW info \in Info, GoWith(c, pc, info)
  PROVE  /\ call' \in [Caller -> CallRec]
         /\ call'[c].op = call[c].op /\ call'[c].pc = pc /\ call'[c].id = call[c].id
         /\ call'[c].o = call[c].o /\ call'[c].info = info
         /\ \A d \in Caller \ {c} : call'[d] = call[d]
  <1>0. call[c] \in CallRec
    BY DEF TypeOK
  <1>1. [call[c] EXCEPT !.pc = pc, !.info = info] \in CallRec
    BY <1>0 DEF CallRec
  <1>2. call' = [call EXCEPT ![c] = [call[c] EXCEPT !.pc = pc, !.info = info]]
    BY DEF GoWith, TypeOK
  <1>. QED BY <1>1, <1>2 DEF TypeOK, CallRec

\* Return ends one call.
LEMMA ReturnEffect ==
  ASSUME TypeOK, NEW c \in Caller, Return(c)
  PROVE  /\ call' \in [Caller -> CallRec]
         /\ call'[c] = Idle
         /\ \A d \in Caller \ {c} : call'[d] = call[d]
  BY DEF TypeOK, CallRec, Return, Idle

\* Leave ends a call, or sends a reserving one to its deferred release.
LEMMA LeaveEffect ==
  ASSUME TypeOK, NEW c \in Caller, Leave(c)
  PROVE  /\ call' \in [Caller -> CallRec]
         /\ \/ call[c].op \notin Reserving /\ call'[c] = Idle
            \/ /\ call[c].op \in Reserving
               /\ call'[c].op = call[c].op /\ call'[c].pc = "release"
               /\ call'[c].id = call[c].id /\ call'[c].o = call[c].o
         /\ \A d \in Caller \ {c} : call'[d] = call[d]
  BY GoToEffect, ReturnEffect DEF Leave, Phases

\* SetProc changes the state of one shell and nothing else of its object.
LEMMA SetProcEffect ==
  ASSUME TypeOK, NEW o \in Obj, NEW p \in {"none", "alive", "held", "dead"}, SetProc(o, p)
  PROVE  /\ obj' \in [Obj -> ObjRec]
         /\ obj'[o].proc = p /\ obj'[o].id = obj[o].id /\ obj'[o].status = obj[o].status
         /\ obj'[o].loop = obj[o].loop /\ obj'[o].discarded = obj[o].discarded
         /\ obj'[o].env = obj[o].env /\ obj'[o].label = obj[o].label
         /\ \A x \in Obj \ {o} : obj'[x] = obj[x]
  <1>1. obj[o] \in ObjRec
    BY DEF TypeOK
  <1>2. [obj[o] EXCEPT !.proc = p] \in ObjRec
    BY <1>1 DEF ObjRec
  <1>3. obj' = [obj EXCEPT ![o] = [obj[o] EXCEPT !.proc = p]]
    BY DEF SetProc
  <1>4. obj' \in [Obj -> ObjRec] /\ \A x \in Obj \ {o} : obj'[x] = obj[x]
    BY <1>2, <1>3 DEF TypeOK
  <1>5. obj'[o] = [obj[o] EXCEPT !.proc = p]
    BY <1>3 DEF TypeOK
  <1>. QED BY <1>1, <1>4, <1>5 DEF ObjRec

\* SetLoop advances one read loop and changes nothing else of its object.
LEMMA SetLoopEffect ==
  ASSUME TypeOK, NEW o \in Obj,
         NEW l \in {"none", "reading", "marked", "stored", "announcing", "done"}, SetLoop(o, l)
  PROVE  /\ obj' \in [Obj -> ObjRec]
         /\ obj'[o].loop = l /\ obj'[o].id = obj[o].id /\ obj'[o].status = obj[o].status
         /\ obj'[o].proc = obj[o].proc /\ obj'[o].discarded = obj[o].discarded
         /\ obj'[o].env = obj[o].env /\ obj'[o].label = obj[o].label
         /\ \A x \in Obj \ {o} : obj'[x] = obj[x]
  <1>1. obj[o] \in ObjRec
    BY DEF TypeOK
  <1>2. [obj[o] EXCEPT !.loop = l] \in ObjRec
    BY <1>1 DEF ObjRec
  <1>3. obj' = [obj EXCEPT ![o] = [obj[o] EXCEPT !.loop = l]]
    BY DEF SetLoop
  <1>4. obj' \in [Obj -> ObjRec] /\ \A x \in Obj \ {o} : obj'[x] = obj[x]
    BY <1>2, <1>3 DEF TypeOK
  <1>5. obj'[o] = [obj[o] EXCEPT !.loop = l]
    BY <1>3 DEF TypeOK
  <1>. QED BY <1>1, <1>4, <1>5 DEF ObjRec

\* A store write that may fail keeps the table and the fault count typed.
LEMMA StoreWriteType ==
  ASSUME TypeOK, NEW rows \in [Id -> Info \cup {None}], StoreWrite(rows)
  PROVE  store' \in [Id -> Info \cup {None}] /\ faults' \in 0..MaxFaults
  BY BoundsAssumption DEF TypeOK, StoreWrite

-----------------------------------------------------------------------------
(* Frames: which actions change a variable                                 *)

\* Only register, Delete, Shutdown and a reboot change Manager.sessions.
LEMMA SessionsChange ==
  ASSUME [Next]_vars
  PROVE  \/ UNCHANGED sessions
         \/ \E c \in Caller : RegisterPublish(c)
         \/ \E c \in Caller, id \in Id : DeleteBegin(c, id)
         \/ ShutdownBegin \/ Reboot
  <1>1. ASSUME NEW c \in Caller, CallBegin(c)
        PROVE  UNCHANGED sessions \/ (\E id \in Id : DeleteBegin(c, id))
    BY <1>1 DEF CallBegin, Create, ClaimRestart, UpdateLabel, ClaimEnvEdit
  <1>2. ASSUME NEW c \in Caller, CallStep(c)
        PROVE  UNCHANGED sessions \/ RegisterPublish(c)
    BY <1>2 DEF CallStep, RestartSpawn, RestartFails, RegisterRefused, RegisterInsert,
       RestartInfo, PublishSession, ReleaseRestart, UpdateApply, UpdateStoredGet, UpdateUpsert,
       DeleteStored, DeleteTerminate, DeleteWait, DeleteRow, DeleteGone
  <1>3. ASSUME NEW o \in Obj, ShellExits(o) \/ HolderExits(o) \/ LoopStep(o)
        PROVE  UNCHANGED sessions
    BY <1>3 DEF LoopStep, ShellExits, HolderExits, LoopMarkStopped, LoopSetStatus,
       LoopCheckDiscarded, LoopPublish
  <1>4. ASSUME ShutdownBegin \/ ShutdownStep
        PROVE  UNCHANGED sessions \/ ShutdownBegin
    BY <1>4 DEF ShutdownStep, ShutdownNext, ShutdownTerminate, ShutdownWait
  <1>. QED BY <1>1, <1>2, <1>3, <1>4 DEF Next, vars

\* Only Shutdown and a reboot change the flag and the drained list.
LEMMA ShutdownChange ==
  ASSUME [Next]_vars
  PROVE  UNCHANGED <<sd, shuttingDown>> \/ ShutdownBegin \/ ShutdownStep \/ Reboot
  <1>1. ASSUME NEW c \in Caller, CallBegin(c)
        PROVE  UNCHANGED <<sd, shuttingDown>>
    BY <1>1 DEF CallBegin, Create, ClaimRestart, UpdateLabel, ClaimEnvEdit, DeleteBegin
  <1>2. ASSUME NEW c \in Caller, CallStep(c)
        PROVE  UNCHANGED <<sd, shuttingDown>>
    BY <1>2 DEF CallStep, RestartSpawn, RestartFails, RegisterRefused, RegisterPublish,
       RegisterInsert, RestartInfo, PublishSession, ReleaseRestart, UpdateApply,
       UpdateStoredGet, UpdateUpsert, DeleteStored, DeleteTerminate, DeleteWait, DeleteRow,
       DeleteGone
  <1>3. ASSUME NEW o \in Obj, ShellExits(o) \/ HolderExits(o) \/ LoopStep(o)
        PROVE  UNCHANGED <<sd, shuttingDown>>
    BY <1>3 DEF LoopStep, ShellExits, HolderExits, LoopMarkStopped, LoopSetStatus,
       LoopCheckDiscarded, LoopPublish
  <1>. QED BY <1>1, <1>2, <1>3 DEF Next, vars

\* Only the steps of calls, and a reboot, change the calls in flight.
LEMMA CallChange ==
  ASSUME [Next]_vars
  PROVE  UNCHANGED call \/ Reboot \/ \E c \in Caller : CallBegin(c) \/ CallStep(c)
  BY DEF Next, vars, LoopStep, ShutdownStep, ShellExits, HolderExits,
     LoopMarkStopped, LoopSetStatus, LoopCheckDiscarded, LoopPublish,
     ShutdownBegin, ShutdownNext, ShutdownTerminate, ShutdownWait

\* Only a claim, its deferred release and a reboot change Manager.restarting.
LEMMA ReservationChange ==
  ASSUME [Next]_vars
  PROVE  UNCHANGED restarting \/ Reboot
         \/ \E c \in Caller : ReleaseRestart(c)
                              \/ \E id \in Id : ClaimRestart(c, id) \/ ClaimEnvEdit(c, id)
  <1>1. ASSUME NEW c \in Caller, CallBegin(c)
        PROVE  UNCHANGED restarting \/ (\E id \in Id : ClaimRestart(c, id)) \/ (\E id \in Id : ClaimEnvEdit(c, id))
    BY <1>1 DEF CallBegin, Create, UpdateLabel, DeleteBegin
  <1>2. ASSUME NEW c \in Caller, CallStep(c)
        PROVE  UNCHANGED restarting \/ ReleaseRestart(c)
    BY <1>2 DEF CallStep, RestartSpawn, RestartFails, RegisterRefused, RegisterPublish,
       RegisterInsert, RestartInfo, PublishSession, UpdateApply, UpdateStoredGet, UpdateUpsert,
       DeleteStored, DeleteTerminate, DeleteWait, DeleteRow, DeleteGone
  <1>3. ASSUME NEW o \in Obj, ShellExits(o) \/ HolderExits(o) \/ LoopStep(o)
        PROVE  UNCHANGED restarting
    BY <1>3 DEF LoopStep, ShellExits, HolderExits, LoopMarkStopped, LoopSetStatus,
       LoopCheckDiscarded, LoopPublish
  <1>4. ASSUME ShutdownBegin \/ ShutdownStep
        PROVE  UNCHANGED restarting
    BY <1>4 DEF ShutdownStep, ShutdownBegin, ShutdownNext, ShutdownTerminate, ShutdownWait
  <1>. QED BY <1>1, <1>2, <1>3, <1>4 DEF Next, vars

\* The steps that change a session object or its shell.
LEMMA ObjChange ==
  ASSUME [Next]_vars
  PROVE  \/ UNCHANGED obj
         \/ Reboot \/ ShutdownTerminate
         \/ \E c \in Caller : \/ Create(c) \/ RestartSpawn(c) \/ RegisterRefused(c)
                              \/ RegisterInsert(c) \/ UpdateApply(c) \/ DeleteTerminate(c)
         \/ \E o \in Obj : ShellExits(o) \/ HolderExits(o) \/ LoopStep(o)
  <1>1. ASSUME NEW c \in Caller, CallBegin(c)
        PROVE  UNCHANGED obj \/ Create(c)
    BY <1>1 DEF CallBegin, ClaimRestart, UpdateLabel, ClaimEnvEdit, DeleteBegin
  <1>2. ASSUME NEW c \in Caller, CallStep(c)
        PROVE  UNCHANGED obj \/ RestartSpawn(c) \/ RegisterRefused(c) \/ RegisterInsert(c) \/
               UpdateApply(c) \/ DeleteTerminate(c)
    BY <1>2 DEF CallStep, RestartFails, RegisterPublish, RestartInfo, PublishSession,
       ReleaseRestart, UpdateStoredGet, UpdateUpsert, DeleteStored, DeleteWait, DeleteRow,
       DeleteGone
  <1>4. ASSUME ShutdownBegin \/ ShutdownStep
        PROVE  UNCHANGED obj \/ ShutdownTerminate
    BY <1>4 DEF ShutdownStep, ShutdownBegin, ShutdownNext, ShutdownWait
  <1>. QED BY <1>1, <1>2, <1>4 DEF Next, vars

-----------------------------------------------------------------------------
(* How an object evolves in one step of a process                          *)

\* What CoreInv says of a call at a given point, field by field.
LEMMA CallFacts ==
  ASSUME CoreInv, NEW c \in Caller, call[c].pc # "idle"
  PROVE  /\ call[c] \in CallRec
         /\ call[c].id \in Id
         /\ call[c].op \in {"create", "restart", "label", "env", "delete"}
         /\ call[c].pc \in PcsOf[call[c].op]
         /\ call[c].pc \in {"register", "insert", "reinfo", "apply", "terminate", "wait"}
              => /\ call[c].o \in Obj
                 /\ Live(call[c].o)
                 /\ obj[call[c].o].id = call[c].id
                 /\ InfoOf(call[c].o) \in Info
         /\ call[c].pc \in {"insert", "publish", "upsert"} => call[c].info \in Info
  <1>1. call[c] # Idle
    BY DEF Idle
  <1>2. call[c] \in CallRec /\ CallShape(c)
    BY DEF CoreInv, TypeOK
  <1>3. ASSUME call[c].o \in Obj
        PROVE  Live(call[c].o) /\ obj[call[c].o].id = call[c].id
    BY <1>3, NoneAssumption DEF CoreInv, RefsLive
  <1>4. ASSUME call[c].o \in Obj, Live(call[c].o)
        PROVE  InfoOf(call[c].o) \in Info
    BY <1>4 DEF Live, IsLive, InfoOf, Info
  <1>. QED BY <1>1, <1>2, <1>3, <1>4 DEF CallShape

\* A new session object, in the hands of the call that has just spawned it: a
\* restart, or a create with an id no object has had.
SpawnedBy(c, o) ==
  /\ call'[c].o = o /\ call'[c].pc = "register" /\ call'[c].id = obj'[o].id
  /\ \/ call[c].op = "restart" /\ call[c].pc = "spawn" /\ call[c].id = obj'[o].id
     \/ \A x \in Obj : obj[x].id # obj'[o].id

Started(o) ==
  /\ obj[o] = Unused
  /\ IsLive(obj'[o])
  /\ obj'[o].status = "running" /\ obj'[o].proc = "alive" /\ obj'[o].loop = "none"
Born(o) ==
  /\ Started(o)
  /\ \E c \in Caller : SpawnedBy(c, o)

\* An object that was there before keeps its id, stays stopped and stays dead;
\* its read loop, its environment and its discarded mark change for these
\* reasons only.
Aged(o) ==
  /\ obj'[o].id = obj[o].id
  /\ obj'[o].status = obj[o].status \/ (obj'[o].status = "stopped" /\ obj[o].proc = "dead")
  /\ obj'[o].proc \in {obj[o].proc, "held", "dead"}
  /\ obj[o].proc = "dead" => obj'[o].proc = "dead"
  /\ obj'[o].env = obj[o].env
       \/ (obj'[o].env \in Env /\ \E c \in Caller : call[c].o = o /\ call[c].op = "env")
  /\ obj'[o].label = obj[o].label \/ obj'[o].label \in Label
  /\ obj'[o].loop = obj[o].loop \/ LoopStep(o)
       \/ \E c \in Caller : call[c].o = o /\ (RegisterInsert(c) \/ RegisterRefused(c))
  /\ obj'[o].discarded = obj[o].discarded
       \/ \E c \in Caller : call[c].o = o /\ DeleteTerminate(c)

\* A new object is typed, running, unregistered and without a read loop.
LEMMA SpawnedStarted ==
  ASSUME TypeOK, NEW o \in Obj, obj[o] = Unused, NEW id \in Id, NEW e \in Env,
         NEW l \in Label, obj' = [obj EXCEPT ![o] = Spawned(id, e, l)]
  PROVE  /\ obj' \in [Obj -> ObjRec]
         /\ Started(o) /\ obj'[o].id = id /\ obj'[o].env = e /\ obj'[o].label = l
         /\ \A x \in Obj \ {o} : obj'[x] = obj[x]
  <1>1. Spawned(id, e, l) \in ObjRec
    BY DEF Spawned, ObjRec
  <1>2. obj'[o] = Spawned(id, e, l) /\ \A x \in Obj \ {o} : obj'[x] = obj[x]
    BY DEF TypeOK
  <1>3. obj' \in [Obj -> ObjRec]
    BY <1>1 DEF TypeOK
  <1>. QED BY <1>2, <1>3 DEF Started, IsLive, Spawned

\* restartable returns the stopped metadata, of the object when there is one.
LEMMA RestartableInfo ==
  ASSUME CoreInv, NEW id \in Id, Restartable(id) # None
  PROVE  /\ Restartable(id) \in Info
         /\ sessions[id] # None => Restartable(id) = InfoOf(sessions[id])
         /\ Restartable(id).status = "stopped"
  <1>1. CASE sessions[id] # None
    <2>1. InfoOf(sessions[id]) \in Info
      BY <1>1 DEF CoreInv, RefsLive, Live, IsLive, InfoOf, Info
    <2>. QED BY <1>1, <2>1 DEF Restartable
  <1>2. CASE sessions[id] = None
    BY <1>2 DEF Restartable, CoreInv, TypeOK
  <1>. QED BY <1>1, <1>2

\* Within one process an object is either born or ages by the rules of Aged.
LEMMA ObjNext ==
  ASSUME CoreInv, [Next]_vars, ~Reboot
  PROVE  /\ obj' \in [Obj -> ObjRec]
         /\ \A o \in Obj : Born(o) \/ Aged(o)
<1> DEFINE Good == obj' \in [Obj -> ObjRec] /\ \A o \in Obj : Born(o) \/ Aged(o)
<1>0. TypeOK /\ \A o \in Obj : obj[o] \in ObjRec
  BY DEF CoreInv, TypeOK
<1>0a. \A x \in Obj : obj'[x] = obj[x] => Aged(x)
  BY DEF Aged
<1>1. CASE UNCHANGED obj
  BY <1>0, <1>1 DEF Aged, TypeOK
<1>2. ASSUME ShutdownTerminate PROVE Good
  <2>1. sd.cur \in Obj
    BY <1>2 DEF ShutdownTerminate, CoreInv, ShutdownShape, TypeOK, SdRec
  <2>2. PICK p \in Kill(sd.cur) : SetProc(sd.cur, p)
    BY <1>2 DEF ShutdownTerminate
  <2>3. p \in {"none", "alive", "held", "dead"} /\ p \in {obj[sd.cur].proc, "held", "dead"}
        /\ (obj[sd.cur].proc = "dead" => p = "dead")
    BY <1>0, <2>1, <2>2 DEF Kill, ObjRec
  <2>. QED BY <1>0, <1>0a, <2>1, <2>2, <2>3, SetProcEffect DEF Aged
<1>3. ASSUME NEW c \in Caller, Create(c) PROVE Good
  <2>1. PICK id \in Id, o \in Obj, e \in Env, l \in Label :
          /\ \A x \in Obj : obj[x].id # id
          /\ obj[o] = Unused
          /\ obj' = [obj EXCEPT ![o] = Spawned(id, e, l)]
          /\ call' = [call EXCEPT ![c] = [op |-> "create", pc |-> "register",
                                          id |-> id, o |-> o, info |-> None]]
    BY <1>3, Zenon DEF Create
  <2>2. call'[c].o = o /\ call'[c].pc = "register" /\ call'[c].id = id
    BY <1>0, <2>1 DEF TypeOK
  <2>3. /\ \A x \in Obj \ {o} : obj'[x] = obj[x]
        /\ Started(o) /\ obj'[o].id = id /\ obj' \in [Obj -> ObjRec]
    BY <1>0, <2>1, SpawnedStarted
  <2>4. Born(o)
    BY <2>1, <2>2, <2>3 DEF Born, SpawnedBy
  <2>. QED BY <1>0a, <2>3, <2>4
<1>4. ASSUME NEW c \in Caller, RestartSpawn(c) PROVE Good
  <2>1. /\ call[c].id \in Id /\ call[c] \in CallRec
        /\ call[c].op = "restart" /\ call[c].pc = "spawn"
    BY <1>4, CallFacts DEF RestartSpawn, At
  <2>2. PICK o \in Obj : LET info == Restartable(call[c].id) IN
          /\ info # None /\ obj[o] = Unused
          /\ obj' = [obj EXCEPT ![o] = Spawned(call[c].id, info.env, info.label)]
          /\ call' = [call EXCEPT ![c] = [@ EXCEPT !.pc = "register", !.o = o]]
    BY <1>4 DEF RestartSpawn
  <2>3. PICK id \in Id, e \in Env, l \in Label :
          /\ id = call[c].id
          /\ e = Restartable(call[c].id).env /\ l = Restartable(call[c].id).label
    BY <2>1, <2>2, RestartableInfo DEF Info
  <2>4. obj[o] = Unused /\ obj' = [obj EXCEPT ![o] = Spawned(id, e, l)]
    BY <2>2, <2>3
  <2>5. call'[c].o = o /\ call'[c].pc = "register" /\ call'[c].id = id
    <3>1. call'[c] = [call[c] EXCEPT !.pc = "register", !.o = o]
      BY <1>0, <2>2 DEF TypeOK
    <3>. QED BY <2>1, <2>3, <3>1 DEF CallRec
  <2>6. /\ \A x \in Obj \ {o} : obj'[x] = obj[x]
        /\ Started(o) /\ obj'[o].id = id /\ obj' \in [Obj -> ObjRec]
    BY <1>0, <2>4, SpawnedStarted
  <2>7. Born(o)
    BY <2>1, <2>3, <2>5, <2>6 DEF Born, SpawnedBy
  <2>. QED BY <1>0a, <2>6, <2>7
<1>5. ASSUME NEW c \in Caller, RegisterRefused(c) PROVE Good
  <2>1. call[c].o \in Obj
    BY <1>5, CallFacts DEF RegisterRefused, At
  <2>2. obj' = [obj EXCEPT ![call[c].o] = [obj[call[c].o] EXCEPT !.proc = "dead", !.loop = "done"]]
    BY <1>5 DEF RegisterRefused
  <2>3. [obj[call[c].o] EXCEPT !.proc = "dead", !.loop = "done"] \in ObjRec
    BY <1>0, <2>1 DEF ObjRec
  <2>4. obj' \in [Obj -> ObjRec] /\ \A x \in Obj \ {call[c].o} : obj'[x] = obj[x]
    BY <1>0, <2>2, <2>3 DEF TypeOK
  <2>5. obj'[call[c].o] = [obj[call[c].o] EXCEPT !.proc = "dead", !.loop = "done"]
    BY <1>0, <2>1, <2>2 DEF TypeOK
  <2>6. Aged(call[c].o)
    BY <1>0, <1>5, <2>1, <2>5 DEF Aged, ObjRec
  <2>. QED BY <1>0a, <2>4, <2>6
<1>6. ASSUME NEW c \in Caller, RegisterInsert(c) PROVE Good
  <2>1. call[c].o \in Obj
    BY <1>6, CallFacts DEF RegisterInsert, At
  <2>. QED BY <1>0, <1>0a, <1>6, <2>1, SetLoopEffect DEF Aged, RegisterInsert
<1>7. ASSUME NEW c \in Caller, UpdateApply(c) PROVE Good
  <2>1. call[c].o \in Obj
    BY <1>7, CallFacts DEF UpdateApply, At
  <2>2. CASE UNCHANGED obj
    BY <1>0, <2>2 DEF Aged, TypeOK
  <2>3. ASSUME NEW l \in Label, obj' = [obj EXCEPT ![call[c].o].label = l] PROVE Good
    <3>1. [obj[call[c].o] EXCEPT !.label = l] \in ObjRec
      BY <1>0, <2>1 DEF ObjRec
    <3>2. obj' = [obj EXCEPT ![call[c].o] = [obj[call[c].o] EXCEPT !.label = l]]
      BY <2>3
    <3>. QED BY <1>0, <1>0a, <2>1, <3>1, <3>2 DEF Aged, ObjRec, TypeOK
  <2>4. ASSUME NEW e \in Env, call[c].op = "env", obj' = [obj EXCEPT ![call[c].o].env = e] PROVE Good
    <3>1. [obj[call[c].o] EXCEPT !.env = e] \in ObjRec
      BY <1>0, <2>1 DEF ObjRec
    <3>2. obj' = [obj EXCEPT ![call[c].o] = [obj[call[c].o] EXCEPT !.env = e]]
      BY <2>4
    <3>3. obj' \in [Obj -> ObjRec] /\ \A x \in Obj \ {call[c].o} : obj'[x] = obj[x]
      BY <1>0, <3>1, <3>2 DEF TypeOK
    <3>4. obj'[call[c].o] = [obj[call[c].o] EXCEPT !.env = e]
      BY <1>0, <2>1, <3>2 DEF TypeOK
    <3>5. Aged(call[c].o)
      BY <1>0, <2>1, <2>4, <3>4 DEF Aged, ObjRec
    <3>. QED BY <1>0a, <3>3, <3>5
  <2>. QED BY <1>7, <2>2, <2>3, <2>4 DEF UpdateApply
<1>8. ASSUME NEW c \in Caller, DeleteTerminate(c) PROVE Good
  <2>1. call[c].o \in Obj
    BY <1>8, CallFacts DEF DeleteTerminate, At
  <2>2. PICK p \in Kill(call[c].o) :
          obj' = [obj EXCEPT ![call[c].o] = [obj[call[c].o] EXCEPT !.proc = p, !.discarded = TRUE]]
    BY <1>8 DEF DeleteTerminate
  <2>3. p \in {"none", "alive", "held", "dead"} /\ p \in {obj[call[c].o].proc, "held", "dead"}
        /\ (obj[call[c].o].proc = "dead" => p = "dead")
    BY <1>0, <2>1, <2>2 DEF Kill, ObjRec
  <2>4. [obj[call[c].o] EXCEPT !.proc = p, !.discarded = TRUE] \in ObjRec
    BY <1>0, <2>1, <2>3 DEF ObjRec
  <2>5. obj' \in [Obj -> ObjRec] /\ \A x \in Obj \ {call[c].o} : obj'[x] = obj[x]
    BY <1>0, <2>2, <2>4 DEF TypeOK
  <2>6. obj'[call[c].o] = [obj[call[c].o] EXCEPT !.proc = p, !.discarded = TRUE]
    BY <1>0, <2>1, <2>2 DEF TypeOK
  <2>7. Aged(call[c].o)
    BY <1>0, <1>8, <2>1, <2>3, <2>6 DEF Aged, ObjRec
  <2>. QED BY <1>0a, <2>5, <2>7
<1>9. ASSUME NEW o \in Obj, ShellExits(o) PROVE Good
  BY <1>0, <1>0a, <1>9, SetProcEffect DEF Aged, ShellExits
<1>10. ASSUME NEW o \in Obj, HolderExits(o) PROVE Good
  BY <1>0, <1>0a, <1>10, SetProcEffect DEF Aged, HolderExits
<1>11. ASSUME NEW o \in Obj, LoopMarkStopped(o) PROVE Good
  <2>1. /\ obj' = [obj EXCEPT ![o] = [obj[o] EXCEPT !.loop = "marked", !.status = "stopped"]]
        /\ obj[o].proc = "dead" /\ LoopStep(o)
    BY <1>11 DEF LoopMarkStopped, LoopStep
  <2>2. [obj[o] EXCEPT !.loop = "marked", !.status = "stopped"] \in ObjRec
    BY <1>0 DEF ObjRec
  <2>. QED BY <1>0, <1>0a, <2>1, <2>2 DEF Aged, ObjRec, TypeOK
<1>12. ASSUME NEW o \in Obj, LoopSetStatus(o) \/ LoopCheckDiscarded(o) \/ LoopPublish(o) PROVE Good
  <2>0. LoopStep(o)
    BY <1>12 DEF LoopStep
  <2>1. PICK l \in {"stored", "announcing", "done"} : SetLoop(o, l)
    BY <1>12 DEF LoopSetStatus, LoopCheckDiscarded, LoopPublish
  <2>. QED BY <1>0, <1>0a, <2>0, <2>1, SetLoopEffect DEF Aged
<1>. QED BY <1>1, <1>2, <1>3, <1>4, <1>5, <1>6, <1>7, <1>8, <1>9, <1>10, <1>11, <1>12,
            ObjChange DEF LoopStep

-----------------------------------------------------------------------------
(* How a call evolves                                                      *)

\* The calls have their type and shape after the step.
CallTyped == call' \in [Caller -> CallRec] /\ \A c \in Caller : CallShape(c)'

\* Call c has moved on to pc with its operation, id and object as they were, or
\* has returned; the other calls stay as they are.
Moved(c, pc) ==
  /\ call' \in [Caller -> CallRec]
  /\ \A d \in Caller \ {c} : call'[d] = call[d]
  /\ call'[c].op = call[c].op /\ call'[c].pc = pc
  /\ call'[c].id = call[c].id /\ call'[c].o = call[c].o

Returned(c) ==
  /\ call' \in [Caller -> CallRec]
  /\ \A d \in Caller \ {c} : call'[d] = call[d]
  /\ call'[c] = Idle

\* A call that holds no reservation has returned.
Ended(c) == Returned(c) /\ call[c].op \notin Reserving

\* Calls stay well shaped when the one that moves ends up well shaped.
LEMMA OthersTyped ==
  ASSUME CoreInv, NEW c \in Caller, call' \in [Caller -> CallRec],
         \A d \in Caller \ {c} : call'[d] = call[d],
         CallShape(c)'
  PROVE  CallTyped
  <1>1. \A d \in Caller \ {c} : CallShape(d)'
    BY DEF CoreInv, CallShape
  <1>. QED BY <1>1 DEF CallTyped

\* A call that moves to a point of its operation with what that needs is well shaped.
LEMMA MovedTyped ==
  ASSUME CoreInv, NEW c \in Caller, call[c].pc # "idle",
         NEW pc \in PcsOf[call[c].op], Moved(c, pc),
         pc \in {"register", "insert", "reinfo", "apply", "terminate", "wait"}
           => call[c].o \in Obj,
         pc \in {"insert", "publish", "upsert"} => call'[c].info \in Info
  PROVE  CallTyped
  <1>1. call[c].id \in Id /\ call[c].op \in {"create", "restart", "label", "env", "delete"}
    BY CallFacts
  <1>2. CallShape(c)'
    BY <1>1 DEF CallShape, Moved
  <1>. QED BY <1>2, OthersTyped DEF Moved

\* Returning keeps the calls well shaped.
LEMMA ReturnedTyped ==
  ASSUME CoreInv, NEW c \in Caller, Returned(c)
  PROVE  CallTyped
  <1>1. CallShape(c)'
    BY DEF CallShape, Returned, Idle
  <1>. QED BY <1>1, OthersTyped DEF Returned

\* Leaving keeps the calls well shaped.
LEMMA LeaveTyped ==
  ASSUME CoreInv, NEW c \in Caller, call[c].pc # "idle", Leave(c)
  PROVE  CallTyped /\ (Moved(c, "release") \/ Ended(c))
  <1>0. TypeOK /\ call[c].op \in {"create", "restart", "label", "env", "delete"}
    BY CallFacts DEF CoreInv
  <1>1. CASE call[c].op \in Reserving
    <2>1. Moved(c, "release")
      BY <1>0, <1>1, LeaveEffect DEF Moved
    <2>2. "release" \in PcsOf[call[c].op]
      BY <1>1 DEF Reserving, PcsOf
    <2>. QED BY <2>1, <2>2, MovedTyped
  <1>2. CASE call[c].op \notin Reserving
    BY <1>0, <1>2, LeaveEffect, ReturnedTyped DEF Returned, Ended
  <1>. QED BY <1>1, <1>2

\* What each action does to its call.
LEMMA CallStepEffect ==
  ASSUME CoreInv, NEW c \in Caller
  PROVE  /\ RestartFails(c) => Moved(c, "release")
         /\ RegisterPublish(c) => Moved(c, "insert")
         /\ RegisterInsert(c) => \/ Moved(c, "publish") /\ call[c].op = "create"
                                 \/ Moved(c, "reinfo") /\ call[c].op = "restart"
         /\ RestartInfo(c) => Moved(c, "publish")
         /\ DeleteTerminate(c) => Moved(c, "wait")
         /\ DeleteWait(c) => Moved(c, "row")
         /\ DeleteRow(c) => Moved(c, "gone") \/ Returned(c)
         /\ ReleaseRestart(c) \/ DeleteStored(c) \/ DeleteGone(c) => Returned(c)
  <1>0. TypeOK
    BY DEF CoreInv
  <1>1. ASSUME NEW pc \in Phases, GoTo(c, pc) PROVE Moved(c, pc)
    BY <1>0, <1>1, GoToEffect DEF Moved
  <1>2. ASSUME Return(c) PROVE Returned(c)
    BY <1>0, <1>2, ReturnEffect DEF Returned
  <1>3. ASSUME At(c, {"create", "restart"}, "register") \/ At(c, {"restart"}, "reinfo")
        PROVE  InfoOf(call[c].o) \in Info
    BY <1>3, CallFacts DEF At
  <1>4. RestartFails(c) => Moved(c, "release")
    BY <1>1 DEF RestartFails, Phases
  <1>5. RegisterPublish(c) => Moved(c, "insert")
    BY <1>0, <1>3, GoWithEffect DEF RegisterPublish, Moved, Phases
  <1>6. RegisterInsert(c) => \/ Moved(c, "publish") /\ call[c].op = "create"
                             \/ Moved(c, "reinfo") /\ call[c].op = "restart"
    BY <1>1 DEF RegisterInsert, At, Phases
  <1>7. RestartInfo(c) => Moved(c, "publish")
    BY <1>0, <1>3, GoWithEffect DEF RestartInfo, Moved, Phases
  <1>8. DeleteTerminate(c) => Moved(c, "wait")
    BY <1>1 DEF DeleteTerminate, Phases
  <1>9. DeleteWait(c) => Moved(c, "row")
    BY <1>1 DEF DeleteWait, Phases
  <1>10. DeleteRow(c) => Moved(c, "gone") \/ Returned(c)
    BY <1>1, <1>2 DEF DeleteRow, Phases
  <1>11. ReleaseRestart(c) \/ DeleteStored(c) \/ DeleteGone(c) => Returned(c)
    BY <1>2 DEF ReleaseRestart, DeleteStored, DeleteGone
  <1>. QED BY <1>4, <1>5, <1>6, <1>7, <1>8, <1>9, <1>10, <1>11

\* Where each step of Update takes its call.
LEMMA UpdateEffect ==
  ASSUME CoreInv, NEW c \in Caller,
         UpdateApply(c) \/ UpdateStoredGet(c) \/ UpdateUpsert(c)
  PROVE  /\ CallTyped
         /\ \/ Moved(c, "upsert") \/ Moved(c, "publish") \/ Moved(c, "release") \/ Ended(c)
  <1>0. TypeOK
    BY DEF CoreInv
  <1>a. /\ call[c].pc \in {"apply", "sget", "upsert"} /\ call[c].op \in {"label", "env"}
        /\ {"upsert", "publish"} \subseteq PcsOf[call[c].op]
    BY DEF UpdateApply, UpdateStoredGet, UpdateUpsert, At, PcsOf
  <1>1. ASSUME NEW info \in Info, GoWith(c, "upsert", info)
        PROVE  CallTyped /\ Moved(c, "upsert")
    <2>1. Moved(c, "upsert") /\ call'[c].info \in Info
      BY <1>0, <1>1, GoWithEffect DEF Moved, Phases
    <2>. QED BY <1>a, <2>1, MovedTyped
  <1>2. CASE UpdateApply(c)
    <2>1. InfoOf(call[c].o) \in Info
      BY <1>2, CallFacts DEF UpdateApply, At
    <2>2. /\ \A l \in Label : [InfoOf(call[c].o) EXCEPT !.label = l] \in Info
          /\ \A e \in Env : [InfoOf(call[c].o) EXCEPT !.env = e] \in Info
      BY <2>1 DEF Info
    <2>3. ASSUME call[c].op = "env", GoTo(c, "release")
          PROVE  CallTyped /\ Moved(c, "release")
      <3>1. Moved(c, "release")
        BY <1>0, <2>3, GoToEffect DEF Moved, Phases
      <3>. QED BY <1>a, <2>3, <3>1, MovedTyped DEF PcsOf
    <2>. QED BY <1>1, <1>2, <2>2, <2>3 DEF UpdateApply
  <1>3. CASE UpdateStoredGet(c)
    <2>1. call[c].id \in Id /\ store[call[c].id] \in Info \cup {None}
      BY <1>0, <1>3, CallFacts DEF UpdateStoredGet, At, TypeOK
    <2>2. store[call[c].id] # None =>
            /\ \A l \in Label : [store[call[c].id] EXCEPT !.label = l] \in Info
            /\ \A e \in Env : [store[call[c].id] EXCEPT !.env = e] \in Info
      BY <2>1 DEF Info
    <2>3. CASE Leave(c)
      BY <1>a, <2>3, LeaveTyped
    <2>. QED BY <1>1, <1>3, <2>2, <2>3 DEF UpdateStoredGet
  <1>4. CASE UpdateUpsert(c)
    <2>1. CASE Leave(c)
      BY <1>a, <2>1, LeaveTyped
    <2>2. ASSUME GoTo(c, "publish") PROVE CallTyped /\ Moved(c, "publish")
      <3>1. Moved(c, "publish") /\ call'[c].info \in Info
        BY <1>0, <1>4, <2>2, GoToEffect, CallFacts DEF Moved, Phases, UpdateUpsert, At
      <3>. QED BY <1>a, <3>1, MovedTyped
    <2>. QED BY <1>4, <2>1, <2>2 DEF UpdateUpsert
  <1>. QED BY <1>2, <1>3, <1>4

\* A call that begins: it was idle, and starts with the given record.
Begun(c, r) ==
  /\ call[c] = Idle
  /\ call' \in [Caller -> CallRec]
  /\ \A d \in Caller \ {c} : call'[d] = call[d]
  /\ call'[c] = r

\* Every way a call begins: the operation, the id and the object it starts with.
LEMMA CallBeginEffect ==
  ASSUME CoreInv, NEW c \in Caller, CallBegin(c)
  PROVE  /\ CallTyped
         /\ \E r \in CallRec :
              /\ Begun(c, r) /\ r.id \in Id
              /\ \/ Create(c) /\ r.op = "create" /\ r.pc = "register" /\ Born(r.o)
                    /\ r.o \in Obj /\ obj'[r.o].id = r.id
                    /\ \A x \in Obj : obj[x].id # r.id
                 \/ ClaimRestart(c, r.id) /\ r.op = "restart" /\ r.pc = "spawn" /\ r.o = None
                 \/ UpdateLabel(c, r.id) /\ r.op = "label" /\ r.pc \in {"apply", "sget"}
                    /\ r.o = sessions[r.id]
                 \/ ClaimEnvEdit(c, r.id) /\ r.op = "env" /\ r.pc \in {"apply", "sget"}
                    /\ r.o = sessions[r.id]
                 \/ DeleteBegin(c, r.id) /\ r.op = "delete" /\ r.pc \in {"stored", "terminate"}
                    /\ r.o = sessions[r.id]
  <1> DEFINE Goal(r) ==
              /\ Begun(c, r) /\ r.id \in Id
              /\ \/ Create(c) /\ r.op = "create" /\ r.pc = "register" /\ Born(r.o)
                    /\ r.o \in Obj /\ obj'[r.o].id = r.id
                    /\ \A x \in Obj : obj[x].id # r.id
                 \/ ClaimRestart(c, r.id) /\ r.op = "restart" /\ r.pc = "spawn" /\ r.o = None
                 \/ UpdateLabel(c, r.id) /\ r.op = "label" /\ r.pc \in {"apply", "sget"}
                    /\ r.o = sessions[r.id]
                 \/ ClaimEnvEdit(c, r.id) /\ r.op = "env" /\ r.pc \in {"apply", "sget"}
                    /\ r.o = sessions[r.id]
                 \/ DeleteBegin(c, r.id) /\ r.op = "delete" /\ r.pc \in {"stored", "terminate"}
                    /\ r.o = sessions[r.id]
  <1>0. TypeOK
    BY DEF CoreInv
  <1>a. ASSUME NEW r \in CallRec, call[c] = Idle, call' = [call EXCEPT ![c] = r]
        PROVE  Begun(c, r)
    BY <1>0, <1>a DEF Begun, TypeOK
  <1>b. ASSUME NEW r \in CallRec, Begun(c, r), r.id \in Id, r.pc \in PcsOf[r.op],
               r.op \in {"create", "restart", "label", "env", "delete"},
               r.pc \in {"register", "apply", "terminate"} => r.o \in Obj,
               r.pc \notin {"insert", "reinfo", "wait", "publish", "upsert"}
        PROVE  CallTyped
    <2>1. CallShape(c)'
      BY <1>b DEF CallShape, Begun
    <2>. QED BY <1>b, <2>1, OthersTyped DEF Begun
  <1>1. CASE Create(c)
    <2>1. PICK id \in Id, o \in Obj, e \in Env, l \in Label :
            /\ \A x \in Obj : obj[x].id # id
            /\ obj[o] = Unused
            /\ obj' = [obj EXCEPT ![o] = Spawned(id, e, l)]
            /\ call' = [call EXCEPT ![c] = [op |-> "create", pc |-> "register",
                                            id |-> id, o |-> o, info |-> None]]
      BY <1>1, Zenon DEF Create
    <2> DEFINE r == [op |-> "create", pc |-> "register", id |-> id, o |-> o, info |-> None]
    <2>2. r \in CallRec /\ call[c] = Idle
      BY <1>1 DEF CallRec, AllOps, Phases, Create, Begin
    <2>3. Begun(c, r)
      BY <1>a, <2>1, <2>2
    <2>4. Born(o) /\ obj'[o].id = id
      <3>1. call'[c].o = o /\ call'[c].pc = "register" /\ call'[c].id = id
        BY <2>3 DEF Begun
      <3>2. Started(o) /\ obj'[o].id = id
        BY <1>0, <2>1, SpawnedStarted
      <3>. QED BY <2>1, <3>1, <3>2 DEF Born, SpawnedBy
    <2>5. CallTyped
      BY <1>b, <2>2, <2>3 DEF PcsOf
    <2>6. Goal(r)
      BY <1>1, <2>1, <2>3, <2>4
    <2>. QED BY <2>2, <2>5, <2>6
  <1>2. ASSUME NEW id \in Id, ClaimRestart(c, id) PROVE CallTyped /\ \E r \in CallRec : Goal(r)
    <2> DEFINE r == [op |-> "restart", pc |-> "spawn", id |-> id, o |-> None, info |-> None]
    <2>1. r \in CallRec /\ call[c] = Idle /\ call' = [call EXCEPT ![c] = r]
      BY <1>2 DEF CallRec, AllOps, Phases, ClaimRestart, Request, Begin
    <2>2. Begun(c, r)
      BY <1>a, <2>1
    <2>3. CallTyped
      BY <1>b, <2>1, <2>2 DEF PcsOf
    <2>4. Goal(r)
      BY <1>2, <2>2
    <2>. QED BY <2>1, <2>3, <2>4
  <1>3. ASSUME NEW id \in Id, NEW op \in {"label", "env"}, call[c] = Idle, Lookup(c, op, id),
               IF op = "label" THEN UpdateLabel(c, id) ELSE ClaimEnvEdit(c, id)
        PROVE  CallTyped /\ \E r \in CallRec : Goal(r)
    <2> DEFINE r == [op |-> op, id |-> id, o |-> sessions[id], info |-> None,
                     pc |-> IF sessions[id] = None THEN "sget" ELSE "apply"]
    <2>1. sessions[id] \in Obj \cup {None}
      BY <1>0 DEF TypeOK
    <2>2. r \in CallRec /\ call' = [call EXCEPT ![c] = r]
      BY <1>3, <2>1 DEF CallRec, AllOps, Phases, Lookup
    <2>3. Begun(c, r)
      BY <1>a, <1>3, <2>2
    <2>4. CallTyped
      BY <1>b, <2>1, <2>2, <2>3 DEF PcsOf
    <2>5. Goal(r)
      BY <1>3, <2>3
    <2>. QED BY <2>2, <2>4, <2>5
  <1>4. ASSUME NEW id \in Id, DeleteBegin(c, id) PROVE CallTyped /\ \E r \in CallRec : Goal(r)
    <2> DEFINE r == [op |-> "delete", id |-> id, o |-> sessions[id],
                     pc |-> IF sessions[id] = None THEN "stored" ELSE "terminate",
                     info |-> None]
    <2>1. sessions[id] \in Obj \cup {None}
      BY <1>0 DEF TypeOK
    <2>2. r \in CallRec /\ call[c] = Idle /\ call' = [call EXCEPT ![c] = r]
      BY <1>4, <2>1 DEF CallRec, AllOps, Phases, DeleteBegin, Request, Begin
    <2>3. Begun(c, r)
      BY <1>a, <2>2
    <2>4. CallTyped
      BY <1>b, <2>1, <2>2, <2>3 DEF PcsOf
    <2>5. Goal(r)
      BY <1>4, <2>3
    <2>. QED BY <2>2, <2>4, <2>5
  <1>5. ASSUME NEW id \in Id, UpdateLabel(c, id) PROVE CallTyped /\ \E r \in CallRec : Goal(r)
    BY <1>3, <1>5 DEF UpdateLabel, Request, Begin
  <1>6. ASSUME NEW id \in Id, ClaimEnvEdit(c, id) PROVE CallTyped /\ \E r \in CallRec : Goal(r)
    BY <1>3, <1>6 DEF ClaimEnvEdit, Request, Begin
  <1>. QED BY <1>1, <1>2, <1>4, <1>5, <1>6 DEF CallBegin

\* A restart spawns its object from what restartable read.
LEMMA SpawnEffect ==
  ASSUME CoreInv, NEW c \in Caller, RestartSpawn(c)
  PROVE  /\ CallTyped
         /\ call[c].op = "restart" /\ call[c].pc = "spawn" /\ call[c].id \in Id
         /\ \E o \in Obj :
              /\ Born(o) /\ obj'[o].id = call[c].id
              /\ obj'[o].env = Restartable(call[c].id).env
              /\ Restartable(call[c].id) # None
              /\ call'[c].op = "restart" /\ call'[c].pc = "register"
              /\ call'[c].id = call[c].id /\ call'[c].o = o
         /\ \A d \in Caller \ {c} : call'[d] = call[d]
  <1>0. TypeOK /\ call[c] \in CallRec /\ call[c].id \in Id /\ call[c].op = "restart"
        /\ call[c].pc = "spawn"
    BY CallFacts DEF CoreInv, RestartSpawn, At
  <1>1. PICK o \in Obj : LET info == Restartable(call[c].id) IN
          /\ info # None /\ obj[o] = Unused
          /\ obj' = [obj EXCEPT ![o] = Spawned(call[c].id, info.env, info.label)]
          /\ call' = [call EXCEPT ![c] = [@ EXCEPT !.pc = "register", !.o = o]]
    BY DEF RestartSpawn
  <1>2. Restartable(call[c].id).env \in Env /\ Restartable(call[c].id).label \in Label
    BY <1>0, <1>1, RestartableInfo DEF Info
  <1>3. /\ call' \in [Caller -> CallRec]
        /\ call'[c].op = "restart" /\ call'[c].pc = "register"
        /\ call'[c].id = call[c].id /\ call'[c].o = o
        /\ \A d \in Caller \ {c} : call'[d] = call[d]
    <2>1. [call[c] EXCEPT !.pc = "register", !.o = o] \in CallRec
      BY <1>0 DEF CallRec, Phases
    <2>2. call' = [call EXCEPT ![c] = [call[c] EXCEPT !.pc = "register", !.o = o]]
      BY <1>1
    <2>. QED BY <1>0, <2>1, <2>2 DEF CallRec, TypeOK
  <1>4. /\ Born(o) /\ obj'[o].id = call[c].id
        /\ obj'[o].env = Restartable(call[c].id).env
    <2>1. PICK id \in Id, e \in Env, l \in Label :
            /\ id = call[c].id
            /\ e = Restartable(call[c].id).env /\ l = Restartable(call[c].id).label
      BY <1>0, <1>2
    <2>2. obj[o] = Unused /\ obj' = [obj EXCEPT ![o] = Spawned(id, e, l)]
      BY <1>1, <2>1
    <2>3. TypeOK
      BY <1>0
    <2>4. Spawned(id, e, l).id = id /\ Spawned(id, e, l).env = e
      BY DEF Spawned
    <2>5. obj'[o] = Spawned(id, e, l)
      BY <2>3, <2>2 DEF TypeOK
    <2>6. Started(o)
      BY <2>3, <2>2, SpawnedStarted
    <2>7. Born(o)
      BY <1>0, <1>3, <2>1, <2>4, <2>5, <2>6 DEF Born, SpawnedBy
    <2>. QED BY <2>1, <2>4, <2>5, <2>7
  <1>5. CallShape(c)'
    BY <1>0, <1>3 DEF CallShape, PcsOf
  <1>6. CallTyped
    BY <1>3, <1>5, OthersTyped
  <1>. QED BY <1>0, <1>1, <1>3, <1>4, <1>6

\* The calls stay well shaped in every step of one process.
LEMMA CallNext ==
  ASSUME CoreInv, [Next]_vars, ~Reboot
  PROVE  CallTyped
<1>1. CASE UNCHANGED call
  BY <1>1 DEF CallTyped, CoreInv, TypeOK, CallShape
<1>2. ASSUME NEW c \in Caller, CallBegin(c) PROVE CallTyped
  BY <1>2, CallBeginEffect
<1>3. ASSUME NEW c \in Caller, CallStep(c) PROVE CallTyped
  <2>1. CASE RestartSpawn(c)
    BY <2>1, SpawnEffect
  <2>2. CASE UpdateApply(c) \/ UpdateStoredGet(c) \/ UpdateUpsert(c)
    BY <2>2, UpdateEffect
  <2>3. CASE RegisterRefused(c) \/ PublishSession(c)
    <3>1. Leave(c) /\ call[c].pc # "idle"
      BY <2>3 DEF RegisterRefused, PublishSession, At
    <3>. QED BY <3>1, LeaveTyped
  <2>4. CASE ReleaseRestart(c) \/ DeleteStored(c) \/ DeleteGone(c)
    BY <2>4, CallStepEffect, ReturnedTyped
  <2>5. CASE RestartFails(c)
    <3>1. call[c].op = "restart" /\ call[c].pc = "spawn" /\ Moved(c, "release")
      BY <2>5, CallStepEffect DEF RestartFails, At
    <3>. QED BY <3>1, MovedTyped DEF PcsOf
  <2>6. CASE RegisterPublish(c) \/ RestartInfo(c)
    <3>1. /\ call[c].pc # "idle" /\ InfoOf(call[c].o) \in Info /\ call[c].o \in Obj
          /\ call[c].op \in {"create", "restart"}
      BY <2>6, CallFacts DEF RegisterPublish, RestartInfo, At
    <3>2. call'[c].info \in Info /\ (Moved(c, "insert") \/ Moved(c, "publish"))
      BY <2>6, <3>1, CallStepEffect, GoWithEffect
         DEF RegisterPublish, RestartInfo, CoreInv, Phases
    <3>. QED BY <3>1, <3>2, MovedTyped DEF PcsOf
  <2>7. CASE RegisterInsert(c)
    <3>1. call[c].pc = "insert" /\ call[c].o \in Obj /\ call[c].info \in Info
      BY <2>7, CallFacts DEF RegisterInsert, At
    <3>2. call'[c].info = call[c].info
      BY <2>7, GoToEffect DEF RegisterInsert, CoreInv, Phases
    <3>. QED BY <2>7, <3>1, <3>2, CallStepEffect, MovedTyped DEF PcsOf
  <2>8. CASE DeleteTerminate(c) \/ DeleteWait(c) \/ DeleteRow(c)
    <3>1. call[c].op = "delete" /\ call[c].pc \in {"terminate", "wait", "row"}
          /\ (call[c].pc = "terminate" => call[c].o \in Obj)
          /\ (DeleteTerminate(c) => call[c].pc = "terminate")
      BY <2>8, CallFacts DEF DeleteTerminate, DeleteWait, DeleteRow, At
    <3>. QED BY <2>8, <3>1, CallStepEffect, MovedTyped, ReturnedTyped DEF PcsOf
  <2>. QED BY <1>3, <2>1, <2>2, <2>3, <2>4, <2>5, <2>6, <2>7, <2>8 DEF CallStep
<1>. QED BY <1>1, <1>2, <1>3, CallChange

\* Every step of a call: a restart spawns, a reservation is given back, a call
\* ends, or it moves on.
LEMMA CallStepSum ==
  ASSUME CoreInv, NEW c \in Caller, CallStep(c)
  PROVE  \/ RestartSpawn(c)
         \/ ReleaseRestart(c) /\ Returned(c)
         \/ Ended(c)
         \/ \E pc \in Phases \ {"spawn", "register"} : Moved(c, pc)
  <1>1. CASE RestartSpawn(c)
    BY <1>1
  <1>2. CASE UpdateApply(c) \/ UpdateStoredGet(c) \/ UpdateUpsert(c)
    BY <1>2, UpdateEffect DEF Phases
  <1>3. CASE RegisterRefused(c) \/ PublishSession(c)
    <2>1. Leave(c) /\ call[c].pc # "idle"
      BY <1>3 DEF RegisterRefused, PublishSession, At
    <2>. QED BY <2>1, LeaveTyped DEF Phases
  <1>4. CASE ReleaseRestart(c)
    BY <1>4, CallStepEffect
  <1>5. CASE DeleteStored(c) \/ DeleteGone(c) \/ DeleteRow(c)
    <2>1. call[c].op \notin Reserving
      BY <1>5 DEF DeleteStored, DeleteGone, DeleteRow, At, Reserving
    <2>. QED BY <1>5, <2>1, CallStepEffect DEF Ended, Phases
  <1>6. CASE RestartFails(c) \/ RegisterPublish(c) \/ RegisterInsert(c) \/ RestartInfo(c)
             \/ DeleteTerminate(c) \/ DeleteWait(c)
    BY <1>6, CallStepEffect DEF Phases
  <1>. QED BY <1>1, <1>2, <1>3, <1>4, <1>5, <1>6 DEF CallStep

-----------------------------------------------------------------------------
(* The core of the invariant is inductive                                  *)

\* Within one process a live object stays live and keeps its id.
LEMMA LiveKept ==
  ASSUME CoreInv, [Next]_vars, ~Reboot, NEW o \in Obj
  PROVE  /\ Live(o) => IsLive(obj'[o]) /\ Aged(o) /\ obj'[o].id = obj[o].id
         /\ Born(o) => IsLive(obj'[o]) /\ ~Live(o)
  <1>1. Born(o) \/ Aged(o)
    BY ObjNext
  <1>2. ASSUME Born(o) PROVE IsLive(obj'[o]) /\ ~Live(o)
    BY <1>2, NoneAssumption DEF Born, Started, Live, IsLive, Unused
  <1>3. ASSUME Aged(o), Live(o) PROVE IsLive(obj'[o]) /\ obj'[o].id = obj[o].id
    BY <1>3 DEF Aged, Live, IsLive
  <1>. QED BY <1>1, <1>2, <1>3

\* Manager.sessions refers to live objects of the right id.
LEMMA MapRefsNext ==
  ASSUME CoreInv, [Next]_vars, ~Reboot
  PROVE  \A id \in Id : sessions'[id] # None =>
           sessions'[id] \in Obj /\ IsLive(obj'[sessions'[id]]) /\ obj'[sessions'[id]].id = id
  <1> DEFINE Ref(id, o) == o \in Obj /\ Live(o) /\ obj[o].id = id
  <1> DEFINE NewRef(id, o) == o \in Obj /\ IsLive(obj'[o]) /\ obj'[o].id = id
  <1>1. \A id \in Id : sessions[id] # None => Ref(id, sessions[id])
    BY DEF CoreInv, RefsLive
  <1>2. \A id, o : Ref(id, o) => NewRef(id, o)
    BY LiveKept
  <1>3. TypeOK
    BY DEF CoreInv
  <1>4. \A id \in Id : \/ sessions'[id] = None
                       \/ sessions'[id] = sessions[id]
                       \/ Ref(id, sessions'[id])
    <2>1. CASE UNCHANGED sessions
      BY <2>1
    <2>2. ASSUME NEW c \in Caller, RegisterPublish(c)
          PROVE  \A id \in Id : sessions'[id] = sessions[id] \/ Ref(id, sessions'[id])
      <3>1. Ref(call[c].id, call[c].o)
        BY <2>2, CallFacts DEF RegisterPublish, At
      <3>2. sessions' = [sessions EXCEPT ![call[c].id] = call[c].o]
        BY <2>2 DEF RegisterPublish
      <3>. QED BY <1>3, <3>1, <3>2 DEF TypeOK
    <2>3. ASSUME NEW c \in Caller, NEW i \in Id, DeleteBegin(c, i)
          PROVE  \A id \in Id : sessions'[id] = sessions[id] \/ sessions'[id] = None
      BY <1>3, <2>3 DEF DeleteBegin, TypeOK
    <2>4. CASE ShutdownBegin
      BY <2>4 DEF ShutdownBegin
    <2>. QED BY <2>1, <2>2, <2>3, <2>4, SessionsChange
  <1>5. \A id \in Id : sessions'[id] # None => NewRef(id, sessions'[id])
    BY <1>1, <1>2, <1>4
  <1>. QED BY <1>5

\* The calls in flight refer to live objects of their id.
LEMMA CallRefsNext ==
  ASSUME CoreInv, [Next]_vars, ~Reboot
  PROVE  \A c \in Caller : call'[c].o # None =>
           call'[c].o \in Obj /\ IsLive(obj'[call'[c].o]) /\ obj'[call'[c].o].id = call'[c].id
  <1> DEFINE Ref(id, o) == o \in Obj /\ Live(o) /\ obj[o].id = id
  <1> DEFINE NewRef(id, o) == o \in Obj /\ IsLive(obj'[o]) /\ obj'[o].id = id
  <1> DEFINE Fine(r) == r.o # None => NewRef(r.id, r.o)
  <1>1. \A id, o : Ref(id, o) => NewRef(id, o)
    BY LiveKept
  <1>2. \A c \in Caller : Fine(call[c])
    BY <1>1 DEF CoreInv, RefsLive
  <1>3. \A id \in Id : sessions[id] # None => NewRef(id, sessions[id])
    BY <1>1 DEF CoreInv, RefsLive
  <1>4. ASSUME NEW c \in Caller, CallBegin(c) PROVE \A d \in Caller : Fine(call'[d])
    <2>1. PICK r \in CallRec :
            /\ Begun(c, r) /\ r.id \in Id
            /\ \/ r.o = None \/ r.o = sessions[r.id]
               \/ r.o \in Obj /\ Born(r.o) /\ obj'[r.o].id = r.id
      BY <1>4, CallBeginEffect
    <2>2. Fine(r)
      BY <1>3, <2>1, LiveKept
    <2>. QED BY <1>2, <2>1, <2>2 DEF Begun
  <1>5. ASSUME NEW c \in Caller, CallStep(c) PROVE \A d \in Caller : Fine(call'[d])
    <2>1. CASE RestartSpawn(c)
      <3>1. PICK o \in Obj : /\ Born(o) /\ obj'[o].id = call[c].id
                             /\ call'[c].id = call[c].id /\ call'[c].o = o
                             /\ \A d \in Caller \ {c} : call'[d] = call[d]
        BY <2>1, SpawnEffect
      <3>2. Fine(call'[c])
        BY <3>1, LiveKept
      <3>. QED BY <1>2, <3>1, <3>2
    <2>2. CASE Returned(c)
      BY <1>2, <2>2 DEF Returned, Idle
    <2>3. CASE \E pc \in Phases : Moved(c, pc)
      BY <1>2, <2>3 DEF Moved
    <2>. QED BY <1>5, <2>1, <2>2, <2>3, CallStepSum DEF Ended
  <1>6. \A d \in Caller : Fine(call'[d])
    BY <1>2, <1>4, <1>5, CallChange
  <1>. QED BY <1>6

\* Shutdown's drained list refers to live objects.
LEMMA ShutdownRefsNext ==
  ASSUME CoreInv, [Next]_vars, ~Reboot
  PROVE  /\ \A o \in sd'.todo : IsLive(obj'[o])
         /\ sd'.cur # None => IsLive(obj'[sd'.cur])
         /\ sd' \in SdRec
  <1>0. TypeOK /\ sd \in SdRec /\ sd.todo \subseteq Obj /\ sd.cur \in Obj \cup {None}
    BY DEF CoreInv, TypeOK, SdRec
  <1>1. (\A o \in sd.todo : IsLive(obj'[o])) /\ (sd.cur # None => IsLive(obj'[sd.cur]))
    BY <1>0, LiveKept DEF CoreInv, RefsLive
  <1>2. CASE UNCHANGED sd
    BY <1>0, <1>1, <1>2
  <1>3. CASE ShutdownBegin
    <2>1. \A o \in Published : o \in Obj /\ Live(o)
      BY <1>0 DEF CoreInv, RefsLive, Published
    <2>2. sd' = [pc |-> "next", todo |-> Published, cur |-> None]
      BY <1>3 DEF ShutdownBegin
    <2>3. \A o \in Published : IsLive(obj'[o])
      BY <2>1, LiveKept
    <2>. QED BY <2>1, <2>2, <2>3 DEF SdRec
  <1>4. CASE ShutdownNext
    <2>1. CASE sd.todo = {} /\ sd' = [sd EXCEPT !.pc = "done"]
      BY <1>0, <1>1, <2>1 DEF SdRec
    <2>2. ASSUME NEW o \in sd.todo, sd' = [pc |-> "terminate", todo |-> sd.todo \ {o}, cur |-> o]
          PROVE  /\ \A x \in sd'.todo : IsLive(obj'[x])
                 /\ sd'.cur # None => IsLive(obj'[sd'.cur])
                 /\ sd' \in SdRec
      <3>1. sd'.todo \subseteq sd.todo /\ sd'.cur = o
        BY <2>2
      <3>2. sd' \in SdRec
        BY <1>0, <2>2 DEF SdRec
      <3>. QED BY <1>1, <2>2, <3>1, <3>2
    <2>. QED BY <1>4, <2>1, <2>2 DEF ShutdownNext
  <1>5. CASE ShutdownTerminate
    <2>1. sd' = [sd EXCEPT !.pc = "wait"]
      BY <1>5 DEF ShutdownTerminate
    <2>. QED BY <1>0, <1>1, <2>1 DEF SdRec
  <1>6. CASE ShutdownWait
    <2>1. sd' = [sd EXCEPT !.pc = "next", !.cur = None]
      BY <1>6 DEF ShutdownWait
    <2>. QED BY <1>0, <1>1, <2>1 DEF SdRec
  <1>. QED BY <1>2, <1>3, <1>4, <1>5, <1>6, ShutdownChange DEF ShutdownStep

\* The flag, the drained list and the emptied map agree.
LEMMA ShutdownShapeNext ==
  ASSUME CoreInv, [Next]_vars, ~Reboot
  PROVE  ShutdownShape'
  <1>0. TypeOK /\ sd \in SdRec /\ ShutdownShape
    BY DEF CoreInv, TypeOK
  <1>1. CASE ShutdownBegin
    <2>1. sd' = [pc |-> "next", todo |-> Published, cur |-> None]
          /\ shuttingDown' = TRUE /\ sessions' = [id \in Id |-> None]
      BY <1>1 DEF ShutdownBegin
    <2>. QED BY <2>1 DEF ShutdownShape
  <1>2. CASE ShutdownStep
    <2>1. UNCHANGED <<shuttingDown, sessions>>
      BY <1>2 DEF ShutdownStep, ShutdownNext, ShutdownTerminate, ShutdownWait
    <2>2. CASE ShutdownNext
      <3>1. CASE sd.todo = {} /\ sd' = [sd EXCEPT !.pc = "done"] /\ sd.pc = "next"
        BY <1>0, <2>1, <3>1 DEF ShutdownShape, SdRec
      <3>2. ASSUME NEW o \in sd.todo, sd.pc = "next",
                   sd' = [pc |-> "terminate", todo |-> sd.todo \ {o}, cur |-> o]
            PROVE  ShutdownShape'
        <4>1. o # None
          BY <1>0, NoneAssumption DEF SdRec
        <4>. QED BY <1>0, <2>1, <3>2, <4>1 DEF ShutdownShape, SdRec
      <3>. QED BY <2>2, <3>1, <3>2 DEF ShutdownNext
    <2>3. CASE ShutdownTerminate
      <3>1. sd' = [sd EXCEPT !.pc = "wait"] /\ sd.pc = "terminate"
        BY <2>3 DEF ShutdownTerminate
      <3>. QED BY <1>0, <2>1, <3>1 DEF ShutdownShape, SdRec
    <2>4. CASE ShutdownWait
      <3>1. sd' = [sd EXCEPT !.pc = "next", !.cur = None] /\ sd.pc = "wait"
        BY <2>4 DEF ShutdownWait
      <3>. QED BY <1>0, <2>1, <3>1 DEF ShutdownShape, SdRec
    <2>. QED BY <1>2, <2>2, <2>3, <2>4 DEF ShutdownStep
  <1>3. CASE UNCHANGED <<sd, shuttingDown>>
    <2>1. shuttingDown => \A id \in Id : sessions'[id] = None
      <3>1. CASE UNCHANGED sessions
        BY <1>0, <3>1 DEF ShutdownShape
      <3>2. ASSUME NEW c \in Caller, RegisterPublish(c) PROVE ~shuttingDown
        BY <3>2 DEF RegisterPublish, Admits
      <3>3. ASSUME NEW c \in Caller, NEW i \in Id, DeleteBegin(c, i), shuttingDown
            PROVE  \A id \in Id : sessions'[id] = None
        BY <1>0, <3>3 DEF DeleteBegin, ShutdownShape, TypeOK
      <3>4. CASE ShutdownBegin
        BY <3>4 DEF ShutdownBegin
      <3>. QED BY <3>1, <3>2, <3>3, <3>4, SessionsChange
    <2>. QED BY <1>0, <1>3, <2>1 DEF ShutdownShape
  <1>. QED BY <1>1, <1>2, <1>3, ShutdownChange

\* An id is reserved iff one reserving call is in flight on it: said call by
\* call, which is how the steps change it.
Reserves(c) == call[c].op \in Reserving
ReservationPointwise ==
  /\ \A id \in restarting : \E c \in Caller : Reserves(c) /\ call[c].id = id
  /\ \A c \in Caller : Reserves(c) => call[c].id \in restarting
  /\ \A c, d \in Caller : Reserves(c) /\ Reserves(d) /\ call[c].id = call[d].id => c = d

\* ReservationExclusive read id by id.
LEMMA ReservationSplit == ReservationExclusive <=> ReservationPointwise
  BY DEF ReservationExclusive, ReservationPointwise, Reserves

\* Claims and deferred releases keep the reservation exact.
LEMMA ReservationNext ==
  ASSUME CoreInv, [Next]_vars, ~Reboot
  PROVE  ReservationExclusive'
  <1>0. ReservationPointwise /\ TypeOK
    BY ReservationSplit DEF CoreInv
  <1> SUFFICES ReservationPointwise'
    BY ReservationSplit, PTL
  <1>1. ASSUME UNCHANGED restarting,
               \A c \in Caller : call'[c].op \in Reserving \/ call[c].op \in Reserving
                 => call'[c].op = call[c].op /\ call'[c].id = call[c].id
        PROVE  ReservationPointwise'
    BY <1>0, <1>1 DEF ReservationPointwise, Reserves
  <1>2. CASE UNCHANGED <<call, restarting>>
    BY <1>0, <1>2 DEF ReservationPointwise, Reserves
  <1>3. ASSUME NEW c \in Caller, CallBegin(c) PROVE ReservationPointwise'
    <2>1. PICK r \in CallRec :
            /\ Begun(c, r)
            /\ \/ r.op \in Reserving /\ r.id \notin restarting
                  /\ restarting' = restarting \cup {r.id}
               \/ r.op \notin Reserving /\ UNCHANGED restarting
      BY <1>3, CallBeginEffect DEF Reserving, Create, ClaimRestart, CanClaim, UpdateLabel,
         ClaimEnvEdit, CanClaimEnv, DeleteBegin
    <2>2. ~Reserves(c) /\ call'[c] = r /\ \A d \in Caller \ {c} : call'[d] = call[d]
      BY <2>1 DEF Begun, Idle, Reserving, Reserves
    <2>. QED BY <1>0, <2>1, <2>2 DEF ReservationPointwise, Reserves
  <1>4. ASSUME NEW c \in Caller, ReleaseRestart(c) PROVE ReservationPointwise'
    <2>1. Returned(c) /\ Reserves(c) /\ restarting' = restarting \ {call[c].id}
      BY <1>4, CallStepEffect DEF ReleaseRestart, At, Reserves, CoreInv
    <2>2. ~Reserves(c)' /\ \A d \in Caller \ {c} : call'[d] = call[d]
      BY <2>1 DEF Returned, Idle, Reserving, Reserves
    <2>. QED BY <1>0, <2>1, <2>2 DEF ReservationPointwise, Reserves
  <1>5. ASSUME NEW c \in Caller, CallStep(c), ~ReleaseRestart(c) PROVE ReservationPointwise'
    <2>1. UNCHANGED restarting
      BY <1>5 DEF CallStep, RestartSpawn, RestartFails, RegisterRefused, RegisterPublish,
         RegisterInsert, RestartInfo, PublishSession, UpdateApply, UpdateStoredGet, UpdateUpsert,
         DeleteStored, DeleteTerminate, DeleteWait, DeleteRow, DeleteGone
    <2>2. CASE Ended(c)
      BY <1>1, <2>1, <2>2 DEF Ended, Returned, Idle, Reserving
    <2>3. CASE \E pc \in Phases : Moved(c, pc)
      BY <1>1, <2>1, <2>3 DEF Moved
    <2>4. CASE RestartSpawn(c)
      BY <1>1, <2>1, <2>4, SpawnEffect
    <2>. QED BY <1>5, <2>2, <2>3, <2>4, CallStepSum
  <1>6. CASE UNCHANGED call
    <2>1. UNCHANGED restarting
      <3>1. ASSUME NEW c \in Caller, ReleaseRestart(c) PROVE FALSE
        BY <1>6, <3>1, CallStepEffect DEF Returned, ReleaseRestart, At, Idle
      <3>2. ASSUME NEW c \in Caller, NEW id \in Id, ClaimRestart(c, id) \/ ClaimEnvEdit(c, id)
            PROVE FALSE
        <4>1. CallBegin(c)
          BY <3>2 DEF CallBegin
        <4>2. PICK r \in CallRec : Begun(c, r) /\ r.pc # "idle"
          BY <4>1, CallBeginEffect
        <4>. QED BY <1>6, <4>2 DEF Begun, Idle
      <3>. QED BY <3>1, <3>2, ReservationChange
    <2>. QED BY <1>2, <1>6, <2>1
  <1>. QED BY <1>3, <1>4, <1>5, <1>6, CallChange

\* The steps that write the sessions table.
LEMMA StoreChange ==
  ASSUME [Next]_vars
  PROVE  \/ UNCHANGED <<store, faults>>
         \/ Reboot \/ ShutdownTerminate
         \/ \E c \in Caller : RegisterInsert(c) \/ UpdateUpsert(c) \/ DeleteStored(c) \/ DeleteRow(c)
         \/ \E o \in Obj : LoopSetStatus(o)
  <1>1. ASSUME NEW c \in Caller, CallBegin(c)
        PROVE  UNCHANGED <<store, faults>>
    BY <1>1 DEF CallBegin, Create, ClaimRestart, UpdateLabel, ClaimEnvEdit, DeleteBegin
  <1>2. ASSUME NEW c \in Caller, CallStep(c)
        PROVE  UNCHANGED <<store, faults>> \/ RegisterInsert(c) \/ UpdateUpsert(c) \/
               DeleteStored(c) \/ DeleteRow(c)
    BY <1>2 DEF CallStep, RestartSpawn, RestartFails, RegisterRefused, RegisterPublish,
       RestartInfo, PublishSession, ReleaseRestart, UpdateApply, UpdateStoredGet,
       DeleteTerminate, DeleteWait, DeleteGone
  <1>3. ASSUME NEW o \in Obj, ShellExits(o) \/ HolderExits(o) \/ LoopStep(o)
        PROVE  UNCHANGED <<store, faults>> \/ LoopSetStatus(o)
    BY <1>3 DEF LoopStep, ShellExits, HolderExits, LoopMarkStopped, LoopCheckDiscarded,
       LoopPublish
  <1>4. ASSUME ShutdownBegin \/ ShutdownStep
        PROVE  UNCHANGED <<store, faults>> \/ ShutdownTerminate
    BY <1>4 DEF ShutdownStep, ShutdownBegin, ShutdownNext, ShutdownWait
  <1>. QED BY <1>1, <1>2, <1>3, <1>4 DEF Next, vars

\* The steps that publish an event.
LEMMA PublishedChange ==
  ASSUME [Next]_vars
  PROVE  \/ UNCHANGED published
         \/ Reboot
         \/ \E c \in Caller : PublishSession(c) \/ DeleteGone(c)
         \/ \E o \in Obj : LoopPublish(o)
  <1>1. ASSUME NEW c \in Caller, CallBegin(c)
        PROVE  UNCHANGED published
    BY <1>1 DEF CallBegin, Create, ClaimRestart, UpdateLabel, ClaimEnvEdit, DeleteBegin
  <1>2. ASSUME NEW c \in Caller, CallStep(c)
        PROVE  UNCHANGED published \/ PublishSession(c) \/ DeleteGone(c)
    BY <1>2 DEF CallStep, RestartSpawn, RestartFails, RegisterRefused, RegisterPublish,
       RegisterInsert, RestartInfo, ReleaseRestart, UpdateApply, UpdateStoredGet, UpdateUpsert,
       DeleteStored, DeleteTerminate, DeleteWait, DeleteRow
  <1>3. ASSUME NEW o \in Obj, ShellExits(o) \/ HolderExits(o) \/ LoopStep(o)
        PROVE  UNCHANGED published \/ LoopPublish(o)
    BY <1>3 DEF LoopStep, ShellExits, HolderExits, LoopMarkStopped, LoopSetStatus,
       LoopCheckDiscarded
  <1>4. ASSUME ShutdownBegin \/ ShutdownStep
        PROVE  UNCHANGED published
    BY <1>4 DEF ShutdownStep, ShutdownBegin, ShutdownNext, ShutdownTerminate, ShutdownWait
  <1>. QED BY <1>1, <1>2, <1>3, <1>4 DEF Next, vars

\* Only a reboot counts as one.
LEMMA RebootsChange ==
  ASSUME [Next]_vars, ~Reboot
  PROVE  UNCHANGED boots
  <1>1. ASSUME NEW c \in Caller, CallBegin(c)
        PROVE  UNCHANGED boots
    BY <1>1 DEF CallBegin, Create, ClaimRestart, UpdateLabel, ClaimEnvEdit, DeleteBegin
  <1>2. ASSUME NEW c \in Caller, CallStep(c)
        PROVE  UNCHANGED boots
    BY <1>2 DEF CallStep, RestartSpawn, RestartFails, RegisterRefused, RegisterPublish,
       RegisterInsert, RestartInfo, PublishSession, ReleaseRestart, UpdateApply,
       UpdateStoredGet, UpdateUpsert, DeleteStored, DeleteTerminate, DeleteWait, DeleteRow,
       DeleteGone
  <1>3. ASSUME NEW o \in Obj, ShellExits(o) \/ HolderExits(o) \/ LoopStep(o)
        PROVE  UNCHANGED boots
    BY <1>3 DEF LoopStep, ShellExits, HolderExits, LoopMarkStopped, LoopSetStatus,
       LoopCheckDiscarded, LoopPublish
  <1>4. ASSUME ShutdownBegin \/ ShutdownStep
        PROVE  UNCHANGED boots
    BY <1>4 DEF ShutdownStep, ShutdownBegin, ShutdownNext, ShutdownTerminate, ShutdownWait
  <1>. QED BY <1>1, <1>2, <1>3, <1>4 DEF Next, vars

\* The table and the fault count stay typed.
LEMMA StoreNext ==
  ASSUME CoreInv, [Next]_vars, ~Reboot
  PROVE  store' \in [Id -> Info \cup {None}] /\ faults' \in 0..MaxFaults
  <1>0. TypeOK
    BY DEF CoreInv
  <1>1. ASSUME NEW id, StoreWrite(WithStatus(id, "stopped"))
        PROVE  store' \in [Id -> Info \cup {None}] /\ faults' \in 0..MaxFaults
    <2>1. WithStatus(id, "stopped") \in [Id -> Info \cup {None}]
      <3>1. CASE id \in Id /\ store[id] # None
        <4>1. [store[id] EXCEPT !.status = "stopped"] \in Info
          BY <1>0, <3>1 DEF TypeOK, Info
        <4>2. WithStatus(id, "stopped") = [store EXCEPT ![id] = [store[id] EXCEPT !.status = "stopped"]]
          BY <3>1 DEF WithStatus
        <4>. QED BY <1>0, <4>1, <4>2 DEF TypeOK
      <3>2. CASE id \notin Id
        BY <1>0, <3>2 DEF TypeOK, WithStatus
      <3>3. CASE store[id] = None
        BY <1>0, <3>3 DEF TypeOK, WithStatus
      <3>. QED BY <3>1, <3>2, <3>3
    <2>. QED BY <1>0, <1>1, <2>1, StoreWriteType
  <1>2. ASSUME NEW c \in Caller, RegisterInsert(c)
        PROVE  store' \in [Id -> Info \cup {None}] /\ faults' \in 0..MaxFaults
    <2>1. call[c].id \in Id /\ call[c].info \in Info
      BY <1>2, CallFacts DEF RegisterInsert, At
    <2>2. [store EXCEPT ![call[c].id] = call[c].info] \in [Id -> Info \cup {None}]
      BY <1>0, <2>1 DEF TypeOK
    <2>. QED BY <1>0, <1>2, <2>2, StoreWriteType DEF RegisterInsert
  <1>3. ASSUME NEW c \in Caller, UpdateUpsert(c)
        PROVE  store' \in [Id -> Info \cup {None}] /\ faults' \in 0..MaxFaults
    <2>1. call[c].id \in Id /\ call[c].info \in Info
      BY <1>3, CallFacts DEF UpdateUpsert, At
    <2>. QED BY <1>0, <1>3, <2>1, BoundsAssumption DEF UpdateUpsert, StoreFails, TypeOK
  <1>4. ASSUME NEW c \in Caller, DeleteStored(c)
        PROVE  store' \in [Id -> Info \cup {None}] /\ faults' \in 0..MaxFaults
    <2>1. [store EXCEPT ![call[c].id] = None] \in [Id -> Info \cup {None}]
      BY <1>0 DEF TypeOK
    <2>. QED BY <1>0, <1>4, <2>1, StoreWriteType DEF DeleteStored
  <1>5. ASSUME NEW c \in Caller, DeleteRow(c)
        PROVE  store' \in [Id -> Info \cup {None}] /\ faults' \in 0..MaxFaults
    BY <1>0, <1>5, BoundsAssumption DEF DeleteRow, StoreFails, TypeOK
  <1>6. CASE ShutdownTerminate
    BY <1>1, <1>6 DEF ShutdownTerminate
  <1>7. ASSUME NEW o \in Obj, LoopSetStatus(o)
        PROVE  store' \in [Id -> Info \cup {None}] /\ faults' \in 0..MaxFaults
    BY <1>1, <1>7 DEF LoopSetStatus
  <1>8. CASE UNCHANGED <<store, faults>>
    BY <1>0, <1>8 DEF TypeOK
  <1>. QED BY <1>2, <1>3, <1>4, <1>5, <1>6, <1>7, <1>8, StoreChange

\* The remaining variables stay typed.
LEMMA PlainTypesNext ==
  ASSUME CoreInv, [Next]_vars, ~Reboot
  PROVE  /\ restarting' \in SUBSET Id
         /\ shuttingDown' \in BOOLEAN
         /\ published' \in [Id -> {"none", "running", "stopped", "gone"}]
         /\ boots' \in 0..MaxBoots
  <1>0. TypeOK
    BY DEF CoreInv
  <1>1. restarting' \in SUBSET Id
    BY <1>0, ReservationChange DEF TypeOK, ClaimRestart, ClaimEnvEdit, ReleaseRestart
  <1>2. shuttingDown' \in BOOLEAN
    BY <1>0, ShutdownChange DEF TypeOK, ShutdownBegin, ShutdownStep, ShutdownNext,
       ShutdownTerminate, ShutdownWait
  <1>3. boots' \in 0..MaxBoots
    BY <1>0, RebootsChange DEF TypeOK
  <1>4. published' \in [Id -> {"none", "running", "stopped", "gone"}]
    <2>1. ASSUME NEW c \in Caller, PublishSession(c)
          PROVE  published' \in [Id -> {"none", "running", "stopped", "gone"}]
      <3>1. call[c].info \in Info
        BY <2>1, CallFacts DEF PublishSession, At
      <3>2. call[c].info.status \in {"running", "stopped"}
        BY <3>1 DEF Info
      <3>. QED BY <1>0, <2>1, <3>2 DEF PublishSession, TypeOK
    <2>2. ASSUME NEW c \in Caller, DeleteGone(c)
          PROVE  published' \in [Id -> {"none", "running", "stopped", "gone"}]
      BY <1>0, <2>2 DEF DeleteGone, TypeOK
    <2>3. ASSUME NEW o \in Obj, LoopPublish(o)
          PROVE  published' \in [Id -> {"none", "running", "stopped", "gone"}]
      BY <1>0, <2>3 DEF LoopPublish, TypeOK
    <2>. QED BY <1>0, <2>1, <2>2, <2>3, PublishedChange DEF TypeOK
  <1>. QED BY <1>1, <1>2, <1>3, <1>4

\* A reboot establishes the core of the invariant.
LEMMA RebootCore == ASSUME CoreInv, Reboot PROVE CoreInv'
  <1>0. TypeOK
    BY DEF CoreInv
  <1>1. PICK pruned \in SUBSET Id :
          LET rows == [id \in Id |-> IF id \in pruned THEN None ELSE Reconciled(store[id])]
          IN /\ store' = rows
             /\ published' = [id \in Id |-> IF rows[id] = None THEN "none" ELSE "stopped"]
    BY DEF Reboot
  <1>2. store' \in [Id -> Info \cup {None}]
    <2>1. \A id \in Id : Reconciled(store[id]) \in Info \cup {None}
      BY <1>0 DEF TypeOK, Reconciled, Info
    <2>. QED BY <1>1, <2>1
  <1>3. published' \in [Id -> {"none", "running", "stopped", "gone"}]
    BY <1>1
  <1>4. obj' \in [Obj -> ObjRec]
    <2>1. Unused \in ObjRec
      BY DEF Unused, ObjRec
    <2>2. \A id \in Id \cup {None} :
            [Unused EXCEPT !.id = id, !.status = "stopped", !.proc = "dead", !.loop = "done"]
              \in ObjRec
      BY DEF Unused, ObjRec
    <2>3. \A o \in Obj : obj[o].id \in Id \cup {None}
      BY <1>0 DEF TypeOK, ObjRec
    <2>. QED BY <2>1, <2>2, <2>3 DEF Reboot
  <1>5. call' = [c \in Caller |-> Idle] /\ call' \in [Caller -> CallRec]
    BY DEF Reboot, Idle, CallRec
  <1>6. sd' = NotDown /\ sd' \in SdRec
    BY DEF Reboot, NotDown, SdRec
  <1>7. faults' \in 0..MaxFaults /\ boots' \in 0..MaxBoots
    <2>1. boots < MaxBoots /\ boots' = boots + 1 /\ faults' = faults
      BY DEF Reboot
    <2>2. faults \in 0..MaxFaults /\ boots \in 0..MaxBoots
      BY <1>0 DEF TypeOK
    <2>. QED BY <2>1, <2>2, BoundsAssumption
  <1>8. sessions' = [id \in Id |-> None] /\ restarting' = {} /\ shuttingDown' = FALSE
    BY DEF Reboot
  <1>9. TypeOK'
    BY <1>2, <1>3, <1>4, <1>5, <1>6, <1>7, <1>8 DEF TypeOK
  <1>10. RefsLive'
    BY <1>5, <1>6, <1>8 DEF RefsLive, NotDown, Idle
  <1>11. \A c \in Caller : CallShape(c)'
    BY <1>5 DEF CallShape
  <1>12. ShutdownShape'
    BY <1>6, <1>8 DEF ShutdownShape, NotDown
  <1>13. ReservationExclusive'
    <2>1. ReservationPointwise'
      BY <1>5, <1>8 DEF ReservationPointwise, Reserves, Reserving, Idle
    <2>. QED BY <2>1, ReservationSplit, PTL
  <1>. QED BY <1>9, <1>10, <1>11, <1>12, <1>13 DEF CoreInv

\* The core of the invariant holds initially.
LEMMA CoreInit == Init => CoreInv
  <1> SUFFICES ASSUME Init PROVE CoreInv
    OBVIOUS
  <1>1. TypeOK
    <2>1. Unused \in ObjRec /\ Idle \in CallRec /\ NotDown \in SdRec
      BY DEF Unused, Idle, NotDown, ObjRec, CallRec, SdRec
    <2>2. 0 \in 0..MaxFaults /\ 0 \in 0..MaxBoots
      BY BoundsAssumption
    <2>. QED BY <2>1, <2>2 DEF Init, TypeOK
  <1>2. RefsLive
    BY DEF Init, RefsLive, Idle, NotDown
  <1>3. \A c \in Caller : CallShape(c)
    BY DEF Init, CallShape
  <1>4. ShutdownShape
    BY DEF Init, ShutdownShape, NotDown
  <1>5. ReservationExclusive
    BY ReservationSplit DEF Init, ReservationPointwise, Reserves, Reserving, Idle
  <1>. QED BY <1>1, <1>2, <1>3, <1>4, <1>5 DEF CoreInv

\* The core of the invariant is inductive.
LEMMA CoreNext == ASSUME CoreInv, [Next]_vars PROVE CoreInv'
  <1>1. CASE Reboot
    BY <1>1, RebootCore
  <1>2. CASE ~Reboot
    <2>1. sessions' \in [Id -> Obj \cup {None}]
      <3>1. sessions \in [Id -> Obj \cup {None}]
        BY DEF CoreInv, TypeOK
      <3>2. ASSUME NEW c \in Caller, RegisterPublish(c)
            PROVE  sessions' \in [Id -> Obj \cup {None}]
        BY <3>1, <3>2, CallFacts DEF RegisterPublish, At
      <3>. QED BY <1>2, <3>1, <3>2, SessionsChange DEF DeleteBegin, ShutdownBegin
    <2>2. TypeOK'
      BY <1>2, <2>1, PlainTypesNext, StoreNext, ObjNext, CallNext, ShutdownRefsNext
         DEF TypeOK, CallTyped
    <2>3. RefsLive'
      BY <1>2, MapRefsNext, CallRefsNext, ShutdownRefsNext DEF RefsLive, Live
    <2>4. (\A c \in Caller : CallShape(c))'
      BY <1>2, CallNext DEF CallTyped
    <2>. QED BY <1>2, <2>2, <2>3, <2>4, ShutdownShapeNext, ReservationNext DEF CoreInv
  <1>. QED BY <1>1, <1>2

-----------------------------------------------------------------------------
(* Every reference is to a live object, and nothing refers to an unused one *)

\* Every reference the manager holds is to a live object.
LEMMA RefsToLive ==
  ASSUME CoreInv
  PROVE  /\ \A id \in Id : sessions[id] # None => Live(sessions[id]) /\ sessions[id] \in Obj
         /\ \A c \in Caller : call[c].o # None => Live(call[c].o) /\ call[c].o \in Obj
         /\ \A o \in sd.todo : Live(o) /\ o \in Obj
         /\ sd.cur # None => Live(sd.cur) /\ sd.cur \in Obj
         /\ \A o \in Obj : Live(o) => obj[o] # Unused /\ o # None
  <1>1. \A o \in Obj : Live(o) => obj[o] # Unused /\ o # None
    BY NoneAssumption DEF Live, IsLive, Unused
  <1>2. sd.todo \subseteq Obj /\ sd.cur \in Obj \cup {None}
    BY DEF CoreInv, TypeOK, SdRec
  <1>. QED BY <1>1, <1>2 DEF CoreInv, RefsLive

\* A session is marked stopped only after its shell is dead.
LEMMA StoppedNext ==
  ASSUME CoreInv, StoppedIsDead, [Next]_vars
  PROVE  StoppedIsDead'
  <1>1. CASE Reboot
    <2>1. \A o \in Obj : obj'[o] = Unused \/ obj'[o].proc = "dead"
      BY <1>1 DEF Reboot, Unused
    <2>. QED BY <2>1 DEF StoppedIsDead, Unused
  <1>2. CASE ~Reboot
    <2>1. \A o \in Obj : Born(o) \/ Aged(o)
      BY <1>2, ObjNext
    <2>. QED BY <2>1 DEF StoppedIsDead, Born, Started, Aged
  <1>. QED BY <1>1, <1>2

\* A live shell belongs to a live object.
LEMMA AliveNext ==
  ASSUME CoreInv, AliveIsLive, [Next]_vars
  PROVE  AliveIsLive'
  <1>1. CASE Reboot
    <2>1. \A o \in Obj : obj'[o].proc # "alive"
      BY <1>1 DEF Reboot, Unused
    <2>. QED BY <2>1 DEF AliveIsLive
  <1>2. CASE ~Reboot
    <2>1. \A o \in Obj : obj'[o].proc = "alive" => IsLive(obj'[o])
      BY <1>2, ObjNext, LiveKept DEF AliveIsLive, Aged
    <2>. QED BY <2>1 DEF AliveIsLive, Live
  <1>. QED BY <1>1, <1>2

\* An object keeps its id for good, through reboots too.
LEMMA IdKept ==
  ASSUME CoreInv, [Next]_vars, NEW o \in Obj, obj[o].id \in Id
  PROVE  obj'[o].id = obj[o].id
  <1>1. CASE Reboot
    <2>1. obj[o] # Unused
      BY NoneAssumption DEF Unused
    <2>. QED BY <1>1, <2>1 DEF Reboot, Unused
  <1>2. CASE ~Reboot
    BY <1>2, ObjNext, NoneAssumption DEF Born, Started, Aged, Unused
  <1>. QED BY <1>1, <1>2

\* An id becomes known by a step of a call on it, or by its read loop.
LEMMA KnownChange ==
  ASSUME CoreInv, [Next]_vars, ~Reboot, NEW id \in Id, Known(id)', ~Known(id)
  PROVE  \/ \E c \in Caller : call[c].id = id /\ CallStep(c) /\ call'[c] # call[c]
         \/ \E o \in Obj : obj[o].id = id /\ obj[o].loop = "announcing"
  <1>0. TypeOK /\ sessions[id] = None /\ store[id] = None /\ published[id] = "none"
    BY DEF CoreInv, Known
  <1> DEFINE ByCall == \E c \in Caller : call[c].id = id /\ CallStep(c) /\ call'[c] # call[c]
  <1> DEFINE ByLoop == \E o \in Obj : obj[o].id = id /\ obj[o].loop = "announcing"
  <1>1. ASSUME sessions'[id] # None PROVE ByCall
    <2>1. PICK c \in Caller : RegisterPublish(c)
      BY <1>0, <1>1, SessionsChange DEF DeleteBegin, ShutdownBegin, TypeOK
    <2>2. call[c].id = id
      BY <1>0, <1>1, <2>1 DEF RegisterPublish, TypeOK
    <2>3. Moved(c, "insert") /\ call[c].pc = "register"
      BY <2>1, CallStepEffect DEF RegisterPublish, At
    <2>. QED BY <2>1, <2>2, <2>3 DEF CallStep, Moved
  <1>2. ASSUME store'[id] # None PROVE ByCall
    <2>1. ASSUME NEW x PROVE ~StoreWrite(WithStatus(x, "stopped"))
      BY <1>0, <1>2, <2>1 DEF StoreWrite, WithStatus, TypeOK
    <2>2. ASSUME NEW c \in Caller, DeleteStored(c) \/ DeleteRow(c) PROVE FALSE
      BY <1>0, <1>2, <2>2 DEF DeleteStored, DeleteRow, StoreWrite, StoreFails, TypeOK
    <2>3. PICK c \in Caller : RegisterInsert(c) \/ UpdateUpsert(c)
      BY <1>0, <1>2, <2>1, <2>2, StoreChange DEF ShutdownTerminate, LoopSetStatus
    <2>4. call[c].id = id
      BY <1>0, <1>2, <2>3 DEF RegisterInsert, UpdateUpsert, StoreWrite, StoreFails, TypeOK
    <2>5. CASE RegisterInsert(c)
      <3>1. call[c].pc = "insert" /\ call'[c].pc # "insert"
        BY <2>5, CallStepEffect DEF RegisterInsert, At, Moved
      <3>. QED BY <2>4, <2>5, <3>1 DEF CallStep
    <2>6. CASE UpdateUpsert(c)
      <3>1. call[c].pc = "upsert" /\ (GoTo(c, "publish") \/ Leave(c))
        BY <2>6 DEF UpdateUpsert, At
      <3>2. call'[c].pc # "upsert"
        BY <1>0, <3>1, GoToEffect, LeaveEffect DEF Idle, Phases
      <3>. QED BY <2>4, <2>6, <3>1, <3>2 DEF CallStep
    <2>. QED BY <2>3, <2>5, <2>6
  <1>3. ASSUME published'[id] # "none" PROVE ByCall \/ ByLoop
    <2>1. ASSUME NEW c \in Caller, PublishSession(c) \/ DeleteGone(c) PROVE ByCall
      <3>1. call[c].id = id
        BY <1>0, <1>3, <2>1 DEF PublishSession, DeleteGone, TypeOK
      <3>2. call[c].pc \in {"publish", "gone"} /\ (Leave(c) \/ Return(c))
        BY <2>1 DEF PublishSession, DeleteGone, At
      <3>3. call'[c] # call[c]
        BY <1>0, <3>2, LeaveEffect, ReturnEffect DEF Idle
      <3>. QED BY <2>1, <3>1, <3>3 DEF CallStep
    <2>2. ASSUME NEW o \in Obj, LoopPublish(o) PROVE ByLoop
      BY <1>0, <1>3, <2>2 DEF LoopPublish, TypeOK
    <2>. QED BY <1>0, <1>3, <2>1, <2>2, PublishedChange
  <1>. QED BY <1>1, <1>2, <1>3 DEF Known

\* Every id in the map, the table or a call has an object that was given it.
LEMMA IdsUsedNext ==
  ASSUME CoreInv, IdsUsed, [Next]_vars
  PROVE  IdsUsed'
  <1> DEFINE Used(id) == \E o \in Obj : obj'[o].id = id
  <1>0. \A id \in Id : (\E o \in Obj : obj[o].id = id) => Used(id)
    BY IdKept
  <1>1. CASE Reboot
    <2>1. \A id \in Id : Known(id)' => Known(id)
      <3>1. PICK pruned \in SUBSET Id :
              LET rows == [id \in Id |-> IF id \in pruned THEN None ELSE Reconciled(store[id])]
              IN /\ store' = rows
                 /\ published' = [id \in Id |-> IF rows[id] = None THEN "none" ELSE "stopped"]
        BY <1>1 DEF Reboot
      <3>2. sessions' = [id \in Id |-> None]
        BY <1>1 DEF Reboot
      <3>. QED BY <3>1, <3>2 DEF Known, Reconciled
    <2>2. \A c \in Caller : call'[c].id = None
      BY <1>1 DEF Reboot, Idle
    <2>3. \A id \in Id : Known(id)' => Used(id)
      BY <1>0, <2>1 DEF IdsUsed
    <2>. QED BY <2>2, <2>3, NoneAssumption DEF IdsUsed
  <1>2. CASE ~Reboot
    <2>1. \A id \in Id : Known(id)' => Used(id)
      BY <1>0, <1>2, KnownChange DEF IdsUsed
    <2>2. ASSUME NEW c \in Caller, call'[c].id \in Id, call'[c].id # call[c].id
          PROVE  Used(call'[c].id)
      <3>1. ASSUME NEW d \in Caller, CallBegin(d) PROVE Used(call'[c].id)
        <4>1. PICK r \in CallRec :
                /\ Begun(d, r)
                /\ \/ Create(d) /\ r.o \in Obj /\ obj'[r.o].id = r.id
                   \/ ClaimRestart(d, r.id) \/ UpdateLabel(d, r.id)
                   \/ ClaimEnvEdit(d, r.id) \/ DeleteBegin(d, r.id)
          BY <3>1, CallBeginEffect
        <4>2. c = d /\ call'[c] = r
          BY <2>2, <4>1 DEF Begun
        <4>3. Used(r.id) \/ Known(r.id)
          BY <4>1 DEF ClaimRestart, UpdateLabel, ClaimEnvEdit, DeleteBegin, Request
        <4>. QED BY <1>0, <2>2, <4>2, <4>3 DEF IdsUsed
      <3>2. ASSUME NEW d \in Caller, CallStep(d) PROVE FALSE
        BY <2>2, <3>2, CallStepSum, SpawnEffect, NoneAssumption
           DEF Ended, Returned, Moved, Idle
      <3>. QED BY <1>2, <2>2, <3>1, <3>2, CallChange
    <2>3. \A c \in Caller : call'[c].id \in Id => Used(call'[c].id)
      BY <1>0, <2>2 DEF IdsUsed
    <2>. QED BY <2>1, <2>3 DEF IdsUsed
  <1>. QED BY <1>1, <1>2

-----------------------------------------------------------------------------
(* Objects and ids between the spawn and register                          *)

\* A call that is at register was there before, or has just spawned.
LEMMA AtRegister ==
  ASSUME CoreInv, [Next]_vars, ~Reboot, NEW c \in Caller, call'[c].pc = "register"
  PROVE  \/ call'[c] = call[c]
         \/ /\ call'[c].o \in Obj /\ Born(call'[c].o) /\ obj'[call'[c].o].id = call'[c].id
            /\ \A d \in Caller \ {c} : call'[d] = call[d]
            /\ UNCHANGED <<sessions, sd, store, published>>
            /\ \/ call'[c].op = "restart" /\ RestartSpawn(c)
               \/ call'[c].op = "create" /\ \A x \in Obj : obj[x].id # call'[c].id
  <1>1. ASSUME NEW d \in Caller, CallBegin(d), call'[c] # call[c]
        PROVE  /\ c = d /\ call'[c].op = "create"
               /\ call'[c].o \in Obj /\ Born(call'[c].o) /\ obj'[call'[c].o].id = call'[c].id
               /\ \A e \in Caller \ {c} : call'[e] = call[e]
               /\ UNCHANGED <<sessions, sd, store, published>>
               /\ \A x \in Obj : obj[x].id # call'[c].id
    <2>1. PICK r \in CallRec :
            /\ Begun(d, r)
            /\ \/ /\ Create(d) /\ r.op = "create" /\ r.o \in Obj /\ Born(r.o)
                  /\ obj'[r.o].id = r.id /\ \A x \in Obj : obj[x].id # r.id
               \/ r.pc # "register"
      BY <1>1, CallBeginEffect
    <2>2. c = d /\ call'[c] = r /\ \A e \in Caller \ {c} : call'[e] = call[e]
      BY <1>1, <2>1 DEF Begun
    <2>3. Create(d) => UNCHANGED <<sessions, sd, store, published>>
      BY DEF Create
    <2>. QED BY <2>1, <2>2, <2>3
  <1>2. ASSUME NEW d \in Caller, CallStep(d), call'[c] # call[c]
        PROVE  /\ c = d /\ RestartSpawn(c) /\ call'[c].op = "restart"
               /\ call'[c].o \in Obj /\ Born(call'[c].o) /\ obj'[call'[c].o].id = call'[c].id
               /\ \A e \in Caller \ {c} : call'[e] = call[e]
               /\ UNCHANGED <<sessions, sd, store, published>>
    <2>1. RestartSpawn(d)
      BY <1>2, CallStepSum DEF Ended, Returned, Moved, Idle
    <2>2. c = d
      BY <1>2, <2>1, SpawnEffect
    <2>3. UNCHANGED <<sessions, sd, store, published>>
      BY <2>1 DEF RestartSpawn
    <2>. QED BY <2>1, <2>2, <2>3, SpawnEffect
  <1>. QED BY <1>1, <1>2, CallChange

\* Until register, an object is in the hands of the call that spawned it alone.
LEMMA UnregisteredNext ==
  ASSUME CoreInv, Unregistered, [Next]_vars
  PROVE  Unregistered'
  <1>1. CASE Reboot
    BY <1>1 DEF Reboot, Unregistered, Idle
  <1>2. ASSUME ~Reboot, NEW c \in Caller, call'[c].pc = "register"
        PROVE  /\ obj'[call'[c].o].loop = "none"
               /\ \A id \in Id : sessions'[id] # call'[c].o
               /\ \A d \in Caller : d # c => call'[d].o # call'[c].o
               /\ call'[c].o \notin sd'.todo /\ call'[c].o # sd'.cur
    <2>1. CASE call'[c] # call[c]
      <3>1. /\ call'[c].o \in Obj /\ Born(call'[c].o)
            /\ \A d \in Caller \ {c} : call'[d] = call[d]
            /\ UNCHANGED <<sessions, sd>>
        BY <1>2, <2>1, AtRegister
      <3>2. obj[call'[c].o] = Unused /\ obj'[call'[c].o].loop = "none" /\ call'[c].o # None
        BY <3>1, LiveKept, RefsToLive, <1>2, NoneAssumption DEF Born, Started
      <3>. QED BY <3>1, <3>2, RefsToLive
    <2>2. CASE call'[c] = call[c]
      <3> DEFINE o == call[c].o
      <3>0. /\ o \in Obj /\ Live(o) /\ call[c].pc = "register" /\ o # None /\ obj[o] # Unused
            /\ call'[c].o = o
        BY <1>2, <2>2, CallFacts, RefsToLive
      <3>1. /\ obj[o].loop = "none"
            /\ \A id \in Id : sessions[id] # o
            /\ \A d \in Caller : d # c => call[d].o # o
            /\ o \notin sd.todo /\ o # sd.cur
        BY <3>0 DEF Unregistered
      <3> HIDE DEF o
      <3>2. obj'[o].loop = "none"
        <4>1. Aged(o)
          BY <1>2, <3>0, LiveKept
        <4>2. ~LoopStep(o)
          BY <3>1 DEF LoopStep, LoopMarkStopped, LoopSetStatus, LoopCheckDiscarded, LoopPublish
        <4>3. ~RegisterInsert(c)
          BY <3>0 DEF RegisterInsert, At
        <4>4. ~RegisterRefused(c)
          <5>1. RegisterRefused(c) => Leave(c)
            BY DEF RegisterRefused
          <5>. QED BY <2>2, <3>0, <5>1, LeaveTyped DEF Moved, Ended, Returned, Idle
        <4>. QED BY <3>0, <3>1, <4>1, <4>2, <4>3, <4>4 DEF Aged, o
      <3>3. \A id \in Id : sessions'[id] # o
        <4>1. ASSUME NEW d \in Caller, RegisterPublish(d) PROVE \A id \in Id : sessions'[id] # o
          <5>1. d # c
            BY <2>2, <3>0, <4>1, CallStepEffect DEF Moved
          <5>2. sessions' = [sessions EXCEPT ![call[d].id] = call[d].o]
            BY <4>1 DEF RegisterPublish
          <5>. QED BY <3>1, <5>1, <5>2 DEF CoreInv, TypeOK
        <4>2. ASSUME NEW d \in Caller, NEW i \in Id, DeleteBegin(d, i)
              PROVE  \A id \in Id : sessions'[id] # o
          BY <3>0, <3>1, <4>2 DEF DeleteBegin, CoreInv, TypeOK
        <4>3. CASE ShutdownBegin
          BY <3>0, <4>3 DEF ShutdownBegin
        <4>. QED BY <1>2, <3>1, <4>1, <4>2, <4>3, SessionsChange
      <3>4. \A d \in Caller : d # c => call'[d].o # o
        <4>1. ASSUME NEW b \in Caller, CallBegin(b) PROVE \A d \in Caller : d # c => call'[d].o # o
          <5>1. PICK r \in CallRec :
                  /\ Begun(b, r) /\ r.id \in Id
                  /\ r.o = None \/ r.o = sessions[r.id] \/ (r.o \in Obj /\ Born(r.o))
            BY <4>1, CallBeginEffect
          <5>2. r.o # o
            BY <3>0, <3>1, <5>1 DEF Born, Started
          <5>. QED BY <3>1, <5>1, <5>2 DEF Begun
        <4>2. ASSUME NEW b \in Caller, CallStep(b) PROVE \A d \in Caller : d # c => call'[d].o # o
          <5>1. CASE RestartSpawn(b)
            <6>1. PICK x \in Obj : /\ Born(x) /\ call'[b].o = x
                                   /\ \A d \in Caller \ {b} : call'[d] = call[d]
              BY <5>1, SpawnEffect
            <6>. QED BY <3>0, <3>1, <6>1 DEF Born, Started
          <5>2. CASE ~RestartSpawn(b)
            BY <3>0, <3>1, <4>2, <5>2, CallStepSum DEF Ended, Returned, Moved, Idle
          <5>. QED BY <5>1, <5>2
        <4>. QED BY <1>2, <3>1, <4>1, <4>2, CallChange
      <3>5. o \notin sd'.todo /\ o # sd'.cur
        <4>1. CASE ShutdownBegin
          <5>1. o \notin Published
            BY <3>1 DEF Published
          <5>. QED BY <3>0, <4>1, <5>1 DEF ShutdownBegin
        <4>2. CASE ShutdownNext \/ ShutdownTerminate \/ ShutdownWait
          <5>0. sd \in SdRec
            BY DEF CoreInv, TypeOK
          <5>1. sd'.todo \subseteq sd.todo /\ sd'.cur \in sd.todo \cup {sd.cur, None}
            <6>1. CASE ShutdownNext
              BY <5>0, <6>1 DEF ShutdownNext, SdRec
            <6>2. CASE ShutdownTerminate
              <7>1. sd' = [sd EXCEPT !.pc = "wait"]
                BY <6>2 DEF ShutdownTerminate
              <7>. QED BY <5>0, <7>1 DEF SdRec
            <6>3. CASE ShutdownWait
              <7>1. sd' = [sd EXCEPT !.pc = "next", !.cur = None]
                BY <6>3 DEF ShutdownWait
              <7>. QED BY <5>0, <7>1 DEF SdRec
            <6>. QED BY <4>2, <6>1, <6>2, <6>3
          <5>. QED BY <3>0, <3>1, <5>1
        <4>. QED BY <1>2, <3>1, <4>1, <4>2, ShutdownChange DEF ShutdownStep
      <3>. QED BY <3>0, <3>2, <3>3, <3>4, <3>5
    <2>. QED BY <2>1, <2>2
  <1>. QED BY <1>1, <1>2 DEF Unregistered

\* The id of a Create in flight is in neither the map nor another call.
LEMMA FreshNext ==
  ASSUME CoreInv, IdsUsed, Unregistered, FreshId, [Next]_vars
  PROVE  FreshId'
  <1>1. CASE Reboot
    BY <1>1 DEF Reboot, FreshId, Idle
  <1>2. ASSUME ~Reboot, NEW c \in Caller, call'[c].op = "create", call'[c].pc = "register"
        PROVE  /\ sessions'[call'[c].id] = None
               /\ store'[call'[c].id] = None
               /\ published'[call'[c].id] = "none"
               /\ \A d \in Caller : d # c => call'[d].id # call'[c].id
               /\ \A o \in Obj : obj'[o].id = call'[c].id => o = call'[c].o
    <2>0. PICK id \in Id : id = call'[c].id
      BY <1>2, CallNext DEF CallTyped, CallShape, Idle
    <2>1. CASE call'[c] # call[c]
      <3>1. /\ call'[c].o \in Obj /\ Born(call'[c].o) /\ obj'[call'[c].o].id = id
            /\ \A d \in Caller \ {c} : call'[d] = call[d]
            /\ UNCHANGED <<sessions, sd, store, published>>
            /\ \A x \in Obj : obj[x].id # id
        BY <1>2, <2>0, <2>1, AtRegister
      <3>2. ~Known(id) /\ \A d \in Caller : call[d].id # id
        BY <2>0, <3>1 DEF IdsUsed
      <3>3. ~Known(id)'
        BY <3>1, <3>2 DEF Known
      <3>4. \A o \in Obj : obj'[o].id = id => o = call'[c].o
        <4>1. ASSUME NEW o \in Obj, Born(o), obj'[o].id = id PROVE o = call'[c].o
          <5>1. PICK b \in Caller : SpawnedBy(b, o)
            BY <4>1 DEF Born, Started
          <5>2. b = c
            <6>1. ASSUME b # c PROVE FALSE
              <7>1. call[b].pc = "register" /\ call[b].id = id
                BY <3>1, <4>1, <5>1, <6>1 DEF SpawnedBy
              <7>. QED BY <3>2, <7>1
            <6>. QED BY <6>1
          <5>. QED BY <5>1, <5>2 DEF SpawnedBy
        <4>. QED BY <1>2, <3>1, <4>1, ObjNext DEF Aged
      <3>. QED BY <2>0, <3>1, <3>2, <3>3, <3>4 DEF Known
    <2>2. CASE call'[c] = call[c]
      <3>1. /\ ~Known(id) /\ call[c].o \in Obj
            /\ \A d \in Caller : d # c => call[d].id # id
            /\ \A o \in Obj : obj[o].id = id => o = call[c].o
            /\ obj[call[c].o].loop = "none"
        BY <1>2, <2>0, <2>2, CallFacts DEF FreshId, Unregistered
      <3>2. ~Known(id)'
        BY <1>2, <2>0, <2>2, <3>1, KnownChange
      <3>3. \A d \in Caller : d # c => call'[d].id # id
        <4>1. ASSUME NEW b \in Caller, CallBegin(b) PROVE \A d \in Caller : d # c => call'[d].id # id
          <5>1. PICK r \in CallRec :
                  /\ Begun(b, r)
                  /\ \/ Create(b) /\ \A x \in Obj : obj[x].id # r.id
                     \/ ClaimRestart(b, r.id) \/ UpdateLabel(b, r.id)
                     \/ ClaimEnvEdit(b, r.id) \/ DeleteBegin(b, r.id)
            BY <4>1, CallBeginEffect
          <5>2. r.id # id
            BY <1>2, <2>0, <2>2, <3>1, <5>1, CallFacts
               DEF ClaimRestart, UpdateLabel, ClaimEnvEdit, DeleteBegin, Request
          <5>. QED BY <3>1, <5>1, <5>2 DEF Begun
        <4>2. ASSUME NEW b \in Caller, CallStep(b) PROVE \A d \in Caller : d # c => call'[d].id # id
          BY <2>0, <3>1, <4>2, CallStepSum, SpawnEffect, NoneAssumption
             DEF Ended, Returned, Moved, Idle
        <4>. QED BY <1>2, <3>1, <4>1, <4>2, CallChange
      <3>4. \A o \in Obj : obj'[o].id = id => o = call[c].o
        <4>1. ASSUME NEW o \in Obj, Born(o), obj'[o].id = id PROVE FALSE
          <5>1. PICK b \in Caller : SpawnedBy(b, o)
            BY <4>1 DEF Born, Started
          <5>2. obj[call[c].o].id = id
            BY <1>2, <2>0, <2>2, CallFacts
          <5>3. call[b].op = "restart" /\ call[b].pc = "spawn" /\ call[b].id = id
            BY <3>1, <4>1, <5>1, <5>2 DEF SpawnedBy
          <5>. QED BY <1>2, <2>2, <3>1, <5>3
        <4>. QED BY <1>2, <3>1, <4>1, ObjNext DEF Aged
      <3>. QED BY <2>0, <2>2, <3>1, <3>2, <3>3, <3>4 DEF Known
    <2>. QED BY <2>1, <2>2
  <1>. QED BY <1>1, <1>2 DEF FreshId, Known

-----------------------------------------------------------------------------
(* Restart: what it read stays true until register                          *)

\* Who publishes under an id: a create, whose id nobody knows, or the restart
\* that holds the reservation.
LEMMA PublisherIs ==
  ASSUME CoreInv, NEW c \in Caller, RegisterPublish(c)
  PROVE  /\ call[c].pc = "register" /\ call[c].op \in {"create", "restart"}
         /\ call[c].id \in Id /\ call[c].o \in Obj /\ obj[call[c].o].id = call[c].id
         /\ sessions' = [sessions EXCEPT ![call[c].id] = call[c].o]
         /\ obj' = obj
         /\ Moved(c, "insert")
  BY CallFacts, CallStepEffect DEF RegisterPublish, At

\* Until register, a restart's object has the environment of the stopped one.
LEMMA PendingNext ==
  ASSUME CoreInv, Unregistered, FreshId, RestartPending, [Next]_vars
  PROVE  RestartPending'
  <1>1. CASE Reboot
    BY <1>1 DEF Reboot, RestartPending, Idle
  <1> DEFINE Pends(c) == call'[c].op = "restart" /\ call'[c].pc \in {"spawn", "register"}
  <1>2. ASSUME ~Reboot, NEW c \in Caller, Pends(c), NEW old, old = sessions'[call'[c].id],
               old # None
        PROVE  /\ obj'[old].status = "stopped"
               /\ call'[c].pc = "register" => obj'[call'[c].o].env = obj'[old].env
    <2>0. PICK id \in Id : id = call'[c].id
      BY <1>2, CallNext DEF CallTyped, CallShape, Idle
    <2>a. old = sessions'[id] /\ old \in Obj /\ obj'[old].id = id
      BY <1>2, <2>0, MapRefsNext
    <2>1. CASE call'[c] = call[c]
      <3>0. /\ call[c].op = "restart" /\ call[c].pc \in {"spawn", "register"} /\ call[c].id = id
            /\ call[c].o = call'[c].o
        BY <1>2, <2>0, <2>1
      <3>1. sessions[id] = old
        <4>1. ASSUME NEW d \in Caller, RegisterPublish(d), call[d].id = id PROVE FALSE
          <5>1. d # c /\ call[d].pc = "register" /\ call[d].op \in {"create", "restart"}
            BY <2>1, <3>0, <4>1, PublisherIs DEF Moved
          <5>2. CASE call[d].op = "create"
            BY <3>0, <4>1, <5>1, <5>2 DEF FreshId
          <5>3. CASE call[d].op = "restart"
            BY <3>0, <4>1, <5>1, <5>3 DEF CoreInv, ReservationExclusive, Reserving
          <5>. QED BY <5>1, <5>2, <5>3
        <4>2. ASSUME NEW d \in Caller, RegisterPublish(d) PROVE sessions[id] = old
          BY <2>a, <4>1, <4>2, PublisherIs DEF CoreInv, TypeOK
        <4>3. ASSUME NEW d \in Caller, NEW i \in Id, DeleteBegin(d, i) PROVE sessions[id] = old
          BY <1>2, <2>a, <4>3 DEF DeleteBegin, CoreInv, TypeOK
        <4>. QED BY <1>2, <2>a, <4>2, <4>3, SessionsChange DEF ShutdownBegin
      <3>2. /\ obj[old].status = "stopped" /\ Live(old) /\ obj[old].id = id
            /\ call[c].pc = "register" => obj[call[c].o].env = obj[old].env
        BY <1>2, <3>0, <3>1 DEF RestartPending, CoreInv, RefsLive
      <3>3. Aged(old)
        BY <1>2, <2>a, <3>2, LiveKept
      <3>4. obj'[old].status = "stopped"
        BY <3>2, <3>3 DEF Aged
      <3>5. obj'[old].env = obj[old].env
        <4>1. ASSUME NEW d \in Caller, call[d].o = old, call[d].op = "env" PROVE FALSE
          <5>1. call[d].id = id
            BY <1>2, <3>2, <4>1 DEF CoreInv, RefsLive
          <5>2. d = c
            BY <3>0, <4>1, <5>1 DEF CoreInv, ReservationExclusive, Reserving
          <5>. QED BY <3>0, <4>1, <5>2
        <4>. QED BY <3>3, <4>1 DEF Aged
      <3>6. ASSUME call[c].pc = "register" PROVE obj'[call[c].o].env = obj[call[c].o].env
        <4>1. call[c].o \in Obj /\ Live(call[c].o)
          BY <3>6, CallFacts
        <4>2. Aged(call[c].o)
          BY <1>2, <4>1, LiveKept
        <4>3. ASSUME NEW d \in Caller, call[d].o = call[c].o, call[d].op = "env" PROVE FALSE
          BY <3>0, <3>6, <4>3 DEF Unregistered
        <4>. QED BY <4>2, <4>3 DEF Aged
      <3>. QED BY <2>1, <3>0, <3>2, <3>4, <3>5, <3>6
    <2>2. CASE call'[c] # call[c] /\ call'[c].pc = "register"
      <3>1. RestartSpawn(c) /\ UNCHANGED sessions
        BY <1>2, <2>2, AtRegister
      <3>2. /\ call[c].op = "restart" /\ call[c].pc = "spawn" /\ call[c].id = id
            /\ Restartable(id) # None /\ Born(call'[c].o) /\ call'[c].o \in Obj
            /\ obj'[call'[c].o].env = Restartable(id).env
        BY <2>0, <3>1, SpawnEffect
      <3>3. sessions[id] = old /\ obj[old].status = "stopped" /\ Live(old)
        BY <1>2, <2>a, <3>1, <3>2 DEF RestartPending, CoreInv, RefsLive
      <3>4. obj'[call'[c].o].env = obj[old].env
        BY <1>2, <3>2, <3>3, RestartableInfo DEF InfoOf
      <3>5. Aged(old)
        BY <1>2, <2>a, <3>3, LiveKept
      <3>6. obj'[old].status = "stopped"
        BY <3>3, <3>5 DEF Aged
      <3>7. obj'[old].env = obj[old].env
        <4>1. PICK x \in Obj : x = call'[c].o /\ obj[old] # Unused
          BY <2>a, <3>2, <3>3, RefsToLive
        <4>2. ASSUME NEW d \in Caller, call[d].o = old, call[d].op = "env" PROVE FALSE
          <5>1. call[d].id = id
            BY <1>2, <2>a, <3>3, <4>2 DEF CoreInv, RefsLive
          <5>2. d = c
            BY <3>2, <4>2, <5>1 DEF CoreInv, ReservationExclusive, Reserving
          <5>. QED BY <3>2, <4>2, <5>2
        <4>. QED BY <3>5, <4>2 DEF Aged
      <3>. QED BY <3>4, <3>6, <3>7
    <2>3. CASE call'[c] # call[c] /\ call'[c].pc = "spawn"
      <3>1. ASSUME NEW d \in Caller, CallStep(d) PROVE FALSE
        <4>1. CASE RestartSpawn(d)
          BY <2>3, <4>1, SpawnEffect
        <4>2. CASE ~RestartSpawn(d)
          BY <2>3, <3>1, <4>2, CallStepSum DEF Ended, Returned, Moved, Idle
        <4>. QED BY <4>1, <4>2
      <3>2. PICK d \in Caller : CallBegin(d)
        BY <1>2, <2>3, <3>1, CallChange
      <3>3. PICK r \in CallRec :
              /\ Begun(d, r)
              /\ ClaimRestart(d, r.id) \/ r.pc # "spawn"
        BY <3>2, CallBeginEffect
      <3>4. c = d /\ r = call'[c]
        BY <2>3, <3>3 DEF Begun
      <3>5. ClaimRestart(c, id)
        BY <2>0, <2>3, <3>3, <3>4
      <3>6. /\ UNCHANGED <<sessions, obj>>
            /\ sessions[id] # None => obj[sessions[id]].status # "running"
        BY <3>5 DEF ClaimRestart, CanClaim
      <3>7. old = sessions[id] /\ obj'[old].status # "running"
        BY <1>2, <2>a, <3>6
      <3>8. obj'[old].status = "stopped"
        <4>1. IsLive(obj'[old])
          BY <1>2, <2>a, MapRefsNext
        <4>. QED BY <3>7, <4>1 DEF IsLive
      <3>. QED BY <2>3, <3>8
    <2>. QED BY <1>2, <2>1, <2>2, <2>3
  <1>. QED BY <1>1, <1>2 DEF RestartPending

-----------------------------------------------------------------------------
(* No shell is lost                                                        *)

\* No step loses a live shell.
LEMMA OrphanNext ==
  ASSUME Inv, [Next]_vars
  PROVE  NoOrphanShell'
  <1>0. /\ CoreInv /\ StoppedIsDead /\ AliveIsLive /\ FreshId /\ RestartPending
        /\ NoOrphanShell
    BY DEF Inv
  <1>1. CASE Reboot
    <2>1. \A o \in Obj : obj'[o].proc # "alive"
      BY <1>1 DEF Reboot, Unused
    <2>. QED BY <2>1 DEF NoOrphanShell
  <1>2. ASSUME ~Reboot, NEW o \in Obj, obj'[o].proc = "alive"
        PROVE  \/ sessions'[obj'[o].id] = o
               \/ \E c \in Caller : CallHolds(c, o)'
               \/ ShutdownHolds(o)'
    <2>1. CASE Born(o)
      <3>1. PICK c \in Caller : call'[c].o = o /\ call'[c].pc = "register"
        BY <2>1 DEF Born, SpawnedBy
      <3>. QED BY <3>1 DEF CallHolds
    <2>2. CASE ~Born(o)
      <3>0. Aged(o) /\ obj[o].proc = "alive" /\ Live(o) /\ obj'[o].id = obj[o].id
        BY <1>0, <1>2, <2>2, ObjNext DEF Aged, AliveIsLive
      <3>1. PICK id \in Id : id = obj[o].id /\ id = obj'[o].id
        BY <3>0 DEF Live, IsLive
      <3>2. obj[o].status # "stopped"
        BY <1>0, <3>0 DEF StoppedIsDead
      <3>3. CASE sessions[id] = o
        <4>1. ASSUME NEW c \in Caller, RegisterPublish(c), call[c].id = id PROVE call[c].o = o
          <5>1. CASE call[c].op = "create"
            BY <1>0, <3>1, <4>1, <5>1, PublisherIs DEF FreshId
          <5>2. CASE call[c].op = "restart"
            BY <1>0, <3>2, <3>3, <4>1, <5>2, PublisherIs, NoneAssumption DEF RestartPending
          <5>. QED BY <1>0, <4>1, <5>1, <5>2, PublisherIs
        <4>2. ASSUME NEW c \in Caller, RegisterPublish(c) PROVE sessions'[id] = o
          BY <1>0, <3>3, <4>1, <4>2, PublisherIs DEF CoreInv, TypeOK
        <4>3. ASSUME NEW c \in Caller, NEW i \in Id, DeleteBegin(c, i)
              PROVE  sessions'[id] = o \/ CallHolds(c, o)'
          <5>1. CASE i = id
            <6>1. /\ call' = [call EXCEPT ![c] = [op |-> "delete", id |-> i, o |-> sessions[i],
                        pc |-> IF sessions[i] = None THEN "stored" ELSE "terminate",
                        info |-> None]]
                  /\ sessions[i] # None
              BY <3>3, <4>3, <5>1, NoneAssumption DEF DeleteBegin
            <6>2. call'[c].op = "delete" /\ call'[c].o = o /\ call'[c].pc = "terminate"
              BY <1>0, <3>3, <5>1, <6>1 DEF CoreInv, TypeOK
            <6>. QED BY <6>2 DEF CallHolds
          <5>2. CASE i # id
            BY <1>0, <3>3, <4>3, <5>2 DEF DeleteBegin, CoreInv, TypeOK
          <5>. QED BY <5>1, <5>2
        <4>4. CASE ShutdownBegin
          <5>1. o \in Published
            BY <3>3, NoneAssumption DEF Published
          <5>. QED BY <4>4, <5>1 DEF ShutdownBegin, ShutdownHolds
        <4>. QED BY <1>2, <3>1, <3>3, <4>2, <4>3, <4>4, SessionsChange
      <3>4. ASSUME NEW c \in Caller, CallHolds(c, o)
            PROVE  sessions'[id] = o \/ CallHolds(c, o)'
        <4>0. call[c].o = o /\ call[c].pc \in {"register", "terminate"} /\ call[c] # Idle
              /\ call[c].id = id
          <5>1. call[c].o = o /\ call[c].pc \in {"register", "terminate"}
            BY <3>4 DEF CallHolds
          <5>2. obj[call[c].o].id = call[c].id
            BY <1>0, <5>1, CallFacts
          <5>3. call[c] # Idle
            BY <5>1 DEF Idle
          <5>. QED BY <3>1, <5>1, <5>2, <5>3
        <4>1. CASE call'[c] = call[c]
          BY <3>4, <4>1 DEF CallHolds
        <4>2. CASE call'[c] # call[c]
          <5>1. CallStep(c)
            <6>1. ASSUME NEW d \in Caller, CallBegin(d) PROVE FALSE
              BY <1>0, <4>0, <4>2, <6>1, CallBeginEffect DEF Begun
            <6>2. ASSUME NEW d \in Caller, CallStep(d), d # c PROVE FALSE
              BY <1>0, <4>2, <6>2, CallStepSum, SpawnEffect DEF Ended, Returned, Moved
            <6>. QED BY <1>2, <4>2, <6>1, <6>2, CallChange
          <5>2. CASE call[c].pc = "register"
            <6>1. RegisterRefused(c) \/ RegisterPublish(c)
              BY <5>1, <5>2 DEF CallStep, RestartSpawn, RestartFails, RegisterInsert, RestartInfo,
                 PublishSession, ReleaseRestart, UpdateApply, UpdateStoredGet, UpdateUpsert,
                 DeleteStored, DeleteTerminate, DeleteWait, DeleteRow, DeleteGone, At
            <6>2. ~RegisterRefused(c)
              <7>1. RegisterRefused(c) =>
                      obj' = [obj EXCEPT ![o] = [obj[o] EXCEPT !.proc = "dead", !.loop = "done"]]
                BY <4>0 DEF RegisterRefused
              <7>2. obj[o] \in ObjRec
                BY <1>0 DEF CoreInv, TypeOK
              <7>3. RegisterRefused(c) => obj'[o].proc = "dead"
                <8>1. obj \in [Obj -> ObjRec]
                  BY <1>0 DEF CoreInv, TypeOK
                <8>2. [obj[o] EXCEPT !.proc = "dead", !.loop = "done"].proc = "dead"
                  BY <7>2 DEF ObjRec
                <8>. QED BY <7>1, <8>1, <8>2
              <7>. QED BY <1>2, <7>3
            <6>. QED BY <1>0, <4>0, <6>1, <6>2, PublisherIs DEF CoreInv, TypeOK
          <5>3. CASE call[c].pc = "terminate"
            <6>1. DeleteTerminate(c)
              BY <5>1, <5>3 DEF CallStep, RestartSpawn, RestartFails, RegisterRefused,
                 RegisterPublish, RegisterInsert, RestartInfo,
                 PublishSession, ReleaseRestart, UpdateApply, UpdateStoredGet, UpdateUpsert,
                 DeleteStored, DeleteWait, DeleteRow, DeleteGone, At
            <6>2. PICK p \in {"dead", "held"} :
                    obj' = [obj EXCEPT ![o] = [obj[o] EXCEPT !.proc = p, !.discarded = TRUE]]
              BY <3>0, <4>0, <6>1 DEF DeleteTerminate, Kill
            <6>3. obj[o] \in ObjRec
              BY <1>0 DEF CoreInv, TypeOK
            <6>4. obj'[o].proc = p
              BY <1>0, <6>2, <6>3 DEF CoreInv, TypeOK, ObjRec
            <6>. QED BY <1>2, <6>2, <6>4
          <5>. QED BY <4>0, <5>2, <5>3
        <4>. QED BY <4>1, <4>2
      <3>5. CASE ShutdownHolds(o)
        <4>0. sd \in SdRec /\ sd.pc # "no"
          BY <1>0, <3>5, NoneAssumption DEF CoreInv, TypeOK, ShutdownShape, ShutdownHolds
        <4>1. CASE UNCHANGED sd
          BY <3>5, <4>1 DEF ShutdownHolds
        <4>2. ~ShutdownBegin
          BY <4>0 DEF ShutdownBegin, NotDown
        <4>3. CASE ShutdownNext
          <5>1. sd.pc = "next" /\ o \in sd.todo
            BY <3>5, <4>3 DEF ShutdownNext, ShutdownHolds
          <5>2. PICK x \in sd.todo : sd' = [pc |-> "terminate", todo |-> sd.todo \ {x}, cur |-> x]
            BY <4>3, <5>1 DEF ShutdownNext
          <5>. QED BY <5>1, <5>2 DEF ShutdownHolds
        <4>4. CASE ShutdownTerminate
          <5>1. sd' = [sd EXCEPT !.pc = "wait"] /\ sd.pc = "terminate"
            BY <4>4 DEF ShutdownTerminate
          <5>2. sd'.todo = sd.todo
            BY <4>0, <5>1 DEF SdRec
          <5>3. sd.cur # o
            <6>1. ASSUME sd.cur = o PROVE FALSE
              <7>1. PICK p \in {"dead", "held"} : SetProc(o, p)
                BY <3>0, <4>4, <6>1 DEF ShutdownTerminate, Kill
              <7>2. obj'[o].proc = p
                BY <1>0, <7>1, SetProcEffect DEF CoreInv
              <7>. QED BY <1>2, <7>1, <7>2
            <6>. QED BY <6>1
          <5>. QED BY <3>5, <5>2, <5>3 DEF ShutdownHolds
        <4>5. CASE ShutdownWait
          <5>1. sd' = [sd EXCEPT !.pc = "next", !.cur = None] /\ sd.pc = "wait"
            BY <4>5 DEF ShutdownWait
          <5>2. sd'.todo = sd.todo
            BY <4>0, <5>1 DEF SdRec
          <5>. QED BY <3>5, <5>1, <5>2 DEF ShutdownHolds
        <4>. QED BY <1>2, <4>1, <4>2, <4>3, <4>4, <4>5, ShutdownChange DEF ShutdownStep
      <3>. QED BY <1>0, <3>0, <3>1, <3>3, <3>4, <3>5 DEF NoOrphanShell
    <2>. QED BY <2>1, <2>2
  <1>. QED BY <1>1, <1>2 DEF NoOrphanShell

-----------------------------------------------------------------------------
(* No announcement after a delete                                          *)

\* No step lets a deleted session announce itself after its Delete.
LEMMA QuietNext ==
  ASSUME CoreInv, QuietAfterDelete, [Next]_vars
  PROVE  QuietAfterDelete'
  <1>1. CASE Reboot
    <2>1. \A o \in Obj : obj'[o].loop # "announcing"
      BY <1>1 DEF Reboot, Unused
    <2>. QED BY <2>1 DEF QuietAfterDelete
  <1>2. ASSUME ~Reboot, NEW o \in Obj, obj'[o].loop = "announcing", obj'[o].discarded
        PROVE  \E c \in Caller : At(c, {"delete"}, "wait")' /\ call'[c].o = o
    <2>0. obj[o] \in ObjRec /\ TypeOK
      BY DEF CoreInv, TypeOK
    <2>1. Aged(o)
      BY <1>2, ObjNext DEF Born, Started
    <2>2. ASSUME NEW c \in Caller, call[c].o = o, DeleteTerminate(c)
          PROVE  At(c, {"delete"}, "wait")' /\ call'[c].o = o
      BY <2>2, CallStepEffect DEF DeleteTerminate, At, Moved
    <2>3. CASE obj[o].loop = "announcing" /\ obj[o].discarded
      <3>1. PICK c \in Caller : At(c, {"delete"}, "wait") /\ call[c].o = o
        BY <2>3 DEF QuietAfterDelete
      <3>2. call'[c] = call[c]
        <4>1. ASSUME NEW d \in Caller, CallBegin(d) PROVE call'[c] = call[c]
          BY <3>1, <4>1, CallBeginEffect DEF Begun, At, Idle
        <4>2. ASSUME NEW d \in Caller, CallStep(d), d # c PROVE call'[c] = call[c]
          BY <4>2, CallStepSum, SpawnEffect DEF Ended, Returned, Moved
        <4>3. ~CallStep(c)
          BY <2>3, <3>1 DEF CallStep, RestartSpawn, RestartFails, RegisterRefused,
             RegisterPublish, RegisterInsert, RestartInfo,
             PublishSession, ReleaseRestart, UpdateApply, UpdateStoredGet, UpdateUpsert,
             DeleteStored, DeleteTerminate, DeleteWait, DeleteRow, DeleteGone, At, TerminateReturns
        <4>. QED BY <1>2, <4>1, <4>2, <4>3, CallChange
      <3>. QED BY <3>1, <3>2 DEF At
    <2>4. CASE ~obj[o].discarded
      BY <1>2, <2>1, <2>2, <2>4 DEF Aged
    <2>5. CASE obj[o].loop # "announcing" /\ obj[o].discarded
      <3>1. ASSUME NEW c \in Caller, call[c].o = o, RegisterInsert(c) PROVE FALSE
        <4>1. obj'[o].loop = "reading"
          BY <2>0, <3>1, SetLoopEffect DEF RegisterInsert
        <4>. QED BY <1>2, <4>1
      <3>2. ASSUME NEW c \in Caller, call[c].o = o, RegisterRefused(c) PROVE FALSE
        <4>1. obj' = [obj EXCEPT ![o] = [obj[o] EXCEPT !.proc = "dead", !.loop = "done"]]
          BY <3>2 DEF RegisterRefused
        <4>2. obj'[o].loop = "done"
          BY <2>0, <4>1 DEF TypeOK, ObjRec
        <4>. QED BY <1>2, <4>2
      <3>3. CASE LoopMarkStopped(o)
        <4>1. obj' = [obj EXCEPT ![o] = [obj[o] EXCEPT !.loop = "marked", !.status = "stopped"]]
          BY <3>3 DEF LoopMarkStopped
        <4>2. obj'[o].loop = "marked"
          BY <2>0, <4>1 DEF TypeOK, ObjRec
        <4>. QED BY <1>2, <4>2
      <3>4. CASE LoopSetStatus(o) \/ LoopCheckDiscarded(o) \/ LoopPublish(o)
        <4>1. PICK l \in {"stored", "done"} : SetLoop(o, l)
          BY <2>5, <3>4 DEF LoopSetStatus, LoopCheckDiscarded, LoopPublish, Announces
        <4>2. obj'[o].loop = l
          BY <2>0, <4>1, SetLoopEffect
        <4>. QED BY <1>2, <4>1, <4>2
      <3>. QED BY <1>2, <2>1, <2>5, <3>1, <3>2, <3>3, <3>4 DEF Aged, LoopStep
    <2>. QED BY <2>3, <2>4, <2>5
  <1>. QED BY <1>1, <1>2 DEF QuietAfterDelete

-----------------------------------------------------------------------------
(* Theorems                                                                *)

\* The inductive invariant holds initially.
LEMMA InvInit == Init => Inv
  <1> SUFFICES ASSUME Init PROVE Inv
    OBVIOUS
  <1>1. CoreInv
    BY CoreInit
  <1>2. StoppedIsDead /\ AliveIsLive /\ NoOrphanShell /\ QuietAfterDelete
    BY DEF Init, Unused, StoppedIsDead, AliveIsLive, NoOrphanShell, QuietAfterDelete
  <1>3. Unregistered /\ FreshId /\ RestartPending
    BY DEF Init, Idle, Unregistered, FreshId, RestartPending
  <1>4. IdsUsed
    BY NoneAssumption DEF Init, Idle, IdsUsed, Known
  <1>. QED BY <1>1, <1>2, <1>3, <1>4 DEF Inv

\* The inductive invariant is preserved by every step.
LEMMA InvNext == Inv /\ [Next]_vars => Inv'
  BY CoreNext, StoppedNext, AliveNext, IdsUsedNext, UnregisteredNext, FreshNext, PendingNext,
     OrphanNext, QuietNext DEF Inv

\* The inductive invariant holds in every reachable state, for all constants.
THEOREM Invariance == Spec => []Inv
  BY InvInit, InvNext, PTL DEF Spec

\* Every variable keeps its type.
THEOREM TypeCorrect == Spec => []TypeOK
  <1>1. Inv => TypeOK
    BY DEF Inv, CoreInv
  <1>. QED BY <1>1, Invariance, PTL

\* The restart reservation of claimRestart and claimEnvEdit is exact and
\* exclusive, whatever calls run at once.
THEOREM ReservationIsExclusive == Spec => []ReservationExclusive
  <1>1. Inv => ReservationExclusive
    BY DEF Inv, CoreInv
  <1>. QED BY <1>1, Invariance, PTL

\* No interleaving of creates, restarts, deletes, a shutdown and reboots leaves
\* a live shell that neither the map nor a step about to kill it refers to.
THEOREM NoShellIsOrphaned == Spec => []NoOrphanShell
  <1>1. Inv => NoOrphanShell
    BY DEF Inv
  <1>. QED BY <1>1, Invariance, PTL

\* After Shutdown has returned, a live shell is in the hands of a call that
\* register will refuse or of a Delete.
THEOREM ShutdownLeavesNoShell == Spec => []NoShellAfterShutdown
  <1>1. ASSUME Inv, sd.pc = "done", NEW o \in Obj, obj[o].proc = "alive"
        PROVE  \E c \in Caller : CallHolds(c, o)
    <2>1. obj[o].id \in Id /\ o # None
      BY <1>1, NoneAssumption DEF Inv, AliveIsLive, Live, IsLive
    <2>2. sessions[obj[o].id] = None /\ sd.todo = {} /\ sd.cur = None
      BY <1>1, <2>1 DEF Inv, CoreInv, ShutdownShape
    <2>. QED BY <1>1, <2>1, <2>2 DEF Inv, NoOrphanShell, ShutdownHolds
  <1>2. Inv => NoShellAfterShutdown
    BY <1>1 DEF NoShellAfterShutdown
  <1>. QED BY <1>2, Invariance, PTL

\* A read loop that outlives its Delete never announces the session again.
THEOREM DeleteIsQuiet == Spec => []QuietAfterDelete
  <1>1. Inv => QuietAfterDelete
    BY DEF Inv
  <1>. QED BY <1>1, Invariance, PTL

\* A step that puts an object in the place of another is the register of the
\* restart that holds the reservation, and the replaced object is stopped.
LEMMA ReplacedBy ==
  ASSUME Inv, [Next]_vars, NEW id \in Id, Replaced(id)
  PROVE  /\ obj[sessions[id]].status = "stopped"
         /\ obj'[sessions'[id]].env = obj[sessions[id]].env
  <1>0. CoreInv /\ FreshId /\ RestartPending /\ TypeOK
    BY DEF Inv, CoreInv
  <1>1. PICK c \in Caller : RegisterPublish(c)
    BY <1>0, SessionsChange DEF Replaced, DeleteBegin, ShutdownBegin, Reboot, TypeOK
  <1>2. call[c].id = id /\ sessions'[id] = call[c].o /\ obj' = obj
    BY <1>0, <1>1, PublisherIs DEF Replaced, TypeOK
  <1>3. call[c].op = "restart" /\ call[c].pc = "register"
    BY <1>0, <1>1, <1>2, PublisherIs DEF FreshId, Known, Replaced
  <1>. QED BY <1>0, <1>2, <1>3 DEF RestartPending, Replaced

\* A running session is never dropped from the map by a replacement.
THEOREM OnlyStoppedIsReplaced == Spec => OnlyStoppedReplaced
  <1>1. Inv /\ [Next]_vars =>
          [\A id \in Id : Replaced(id) => obj[sessions[id]].status = "stopped"]_vars
    BY ReplacedBy
  <1>. QED BY <1>1, Invariance, PTL DEF Spec, OnlyStoppedReplaced

\* A restart publishes the environment the stopped session has at that moment.
THEOREM RestartCarriesTheEnv == Spec => RestartCarriesEnv
  <1>1. Inv /\ [Next]_vars =>
          [\A id \in Id : Replaced(id) =>
             obj'[sessions'[id]].env = obj[sessions[id]].env]_vars
    BY ReplacedBy
  <1>. QED BY <1>1, Invariance, PTL DEF Spec, RestartCarriesEnv

-----------------------------------------------------------------------------
(* The row of a session carries its environment                            *)

\* No call renames a session.
NoLabel == \A c \in Caller : call[c].op # "label"

\* register is given a session that runs.
Registering(c) == call[c].pc = "register" => obj[call[c].o].status = "running"

\* Between register's publication and its insert, the object and the metadata
\* read from it are the same, and nobody replaces the object.
Inserting(c) ==
  call[c].pc = "insert" =>
    /\ call[c].info.env = obj[call[c].o].env
    /\ obj[call[c].o].loop = "none" /\ obj[call[c].o].status = "running"
    /\ sessions[call[c].id] \in {None, call[c].o}
    /\ \A d \in Caller : d # c => ~(call[d].pc = "insert" /\ call[d].o = call[c].o)

\* Until the first insert of a session nobody else can write a row for it.
FirstRow(c) ==
  call[c].op = "create" /\ call[c].pc = "insert" =>
    /\ store[call[c].id] = None
    /\ \A o \in Obj : obj[o].id = call[c].id => o = call[c].o
    /\ \A d \in Caller : d # c /\ call[d].id = call[c].id =>
         call[d].pc \notin {"register", "insert", "upsert"}

\* An edit of the environment works on the object in the map, if any.
Editing(c) ==
  call[c].op = "env" /\ call[c].pc \in {"apply", "sget", "upsert"} =>
    /\ sessions[call[c].id] \in {None, call[c].o}
    /\ call[c].pc = "sget" => call[c].o = None
    /\ call[c].pc = "upsert" /\ sessions[call[c].id] # None =>
         call[c].info.env = obj[call[c].o].env

\* A row that differs from its object is about to be written.
Writes(c, id) == call[c].id = id /\ call[c].pc \in {"insert", "upsert"}
Stored ==
  faults = 0 =>
    \A id \in Id : sessions[id] # None /\ store[id] # None =>
      \/ store[id].env = obj[sessions[id]].env
      \/ \E c \in Caller : Writes(c, id)

EnvInv ==
  /\ NoLabel
  /\ \A c \in Caller : Registering(c) /\ Inserting(c) /\ FirstRow(c) /\ Editing(c)
  /\ Stored

\* A call changes only in its own steps.
LEMMA OwnStep ==
  ASSUME CoreInv, [Next]_vars, ~Reboot, NEW c \in Caller, call'[c] # call[c]
  PROVE  CallBegin(c) \/ CallStep(c)
  <1>1. ASSUME NEW d \in Caller, CallBegin(d) PROVE c = d
    <2>1. PICK r \in CallRec : Begun(d, r)
      BY <1>1, CallBeginEffect
    <2>. QED BY <2>1 DEF Begun
  <1>2. ASSUME NEW d \in Caller, CallStep(d) PROVE c = d
    BY <1>2, CallStepSum, SpawnEffect DEF Ended, Returned, Moved
  <1>. QED BY <1>1, <1>2, CallChange

\* Which step brings a call to a point where it writes its row, or is about to
\* edit what it looked up.
LEMMA AtWrite ==
  ASSUME CoreInv, [Next]_vars, ~Reboot, NEW c \in Caller, call'[c] # call[c]
  PROVE  /\ call'[c].pc = "insert" => RegisterPublish(c)
         /\ call'[c].pc = "upsert" => UpdateApply(c) \/ UpdateStoredGet(c)
         /\ call'[c].pc \in {"apply", "sget"} =>
              /\ call'[c].op = "label" => "label" \in Ops
              /\ call'[c].o = sessions[call'[c].id]
              /\ call'[c].pc = "sget" => call'[c].o = None
              /\ UNCHANGED <<sessions, obj>>
         /\ call'[c].op \in {call[c].op, "none"} \/ call'[c].op # "label" \/ "label" \in Ops
  <1>0. CallBegin(c) \/ CallStep(c)
    BY OwnStep
  <1>3. /\ GoTo(c, "publish") => call'[c].op = call[c].op /\ call'[c].pc = "publish"
        /\ Leave(c) => call'[c] = Idle \/ (call'[c].op = call[c].op /\ call'[c].pc = "release")
    BY GoToEffect, LeaveEffect DEF CoreInv, Phases
  <1>1. CASE CallBegin(c)
    <2>1. PICK r \in CallRec :
            /\ Begun(c, r) /\ r.id \in Id
            /\ \/ r.pc \in {"register", "spawn", "stored", "terminate"} /\ r.op # "label"
               \/ /\ UpdateLabel(c, r.id) \/ ClaimEnvEdit(c, r.id)
                  /\ r.op = "label" => UpdateLabel(c, r.id)
                  /\ r.pc \in {"apply", "sget"}
                  /\ r.o = sessions[r.id]
      BY <1>1, CallBeginEffect
    <2>2. call'[c] = r /\ call[c] = Idle
      BY <2>1 DEF Begun
    <2>3. ASSUME UpdateLabel(c, r.id) \/ ClaimEnvEdit(c, r.id)
          PROVE  /\ UNCHANGED <<sessions, obj>>
                 /\ UpdateLabel(c, r.id) => "label" \in Ops
                 /\ call'[c].pc = "sget" => sessions[r.id] = None
      <3>1. PICK op \in {"label", "env"} : Lookup(c, op, r.id)
        BY <2>3 DEF UpdateLabel, ClaimEnvEdit
      <3>2. call'[c].pc = IF sessions[r.id] = None THEN "sget" ELSE "apply"
        BY <3>1 DEF Lookup, CoreInv, TypeOK
      <3>. QED BY <2>3, <3>2 DEF UpdateLabel, ClaimEnvEdit, Request, Begin
    <2>. QED BY <2>1, <2>2, <2>3
  <1>2. CASE CallStep(c)
    <2>1. CASE UpdateApply(c) \/ UpdateStoredGet(c)
      <3>1. \/ Moved(c, "upsert") \/ Moved(c, "publish") \/ Moved(c, "release") \/ Ended(c)
        BY <2>1, UpdateEffect
      <3>. QED BY <2>1, <3>1 DEF Moved, Ended, Returned, Idle
    <2>2. CASE UpdateUpsert(c)
      <3>1. GoTo(c, "publish") \/ Leave(c)
        BY <2>2 DEF UpdateUpsert
      <3>. QED BY <3>1, <1>3 DEF Idle
    <2>3. CASE RegisterRefused(c) \/ PublishSession(c)
      <3>1. Leave(c)
        BY <2>3 DEF RegisterRefused, PublishSession
      <3>. QED BY <3>1, <1>3 DEF Idle
    <2>4. CASE RegisterPublish(c)
      BY <2>4, CallStepEffect DEF Moved
    <2>5. CASE RestartSpawn(c)
      BY <2>5, SpawnEffect
    <2>6. CASE \/ RestartFails(c) \/ RegisterInsert(c) \/ RestartInfo(c) \/ ReleaseRestart(c)
               \/ DeleteStored(c) \/ DeleteTerminate(c) \/ DeleteWait(c) \/ DeleteRow(c)
               \/ DeleteGone(c)
      <3>1. Returned(c) \/ \E pc \in {"release", "publish", "reinfo", "wait", "row", "gone"} :
              Moved(c, pc)
        BY <2>6, CallStepEffect
      <3>. QED BY <3>1 DEF Moved, Returned, Idle
    <2>. QED BY <1>2, <2>1, <2>2, <2>3, <2>4, <2>5, <2>6 DEF CallStep
  <1>. QED BY <1>0, <1>1, <1>2

\* An edit of the environment changes a stopped object and carries its new
\* environment on to the row, or does nothing.
LEMMA EnvApply ==
  ASSUME CoreInv, NEW c \in Caller, UpdateApply(c), call[c].op = "env"
  PROVE  /\ call[c].pc = "apply" /\ call[c].o \in Obj
         /\ \A x \in Obj \ {call[c].o} : obj'[x] = obj[x]
         /\ \/ obj' = obj /\ Moved(c, "release")
            \/ /\ obj[call[c].o].status = "stopped"
               /\ obj'[call[c].o].status = obj[call[c].o].status
               /\ Moved(c, "upsert") /\ call'[c].info.env = obj'[call[c].o].env
  <1>0. TypeOK /\ call[c].pc = "apply" /\ call[c].o \in Obj /\ InfoOf(call[c].o) \in Info
    BY CallFacts DEF CoreInv, UpdateApply, At
  <1>1. CASE GoTo(c, "release") /\ UNCHANGED obj
    BY <1>0, <1>1, GoToEffect DEF Moved, Phases
  <1>2. ASSUME NEW e \in Env, obj' = [obj EXCEPT ![call[c].o].env = e],
               EnvEditable(obj[call[c].o].status),
               GoWith(c, "upsert", [InfoOf(call[c].o) EXCEPT !.env = e])
        PROVE  /\ \A x \in Obj \ {call[c].o} : obj'[x] = obj[x]
               /\ obj[call[c].o].status = "stopped"
               /\ obj'[call[c].o].status = obj[call[c].o].status
               /\ Moved(c, "upsert") /\ call'[c].info.env = obj'[call[c].o].env
    <2>1. /\ [InfoOf(call[c].o) EXCEPT !.env = e] \in Info
          /\ [InfoOf(call[c].o) EXCEPT !.env = e].env = e
      BY <1>0 DEF Info
    <2>2. Moved(c, "upsert") /\ call'[c].info.env = e
      <3>1. PICK info \in Info : GoWith(c, "upsert", info) /\ info.env = e
        BY <1>2, <2>1
      <3>. QED BY <1>0, <3>1, GoWithEffect DEF Moved, Phases
    <2>3. /\ obj'[call[c].o].env = e /\ obj'[call[c].o].status = obj[call[c].o].status
          /\ \A x \in Obj \ {call[c].o} : obj'[x] = obj[x]
      BY <1>0, <1>2 DEF TypeOK, ObjRec
    <2>. QED BY <1>2, <2>2, <2>3 DEF EnvEditable
  <1>. QED BY <1>0, <1>1, <1>2 DEF UpdateApply

\* A session object that runs keeps its environment, and stops by its read loop;
\* one that has stopped gets another only by an edit, which goes on to its row.
LEMMA EnvChange ==
  ASSUME CoreInv, [Next]_vars, ~Reboot, NEW o \in Obj, Live(o)
  PROVE  /\ obj'[o].status = obj[o].status \/ obj[o].loop = "reading"
         /\ \/ obj'[o].env = obj[o].env
            \/ /\ obj[o].status = "stopped"
               /\ \E c \in Caller : /\ call[c].o = o /\ call[c].op = "env"
                                    /\ UpdateApply(c) /\ Moved(c, "upsert")
                                    /\ call'[c].info.env = obj'[o].env
  <1> DEFINE Good ==
              /\ obj'[o].status = obj[o].status \/ obj[o].loop = "reading"
              /\ \/ obj'[o].env = obj[o].env
                 \/ /\ obj[o].status = "stopped"
                    /\ \E c \in Caller : /\ call[c].o = o /\ call[c].op = "env"
                                         /\ UpdateApply(c) /\ Moved(c, "upsert")
                                         /\ call'[c].info.env = obj'[o].env
  <1>0. TypeOK /\ obj[o] # Unused /\ obj[o] \in ObjRec
    BY RefsToLive DEF CoreInv, TypeOK
  <1>1. CASE UNCHANGED obj
    BY <1>1
  <1>2. ASSUME NEW c \in Caller, Create(c) \/ RestartSpawn(c) PROVE Good
    <2>1. \E x \in Obj \ {o} : obj'[o] = obj[o]
      BY <1>0, <1>2 DEF Create, RestartSpawn, TypeOK
    <2>. QED BY <2>1
  <1>3. ASSUME NEW x \in Obj, NEW p \in {"dead", "held"}, SetProc(x, p) PROVE Good
    BY <1>0, <1>3, SetProcEffect
  <1>4. CASE ShutdownTerminate
    <2>1. sd.cur \in Obj
      BY <1>4 DEF ShutdownTerminate, CoreInv, ShutdownShape, TypeOK, SdRec
    <2>2. PICK p \in Kill(sd.cur) : SetProc(sd.cur, p)
      BY <1>4 DEF ShutdownTerminate
    <2>3. p \in {"none", "alive", "held", "dead"}
      BY <1>0, <2>1, <2>2 DEF Kill, TypeOK, ObjRec
    <2>. QED BY <1>0, <2>1, <2>2, <2>3, SetProcEffect
  <1>5. ASSUME NEW c \in Caller, RegisterRefused(c) \/ DeleteTerminate(c) PROVE Good
    <2>1. call[c].o \in Obj
      BY <1>5, CallFacts DEF RegisterRefused, DeleteTerminate, At
    <2>2. PICK p :
            \/ obj' = [obj EXCEPT ![call[c].o] =
                         [obj[call[c].o] EXCEPT !.proc = "dead", !.loop = "done"]]
            \/ obj' = [obj EXCEPT ![call[c].o] =
                         [obj[call[c].o] EXCEPT !.proc = p, !.discarded = TRUE]]
      BY <1>5 DEF RegisterRefused, DeleteTerminate
    <2>3. CASE call[c].o # o
      BY <1>0, <2>1, <2>2, <2>3 DEF TypeOK
    <2>4. CASE call[c].o = o
      <3>1. \/ obj'[o] = [obj[o] EXCEPT !.proc = "dead", !.loop = "done"]
            \/ obj'[o] = [obj[o] EXCEPT !.proc = p, !.discarded = TRUE]
        BY <1>0, <2>2, <2>4 DEF TypeOK
      <3>. QED BY <1>0, <3>1 DEF ObjRec
    <2>. QED BY <2>3, <2>4
  <1>6. ASSUME NEW c \in Caller, RegisterInsert(c) PROVE Good
    <2>1. call[c].o \in Obj /\ SetLoop(call[c].o, "reading")
      BY <1>6, CallFacts DEF RegisterInsert, At
    <2>. QED BY <1>0, <2>1, SetLoopEffect
  <1>7. ASSUME NEW c \in Caller, UpdateApply(c) PROVE Good
    <2>1. CASE call[c].op = "label"
      <3>1. call[c].o \in Obj
        BY <1>7, CallFacts DEF UpdateApply, At
      <3>2. PICK l \in Label : obj' = [obj EXCEPT ![call[c].o].label = l]
        BY <1>7, <2>1 DEF UpdateApply
      <3>. QED BY <1>0, <3>1, <3>2 DEF TypeOK, ObjRec
    <2>2. CASE call[c].op = "env"
      BY <1>7, <2>2, EnvApply
    <2>. QED BY <1>7, <2>1, <2>2 DEF UpdateApply, At
  <1>8. ASSUME NEW x \in Obj, ShellExits(x) \/ HolderExits(x) PROVE Good
    BY <1>3, <1>8 DEF ShellExits, HolderExits
  <1>9. ASSUME NEW x \in Obj, LoopStep(x) PROVE Good
    <2>1. ASSUME NEW l \in {"stored", "announcing", "done"}, SetLoop(x, l) PROVE Good
      BY <1>0, <2>1, SetLoopEffect
    <2>2. CASE LoopMarkStopped(x)
      BY <1>0, <2>2 DEF LoopMarkStopped, TypeOK, ObjRec
    <2>. QED BY <1>9, <2>1, <2>2 DEF LoopStep, LoopSetStatus, LoopCheckDiscarded, LoopPublish
  <1>. QED BY <1>1, <1>2, <1>4, <1>5, <1>6, <1>7, <1>8, <1>9, ObjChange

\* The map holds what it held, or nothing, or what a register has just put there.
LEMMA MapChange ==
  ASSUME CoreInv, [Next]_vars, ~Reboot, NEW id \in Id
  PROVE  \/ sessions'[id] \in {None, sessions[id]}
         \/ \E c \in Caller : RegisterPublish(c) /\ call[c].id = id /\ sessions'[id] = call[c].o
  <1>1. ASSUME NEW c \in Caller, RegisterPublish(c)
        PROVE  sessions'[id] = IF call[c].id = id THEN call[c].o ELSE sessions[id]
    BY <1>1, PublisherIs DEF CoreInv, TypeOK
  <1>2. ASSUME NEW c \in Caller, NEW i \in Id, DeleteBegin(c, i)
        PROVE  sessions'[id] \in {None, sessions[id]}
    BY <1>2 DEF DeleteBegin, CoreInv, TypeOK
  <1>. QED BY <1>1, <1>2, SessionsChange DEF ShutdownBegin

\* A row keeps its environment, or goes, or is the one a call has written.
LEMMA RowChange ==
  ASSUME CoreInv, [Next]_vars, ~Reboot, NEW id \in Id
  PROVE  \/ store'[id] = None
         \/ store[id] # None /\ store'[id].env = store[id].env
         \/ \E c \in Caller : /\ RegisterInsert(c) \/ UpdateUpsert(c)
                              /\ call[c].id = id /\ store'[id] = call[c].info
  <1>0. store \in [Id -> Info \cup {None}]
    BY DEF CoreInv, TypeOK
  <1> DEFINE Same == store'[id] = None \/ (store[id] # None /\ store'[id].env = store[id].env)
  <1>1. CASE UNCHANGED store
    BY <1>1
  <1>2. ASSUME NEW x, StoreWrite(WithStatus(x, "stopped")) PROVE Same
    <2>1. ASSUME store[x] # None, store' = [store EXCEPT ![x].status = "stopped"] PROVE Same
      <3>1. CASE x = id
        <4>1. store[id] \in Info /\ store'[id] = [store[id] EXCEPT !.status = "stopped"]
          BY <1>0, <2>1, <3>1
        <4>2. store'[id].env = store[id].env
          BY <4>1 DEF Info
        <4>. QED BY <2>1, <3>1, <4>2
      <3>2. CASE x # id
        BY <1>0, <2>1, <3>2
      <3>. QED BY <3>1, <3>2
    <2>. QED BY <1>1, <1>2, <2>1 DEF StoreWrite, WithStatus
  <1>3. ASSUME NEW c \in Caller, DeleteStored(c) \/ DeleteRow(c) PROVE Same
    <2>1. UNCHANGED store \/ store' = [store EXCEPT ![call[c].id] = None]
      BY <1>3 DEF DeleteStored, DeleteRow, StoreWrite, StoreFails
    <2>. QED BY <1>0, <1>1, <2>1
  <1>4. ASSUME NEW c \in Caller, RegisterInsert(c) \/ UpdateUpsert(c)
        PROVE  Same \/ (call[c].id = id /\ store'[id] = call[c].info)
    <2>1. UNCHANGED store \/ store' = [store EXCEPT ![call[c].id] = call[c].info]
      BY <1>4 DEF RegisterInsert, UpdateUpsert, StoreWrite, StoreFails
    <2>. QED BY <1>0, <1>1, <2>1
  <1>. QED BY <1>1, <1>2, <1>3, <1>4, StoreChange DEF ShutdownTerminate, LoopSetStatus

\* Without a failed write, none has failed before and every row is written.
LEMMA NoFault ==
  ASSUME CoreInv, [Next]_vars, ~Reboot, faults' = 0
  PROVE  /\ faults = 0
         /\ \A c \in Caller : RegisterInsert(c) \/ UpdateUpsert(c) =>
              store' = [store EXCEPT ![call[c].id] = call[c].info]
  <1>0. faults \in Nat
    BY BoundsAssumption DEF CoreInv, TypeOK
  <1>1. faults + 1 # 0 /\ (faults' = faults \/ faults' = faults + 1)
    BY <1>0, StoreChange DEF ShutdownTerminate, LoopSetStatus, RegisterInsert, UpdateUpsert,
       DeleteStored, DeleteRow, StoreWrite, StoreFails
  <1>. QED BY <1>1 DEF RegisterInsert, UpdateUpsert, StoreWrite, StoreFails

\* The object that waits for register still runs: its read loop has not begun.
LEMMA RegisteringNext ==
  ASSUME Inv, Inv', [Next]_vars, ~Reboot, NEW c \in Caller, Registering(c)
  PROVE  Registering(c)'
  <1> SUFFICES ASSUME call'[c].pc = "register" PROVE obj'[call'[c].o].status = "running"
    BY DEF Registering
  <1>0. CoreInv
    BY DEF Inv
  <1>1. CASE call'[c] = call[c]
    <2>1. call[c].o \in Obj /\ Live(call[c].o)
      BY <1>0, <1>1, CallFacts
    <2>2. obj[call[c].o].loop = "none" /\ obj[call[c].o].status = "running"
      BY <1>1 DEF Registering, Inv, Unregistered
    <2>. QED BY <1>0, <1>1, <2>1, <2>2, EnvChange
  <1>2. CASE call'[c] # call[c]
    BY <1>0, <1>2, AtRegister DEF Born, Started
  <1>. QED BY <1>1, <1>2

\* Nobody registers a session while a restart or an edit of it is in flight.
LEMMA NoRegister ==
  ASSUME Inv, NEW c \in Caller, call[c].pc # "idle", call[c].op \in Reserving,
         NEW d \in Caller, d # c, RegisterPublish(d)
  PROVE  call[d].id # call[c].id
  <1>1. call[d].pc = "register" /\ call[d].op \in {"create", "restart"}
    BY PublisherIs DEF Inv
  <1>. QED BY <1>1 DEF Inv, CoreInv, ReservationExclusive, FreshId, Reserving

\* Nothing happens to an object between register's publication and its insert.
LEMMA InsertingNext ==
  ASSUME Inv, EnvInv, [Next]_vars, ~Reboot, NEW c \in Caller
  PROVE  Inserting(c)'
  <1> SUFFICES ASSUME call'[c].pc = "insert"
               PROVE  /\ call'[c].info.env = obj'[call'[c].o].env
                      /\ obj'[call'[c].o].loop = "none"
                      /\ obj'[call'[c].o].status = "running"
                      /\ sessions'[call'[c].id] \in {None, call'[c].o}
                      /\ \A d \in Caller : d # c =>
                           ~(call'[d].pc = "insert" /\ call'[d].o = call'[c].o)
    BY DEF Inserting
  <1>0. CoreInv /\ Unregistered /\ FreshId
    BY DEF Inv
  <1>1. CASE call'[c] = call[c]
    <2>0. PICK o \in Obj, id \in Id :
            /\ o = call[c].o /\ id = call[c].id /\ call[c].pc = "insert"
            /\ Live(o) /\ obj[o].id = id
      BY <1>0, <1>1, CallFacts
    <2>1. /\ call[c].info.env = obj[o].env
          /\ obj[o].loop = "none" /\ obj[o].status = "running"
          /\ sessions[id] \in {None, o}
          /\ \A d \in Caller : d # c => ~(call[d].pc = "insert" /\ call[d].o = o)
      BY <2>0 DEF EnvInv, Inserting
    <2>2. obj'[o].status = "running" /\ obj'[o].env = obj[o].env
      BY <1>0, <2>0, <2>1, EnvChange
    <2>3. obj'[o].loop = "none"
      <3>1. ~LoopStep(o)
        BY <2>1 DEF LoopStep, LoopMarkStopped, LoopSetStatus, LoopCheckDiscarded, LoopPublish
      <3>2. ASSUME NEW d \in Caller, call[d].o = o, RegisterInsert(d) PROVE FALSE
        <4>1. call[d].pc = "insert" /\ call'[d].pc # "insert"
          BY <1>0, <3>2, CallStepEffect DEF RegisterInsert, At, Moved
        <4>. QED BY <1>1, <2>0, <2>1, <3>2, <4>1
      <3>3. ASSUME NEW d \in Caller, call[d].o = o, RegisterRefused(d) PROVE FALSE
        BY <1>0, <2>0, <3>3 DEF RegisterRefused, At, Unregistered
      <3>. QED BY <1>0, <2>0, <2>1, <3>1, <3>2, <3>3, LiveKept DEF Aged
    <2>4. sessions'[id] \in {None, o}
      <3>1. ASSUME NEW d \in Caller, RegisterPublish(d), call[d].id = id PROVE FALSE
        <4>1. d # c /\ call[d].pc = "register"
          BY <1>0, <2>0, <3>1, PublisherIs
        <4>2. CASE call[c].op \in Reserving
          BY <2>0, <3>1, <4>1, <4>2, NoRegister
        <4>3. CASE call[c].op = "create"
          BY <2>0, <3>1, <4>1, <4>3 DEF EnvInv, FirstRow
        <4>. QED BY <1>0, <2>0, <4>2, <4>3, CallFacts DEF PcsOf, Reserving
      <3>. QED BY <1>0, <2>1, <3>1, MapChange
    <2>5. ASSUME NEW d \in Caller, d # c, call'[d].pc = "insert", call'[d].o = o PROVE FALSE
      <3>1. RegisterPublish(d)
        BY <1>0, <2>1, <2>5, AtWrite
      <3>2. call[d].pc = "register" /\ call[d].o = o
        BY <1>0, <2>5, <3>1, PublisherIs DEF Moved
      <3>. QED BY <1>0, <2>0, <2>5, <3>2 DEF Unregistered
    <2>. QED BY <1>1, <2>0, <2>1, <2>2, <2>3, <2>4, <2>5
  <1>2. CASE call'[c] # call[c]
    <2>1. RegisterPublish(c)
      BY <1>0, <1>2, AtWrite
    <2>2. /\ call[c].pc = "register" /\ obj' = obj /\ Moved(c, "insert")
          /\ call[c].id \in Id /\ call[c].o \in Obj
          /\ sessions' = [sessions EXCEPT ![call[c].id] = call[c].o]
      BY <1>0, <2>1, PublisherIs
    <2>3. call'[c].info = InfoOf(call[c].o)
      <3>1. InfoOf(call[c].o) \in Info /\ GoWith(c, "insert", InfoOf(call[c].o))
        BY <1>0, <2>1, <2>2, CallFacts DEF RegisterPublish
      <3>. QED BY <1>0, <3>1, GoWithEffect DEF CoreInv, Phases
    <2>4. obj[call[c].o].loop = "none" /\ obj[call[c].o].status = "running"
      BY <1>0, <2>2 DEF Unregistered, EnvInv, Registering
    <2>5. sessions'[call[c].id] = call[c].o
      BY <1>0, <2>2 DEF CoreInv, TypeOK
    <2>6. \A d \in Caller : d # c => ~(call'[d].pc = "insert" /\ call'[d].o = call[c].o)
      BY <1>0, <2>2 DEF Moved, Unregistered
    <2>. QED BY <2>2, <2>3, <2>4, <2>5, <2>6 DEF Moved, InfoOf
  <1>. QED BY <1>1, <1>2

\* Where a create has still to insert, no restart finds anything to restart.
LEMMA NothingToRestart ==
  ASSUME Inv, EnvInv, NEW c \in Caller, call[c].op = "create", call[c].pc = "insert"
  PROVE  Restartable(call[c].id) = None
  <1>1. /\ store[call[c].id] = None /\ sessions[call[c].id] \in {None, call[c].o}
        /\ obj[call[c].o].status = "running"
    BY DEF EnvInv, FirstRow, Inserting
  <1>2. sessions[call[c].id] # None => InfoOf(sessions[call[c].id]).status = "running"
    BY <1>1 DEF InfoOf
  <1>. QED BY <1>1, <1>2 DEF Restartable

\* Until the first insert nobody else gets to write a row.
LEMMA FirstRowNext ==
  ASSUME Inv, EnvInv, [Next]_vars, ~Reboot, NEW c \in Caller
  PROVE  FirstRow(c)'
  <1> SUFFICES ASSUME call'[c].op = "create", call'[c].pc = "insert"
               PROVE  /\ store'[call'[c].id] = None
                      /\ \A o \in Obj : obj'[o].id = call'[c].id => o = call'[c].o
                      /\ \A d \in Caller : d # c /\ call'[d].id = call'[c].id =>
                           call'[d].pc \notin {"register", "insert", "upsert"}
    BY DEF FirstRow
  <1>0. CoreInv /\ Unregistered /\ FreshId
    BY DEF Inv
  <1>1. CASE call'[c] = call[c]
    <2>0. PICK o \in Obj, id \in Id :
            /\ o = call[c].o /\ id = call[c].id
            /\ call[c].op = "create" /\ call[c].pc = "insert"
            /\ Live(o) /\ obj[o].id = id /\ obj[o].status = "running"
      BY <1>0, <1>1, CallFacts DEF EnvInv, Inserting
    <2>1. /\ store[id] = None
          /\ \A x \in Obj : obj[x].id = id => x = o
          /\ \A d \in Caller : d # c /\ call[d].id = id =>
               call[d].pc \notin {"register", "insert", "upsert"}
      BY <2>0 DEF EnvInv, FirstRow
    <2>2. ASSUME NEW d \in Caller, RestartSpawn(d) PROVE call[d].id # id
      BY <1>0, <2>0, <2>2, SpawnEffect, NothingToRestart
    <2>3. store'[id] = None
      <3>1. ASSUME NEW d \in Caller, RegisterInsert(d) \/ UpdateUpsert(d), call[d].id = id
            PROVE  FALSE
        <4>1. call[d].pc \in {"insert", "upsert"}
          BY <3>1 DEF RegisterInsert, UpdateUpsert, At
        <4>2. d = c
          BY <2>1, <3>1, <4>1
        <4>3. RegisterInsert(c)
          BY <2>0, <3>1, <4>2 DEF UpdateUpsert, At
        <4>. QED BY <1>0, <1>1, <2>0, <4>3, CallStepEffect DEF Moved
      <3>. QED BY <1>0, <2>1, <3>1, RowChange
    <2>4. ASSUME NEW x \in Obj, obj'[x].id = id PROVE x = o
      <3>1. CASE Aged(x)
        BY <2>1, <2>4, <3>1 DEF Aged
      <3>2. CASE Born(x)
        <4>1. PICK d \in Caller : SpawnedBy(d, x)
          BY <3>2 DEF Born
        <4>2. /\ call[d].op = "restart" /\ call[d].pc = "spawn" /\ call[d].id = id
              /\ call'[d].pc = "register"
          BY <2>0, <2>4, <4>1 DEF SpawnedBy
        <4>3. call'[d].id = id
          BY <2>4, <4>1 DEF SpawnedBy
        <4>4. RestartSpawn(d)
          BY <1>0, <2>0, <4>2, <4>3, AtRegister
        <4>. QED BY <2>2, <4>2, <4>4
      <3>. QED BY <1>0, <3>1, <3>2, ObjNext
    <2>5. ASSUME NEW d \in Caller, d # c, call'[d].id = id,
                 call'[d].pc \in {"register", "insert", "upsert"}
          PROVE  FALSE
      <3>0. call'[d] # call[d]
        BY <2>1, <2>5
      <3>1. CASE call'[d].pc = "register"
        BY <1>0, <2>0, <2>2, <2>5, <3>0, <3>1, AtRegister, SpawnEffect
      <3>2. CASE call'[d].pc = "insert"
        <4>1. RegisterPublish(d)
          BY <1>0, <3>0, <3>2, AtWrite
        <4>. QED BY <1>0, <2>1, <2>5, <4>1, PublisherIs DEF Moved
      <3>3. CASE call'[d].pc = "upsert"
        <4>1. UpdateApply(d) \/ UpdateStoredGet(d)
          BY <1>0, <3>0, <3>3, AtWrite
        <4>2. Moved(d, "upsert")
          BY <1>0, <3>3, <4>1, UpdateEffect DEF Moved, Ended, Returned, Idle
        <4>3. call[d].op = "env" /\ call[d].id = id
          BY <2>5, <4>1, <4>2 DEF Moved, UpdateApply, UpdateStoredGet, At, EnvInv, NoLabel
        <4>4. CASE UpdateApply(d)
          <5>1. call[d].pc = "apply" /\ obj[call[d].o].status = "stopped" /\ call[d].o \in Obj
            BY <1>0, <3>3, <4>3, <4>4, EnvApply DEF Moved
          <5>2. obj[call[d].o].id = id
            BY <1>0, <4>3, <5>1, CallFacts
          <5>. QED BY <2>0, <2>1, <5>1, <5>2
        <4>5. CASE UpdateStoredGet(d)
          <5>1. Leave(d)
            BY <2>1, <4>3, <4>5 DEF UpdateStoredGet
          <5>. QED BY <1>0, <3>3, <5>1, LeaveEffect DEF Idle, CoreInv
        <4>. QED BY <4>1, <4>4, <4>5
      <3>. QED BY <2>5, <3>1, <3>2, <3>3
    <2>. QED BY <1>1, <2>0, <2>3, <2>4, <2>5
  <1>2. CASE call'[c] # call[c]
    <2>1. RegisterPublish(c)
      BY <1>0, <1>2, AtWrite
    <2>2. /\ call[c].pc = "register" /\ obj' = obj /\ Moved(c, "insert") /\ store' = store
      BY <1>0, <2>1, PublisherIs DEF RegisterPublish
    <2>. QED BY <1>0, <2>2 DEF Moved, FreshId, Known
  <1>. QED BY <1>1, <1>2

\* An edit of the environment keeps its hold of the object in the map.
LEMMA EditingNext ==
  ASSUME Inv, EnvInv, [Next]_vars, ~Reboot, NEW c \in Caller
  PROVE  Editing(c)'
  <1> SUFFICES ASSUME call'[c].op = "env", call'[c].pc \in {"apply", "sget", "upsert"}
               PROVE  /\ sessions'[call'[c].id] \in {None, call'[c].o}
                      /\ call'[c].pc = "sget" => call'[c].o = None
                      /\ call'[c].pc = "upsert" /\ sessions'[call'[c].id] # None =>
                           call'[c].info.env = obj'[call'[c].o].env
    BY DEF Editing
  <1>0. CoreInv
    BY DEF Inv
  <1>1. ASSUME call[c].op = "env", call[c].pc # "idle"
        PROVE  sessions'[call[c].id] \in {None, sessions[call[c].id]}
    <2>1. ASSUME NEW d \in Caller, RegisterPublish(d), call[d].id = call[c].id PROVE FALSE
      <3>1. d # c
        BY <1>0, <1>1, <2>1, PublisherIs
      <3>. QED BY <1>1, <2>1, <3>1, NoRegister DEF Reserving
    <2>. QED BY <1>0, <1>1, <2>1, CallFacts, MapChange
  <1>2. CASE call'[c] = call[c]
    <2>1. /\ sessions[call[c].id] \in {None, call[c].o}
          /\ call[c].pc = "sget" => call[c].o = None
          /\ call[c].pc = "upsert" /\ sessions[call[c].id] # None =>
               call[c].info.env = obj[call[c].o].env
      BY <1>2 DEF EnvInv, Editing
    <2>2. sessions'[call[c].id] \in {None, sessions[call[c].id]}
      BY <1>1, <1>2
    <2>3. ASSUME call[c].pc = "upsert", call[c].o # None
          PROVE  obj'[call[c].o].env = obj[call[c].o].env
      <3>1. call[c].o \in Obj /\ Live(call[c].o) /\ obj[call[c].o].id = call[c].id
        BY <1>0, <2>3 DEF CoreInv, RefsLive
      <3>2. ASSUME NEW d \in Caller, call[d].o = call[c].o, call[d].op = "env",
                   UpdateApply(d)
            PROVE  FALSE
        <4>1. call[d].pc = "apply" /\ obj[call[d].o].id = call[d].id
          BY <1>0, <3>2, EnvApply, CallFacts
        <4>2. d = c
          BY <1>0, <1>2, <3>1, <3>2, <4>1 DEF CoreInv, ReservationExclusive, Reserving
        <4>. QED BY <2>3, <4>1, <4>2
      <3>. QED BY <1>0, <3>1, <3>2, EnvChange
    <2>. QED BY <1>2, <2>1, <2>2, <2>3
  <1>3. CASE call'[c] # call[c] /\ call'[c].pc \in {"apply", "sget"}
    BY <1>0, <1>3, AtWrite
  <1>4. CASE call'[c] # call[c] /\ call'[c].pc = "upsert"
    <2>1. UpdateApply(c) \/ UpdateStoredGet(c)
      BY <1>0, <1>4, AtWrite
    <2>2. Moved(c, "upsert")
      BY <1>0, <1>4, <2>1, UpdateEffect DEF Moved, Ended, Returned, Idle
    <2>3. /\ call[c].op = "env" /\ call[c].pc \in {"apply", "sget"}
          /\ UpdateStoredGet(c) => call[c].pc = "sget"
      BY <2>1, <2>2 DEF Moved, UpdateApply, UpdateStoredGet, At
    <2>4. /\ sessions[call[c].id] \in {None, call[c].o}
          /\ UpdateStoredGet(c) => call[c].o = None
      BY <2>3 DEF EnvInv, Editing
    <2>5. sessions'[call[c].id] \in {None, sessions[call[c].id]}
      BY <1>1, <2>3
    <2>6. UpdateApply(c) => call'[c].info.env = obj'[call[c].o].env
      BY <1>0, <1>4, <2>3, EnvApply DEF Moved
    <2>. QED BY <1>4, <2>1, <2>2, <2>4, <2>5, <2>6 DEF Moved
  <1>. QED BY <1>2, <1>3, <1>4

\* Every write brings the row up to its object, and every change of the object
\* is on its way to the row.
LEMMA StoredNext ==
  ASSUME Inv, EnvInv, [Next]_vars, ~Reboot
  PROVE  Stored'
  <1>0. CoreInv
    BY DEF Inv
  <1> SUFFICES ASSUME faults' = 0, NEW id \in Id, sessions'[id] # None, store'[id] # None,
                      \A c \in Caller :
                        ~(call'[c].id = id /\ call'[c].pc \in {"insert", "upsert"})
               PROVE  store'[id].env = obj'[sessions'[id]].env
    BY DEF Stored, Writes
  <1>1. sessions'[id] = sessions[id]
    <2>1. ASSUME NEW c \in Caller, RegisterPublish(c), call[c].id = id PROVE FALSE
      BY <1>0, <2>1, PublisherIs DEF Moved
    <2>. QED BY <1>0, <2>1, MapChange
  <1>2. PICK o \in Obj : o = sessions[id] /\ Live(o) /\ obj[o].id = id
    BY <1>0, <1>1 DEF CoreInv, RefsLive
  <1>3. obj'[o].env = obj[o].env
    <2>1. ASSUME NEW c \in Caller, call[c].o = o, Moved(c, "upsert") PROVE FALSE
      <3>1. call[c].id = id
        BY <1>0, <1>2, <2>1, RefsToLive DEF CoreInv, RefsLive
      <3>. QED BY <2>1, <3>1 DEF Moved
    <2>. QED BY <1>0, <1>2, <2>1, EnvChange
  <1>4. ASSUME NEW c \in Caller, call[c].id = id, RegisterInsert(c) \/ UpdateUpsert(c)
        PROVE  store'[id].env = obj[o].env
    <2>1. store'[id] = call[c].info
      BY <1>0, <1>4, NoFault DEF CoreInv, TypeOK
    <2>2. CASE RegisterInsert(c)
      BY <1>1, <1>2, <1>4, <2>1, <2>2 DEF RegisterInsert, At, EnvInv, Inserting
    <2>3. CASE UpdateUpsert(c)
      <3>1. call[c].op = "env" /\ call[c].pc = "upsert"
        BY <2>3 DEF UpdateUpsert, At, EnvInv, NoLabel
      <3>. QED BY <1>1, <1>2, <1>4, <2>1, <3>1 DEF EnvInv, Editing
    <2>. QED BY <1>4, <2>2, <2>3
  <1>5. ASSUME \A c \in Caller : call[c].id = id => ~RegisterInsert(c) /\ ~UpdateUpsert(c)
        PROVE  store'[id].env = obj[o].env
    <2>1. store[id] # None /\ store'[id].env = store[id].env
      BY <1>0, <1>5, RowChange
    <2>2. ASSUME NEW c \in Caller, call[c].id = id, call[c].pc \in {"insert", "upsert"}
          PROVE  FALSE
      <3>1. CallBegin(c) \/ CallStep(c)
        BY <1>0, <2>2, OwnStep
      <3>2. ~CallBegin(c)
        BY <1>0, <2>2, CallBeginEffect DEF Begun, Idle
      <3>3. CallStep(c) => RegisterInsert(c) \/ UpdateUpsert(c)
        BY <2>2 DEF CallStep, RestartSpawn, RestartFails, RegisterRefused, RegisterPublish,
           RestartInfo, PublishSession, ReleaseRestart, UpdateApply, UpdateStoredGet,
           DeleteStored, DeleteTerminate, DeleteWait, DeleteRow, DeleteGone, At
      <3>. QED BY <1>5, <2>2, <3>1, <3>2, <3>3
    <2>3. faults = 0
      BY <1>0, NoFault
    <2>. QED BY <1>1, <1>2, <2>1, <2>2, <2>3 DEF EnvInv, Stored, Writes
  <1>. QED BY <1>1, <1>2, <1>3, <1>4, <1>5

LEMMA EnvInvInit == Init => EnvInv
  BY DEF Init, Idle, EnvInv, NoLabel, Registering, Inserting, FirstRow, Editing, Stored

LEMMA EnvInvNext ==
  ASSUME "label" \notin Ops
  PROVE  Inv /\ Inv' /\ EnvInv /\ [Next]_vars => EnvInv'
  <1> SUFFICES ASSUME Inv, Inv', EnvInv, [Next]_vars PROVE EnvInv'
    OBVIOUS
  <1>1. CASE Reboot
    <2>1. /\ \A c \in Caller : call'[c] = Idle
          /\ \A id \in Id : sessions'[id] = None
      BY <1>1 DEF Reboot
    <2>. QED BY <2>1 DEF Idle, EnvInv, NoLabel, Registering, Inserting, FirstRow, Editing, Stored
  <1>2. CASE ~Reboot
    <2>1. NoLabel'
      <3>1. ASSUME NEW c \in Caller PROVE call'[c].op # "label"
        BY <1>2, AtWrite DEF Inv, EnvInv, NoLabel
      <3>. QED BY <3>1 DEF NoLabel
    <2>2. \A c \in Caller : (Registering(c) /\ Inserting(c) /\ FirstRow(c) /\ Editing(c))'
      BY <1>2, RegisteringNext, InsertingNext, FirstRowNext, EditingNext DEF EnvInv
    <2>3. Stored'
      BY <1>2, StoredNext
    <2>. QED BY <2>1, <2>2, <2>3 DEF EnvInv
  <1>. QED BY <1>1, <1>2

\* With nothing in flight on a session and every write successful, its row
\* carries the environment of the live object, if nobody changes names: no
\* restart, delete, shutdown or other edit comes between an edit and its upsert.
THEOREM EnvIsPersisted ==
  ASSUME "label" \notin Ops
  PROVE  Spec => []EnvPersisted
  <1>1. EnvInv => EnvPersisted
    BY DEF EnvInv, Stored, Writes, EnvPersisted, Touching
  <1>2. Inv /\ Inv' /\ EnvInv /\ [Next]_vars => EnvInv'
    BY EnvInvNext
  <1>. QED BY <1>1, <1>2, EnvInvInit, Invariance, PTL DEF Spec

-----------------------------------------------------------------------------
(* SessionManager implements Lifecycle                                     *)

\* The object that waits for register runs, whatever the operations are.
RegisteringInv == \A c \in Caller : Registering(c)

LEMMA RegisteringInvNext == Inv /\ Inv' /\ RegisteringInv /\ [Next]_vars => RegisteringInv'
  <1> SUFFICES ASSUME Inv, Inv', RegisteringInv, [Next]_vars PROVE RegisteringInv'
    OBVIOUS
  <1>1. CASE Reboot
    <2>1. \A c \in Caller : call'[c] = Idle
      BY <1>1 DEF Reboot
    <2>. QED BY <2>1 DEF Idle, RegisteringInv, Registering
  <1>2. CASE ~Reboot
    <2>1. \A c \in Caller : Registering(c)'
      BY <1>2, RegisteringNext DEF RegisteringInv
    <2>. QED BY <2>1 DEF RegisteringInv
  <1>. QED BY <1>1, <1>2

\* A step of a process changes one object at most.
LEMMA OneObject ==
  ASSUME CoreInv, [Next]_vars, ~Reboot
  PROVE  \E o : \A x \in Obj \ {o} : obj'[x] = obj[x]
  <1>0. TypeOK
    BY DEF CoreInv
  <1>1. ASSUME NEW o, NEW r, obj' = [obj EXCEPT ![o] = r]
        PROVE  \E y : \A x \in Obj \ {y} : obj'[x] = obj[x]
    <2>1. \A x \in Obj \ {o} : obj'[x] = obj[x]
      BY <1>0, <1>1 DEF TypeOK
    <2>. QED BY <2>1
  <1>2. CASE UNCHANGED obj
    BY <1>2
  <1>3. CASE ShutdownTerminate
    BY <1>1, <1>3 DEF ShutdownTerminate, SetProc
  <1>4. ASSUME NEW c \in Caller,
               Create(c) \/ RestartSpawn(c) \/ RegisterRefused(c) \/ RegisterInsert(c)
               \/ UpdateApply(c) \/ DeleteTerminate(c)
        PROVE  \E y : \A x \in Obj \ {y} : obj'[x] = obj[x]
    <2>1. CASE Create(c)
      BY <1>1, <2>1 DEF Create
    <2>2. CASE RestartSpawn(c)
      BY <1>1, <2>2 DEF RestartSpawn
    <2>3. CASE RegisterRefused(c) \/ RegisterInsert(c) \/ DeleteTerminate(c)
      BY <1>1, <2>3 DEF RegisterRefused, RegisterInsert, DeleteTerminate, SetLoop
    <2>4. CASE UpdateApply(c)
      BY <1>1, <1>2, <2>4 DEF UpdateApply
    <2>. QED BY <1>4, <2>1, <2>2, <2>3, <2>4
  <1>5. ASSUME NEW o \in Obj, ShellExits(o) \/ HolderExits(o) \/ LoopStep(o)
        PROVE  \E y : \A x \in Obj \ {y} : obj'[x] = obj[x]
    BY <1>1, <1>5 DEF ShellExits, HolderExits, LoopStep, LoopMarkStopped, LoopSetStatus,
       LoopCheckDiscarded, LoopPublish, SetProc, SetLoop
  <1>. QED BY <1>2, <1>3, <1>4, <1>5, ObjChange

\* What is shown of a session is not Nothing, and the parts of what is shown.
LEMMA ShownParts ==
  ASSUME CoreInv, NEW id \in Id
  PROVE  /\ View(id) # None <=> sessions[id] # None
         /\ sessions[id] # None =>
              /\ View(id).shell = sessions[id]
              /\ View(id).running = (obj[sessions[id]].status = "running")
              /\ View(id).env = obj[sessions[id]].env
  <1>1. CASE sessions[id] # None
    <2>1. View(id) \in Shown
      BY <1>1 DEF View, Shown, CoreInv, RefsLive, Live, IsLive
    <2>. QED BY <1>1, <2>1, NoneAssumption DEF View
  <1>2. CASE sessions[id] = None
    BY <1>2 DEF View
  <1>. QED BY <1>1, <1>2

\* The object of a session stops, is edited once it has stopped, or looks as
\* before.
LEMMA ViewChange ==
  ASSUME CoreInv, CoreInv', [Next]_vars, ~Reboot, UNCHANGED sessions, NEW id \in Id
  PROVE  \/ View(id)' = View(id)
         \/ /\ View(id) # None /\ View(id).running
            /\ View(id)' = [View(id) EXCEPT !.running = FALSE]
         \/ /\ View(id) # None /\ ~View(id).running
            /\ \E e \in Env : View(id)' = [View(id) EXCEPT !.env = e]
  <1>1. CASE sessions[id] = None
    BY <1>1 DEF View
  <1>2. CASE sessions[id] # None
    <2> DEFINE o == sessions[id]
    <2>1. o \in Obj /\ Live(o) /\ Live(o)' /\ Aged(o)
      <3>1. o \in Obj /\ Live(o) /\ Live(o)'
        BY <1>2 DEF CoreInv, RefsLive, Live
      <3>2. obj[o] # Unused
        BY <3>1, RefsToLive
      <3>. QED BY <3>1, <3>2, ObjNext DEF Born, Started
    <2>2. /\ View(id) = [shell |-> o, running |-> obj[o].status = "running", env |-> obj[o].env]
          /\ View(id)' =
               [shell |-> o, running |-> obj'[o].status = "running", env |-> obj'[o].env]
      BY <1>2 DEF View
    <2>3. View(id) # None
      BY <1>2, ShownParts
    <2>4. obj[o].status \in {"running", "stopped"} /\ obj'[o].status \in {"running", "stopped"}
          /\ obj'[o].env \in Env
      BY <2>1 DEF Live, IsLive
    <2>5. obj[o].status = "stopped" => obj'[o].status = "stopped"
      BY <2>1 DEF Aged
    <2>6. obj[o].status = "running" => obj'[o].env = obj[o].env
      BY <2>1, EnvChange
    <2>7. CASE obj[o].status = "running"
      <3>1. CASE obj'[o].status = "running"
        BY <2>2, <2>6, <2>7, <3>1
      <3>2. CASE obj'[o].status = "stopped"
        <4>1. View(id) = [shell |-> o, running |-> TRUE, env |-> obj[o].env]
          <5>1. (obj[o].status = "running") = TRUE
            BY <2>7
          <5>. QED BY <2>2, <5>1
        <4>2. View(id)' = [shell |-> o, running |-> FALSE, env |-> obj[o].env]
          <5>1. (obj'[o].status = "running") = FALSE
            BY <3>2
          <5>. QED BY <2>2, <2>6, <2>7, <5>1
        <4>3. View(id)' = [View(id) EXCEPT !.running = FALSE]
          <5>1. \A off : [View(id) EXCEPT !.running = off]
                           = [shell |-> o, running |-> off, env |-> obj[o].env]
            BY <4>1
          <5>2. [View(id) EXCEPT !.running = FALSE]
                  = [shell |-> o, running |-> FALSE, env |-> obj[o].env]
            BY <5>1
          <5>. QED BY <4>2, <5>2
        <4>. QED BY <2>3, <4>1, <4>3
      <3>. QED BY <2>4, <3>1, <3>2
    <2>8. CASE obj[o].status = "stopped"
      <3>1. View(id)' = [View(id) EXCEPT !.env = obj'[o].env]
        BY <2>2, <2>5, <2>8
      <3>2. View(id).running = FALSE
        BY <1>2, <2>8, ShownParts
      <3>. QED BY <2>3, <2>4, <3>1, <3>2
    <2>. QED BY <2>4, <2>7, <2>8
  <1>. QED BY <1>1, <1>2

\* A step that leaves the map alone stops or edits one session at most.
LEMMA QuietStep ==
  ASSUME CoreInv, CoreInv', [Next]_vars, ~Reboot, UNCHANGED <<sessions, shuttingDown>>
  PROVE  [Shows!Next]_(Shows!vars)
  <1>1. PICK o : \A x \in Obj \ {o} : obj'[x] = obj[x]
    BY OneObject
  <1>2. \A id \in Id : sessions[id] # None => sessions[id] \in Obj /\ obj[sessions[id]].id = id
    BY DEF CoreInv, RefsLive
  <1>3. \A id \in Id : sessions[id] # o => View(id)' = View(id)
    BY <1>1, <1>2 DEF View
  <1>4. CASE \A id \in Id : View(id)' = View(id)
    <2>1. Views' = Views
      BY <1>4 DEF Views
    <2>. QED BY <2>1 DEF Shows!vars
  <1>5. ASSUME NEW id \in Id, View(id)' # View(id) PROVE Shows!Next
    <2>1. sessions[id] = o /\ sessions[id] # None
      BY <1>3, <1>5 DEF View
    <2>2. \A i \in Id \ {id} : View(i)' = View(i)
      BY <1>2, <1>3, <2>1
    <2>3. Views' = [Views EXCEPT ![id] = View(id)'] /\ Views[id] = View(id)
      BY <2>2 DEF Views
    <2>4. CASE View(id).running /\ View(id)' = [View(id) EXCEPT !.running = FALSE]
      <3>1. Shows!Stop(id)
        BY <2>1, <2>3, <2>4, ShownParts DEF Shows!Stop, Shows!Exists, Shows!Becomes
      <3>. QED BY <3>1 DEF Shows!Next
    <2>5. ASSUME ~View(id).running, NEW e \in Env, View(id)' = [View(id) EXCEPT !.env = e]
          PROVE  Shows!Next
      <3>1. Shows!Edit(id, e)
        BY <2>1, <2>3, <2>5, ShownParts
           DEF Shows!Edit, Shows!Stopped, Shows!Exists, Shows!Becomes
      <3>. QED BY <3>1 DEF Shows!Next
    <2>. QED BY <1>5, <2>4, <2>5, ViewChange
  <1>. QED BY <1>4, <1>5

\* register opens a session, or gives a stopped one its new shell.
LEMMA RegisterShows ==
  ASSUME Inv, Inv', RegisteringInv, [Next]_vars, NEW c \in Caller, RegisterPublish(c)
  PROVE  Shows!Next
  <1> DEFINE id == call[c].id
             o == call[c].o
  <1>0. CoreInv /\ CoreInv' /\ id \in Id /\ o \in Obj /\ o # None /\ obj' = obj
        /\ sessions' = [sessions EXCEPT ![id] = o] /\ sessions'[id] = o
    BY PublisherIs, RefsToLive, CallFacts DEF Inv, CoreInv, TypeOK
  <1>1. obj[o].status = "running" /\ obj[o].env \in Env
    BY <1>0, PublisherIs, RefsToLive, CallFacts
       DEF RegisteringInv, Registering, Live, IsLive
  <1>2. \A i \in Id : sessions[i] # o
    BY <1>0, PublisherIs DEF Inv, Unregistered
  <1>3. Shows!Free(o)
    BY <1>0, <1>2, ShownParts DEF Shows!Free, Shows!Exists, Views
  <1>4. ~shuttingDown /\ UNCHANGED shuttingDown
    BY DEF RegisterPublish, Admits
  <1>5. Views' = [Views EXCEPT ![id] = Shows!Running(o, obj[o].env)] /\ Views[id] = View(id)
    <2>1. Shows!Running(o, obj[o].env)
            = [shell |-> o, running |-> TRUE, env |-> obj[o].env]
      BY DEF Shows!Running
    <2>2. Views'[id] = [shell |-> o, running |-> TRUE, env |-> obj[o].env]
      BY <1>0, <1>1 DEF Views, View
    <2>3. \A i \in Id \ {id} : Views'[i] = Views[i]
      BY <1>0 DEF Views, View, CoreInv, TypeOK
    <2>4. Views = [i \in Id |-> Views[i]] /\ Views' = [i \in Id |-> Views'[i]]
          /\ Views[id] = View(id)
      BY <1>0 DEF Views
    <2>. QED BY <2>1, <2>2, <2>3, <2>4
  <1>6. CASE sessions[id] = None
    <2>1. Shows!Open(id, o, obj[o].env)
      BY <1>0, <1>3, <1>4, <1>5, <1>6, ShownParts DEF Shows!Open, Shows!Exists, Shows!Becomes
    <2>. QED BY <1>0, <1>1, <2>1 DEF Shows!Next
  <1>7. CASE sessions[id] # None
    <2>1. Replaced(id)
      BY <1>0, <1>2, <1>7 DEF Replaced
    <2>2. obj[sessions[id]].status = "stopped" /\ obj[o].env = obj[sessions[id]].env
      BY <1>0, <2>1, ReplacedBy
    <2>3. View(id) # None /\ ~View(id).running /\ View(id).env = obj[o].env
      BY <1>0, <1>7, <2>2, ShownParts
    <2>4. Shows!Replace(id, o)
      BY <1>3, <1>4, <1>5, <2>3 DEF Shows!Replace, Shows!Stopped, Shows!Exists, Shows!Becomes
    <2>. QED BY <1>0, <2>4 DEF Shows!Next
  <1>. QED BY <1>6, <1>7

LEMMA StepShows ==
  Inv /\ Inv' /\ RegisteringInv /\ [Next]_vars => [Shows!Next]_(Shows!vars)
  <1> SUFFICES ASSUME Inv, Inv', RegisteringInv, [Next]_vars PROVE [Shows!Next]_(Shows!vars)
    OBVIOUS
  <1>0. CoreInv /\ CoreInv'
    BY DEF Inv
  <1>1. CASE Reboot
    <2>1. Views' = [id \in Id |-> None] /\ shuttingDown' = FALSE
      BY <1>1 DEF Reboot, Views, View
    <2>. QED BY <2>1 DEF Shows!Next, Shows!StartOver, Shows!Init
  <1>2. CASE ShutdownBegin
    <2>1. Views' = [id \in Id |-> None] /\ shuttingDown' = TRUE
      BY <1>2 DEF ShutdownBegin, Views, View
    <2>. QED BY <2>1 DEF Shows!Next, Shows!CloseAll
  <1>3. ASSUME NEW c \in Caller, RegisterPublish(c) PROVE Shows!Next
    BY <1>3, RegisterShows
  <1>4. ASSUME NEW c \in Caller, NEW id \in Id, DeleteBegin(c, id)
        PROVE  [Shows!Next]_(Shows!vars)
    <2>1. sessions' = [sessions EXCEPT ![id] = None] /\ UNCHANGED <<obj, shuttingDown>>
      BY <1>4 DEF DeleteBegin
    <2>2. Views' = [Views EXCEPT ![id] = None] /\ Views[id] = View(id)
      BY <1>0, <2>1 DEF Views, View, CoreInv, TypeOK
    <2>3. CASE sessions[id] = None
      <3>1. Views' = Views
        BY <2>2, <2>3 DEF Views, View
      <3>. QED BY <2>1, <3>1 DEF Shows!vars
    <2>4. CASE sessions[id] # None
      <3>1. Shows!Close(id)
        BY <1>0, <2>1, <2>2, <2>4, ShownParts DEF Shows!Close, Shows!Exists, Shows!Becomes
      <3>. QED BY <3>1 DEF Shows!Next
    <2>. QED BY <2>3, <2>4
  <1>5. CASE UNCHANGED sessions /\ ~Reboot /\ ~ShutdownBegin
    <2>1. UNCHANGED shuttingDown
      BY <1>5, ShutdownChange DEF ShutdownStep, ShutdownNext, ShutdownTerminate, ShutdownWait
    <2>. QED BY <1>0, <1>5, <2>1, QuietStep
  <1>. QED BY <1>1, <1>2, <1>3, <1>4, <1>5, SessionsChange

\* Under any interleaving, failure and restart of the server, each session is
\* opened, stopped, edited, replaced and closed as Lifecycle says.
THEOREM SessionsFollowTheLifecycle == Spec => IsALifecycle
  <1>1. Init => Shows!Init
    BY DEF Init, Shows!Init, Views, View
  <1>2. Init => RegisteringInv
    BY DEF Init, Idle, RegisteringInv, Registering
  <1>. QED BY <1>1, <1>2, RegisteringInvNext, StepShows, Invariance, PTL
           DEF Spec, IsALifecycle, Shows!Spec

=============================================================================
