---------------------------- MODULE SessionStream ----------------------------
(***************************************************************************)
(* One session and the browsers that watch it: session.Session's client    *)
(* set and ring buffer (attach, broadcast, markStopped, takeClients,       *)
(* closeClients), Manager.Attach / Detach / Restart / Delete as far as     *)
(* they move clients, and ws.Client with its bounded queue and write pump. *)
(*                                                                         *)
(* The output of the session is a run of numbered chunks.  Bytes in a      *)
(* buffer, in a file or in a frame are an interval of it, so a gap or a    *)
(* repetition in what a browser is shown is a gap or an overlap between    *)
(* two intervals.  A restart is a new life of the session.                 *)
(***************************************************************************)
EXTENDS Naturals, Sequences

CONSTANTS
  Client,     \* WebSocket connections, each with its handler and write pump
  MaxLife,    \* bound: shells the session has, the first included
  MaxChunk,   \* bound: chunks of output and separators
  BufSize,    \* chunks the ring buffer retains
  QueueSize   \* frames a client's send channel holds

ASSUME SizesAssumption ==
  /\ MaxLife \in Nat \ {0} /\ MaxChunk \in Nat
  /\ BufSize \in Nat \ {0} /\ QueueSize \in Nat \ {0}

VARIABLES
  cur,      \* the life the manager's map holds, 0 once the session is deleted
  status,   \* Session.Status of each life
  buf,      \* Session.buffer of each life
  file,     \* the scrollback snapshot on disk
  clients,  \* Session.clients of each life
  restart,  \* the progress of Manager.Restart and the clients it has in hand
  doomed,   \* the life a Delete has taken out of the map, until closeClients
  shut,     \* the lives whose terminal the read loop has closed
  handler,  \* where each connection's handler is, and the life it has looked up
  queue,    \* Client.send
  seen,     \* the last frame written to each connection
  done,     \* Client.done is closed
  closing,  \* goroutines about to call Client.Close
  pump,     \* the write pump
  owed,     \* frames queued when done was closed and not yet written
  refused   \* a frame for this client was dropped and the client kept

vars == <<cur, status, buf, file, clients, restart, doomed, shut, handler, queue, seen,
          done, closing, pump, owed, refused>>

session == <<cur, status, buf, file, clients, restart, doomed, shut>>
conn == <<queue, seen, done, closing, pump, owed, refused>>

-----------------------------------------------------------------------------
(* Data                                                                    *)

Life == 1..MaxLife
Chunk == 0..MaxChunk

\* An interval of the output; empty when it starts after its end.
Run == [from: 1..MaxChunk + 1, to: Chunk]
NoRun == [from |-> 1, to |-> 0]
IsEmpty(r) == r.from > r.to

Attached(l) == [kind |-> "attached", life |-> l, run |-> NoRun]
Bytes(l, r) == [kind |-> "bytes", life |-> l, run |-> r]
Exit(l) == [kind |-> "exit", life |-> l, run |-> NoRun]
Nothing == [kind |-> "nothing", life |-> 0, run |-> NoRun]
Frame == [kind: {"nothing", "attached", "bytes", "exit"}, life: 0..MaxLife, run: Run]

\* RingBuffer.Write of the next chunk: the oldest go when there are too many.
Written(r) ==
  LET to == r.to + 1
      from == IF IsEmpty(r) THEN to ELSE r.from
  IN  [from |-> IF to - from >= BufSize THEN from + 1 ELSE from, to |-> to]

TypeOK ==
  /\ cur \in 0..MaxLife
  /\ status \in [Life -> {"unborn", "running", "stopped"}]
  /\ buf \in [Life -> Run]
  /\ file \in Run
  /\ clients \in [Life -> SUBSET Client]
  /\ restart \in [pc: {"no", "take", "move"}, hand: SUBSET Client]
  /\ doomed \in 0..MaxLife
  /\ shut \subseteq Life
  /\ handler \in [Client -> [pc: {"new", "check", "attach", "reading", "writing",
                                  "detach", "closing", "gone"}, life: 0..MaxLife]]
  /\ \A c \in Client : queue[c] \in Seq(Frame) /\ Len(queue[c]) <= QueueSize
  /\ seen \in [Client -> Frame]
  /\ done \in [Client -> BOOLEAN]
  /\ closing \in [Client -> BOOLEAN]
  /\ pump \in [Client -> {"running", "flushing", "closed", "failed"}]
  /\ owed \in [Client -> 0..QueueSize]
  /\ refused \in [Client -> BOOLEAN]

\* The session has been created and nobody watches it yet.
Init ==
  /\ cur = 1
  /\ status = [l \in Life |-> IF l = 1 THEN "running" ELSE "unborn"]
  /\ buf = [l \in Life |-> NoRun]
  /\ file = NoRun
  /\ clients = [l \in Life |-> {}]
  /\ restart = [pc |-> "no", hand |-> {}]
  /\ doomed = 0
  /\ shut = {}
  /\ handler = [c \in Client |-> [pc |-> "new", life |-> 0]]
  /\ queue = [c \in Client |-> <<>>]
  /\ seen = [c \in Client |-> Nothing]
  /\ done = [c \in Client |-> FALSE]
  /\ closing = [c \in Client |-> FALSE]
  /\ pump = [c \in Client |-> "running"]
  /\ owed = [c \in Client |-> 0]
  /\ refused = [c \in Client |-> FALSE]

-----------------------------------------------------------------------------
(* ws.Client                                                               *)

RoomForOneMore(c) == Len(queue[c]) <= QueueSize   \* variant: off by one

Room(c) == Len(queue[c]) < QueueSize

\* The clients of S that take a frame: every open one with room.  A closed one
\* with room may too, for the select of Send picks at random among its ready
\* cases.
Takers(S) ==
  {T \in SUBSET {c \in S : Room(c)} : {c \in S : Room(c) /\ ~done[c]} \subseteq T}

Enqueue(T, f) ==
  queue' = [c \in Client |-> IF c \in T THEN Append(queue[c], f) ELSE queue[c]]

\* Client.Close, at most once.
CloseNow(c) ==
  /\ done' = [done EXCEPT ![c] = TRUE]
  /\ owed' = [owed EXCEPT ![c] = IF done[c] THEN @ ELSE Len(queue[c])]

CloseForgotten(S) == UNCHANGED closing   \* variant: dropped, never closed

\* go c.Close(...)
CloseSoon(S) == closing' = [c \in Client |-> closing[c] \/ c \in S]

\* One of those goroutines.
CloseRuns(c) ==
  /\ closing[c]
  /\ closing' = [closing EXCEPT ![c] = FALSE]
  /\ CloseNow(c)
  /\ UNCHANGED <<session, handler, queue, seen, pump, refused>>

Deliver(c) ==
  /\ queue[c] # <<>>
  /\ seen' = [seen EXCEPT ![c] = Head(queue[c])]
  /\ queue' = [queue EXCEPT ![c] = Tail(@)]
  /\ owed' = [owed EXCEPT ![c] = IF @ = 0 THEN 0 ELSE @ - 1]

PumpWrites(c) ==
  /\ pump[c] \in {"running", "flushing"}
  /\ Deliver(c)
  /\ UNCHANGED <<session, handler, done, closing, pump, refused>>

\* The pump's select finds done closed, whether or not frames are waiting.
PumpSeesDone(c) ==
  /\ pump[c] = "running" /\ done[c]
  /\ pump' = [pump EXCEPT ![c] = "flushing"]
  /\ UNCHANGED <<session, handler, queue, seen, done, closing, owed, refused>>

\* Variant: the close frame goes out without the flush.
FlushedAtOnce(c) == TRUE

\* flush stops at the first empty read; the close frame follows.
Flushed(c) == queue[c] = <<>>

PumpCloses(c) ==
  /\ pump[c] = "flushing" /\ Flushed(c)
  /\ pump' = [pump EXCEPT ![c] = "closed"]
  /\ UNCHANGED <<session, handler, queue, seen, done, closing, owed, refused>>

\* A write fails or runs into its deadline.
PumpFails(c) ==
  /\ pump[c] \in {"running", "flushing"}
  /\ pump' = [pump EXCEPT ![c] = "failed"]
  /\ UNCHANGED <<session, handler, queue, seen, done, closing, owed, refused>>

\* Variant: the pump leaves the connection open after its close frame.
OnlyFailureCloses(c) == pump[c] = "failed"

\* The pump closes the connection on every way out.
ConnClosed(c) == pump[c] \in {"closed", "failed"}

-----------------------------------------------------------------------------
(* Session                                                                 *)

\* Variant: the replay lacks the chunk a broadcast is just writing.
ReplayBehind(l) == IF IsEmpty(buf[l]) THEN buf[l] ELSE [buf[l] EXCEPT !.to = @ - 1]

Replay(l) == buf[l]

\* Session.attach: the attached frame, the replay, and the client set.  It does
\* not look at what SendControl and Send return.
Primed(c, l) ==
  LET wanted == <<Attached(l)>>
                  \o (IF IsEmpty(Replay(l)) THEN <<>> ELSE <<Bytes(l, Replay(l))>>)
      room == QueueSize - Len(queue[c])
  IN  \E k \in 0..Len(wanted) :
        /\ k <= room
        /\ k = Len(wanted) \/ k = room \/ done[c]
        /\ queue' = [queue EXCEPT ![c] = @ \o SubSeq(wanted, 1, k)]
        /\ refused' = [refused EXCEPT ![c] = @ \/ k < Len(wanted)]

\* Variant: a client whose queue is full is kept.
DroppedNever(S, T) == {}

\* The clients broadcast drops: those that did not take the chunk.
Dropped(S, T) == S \ T

\* Session.broadcast
Broadcast(l) ==
  /\ status[l] = "running"
  /\ buf[l].to < MaxChunk
  /\ buf' = [buf EXCEPT ![l] = Written(@)]
  /\ \E T \in Takers(clients[l]) :
       LET chunk == [from |-> buf[l].to + 1, to |-> buf[l].to + 1] IN
       /\ Enqueue(T, Bytes(l, chunk))
       /\ clients' = [clients EXCEPT ![l] = @ \ Dropped(clients[l], T)]
       /\ CloseSoon(Dropped(clients[l], T))
  /\ UNCHANGED <<cur, status, file, restart, doomed, shut, handler, seen, done, pump, owed, refused>>

\* The shell has exited: the read loop saves the buffer, then markStopped tells
\* the clients, which stay.  Whether they took the frame is not looked at.  (The
\* file of a deleted session is of no interest here: see Scrollback.)
MarkStopped(l) ==
  /\ status[l] = "running"
  /\ status' = [status EXCEPT ![l] = "stopped"]
  /\ file' = buf[l]
  /\ \E T \in Takers(clients[l]) :
       /\ Enqueue(T, Exit(l))
       /\ refused' = [c \in Client |-> refused[c] \/ c \in clients[l] \ T]
  /\ UNCHANGED <<cur, buf, clients, restart, doomed, shut, handler, seen, done, closing, pump, owed>>

ReleaseBuffer(l) ==
  /\ status[l] = "stopped" /\ ~IsEmpty(buf[l])
  /\ buf' = [buf EXCEPT ![l] = [from |-> @.to + 1, to |-> @.to]]
  /\ UNCHANGED <<cur, status, file, clients, restart, doomed, shut, handler, conn>>

\* The end of the read loop: the shell has been reaped, if it ever is, and its
\* terminal is closed.
ShutTerminal(l) ==
  /\ status[l] = "stopped" /\ IsEmpty(buf[l])
  /\ shut' = shut \cup {l}
  /\ UNCHANGED <<cur, status, buf, file, clients, restart, doomed, handler, conn>>

-----------------------------------------------------------------------------
(* Manager                                                                 *)

\* Restart up to register: the new life starts with the snapshot and a
\* separator in its buffer.  The reservation keeps a second Restart and Delete out.
RestartPublish ==
  /\ restart.pc = "no" /\ cur # 0 /\ cur < MaxLife /\ file.to < MaxChunk
  /\ status[cur] = "stopped"
  /\ cur' = cur + 1
  /\ status' = [status EXCEPT ![cur + 1] = "running"]
  /\ buf' = [buf EXCEPT ![cur + 1] = IF IsEmpty(file) THEN file ELSE Written(file)]
  /\ restart' = [restart EXCEPT !.pc = "take"]
  /\ UNCHANGED <<file, clients, doomed, shut, handler, conn>>

\* Variant: the clients are returned and not removed.
TakenKept(l) == clients[l]

\* What takeClients leaves behind.
Taken(l) == {}

RestartTakes ==
  /\ restart.pc = "take"
  /\ restart' = [pc |-> "move", hand |-> clients[cur - 1]]
  /\ clients' = [clients EXCEPT ![cur - 1] = Taken(cur - 1)]
  /\ UNCHANGED <<cur, status, buf, file, doomed, shut, handler, conn>>

RestartMoves(c) ==
  /\ restart.pc = "move" /\ c \in restart.hand
  /\ Primed(c, cur)
  /\ clients' = [clients EXCEPT ![cur] = @ \cup {c}]
  /\ restart' = [restart EXCEPT !.hand = @ \ {c}]
  /\ UNCHANGED <<cur, status, buf, file, doomed, shut, handler, seen, done, closing, pump, owed>>

RestartEnds ==
  /\ restart = [pc |-> "move", hand |-> {}]
  /\ restart' = [pc |-> "no", hand |-> {}]
  /\ UNCHANGED <<cur, status, buf, file, clients, doomed, shut, handler, conn>>

\* Delete takes the session out of the map, then closes its clients.
DeleteBegin ==
  /\ restart.pc = "no" /\ cur # 0
  /\ doomed' = cur
  /\ cur' = 0
  /\ UNCHANGED <<status, buf, file, clients, restart, shut, handler, conn>>

DeleteCloses ==
  /\ doomed # 0
  /\ CloseSoon(clients[doomed])
  /\ clients' = [clients EXCEPT ![doomed] = {}]
  /\ doomed' = 0
  /\ UNCHANGED <<cur, status, buf, file, restart, shut, handler, queue, seen, done, pump, owed, refused>>

-----------------------------------------------------------------------------
(* ws.Handler.Handle, Manager.Attach and Manager.Detach                    *)

At(c, pc) == handler[c].pc = pc

\* A handler forgets the session it has looked up once it has used it.
GoTo(c, pc) == handler' = [handler EXCEPT ![c] = [pc |-> pc, life |-> 0]]

\* Attach looks the session up.
AttachFinds(c) ==
  /\ At(c, "new") /\ cur # 0
  /\ handler' = [handler EXCEPT ![c] = [pc |-> "check", life |-> cur]]
  /\ UNCHANGED <<session, conn>>

\* Attach finds it running.
AttachChecks(c) ==
  /\ At(c, "check") /\ status[handler[c].life] = "running"
  /\ handler' = [handler EXCEPT ![c].pc = "attach"]
  /\ UNCHANGED <<session, conn>>

\* There is no such session, or it has stopped: close code 4404.
AttachRefused(c) ==
  /\ \/ At(c, "new") /\ cur = 0
     \/ At(c, "check") /\ status[handler[c].life] # "running"
  /\ GoTo(c, "gone")
  /\ CloseNow(c)
  /\ UNCHANGED <<session, queue, seen, closing, pump, refused>>

\* s.attach(c), on the object that was looked up.
AttachAdds(c) ==
  /\ At(c, "attach")
  /\ Primed(c, handler[c].life)
  /\ clients' = [clients EXCEPT ![handler[c].life] = @ \cup {c}]
  /\ GoTo(c, "reading")
  /\ UNCHANGED <<cur, status, buf, file, restart, doomed, shut, seen, done, closing, pump, owed>>

\* readPump returns: the browser is gone or silent, or the pump has closed the
\* connection.
ReadEnds(c) ==
  /\ At(c, "reading")
  /\ GoTo(c, "detach")
  /\ UNCHANGED <<session, conn>>

\* WriteInput finds a running session under the id and writes to the terminal of
\* that session: without a deadline, so that a shell which reads no input, and an
\* SSH server that takes none, hold the handler.  (A resize sent to such a server
\* holds it in the same way.)
InputBegins(c) ==
  /\ At(c, "reading") /\ cur # 0 /\ status[cur] = "running"
  /\ handler' = [handler EXCEPT ![c] = [pc |-> "writing", life |-> cur]]
  /\ UNCHANGED <<session, conn>>

\* The write ends: readPump goes on, or returns with its error.
InputEnds(c) ==
  /\ At(c, "writing")
  /\ GoTo(c, "reading") \/ GoTo(c, "detach")
  /\ UNCHANGED <<session, conn>>

\* A served connection is one whose handler is in readPump.
Served(c) == At(c, "reading") \/ At(c, "writing")

\* The handler waits for a shell to take its input.
HeldByShell(c) == At(c, "writing") /\ handler[c].life \notin shut

\* Detach, by id: of the session that is in the map now, if any.
Detach(c) ==
  /\ At(c, "detach")
  /\ clients' = [l \in Life |-> IF l = cur THEN clients[l] \ {c} ELSE clients[l]]
  /\ GoTo(c, "closing")
  /\ UNCHANGED <<cur, status, buf, file, restart, doomed, shut, conn>>

HandlerCloses(c) ==
  /\ At(c, "closing")
  /\ GoTo(c, "gone")
  /\ CloseNow(c)
  /\ UNCHANGED <<session, queue, seen, closing, pump, refused>>

-----------------------------------------------------------------------------

PumpStep(c) == PumpWrites(c) \/ PumpSeesDone(c) \/ PumpCloses(c)

HandlerStep(c) ==
  \/ AttachFinds(c) \/ AttachChecks(c) \/ AttachRefused(c) \/ AttachAdds(c)
  \/ Detach(c) \/ HandlerCloses(c)

Next ==
  \/ \E l \in Life :
       Broadcast(l) \/ MarkStopped(l) \/ ReleaseBuffer(l) \/ ShutTerminal(l)
  \/ RestartPublish \/ RestartTakes \/ RestartEnds
  \/ DeleteBegin \/ DeleteCloses
  \/ \E c \in Client :
       \/ RestartMoves(c) \/ HandlerStep(c) \/ ReadEnds(c) \/ InputBegins(c) \/ InputEnds(c)
       \/ CloseRuns(c) \/ PumpStep(c) \/ PumpFails(c)

Spec == Init /\ [][Next]_vars

\* Goroutines that can go on do.  The write pump's writes end within their
\* deadline, one way or the other.  Once the connection is closed a read on it
\* fails, after the frames that were read ahead; a write to a terminal fails once
\* the terminal is closed, and need not end before.
Fairness ==
  \A c \in Client :
    /\ WF_vars(CloseRuns(c))
    /\ WF_vars(PumpStep(c))
    /\ WF_vars(HandlerStep(c))
    /\ SF_vars(ConnClosed(c) /\ ReadEnds(c))
    /\ WF_vars(~HeldByShell(c) /\ InputEnds(c))

FairSpec == Spec /\ Fairness

-----------------------------------------------------------------------------
(* Properties                                                              *)

\* What a browser has been shown last and what is on its way to it.
Stream(c) == <<seen[c]>> \o queue[c]

\* g may come right after f in what one browser is sent.
Follows(f, g) ==
  \/ g.kind = "attached" /\ g.life > f.life
  \/ /\ g.kind = "bytes" /\ g.life = f.life
     /\ \/ f.kind = "attached"
        \/ f.kind = "bytes" /\ g.run.from = f.run.to + 1
  \/ g.kind = "exit" /\ g.life = f.life /\ f.kind \in {"attached", "bytes"}

\* A browser is sent, for each life of the session it watches, the attached
\* frame, the replay, every later chunk once and in order, and exit: live
\* output never interleaves ahead of the replay, and no restart mixes the
\* output of two shells (attach, broadcast, takeClients under Session.mu).
StreamInOrder ==
  \A c \in Client : ~refused[c] =>
    \A i \in 1..Len(queue[c]) : Follows(Stream(c)[i], Stream(c)[i + 1])

\* A watcher of a running session has, or has on its way, all of its output: a
\* client that missed a chunk is no longer among the clients.
StreamComplete ==
  \A l \in Life : \A c \in clients[l] :
    status[l] = "running" /\ ~refused[c] =>
      LET last == Stream(c)[Len(Stream(c))] IN
        /\ last.life = l
        /\ IF IsEmpty(buf[l]) THEN last.kind = "attached"
           ELSE last.kind = "bytes" /\ last.run.to = buf[l].to

\* A connection is in one client set at most, even while a restart moves it
\* (takeClients: no caller "can hand the same connection to two sessions").
OneSession ==
  \A c \in Client :
    /\ \A l, k \in Life : c \in clients[l] /\ c \in clients[k] => l = k
    /\ c \in restart.hand => \A l \in Life : c \notin clients[l]

\* A connection that is being served and that nobody closes is in a client set
\* or on its way into one: dropping one always goes with closing it.
NoneForgotten ==
  \A c \in Client : Served(c) /\ ~done[c] /\ ~closing[c] =>
    c \in restart.hand \/ \E l \in Life : c \in clients[l]

\* What was queued when a client was closed is written before the close frame
\* (flush: the exit frame and the reason are one action in two steps).
FlushedBeforeClose == \A c \in Client : pump[c] = "closed" => owed[c] = 0

\* A restart moves the clients of the session: with none in flight, a served
\* and open connection is attached to the life that is in the map.
RestartMovesClients ==
  restart.pc = "no" /\ cur # 0 =>
    \A c \in Client : Served(c) /\ ~done[c] /\ ~closing[c] => c \in clients[cur]

\* Whatever is queued, dropped, moved and released in between, a browser that
\* lost no frame sees what Watch promises: every shell's output without a gap or
\* a repetition, up to what was written before it, and the exit after all of it.
Watched ==
  INSTANCE Watch WITH state <- status, made <- [l \in Life |-> buf[l].to],
                      shown <- seen, missed <- refused

IsAWatch == Watched!Spec

\* A client the server closes is torn down, its handler included, whatever the
\* browser does (under FairSpec).  The one thing that keeps the handler, and the
\* client with it, is a write of its input that never ends, which readPump waits
\* for with no deadline; closing the terminal ends it, closing the client does not.
ClosedIsTornDown == \A c \in Client : closing[c] ~> (At(c, "gone") \/ []HeldByShell(c))

=============================================================================
