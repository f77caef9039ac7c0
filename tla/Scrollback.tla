------------------------------ MODULE Scrollback ------------------------------
(***************************************************************************)
(* The scrollback file of one session: written by the read loop when the   *)
(* shell ends, by the flush loop on its timer and by Shutdown, read by     *)
(* Restart and removed by Delete.  Every writer takes its snapshot under   *)
(* Session.mu (snapshotRunning) and replaces the file later, without it.   *)
(*                                                                         *)
(* What matters of a snapshot is how far into the session's output it      *)
(* reaches, so it is the number of the last chunk it has.  A restart is a  *)
(* new life of the session, with a session object of its own.              *)
(***************************************************************************)
EXTENDS Naturals

CONSTANTS
  MaxLife,    \* bound: shells the session has, the first included
  MaxChunk    \* bound: chunks of output

ASSUME BoundsAssumption == MaxLife \in Nat \ {0} /\ MaxChunk \in Nat

VARIABLES
  cur,    \* the life the manager's map holds, 0 once deleted or shut down
  out,    \* chunks of output so far, over all lives
  obj,    \* the session object of each life, its shell and its read loop
  file,   \* the scrollback file
  flush,  \* the flush loop
  del,    \* the progress of Delete
  sd      \* the progress of Shutdown

vars == <<cur, out, obj, file, flush, del, sd>>

Life == 1..MaxLife
Chunk == 0..MaxChunk

\* No file, or a snapshot up to a chunk and which goroutine put it there.
NoFile == [to |-> 0, by |-> "nobody"]
File == [to: Chunk, by: {"nobody", "loop", "flush", "shutdown"}]

NotYet == [status |-> "unborn", discarded |-> FALSE, to |-> 0, proc |-> "none",
           loop |-> "none", snap |-> 0]
Started == [NotYet EXCEPT !.status = "running", !.proc = "alive", !.loop = "reading"]

TypeOK ==
  /\ cur \in 0..MaxLife
  /\ out \in Chunk
  /\ obj \in [Life -> [status: {"unborn", "running", "stopped"}, discarded: BOOLEAN,
                       to: Chunk, proc: {"none", "alive", "held", "dead"},
                       loop: {"none", "reading", "saving", "saved", "marked", "done"},
                       snap: Chunk]]
  /\ file \in File
  /\ flush \in [pc: {"idle", "listed", "saving"}, life: 0..MaxLife, snap: Chunk]
  /\ del \in [pc: {"no", "mark", "wait", "discard", "done"}, life: 0..MaxLife]
  /\ sd \in [pc: {"no", "capture", "save", "terminate", "wait", "done"}, life: 0..MaxLife,
             snap: Chunk]

Init ==
  /\ cur = 1
  /\ out = 0
  /\ obj = [l \in Life |-> IF l = 1 THEN Started ELSE NotYet]
  /\ file = NoFile
  /\ flush = [pc |-> "idle", life |-> 0, snap |-> 0]
  /\ del = [pc |-> "no", life |-> 0]
  /\ sd = [pc |-> "no", life |-> 0, snap |-> 0]

-----------------------------------------------------------------------------
(* Session                                                                 *)

\* Variant: snapshotRunning does not look at discarded.
SavableUndiscarded(l) == obj[l].status = "running"

\* snapshotRunning: a snapshot, or nothing of a session that has stopped or
\* been deleted.
Savable(l) == obj[l].status = "running" /\ ~obj[l].discarded

\* terminate, as in SessionManager: the shell dies but its terminal may be
\* held open, and then the caller stops waiting.
Killed(p) == IF p = "alive" THEN {"dead", "held"} ELSE {p}

TerminateReturns(l) ==
  obj[l].loop = "done" \/ (obj[l].loop = "reading" /\ obj[l].proc = "held")

ShellExits(l) ==
  /\ obj[l].proc \in {"alive", "held"}
  /\ \E p \in {"dead", "held"} : obj' = [obj EXCEPT ![l].proc = p]
  /\ UNCHANGED <<cur, out, file, flush, del, sd>>

\* The read loop broadcasts a chunk into the buffer.
LoopReads(l) ==
  /\ obj[l].loop = "reading" /\ obj[l].proc \in {"alive", "held"} /\ out < MaxChunk
  /\ out' = out + 1
  /\ obj' = [obj EXCEPT ![l].to = out + 1]
  /\ UNCHANGED <<cur, file, flush, del, sd>>

\* Read fails: the final snapshot is taken, if there is one to take.
LoopCaptures(l) ==
  /\ obj[l].loop = "reading" /\ obj[l].proc = "dead"
  /\ obj' = [obj EXCEPT ![l] =
       IF Savable(l) THEN [@ EXCEPT !.loop = "saving", !.snap = obj[l].to]
       ELSE [@ EXCEPT !.loop = "saved"]]
  /\ UNCHANGED <<cur, out, file, flush, del, sd>>

LoopSaves(l) ==
  /\ obj[l].loop = "saving"
  /\ file' = [to |-> obj[l].snap, by |-> "loop"]
  /\ obj' = [obj EXCEPT ![l].loop = "saved"]
  /\ UNCHANGED <<cur, out, flush, del, sd>>

\* Variant: the session is marked stopped before the final snapshot is saved.
MarkableEarly == {"saving", "saved"}

\* The read loop's points at which markStopped may follow.
Markable == {"saved"}

LoopMarksStopped(l) ==
  /\ obj[l].loop \in Markable
  /\ obj' = [obj EXCEPT ![l] = [@ EXCEPT !.status = "stopped", !.loop = "marked"]]
  /\ UNCHANGED <<cur, out, file, flush, del, sd>>

\* Wait, CloseFile, close(exited).
LoopEnds(l) ==
  /\ obj[l].loop = "marked"
  /\ obj' = [obj EXCEPT ![l].loop = "done"]
  /\ UNCHANGED <<cur, out, file, flush, del, sd>>

-----------------------------------------------------------------------------
(* Manager.flushLoop, one pass over the map at a time                      *)

FlushLists ==
  /\ flush.pc = "idle" /\ cur # 0
  /\ flush' = [pc |-> "listed", life |-> cur, snap |-> 0]
  /\ UNCHANGED <<cur, out, obj, file, del, sd>>

FlushCaptures ==
  /\ flush.pc = "listed"
  /\ flush' = IF Savable(flush.life)
              THEN [pc |-> "saving", life |-> 0, snap |-> obj[flush.life].to]
              ELSE [pc |-> "idle", life |-> 0, snap |-> 0]
  /\ UNCHANGED <<cur, out, obj, file, del, sd>>

FlushSaves ==
  /\ flush.pc = "saving"
  /\ file' = [to |-> flush.snap, by |-> "flush"]
  /\ flush' = [pc |-> "idle", life |-> 0, snap |-> 0]
  /\ UNCHANGED <<cur, out, obj, del, sd>>

-----------------------------------------------------------------------------
(* Restart, Delete and Shutdown                                            *)

RestoredAndMore == file.to + 1   \* variant: off by one

\* A stopped session gets a new life whose buffer is what the file holds.
Restored == file.to

Restart ==
  /\ cur # 0 /\ cur < MaxLife /\ obj[cur].status = "stopped"
  /\ obj' = [obj EXCEPT ![cur + 1] = [Started EXCEPT !.to = Restored]]
  /\ cur' = cur + 1
  /\ UNCHANGED <<out, file, flush, del, sd>>

DeleteBegins ==
  /\ cur # 0 /\ del.pc = "no"
  /\ del' = [pc |-> "mark", life |-> cur]
  /\ cur' = 0
  /\ UNCHANGED <<out, obj, file, flush, sd>>

\* markDiscarded, then terminate up to its wait.
DeleteMarks ==
  /\ del.pc = "mark"
  /\ \E p \in Killed(obj[del.life].proc) :
       obj' = [obj EXCEPT ![del.life] = [@ EXCEPT !.discarded = TRUE, !.proc = p]]
  /\ del' = [del EXCEPT !.pc = "wait"]
  /\ UNCHANGED <<cur, out, file, flush, sd>>

DeleteWaits ==
  /\ del.pc = "wait" /\ TerminateReturns(del.life)
  /\ del' = [del EXCEPT !.pc = "discard"]
  /\ UNCHANGED <<cur, out, obj, file, flush, sd>>

\* discardState; Delete returns.
DeleteDiscards ==
  /\ del.pc = "discard"
  /\ file' = NoFile
  /\ del' = [del EXCEPT !.pc = "done"]
  /\ UNCHANGED <<cur, out, obj, flush, sd>>

ShutdownBegins ==
  /\ sd.pc = "no" /\ cur # 0
  /\ sd' = [pc |-> "capture", life |-> cur, snap |-> 0]
  /\ cur' = 0
  /\ UNCHANGED <<out, obj, file, flush, del>>

ShutdownCaptures ==
  /\ sd.pc = "capture"
  /\ sd' = IF Savable(sd.life)
           THEN [sd EXCEPT !.pc = "save", !.snap = obj[sd.life].to]
           ELSE [sd EXCEPT !.pc = "terminate"]
  /\ UNCHANGED <<cur, out, obj, file, flush, del>>

ShutdownSaves ==
  /\ sd.pc = "save"
  /\ file' = [to |-> sd.snap, by |-> "shutdown"]
  /\ sd' = [sd EXCEPT !.pc = "terminate"]
  /\ UNCHANGED <<cur, out, obj, flush, del>>

ShutdownTerminates ==
  /\ sd.pc = "terminate"
  /\ \E p \in Killed(obj[sd.life].proc) : obj' = [obj EXCEPT ![sd.life].proc = p]
  /\ sd' = [sd EXCEPT !.pc = "wait"]
  /\ UNCHANGED <<cur, out, file, flush, del>>

ShutdownEnds ==
  /\ sd.pc = "wait" /\ TerminateReturns(sd.life)
  /\ sd' = [sd EXCEPT !.pc = "done"]
  /\ UNCHANGED <<cur, out, obj, file, flush, del>>

Next ==
  \/ \E l \in Life :
       \/ ShellExits(l) \/ LoopReads(l) \/ LoopCaptures(l) \/ LoopSaves(l)
       \/ LoopMarksStopped(l) \/ LoopEnds(l)
  \/ FlushLists \/ FlushCaptures \/ FlushSaves
  \/ Restart
  \/ DeleteBegins \/ DeleteMarks \/ DeleteWaits \/ DeleteDiscards
  \/ ShutdownBegins \/ ShutdownCaptures \/ ShutdownSaves \/ ShutdownTerminates \/ ShutdownEnds

Spec == Init /\ [][Next]_vars

-----------------------------------------------------------------------------
(* Properties                                                              *)

\* A session that anyone can see stopped has its final output on disk, unless
\* a save of the flush loop that was in flight has just put an older snapshot
\* there: nothing else can leave a restart with less (readLoop saves before
\* markStopped, snapshotRunning refuses from then on).
StoppedFileIsFinal ==
  cur # 0 /\ obj[cur].status = "stopped" =>
    file.by = "flush" \/ file.to = obj[cur].to

\* The same, without the exception (readLoop: writing the snapshot after the
\* session is seen stopped "would hand that restart a missing or stale
\* scrollback").
RestartSeesFinal ==
  cur # 0 /\ obj[cur].status = "stopped" => file.to = obj[cur].to

\* The read loop of a deleted session leaves no file behind, however late it
\* ends: the only file there can be is from a flush in flight (markDiscarded,
\* and terminate waiting for a loop that is past its Read).
NoOrphanOfTheLoop == del.pc = "done" => file.by \in {"nobody", "flush"}

\* A clean exit leaves the session's output on disk when its read loop has
\* ended: only a flush in flight, or the snapshot Shutdown itself takes while
\* the shell is still printing, can be older (readLoop, Shutdown).
ShutdownKeepsOutput ==
  sd.pc = "done" /\ obj[sd.life].loop = "done" =>
    file.by \in {"flush", "shutdown"} \/ file.to = obj[sd.life].to

=============================================================================
