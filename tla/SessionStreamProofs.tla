------------------------ MODULE SessionStreamProofs ------------------------
(***************************************************************************)
(* Proofs about SessionStream, for any number of browsers, shells and      *)
(* chunks, and any sizes of the buffer and the queues.                     *)
(*                                                                         *)
(* A browser's stream is only ever appended to or written out at its head, *)
(* so its order is kept if what is appended follows what was last sent.    *)
(* That is known of each place a client can be in: one that has not been   *)
(* attached has been sent nothing; one in the client set of a life has     *)
(* been sent that life last, and all of it while the life is running; one  *)
(* that a restart has in hand was last sent an older life.  A client is in *)
(* one of these places at a time (OneSession).                             *)
(*                                                                         *)
(* The refinement of Watch needs more, since a frame is shown long after   *)
(* it was queued: each queued frame is backed by what its shell had        *)
(* written and may be shown after the one before it (WatchInv).  What a    *)
(* closing client is still owed never exceeds its queue (Pumps), so that   *)
(* nothing is cut off (NothingIsCutOff).                                   *)
(***************************************************************************)
EXTENDS SessionStream, SequenceTheorems, TLAPS

Pcs == {"new", "check", "attach", "reading", "writing", "detach", "closing", "gone"}

Typed ==
  /\ cur \in 0..MaxLife
  /\ status \in [Life -> {"unborn", "running", "stopped"}]
  /\ buf \in [Life -> Run]
  /\ file \in Run
  /\ clients \in [Life -> SUBSET Client]
  /\ restart \in [pc: {"no", "take", "move"}, hand: SUBSET Client]
  /\ doomed \in 0..MaxLife
  /\ shut \subseteq Life
  /\ handler \in [Client -> [pc: Pcs, life: 0..MaxLife]]
  /\ queue \in [Client -> Seq(Frame)]
  /\ seen \in [Client -> Frame]
  /\ done \in [Client -> BOOLEAN]
  /\ closing \in [Client -> BOOLEAN]
  /\ refused \in [Client -> BOOLEAN]

\* A life begins with the restart that publishes it, and nobody knows it before.
Lives ==
  /\ cur # 0 => /\ status[cur] # "unborn"
                /\ \A l \in Life : l > cur => status[l] = "unborn"
  /\ \A l \in Life : status[l] = "unborn" => clients[l] = {}
  /\ \A c \in Client : handler[c].pc \in {"check", "attach"} =>
       handler[c].life \in Life /\ status[handler[c].life] # "unborn"
  /\ restart.pc # "no" => cur > 1
  /\ restart.hand # {} => restart.pc = "move"

\* A connection whose handler has yet to attach it.
Unattached(c) == handler[c].pc \in {"new", "check", "attach"}

UnattachedNowhere ==
  \A c \in Client : Unattached(c) => c \notin restart.hand /\ \A l \in Life : c \notin clients[l]

Places == OneSession /\ NoneForgotten /\ UnattachedNowhere

\* The frames q are on their way behind s, in order.
InOrder(s, q) ==
  /\ q # <<>> => Follows(s, q[1])
  /\ \A i \in 1..Len(q) - 1 : Follows(q[i], q[i + 1])

Last(s, q) == IF q = <<>> THEN s ELSE q[Len(q)]
LastSent(c) == Last(seen[c], queue[c])

\* f is the last frame of a watcher that has all of the output of r.
Complete(f, r) ==
  IF IsEmpty(r) THEN f.kind = "attached" ELSE f.kind = "bytes" /\ f.run.to = r.to

StreamOf(c) ==
  /\ Unattached(c) => queue[c] = <<>> /\ seen[c] = Nothing
  /\ ~refused[c] =>
       /\ InOrder(seen[c], queue[c])
       /\ \A l \in Life : c \in clients[l] => LastSent(c).life = l
       /\ c \in restart.hand => LastSent(c).life < cur
       /\ \A l \in Life : c \in clients[l] /\ status[l] = "running" =>
            Complete(LastSent(c), buf[l])

Streams == \A c \in Client : StreamOf(c)

Inv == Typed /\ Lives /\ Places /\ Streams

-----------------------------------------------------------------------------
(* Sequences of frames                                                     *)

LEMMA FrameTypes ==
  /\ Nothing \in Frame
  /\ \A l \in Life : Attached(l) \in Frame /\ Exit(l) \in Frame
  /\ \A l \in Life : \A r \in Run : Bytes(l, r) \in Frame
  BY SizesAssumption DEF Nothing, Attached, Exit, Bytes, Frame, Run, NoRun, Life, Chunk

LEMMA LastType ==
  ASSUME NEW s \in Frame, NEW q \in Seq(Frame)
  PROVE  Last(s, q) \in Frame
<1>1. CASE q = <<>> BY <1>1 DEF Last
<1>2. CASE q # <<>>
  <2>1. Len(q) \in Nat \ {0} BY <1>2, EmptySeq
  <2>2. q[Len(q)] \in Frame BY <2>1, ElementOfSeq
  <2> QED BY <1>2, <2>2 DEF Last
<1> QED BY <1>1, <1>2

\* Append of a frame that follows the last one.
LEMMA Appending ==
  ASSUME NEW s \in Frame, NEW q \in Seq(Frame), NEW f \in Frame
  PROVE  /\ Append(q, f) \in Seq(Frame)
         /\ Last(s, Append(q, f)) = f
         /\ InOrder(s, q) /\ Follows(Last(s, q), f) => InOrder(s, Append(q, f))
<1> DEFINE r == Append(q, f)
<1>1. /\ r \in Seq(Frame) /\ r # <<>> /\ Len(r) = Len(q) + 1
      /\ \A i \in 1..Len(q) : r[i] = q[i]
      /\ r[Len(q) + 1] = f
  BY AppendProperties
<1>2. Len(q) \in Nat /\ (q # <<>> => Len(q) >= 1) BY LenProperties, EmptySeq
<1>3. q = <<>> => Len(q) = 0 BY EmptySeq
<1> HIDE DEF r
<1>4. Last(s, r) = f BY <1>1 DEF Last
<1>5. ASSUME InOrder(s, q), Follows(Last(s, q), f) PROVE InOrder(s, r)
  <2>1. Follows(s, r[1])
    <3>1. CASE q = <<>> BY <1>1, <1>3, <1>5, <3>1 DEF Last
    <3>2. CASE q # <<>>
      <4>1. r[1] = q[1] BY <1>1, <1>2, <3>2
      <4> QED BY <1>5, <3>2, <4>1 DEF InOrder
    <3> QED BY <3>1, <3>2
  <2>2. ASSUME NEW i \in 1..Len(r) - 1 PROVE Follows(r[i], r[i + 1])
    <3>1. CASE i < Len(q)
      <4>1. i \in 1..Len(q) /\ i + 1 \in 1..Len(q) /\ i \in 1..Len(q) - 1
        BY <1>1, <1>2, <3>1
      <4> QED BY <1>1, <1>5, <4>1 DEF InOrder
    <3>2. CASE i = Len(q)
      <4>1. q # <<>> /\ i \in 1..Len(q) BY <1>1, <1>2, <1>3, <3>2
      <4>2. r[i] = Last(s, q) /\ r[i + 1] = f BY <1>1, <3>2, <4>1 DEF Last
      <4> QED BY <1>5, <4>2
    <3> QED BY <1>1, <1>2, <3>1, <3>2
  <2> QED BY <2>1, <2>2 DEF InOrder
<1> QED BY <1>1, <1>4, <1>5 DEF r

\* The pump writes the frame at the head.
LEMMA Writing ==
  ASSUME NEW s \in Frame, NEW q \in Seq(Frame), q # <<>>
  PROVE  /\ Head(q) \in Frame /\ Tail(q) \in Seq(Frame)
         /\ Last(Head(q), Tail(q)) = Last(s, q)
         /\ InOrder(s, q) => InOrder(Head(q), Tail(q))
<1> DEFINE t == Tail(q)
<1>1. /\ Head(q) \in Frame /\ t \in Seq(Frame) /\ Len(t) = Len(q) - 1
      /\ \A i \in 1..Len(t) : t[i] = q[i + 1]
  BY HeadTailProperties
<1>2. Len(q) \in Nat \ {0} BY EmptySeq
<1>3. Head(q) = q[1] OBVIOUS
<1>4. t = <<>> => Len(t) = 0 BY EmptySeq
<1>5. t # <<>> => Len(t) \in Nat \ {0} BY <1>1, EmptySeq
<1> HIDE DEF t
<1>6. Last(Head(q), t) = Last(s, q)
  <2>1. CASE t = <<>>
    <3>1. Len(q) = 1 BY <1>1, <1>2, <1>4, <2>1
    <3>2. Last(s, q) = q[1] BY <3>1 DEF Last
    <3>3. Last(Head(q), t) = Head(q) BY <2>1 DEF Last
    <3> QED BY <1>3, <3>2, <3>3
  <2>2. CASE t # <<>> BY <1>1, <1>2, <1>5, <2>2 DEF Last
  <2> QED BY <2>1, <2>2
<1>7. ASSUME InOrder(s, q) PROVE InOrder(Head(q), t)
  <2>1. ASSUME t # <<>> PROVE Follows(Head(q), t[1])
    <3>1. t[1] = q[1 + 1] /\ 1 \in 1..Len(q) - 1 BY <1>1, <1>2, <1>5, <2>1
    <3> QED BY <1>3, <1>7, <3>1 DEF InOrder
  <2>2. ASSUME NEW i \in 1..Len(t) - 1 PROVE Follows(t[i], t[i + 1])
    <3>1. i \in 1..Len(t) /\ i + 1 \in 1..Len(t) /\ i + 1 \in 1..Len(q) - 1
      BY <1>1, <1>2
    <3>2. t[i] = q[i + 1] /\ t[i + 1] = q[(i + 1) + 1] BY <1>1, <3>1
    <3> QED BY <1>7, <3>1, <3>2 DEF InOrder
  <2> QED BY <2>1, <2>2 DEF InOrder
<1> QED BY <1>1, <1>6, <1>7 DEF t

\* What an attach queues, if all of it is taken.
PrimedQueue(q, l) ==
  IF IsEmpty(buf[l]) THEN Append(q, Attached(l))
  ELSE Append(Append(q, Attached(l)), Bytes(l, buf[l]))

LEMMA Priming ==
  ASSUME Typed, NEW c \in Client, NEW l \in Life, Primed(c, l)
  PROVE  /\ queue' \in [Client -> Seq(Frame)] /\ refused' \in [Client -> BOOLEAN]
         /\ \A d \in Client \ {c} : queue'[d] = queue[d] /\ refused'[d] = refused[d]
         /\ ~refused'[c] => ~refused[c] /\ queue'[c] = PrimedQueue(queue[c], l)
         /\ Len(queue'[c]) \in Len(queue[c])..QueueSize
<1> DEFINE q == queue[c]
           wanted == <<Attached(l)>> \o (IF IsEmpty(Replay(l)) THEN <<>> ELSE <<Bytes(l, Replay(l))>>)
<1>1. PICK k \in 0..Len(wanted) :
        /\ k <= QueueSize - Len(q)
        /\ queue' = [queue EXCEPT ![c] = q \o SubSeq(wanted, 1, k)]
        /\ refused' = [refused EXCEPT ![c] = refused[c] \/ k < Len(wanted)]
  BY DEF Primed
<1>2. /\ q \in Seq(Frame) /\ buf[l] \in Run /\ refused \in [Client -> BOOLEAN]
      /\ queue \in [Client -> Seq(Frame)]
  BY DEF Typed
<1>3. Attached(l) \in Frame /\ Bytes(l, buf[l]) \in Frame BY <1>2, FrameTypes
<1>4. <<Attached(l)>> \in Seq(Frame) /\ <<Bytes(l, buf[l])>> \in Seq(Frame) BY <1>3
<1>5. wanted \in Seq(Frame)
  <2>1. CASE IsEmpty(buf[l])
    <3>1. wanted = <<Attached(l)>> BY <1>4, <2>1, ConcatEmptySeq DEF Replay
    <3> QED BY <1>4, <3>1
  <2>2. CASE ~IsEmpty(buf[l])
    <3>1. wanted = <<Attached(l)>> \o <<Bytes(l, buf[l])>> BY <2>2 DEF Replay
    <3> HIDE DEF wanted
    <3> QED BY <1>4, <3>1, ConcatProperties
  <2> QED BY <2>1, <2>2
<1>6. q \o wanted = PrimedQueue(q, l)
  <2>1. Append(q, Attached(l)) = q \o <<Attached(l)>> /\ Append(q, Attached(l)) \in Seq(Frame)
    BY <1>2, <1>3, AppendIsConcat, AppendProperties
  <2>2. CASE IsEmpty(buf[l])
    <3>1. wanted = <<Attached(l)>> BY <1>4, <2>2, ConcatEmptySeq DEF Replay
    <3> QED BY <2>1, <2>2, <3>1 DEF PrimedQueue
  <2>3. CASE ~IsEmpty(buf[l])
    <3>1. wanted = <<Attached(l)>> \o <<Bytes(l, buf[l])>> BY <2>3 DEF Replay
    <3>2. q \o (<<Attached(l)>> \o <<Bytes(l, buf[l])>>)
            = (q \o <<Attached(l)>>) \o <<Bytes(l, buf[l])>>
      BY <1>2, <1>4, ConcatAssociative
    <3>3. Append(Append(q, Attached(l)), Bytes(l, buf[l]))
            = Append(q, Attached(l)) \o <<Bytes(l, buf[l])>>
      BY <1>3, <2>1, AppendIsConcat
    <3> HIDE DEF wanted, q
    <3> QED BY <2>1, <2>3, <3>1, <3>2, <3>3 DEF PrimedQueue
  <2> QED BY <2>2, <2>3
<1> HIDE DEF wanted
<1>7. Len(wanted) \in Nat /\ k \in Nat /\ k <= Len(wanted) BY <1>5, LenProperties
<1>8. SubSeq(wanted, 1, k) \in Seq(Frame) /\ Len(SubSeq(wanted, 1, k)) = k
  <2>1. \A i \in 1..k : wanted[i] \in Frame BY <1>5, <1>7, ElementOfSeq
  <2> QED BY <1>7, <2>1, SubSeqProperties
<1>9. q \o SubSeq(wanted, 1, k) \in Seq(Frame) BY <1>2, <1>8, ConcatProperties
<1>10. k = Len(wanted) => SubSeq(wanted, 1, k) = wanted BY <1>5, SubSeqFull
<1>11. queue'[c] = q \o SubSeq(wanted, 1, k) /\ refused'[c] = (refused[c] \/ k < Len(wanted))
  BY <1>1, <1>2
<1>12. queue' \in [Client -> Seq(Frame)] /\ refused' \in [Client -> BOOLEAN]
  BY <1>1, <1>2, <1>9
<1>13. \A d \in Client \ {c} : queue'[d] = queue[d] /\ refused'[d] = refused[d] BY <1>1, <1>2
<1>14. ~refused'[c] => ~refused[c] /\ queue'[c] = PrimedQueue(q, l)
  <2> SUFFICES ASSUME ~refused'[c] PROVE ~refused[c] /\ queue'[c] = PrimedQueue(q, l)
    OBVIOUS
  <2>1. ~refused[c] /\ ~(k < Len(wanted)) BY <1>11
  <2>2. k = Len(wanted) BY <1>7, <2>1
  <2>3. queue'[c] = q \o wanted BY <1>10, <1>11, <2>2
  <2> QED BY <1>6, <2>1, <2>3
<1>15. Len(queue'[c]) \in Len(q)..QueueSize
  <2>1. Len(q) \in Nat BY <1>2, LenProperties
  <2>2. Len(q \o SubSeq(wanted, 1, k)) = Len(q) + Len(SubSeq(wanted, 1, k))
    BY <1>2, <1>8, ConcatProperties
  <2>3. Len(queue'[c]) = Len(q) + k BY <1>8, <1>11, <2>2
  <2>4. k <= QueueSize - Len(q) BY <1>1
  <2> HIDE DEF q
  <2> QED BY <1>7, <2>1, <2>3, <2>4, SizesAssumption
<1> QED BY <1>12, <1>13, <1>14, <1>15

\* It follows what a client was last sent, when that was an older life, and it
\* is all that the buffer has.
LEMMA PrimedInOrder ==
  ASSUME NEW s \in Frame, NEW q \in Seq(Frame), NEW l \in Life, buf[l] \in Run,
         InOrder(s, q), Last(s, q).life < l
  PROVE  /\ InOrder(s, PrimedQueue(q, l))
         /\ Last(s, PrimedQueue(q, l)).life = l
         /\ Complete(Last(s, PrimedQueue(q, l)), buf[l])
<1> DEFINE a == Append(q, Attached(l))
<1>1. Attached(l) \in Frame /\ Bytes(l, buf[l]) \in Frame BY FrameTypes
<1>2. Follows(Last(s, q), Attached(l)) BY DEF Follows, Attached
<1>3. Follows(Attached(l), Bytes(l, buf[l])) BY DEF Follows, Attached, Bytes
<1>4. a \in Seq(Frame) /\ Last(s, a) = Attached(l) /\ InOrder(s, a)
  BY <1>1, <1>2, Appending
<1>5. /\ Last(s, Append(a, Bytes(l, buf[l]))) = Bytes(l, buf[l])
      /\ InOrder(s, Append(a, Bytes(l, buf[l])))
  BY <1>1, <1>3, <1>4, Appending
<1> HIDE DEF a
<1>6. CASE IsEmpty(buf[l])
  <2>1. PrimedQueue(q, l) = a BY <1>6 DEF PrimedQueue, a
  <2> QED BY <1>4, <1>6, <2>1 DEF Complete, Attached
<1>7. CASE ~IsEmpty(buf[l])
  <2>1. PrimedQueue(q, l) = Append(a, Bytes(l, buf[l])) BY <1>7 DEF PrimedQueue, a
  <2> QED BY <1>5, <1>7, <2>1 DEF Complete, Bytes
<1> QED BY <1>6, <1>7

-----------------------------------------------------------------------------
(* Types, lives and places                                                 *)

LEMMA WrittenType ==
  ASSUME NEW r \in Run, r.to < MaxChunk
  PROVE  /\ Written(r) \in Run /\ ~IsEmpty(Written(r))
         /\ Written(r).to = r.to + 1
         /\ [from |-> r.to + 1, to |-> r.to + 1] \in Run
  BY SizesAssumption DEF Run, Chunk, Written, IsEmpty

LEMMA EnqueueType ==
  ASSUME Typed, NEW T \in SUBSET Client, NEW f \in Frame, Enqueue(T, f)
  PROVE  queue' \in [Client -> Seq(Frame)]
<1>1. \A c \in Client : Append(queue[c], f) \in Seq(Frame)
  BY AppendProperties DEF Typed
<1> QED BY <1>1 DEF Enqueue, Typed

LEMMA TypedInit == Init => Typed
<1> SUFFICES ASSUME Init PROVE Typed OBVIOUS
<1>1. NoRun \in Run BY SizesAssumption DEF NoRun, Run, Chunk
<1>2. queue \in [Client -> Seq(Frame)] BY EmptySeq DEF Init
<1>3. seen \in [Client -> Frame] BY FrameTypes DEF Init
<1>4. handler \in [Client -> [pc: Pcs, life: 0..MaxLife]] BY SizesAssumption DEF Init, Pcs
<1> QED BY <1>1, <1>2, <1>3, <1>4, SizesAssumption DEF Init, Typed, Life

LEMMA TypedNext == Typed /\ Lives /\ [Next]_vars => Typed'
<1> SUFFICES ASSUME Typed, Lives, [Next]_vars PROVE Typed' OBVIOUS
<1>t. /\ cur \in 0..MaxLife /\ status \in [Life -> {"unborn", "running", "stopped"}]
      /\ buf \in [Life -> Run] /\ file \in Run /\ clients \in [Life -> SUBSET Client]
      /\ restart \in [pc: {"no", "take", "move"}, hand: SUBSET Client]
      /\ doomed \in 0..MaxLife /\ shut \subseteq Life
      /\ handler \in [Client -> [pc: Pcs, life: 0..MaxLife]]
      /\ queue \in [Client -> Seq(Frame)] /\ seen \in [Client -> Frame]
      /\ done \in [Client -> BOOLEAN] /\ closing \in [Client -> BOOLEAN]
      /\ refused \in [Client -> BOOLEAN]
  BY DEF Typed
<1>l. \A l \in Life : clients[l] \subseteq Client /\ buf[l] \in Run BY <1>t
<1>1. ASSUME NEW l \in Life, Broadcast(l) PROVE Typed'
  <2>1. PICK T \in Takers(clients[l]) :
          /\ Enqueue(T, Bytes(l, [from |-> buf[l].to + 1, to |-> buf[l].to + 1]))
          /\ clients' = [clients EXCEPT ![l] = clients[l] \ Dropped(clients[l], T)]
          /\ CloseSoon(Dropped(clients[l], T))
    BY <1>1 DEF Broadcast
  <2>2. T \in SUBSET Client BY <1>l DEF Takers
  <2>3. [from |-> buf[l].to + 1, to |-> buf[l].to + 1] \in Run
    BY <1>1, <1>l, WrittenType DEF Broadcast
  <2>4. queue' \in [Client -> Seq(Frame)] BY <2>1, <2>2, <2>3, FrameTypes, EnqueueType
  <2>5. clients' \in [Life -> SUBSET Client] BY <1>t, <1>l, <2>1
  <2>6. closing' \in [Client -> BOOLEAN] BY <1>t, <2>1 DEF CloseSoon
  <2>7. buf' \in [Life -> Run]
    <3>1. Written(buf[l]) \in Run BY <1>1, <1>l, WrittenType DEF Broadcast
    <3> QED BY <1>1, <1>t, <3>1 DEF Broadcast
  <2> QED BY <1>1, <1>t, <2>4, <2>5, <2>6, <2>7 DEF Broadcast, Typed
<1>2. ASSUME NEW l \in Life, MarkStopped(l) PROVE Typed'
  <2>1. PICK T \in Takers(clients[l]) :
          /\ Enqueue(T, Exit(l))
          /\ refused' = [c \in Client |-> refused[c] \/ c \in clients[l] \ T]
    BY <1>2 DEF MarkStopped
  <2>2. T \in SUBSET Client BY <1>l DEF Takers
  <2>3. queue' \in [Client -> Seq(Frame)] BY <2>1, <2>2, FrameTypes, EnqueueType
  <2>4. refused' \in [Client -> BOOLEAN] BY <1>t, <2>1
  <2>5. status' \in [Life -> {"unborn", "running", "stopped"}] /\ file' \in Run
    BY <1>2, <1>t, <1>l DEF MarkStopped
  <2> QED BY <1>2, <1>t, <2>3, <2>4, <2>5 DEF MarkStopped, Typed
<1>3. ASSUME NEW l \in Life, ReleaseBuffer(l) PROVE Typed'
  <2>1. [from |-> buf[l].to + 1, to |-> buf[l].to] \in Run
    BY <1>l, SizesAssumption DEF Run, Chunk
  <2>2. buf' \in [Life -> Run] BY <1>3, <1>t, <2>1 DEF ReleaseBuffer
  <2> QED BY <1>3, <1>t, <2>2 DEF ReleaseBuffer, Typed, conn
<1>4. CASE RestartPublish
  <2>1. cur + 1 \in Life /\ cur + 1 \in 0..MaxLife
    BY <1>4, <1>t, SizesAssumption DEF RestartPublish, Life
  <2>2. (IF IsEmpty(file) THEN file ELSE Written(file)) \in Run
    BY <1>4, <1>t, WrittenType DEF RestartPublish
  <2>3. buf' \in [Life -> Run] BY <1>4, <1>t, <2>2 DEF RestartPublish
  <2>4. status' \in [Life -> {"unborn", "running", "stopped"}]
    BY <1>4, <1>t DEF RestartPublish
  <2>5. restart' \in [pc: {"no", "take", "move"}, hand: SUBSET Client]
    BY <1>4, <1>t DEF RestartPublish
  <2> QED BY <1>4, <1>t, <2>1, <2>3, <2>4, <2>5 DEF RestartPublish, Typed, conn
<1>5. CASE RestartTakes
  <2>1. cur - 1 \in Life BY <1>5, <1>t, SizesAssumption DEF RestartTakes, Lives, Life
  <2>2. clients' \in [Life -> SUBSET Client] BY <1>5, <1>t DEF RestartTakes, Taken
  <2>3. restart' \in [pc: {"no", "take", "move"}, hand: SUBSET Client]
    BY <1>5, <1>l, <2>1 DEF RestartTakes
  <2> QED BY <1>5, <1>t, <2>2, <2>3 DEF RestartTakes, Typed, conn
<1>6. CASE RestartEnds BY <1>6, <1>t DEF RestartEnds, Typed, conn
<1>7. CASE DeleteBegin BY <1>7, <1>t, SizesAssumption DEF DeleteBegin, Typed, conn
<1>8. CASE DeleteCloses
  <2>1. clients' \in [Life -> SUBSET Client] BY <1>8, <1>t DEF DeleteCloses
  <2>2. closing' \in [Client -> BOOLEAN] BY <1>8, <1>t DEF DeleteCloses, CloseSoon
  <2> QED BY <1>8, <1>t, <2>1, <2>2, SizesAssumption DEF DeleteCloses, Typed
<1>9. ASSUME NEW c \in Client, RestartMoves(c) PROVE Typed'
  <2>1. cur \in Life BY <1>9, <1>t, SizesAssumption DEF RestartMoves, Lives, Life
  <2>2. queue' \in [Client -> Seq(Frame)] /\ refused' \in [Client -> BOOLEAN]
    BY <1>9, <2>1, Priming DEF RestartMoves
  <2>3. clients' \in [Life -> SUBSET Client] BY <1>9, <1>t DEF RestartMoves
  <2>4. restart' \in [pc: {"no", "take", "move"}, hand: SUBSET Client]
    BY <1>9, <1>t DEF RestartMoves
  <2> QED BY <1>9, <1>t, <2>2, <2>3, <2>4 DEF RestartMoves, Typed
<1>g. ASSUME NEW c \in Client, NEW pc \in Pcs, GoTo(c, pc)
      PROVE  handler' \in [Client -> [pc: Pcs, life: 0..MaxLife]]
  BY <1>g, <1>t, SizesAssumption DEF GoTo
<1>c. ASSUME NEW c \in Client, CloseNow(c) PROVE done' \in [Client -> BOOLEAN]
  BY <1>c, <1>t DEF CloseNow
<1>10. ASSUME NEW c \in Client, AttachFinds(c) PROVE Typed'
  BY <1>10, <1>t DEF AttachFinds, Typed, Pcs, session, conn
<1>11. ASSUME NEW c \in Client, AttachChecks(c) PROVE Typed'
  <2>1. handler' \in [Client -> [pc: Pcs, life: 0..MaxLife]]
    BY <1>11, <1>t DEF AttachChecks, Pcs
  <2> QED BY <1>11, <1>t, <2>1 DEF AttachChecks, Typed, session, conn
<1>12. ASSUME NEW c \in Client, AttachRefused(c) PROVE Typed'
  <2>1. handler' \in [Client -> [pc: Pcs, life: 0..MaxLife]]
    BY <1>12, <1>g DEF AttachRefused, Pcs
  <2> QED BY <1>12, <1>t, <1>c, <2>1 DEF AttachRefused, Typed, session
<1>13. ASSUME NEW c \in Client, AttachAdds(c) PROVE Typed'
  <2>1. handler' \in [Client -> [pc: Pcs, life: 0..MaxLife]]
    BY <1>13, <1>g DEF AttachAdds, Pcs
  <2>2. handler[c].life \in Life BY <1>13 DEF AttachAdds, At, Lives
  <2>3. queue' \in [Client -> Seq(Frame)] /\ refused' \in [Client -> BOOLEAN]
    BY <1>13, <2>2, Priming DEF AttachAdds
  <2>4. clients' \in [Life -> SUBSET Client] BY <1>13, <1>t DEF AttachAdds
  <2> QED BY <1>13, <1>t, <2>1, <2>3, <2>4 DEF AttachAdds, Typed
<1>14. ASSUME NEW c \in Client, ReadEnds(c) PROVE Typed'
  <2>1. handler' \in [Client -> [pc: Pcs, life: 0..MaxLife]]
    BY <1>14, <1>g DEF ReadEnds, Pcs
  <2> QED BY <1>14, <1>t, <2>1 DEF ReadEnds, Typed, session, conn
<1>15. ASSUME NEW c \in Client, Detach(c) PROVE Typed'
  <2>1. handler' \in [Client -> [pc: Pcs, life: 0..MaxLife]] BY <1>15, <1>g DEF Detach, Pcs
  <2>2. clients' \in [Life -> SUBSET Client] BY <1>15, <1>t, <1>l DEF Detach
  <2> QED BY <1>15, <1>t, <2>1, <2>2 DEF Detach, Typed, conn
<1>16. ASSUME NEW c \in Client, HandlerCloses(c) PROVE Typed'
  <2>1. handler' \in [Client -> [pc: Pcs, life: 0..MaxLife]]
    BY <1>16, <1>g DEF HandlerCloses, Pcs
  <2> QED BY <1>16, <1>t, <1>c, <2>1 DEF HandlerCloses, Typed, session
<1>17. ASSUME NEW c \in Client, CloseRuns(c) PROVE Typed'
  BY <1>17, <1>t, <1>c DEF CloseRuns, Typed, session
<1>18. ASSUME NEW c \in Client, PumpWrites(c) PROVE Typed'
  <2>1. queue[c] \in Seq(Frame) /\ queue[c] # <<>> /\ seen[c] \in Frame
    BY <1>18, <1>t DEF PumpWrites, Deliver
  <2>2. Head(queue[c]) \in Frame /\ Tail(queue[c]) \in Seq(Frame) BY <2>1, Writing
  <2>3. queue' \in [Client -> Seq(Frame)] /\ seen' \in [Client -> Frame]
    BY <1>18, <1>t, <2>2 DEF PumpWrites, Deliver
  <2> QED BY <1>18, <1>t, <2>3 DEF PumpWrites, Typed, session
<1>19. ASSUME NEW c \in Client, PumpSeesDone(c) \/ PumpCloses(c) \/ PumpFails(c) PROVE Typed'
  BY <1>19, <1>t DEF PumpSeesDone, PumpCloses, PumpFails, Typed, session
<1>20. CASE UNCHANGED vars BY <1>20, <1>t DEF vars, Typed
<1>21. ASSUME NEW l \in Life, ShutTerminal(l) PROVE Typed'
  BY <1>21, <1>t DEF ShutTerminal, Typed, conn
<1>22. ASSUME NEW c \in Client, InputBegins(c) PROVE Typed'
  BY <1>22, <1>t DEF InputBegins, Typed, Pcs, session, conn
<1>23. ASSUME NEW c \in Client, InputEnds(c) PROVE Typed'
  <2>1. handler' \in [Client -> [pc: Pcs, life: 0..MaxLife]]
    BY <1>23, <1>g DEF InputEnds, Pcs
  <2> QED BY <1>23, <1>t, <2>1 DEF InputEnds, Typed, session, conn
<1> QED
  BY <1>1, <1>2, <1>3, <1>4, <1>5, <1>6, <1>7, <1>8, <1>9, <1>10, <1>11, <1>12, <1>13,
     <1>14, <1>15, <1>16, <1>17, <1>18, <1>19, <1>20, <1>21, <1>22, <1>23
  DEF Next, PumpStep, HandlerStep

LEMMA LivesInit == Init => Lives
  BY SizesAssumption DEF Init, Lives, Life

LEMMA LivesNext == Typed /\ Lives /\ [Next]_vars => Lives'
<1> SUFFICES ASSUME Typed, Lives, [Next]_vars PROVE Lives' OBVIOUS
<1> USE SizesAssumption DEF Lives, Typed, Life
<1>1. ASSUME NEW l \in Life, Broadcast(l) PROVE Lives'
  BY <1>1 DEF Broadcast, Dropped, Takers
<1>2. ASSUME NEW l \in Life, MarkStopped(l) PROVE Lives'
  BY <1>2 DEF MarkStopped
<1>3. ASSUME NEW l \in Life, ReleaseBuffer(l) PROVE Lives'
  BY <1>3 DEF ReleaseBuffer, conn
<1>4. CASE RestartPublish BY <1>4 DEF RestartPublish, conn
<1>5. CASE RestartTakes BY <1>5 DEF RestartTakes, Taken, conn
<1>6. CASE RestartEnds BY <1>6 DEF RestartEnds, conn
<1>7. CASE DeleteBegin BY <1>7 DEF DeleteBegin, conn
<1>8. CASE DeleteCloses BY <1>8 DEF DeleteCloses, CloseSoon
<1>9. ASSUME NEW c \in Client, RestartMoves(c) PROVE Lives'
  BY <1>9 DEF RestartMoves
<1>10. ASSUME NEW c \in Client, AttachFinds(c) PROVE Lives'
  BY <1>10 DEF AttachFinds, session, conn, At, GoTo
<1>11. ASSUME NEW c \in Client, AttachChecks(c) PROVE Lives'
  BY <1>11 DEF AttachChecks, session, conn, At, GoTo
<1>12. ASSUME NEW c \in Client, AttachRefused(c) PROVE Lives'
  BY <1>12 DEF AttachRefused, session, CloseNow, At, GoTo
<1>13. ASSUME NEW c \in Client, AttachAdds(c) PROVE Lives'
  BY <1>13 DEF AttachAdds, At, GoTo
<1>14. ASSUME NEW c \in Client, ReadEnds(c) PROVE Lives'
  BY <1>14 DEF ReadEnds, session, conn, At, GoTo
<1>15. ASSUME NEW c \in Client, Detach(c) PROVE Lives'
  BY <1>15 DEF Detach, conn, At, GoTo
<1>16. ASSUME NEW c \in Client, HandlerCloses(c) PROVE Lives'
  BY <1>16 DEF HandlerCloses, session, CloseNow, At, GoTo
<1>17. ASSUME NEW c \in Client, CloseRuns(c) PROVE Lives'
  BY <1>17 DEF CloseRuns, session, CloseNow
<1>18. ASSUME NEW c \in Client, PumpWrites(c) PROVE Lives'
  BY <1>18 DEF PumpWrites, session
<1>19. ASSUME NEW c \in Client, PumpSeesDone(c) \/ PumpCloses(c) \/ PumpFails(c) PROVE Lives'
  BY <1>19 DEF PumpSeesDone, PumpCloses, PumpFails, session
<1>20. CASE UNCHANGED vars BY <1>20 DEF vars
<1>21. ASSUME NEW l \in Life, ShutTerminal(l) PROVE Lives'
  BY <1>21 DEF ShutTerminal, conn
<1>22. ASSUME NEW c \in Client, InputBegins(c) PROVE Lives'
  BY <1>22 DEF InputBegins, session, conn, At
<1>23. ASSUME NEW c \in Client, InputEnds(c) PROVE Lives'
  <2>1. CASE GoTo(c, "reading") BY <1>23, <2>1 DEF InputEnds, session, conn, At, GoTo
  <2>2. CASE GoTo(c, "detach") BY <1>23, <2>2 DEF InputEnds, session, conn, At, GoTo
  <2> QED BY <1>23, <2>1, <2>2 DEF InputEnds
<1> QED
  BY <1>1, <1>2, <1>3, <1>4, <1>5, <1>6, <1>7, <1>8, <1>9, <1>10, <1>11, <1>12, <1>13,
     <1>14, <1>15, <1>16, <1>17, <1>18, <1>19, <1>20, <1>21, <1>22, <1>23
  DEF Next, PumpStep, HandlerStep

LEMMA PlacesInit == Init => Places
  BY DEF Init, Places, OneSession, NoneForgotten, UnattachedNowhere, Served, At

LEMMA PlacesNext == Typed /\ Lives /\ Places /\ [Next]_vars => Places'
<1> SUFFICES ASSUME Typed, Lives, Places, [Next]_vars PROVE Places' OBVIOUS
<1> USE SizesAssumption
    DEF Lives, Typed, Life, Places, OneSession, NoneForgotten, UnattachedNowhere, Unattached,
        Served, At
<1>1. ASSUME NEW l \in Life, Broadcast(l) PROVE Places'
  <2>1. PICK T \in Takers(clients[l]) :
          /\ clients' = [clients EXCEPT ![l] = clients[l] \ Dropped(clients[l], T)]
          /\ CloseSoon(Dropped(clients[l], T))
    BY <1>1 DEF Broadcast
  <2>2. /\ \A k \in Life \ {l} : clients'[k] = clients[k]
        /\ clients'[l] \subseteq clients[l]
        /\ \A c \in clients[l] : c \in clients'[l] \/ closing'[c]
        /\ \A c \in Client : closing[c] => closing'[c]
    BY <2>1 DEF Dropped, CloseSoon
  <2>3. UNCHANGED <<restart, handler, done>> BY <1>1 DEF Broadcast
  <2>4. OneSession'
    <3>1. \A k \in Life : clients'[k] \subseteq clients[k] BY <2>2
    <3> QED BY <2>3, <3>1
  <2>5. NoneForgotten' BY <2>2, <2>3
  <2>6. UnattachedNowhere' BY <2>2, <2>3
  <2> QED BY <2>4, <2>5, <2>6
<1>2. ASSUME NEW l \in Life, MarkStopped(l) PROVE Places'
  BY <1>2 DEF MarkStopped
<1>3. ASSUME NEW l \in Life, ReleaseBuffer(l) PROVE Places'
  BY <1>3 DEF ReleaseBuffer, conn
<1>4. CASE RestartPublish BY <1>4 DEF RestartPublish, conn
<1>5. CASE RestartTakes
  <2>1. /\ cur - 1 \in Life /\ restart'.hand = clients[cur - 1]
        /\ \A k \in Life : clients'[k] = IF k = cur - 1 THEN {} ELSE clients[k]
        /\ UNCHANGED <<handler, done, closing>> /\ restart.hand = {}
    BY <1>5 DEF RestartTakes, Taken, conn
  <2>2. OneSession' BY <2>1
  <2>3. NoneForgotten' BY <2>1
  <2>4. UnattachedNowhere' BY <2>1
  <2> QED BY <2>2, <2>3, <2>4
<1>6. CASE RestartEnds BY <1>6 DEF RestartEnds, conn
<1>7. CASE DeleteBegin BY <1>7 DEF DeleteBegin, conn
<1>8. CASE DeleteCloses BY <1>8 DEF DeleteCloses, CloseSoon
<1>9. ASSUME NEW c \in Client, RestartMoves(c) PROVE Places'
  BY <1>9 DEF RestartMoves
<1>10. ASSUME NEW c \in Client, AttachFinds(c) PROVE Places'
  BY <1>10 DEF AttachFinds, session, conn, At, GoTo
<1>11. ASSUME NEW c \in Client, AttachChecks(c) PROVE Places'
  BY <1>11 DEF AttachChecks, session, conn, At, GoTo
<1>12. ASSUME NEW c \in Client, AttachRefused(c) PROVE Places'
  BY <1>12 DEF AttachRefused, session, CloseNow, At, GoTo
<1>13. ASSUME NEW c \in Client, AttachAdds(c) PROVE Places'
  BY <1>13 DEF AttachAdds, At, GoTo
<1>14. ASSUME NEW c \in Client, ReadEnds(c) PROVE Places'
  BY <1>14 DEF ReadEnds, session, conn, At, GoTo
<1>15. ASSUME NEW c \in Client, Detach(c) PROVE Places'
  BY <1>15 DEF Detach, conn, At, GoTo
<1>16. ASSUME NEW c \in Client, HandlerCloses(c) PROVE Places'
  BY <1>16 DEF HandlerCloses, session, CloseNow, At, GoTo
<1>17. ASSUME NEW c \in Client, CloseRuns(c) PROVE Places'
  BY <1>17 DEF CloseRuns, session, CloseNow
<1>18. ASSUME NEW c \in Client, PumpWrites(c) PROVE Places'
  BY <1>18 DEF PumpWrites, session
<1>19. ASSUME NEW c \in Client, PumpSeesDone(c) \/ PumpCloses(c) \/ PumpFails(c) PROVE Places'
  BY <1>19 DEF PumpSeesDone, PumpCloses, PumpFails, session
<1>20. CASE UNCHANGED vars BY <1>20 DEF vars
<1>21. ASSUME NEW l \in Life, ShutTerminal(l) PROVE Places'
  BY <1>21 DEF ShutTerminal, conn
<1>22. ASSUME NEW c \in Client, InputBegins(c) PROVE Places'
  BY <1>22 DEF InputBegins, session, conn, At
<1>23. ASSUME NEW c \in Client, InputEnds(c) PROVE Places'
  <2>1. CASE GoTo(c, "reading") BY <1>23, <2>1 DEF InputEnds, session, conn, At, GoTo
  <2>2. CASE GoTo(c, "detach") BY <1>23, <2>2 DEF InputEnds, session, conn, At, GoTo
  <2> QED BY <1>23, <2>1, <2>2 DEF InputEnds
<1> QED
  BY <1>1, <1>2, <1>3, <1>4, <1>5, <1>6, <1>7, <1>8, <1>9, <1>10, <1>11, <1>12, <1>13,
     <1>14, <1>15, <1>16, <1>17, <1>18, <1>19, <1>20, <1>21, <1>22, <1>23
  DEF Next, PumpStep, HandlerStep

-----------------------------------------------------------------------------
(* Streams                                                                 *)

LEMMA StreamsInit == Init => Streams
<1> SUFFICES ASSUME Init, NEW c \in Client PROVE StreamOf(c) BY DEF Streams
<1>1. queue[c] = <<>> /\ seen[c] = Nothing /\ restart.hand = {} BY DEF Init
<1>2. \A l \in Life : c \notin clients[l] BY DEF Init
<1>3. InOrder(Nothing, <<>>)
  <2>1. Len(<<>>) = 0 BY EmptySeq
  <2>2. \A i \in 1..Len(<<>>) - 1 : FALSE BY <2>1
  <2> QED BY <2>2 DEF InOrder
<1> QED BY <1>1, <1>2, <1>3 DEF StreamOf

LEMMA StreamsNext ==
  Typed /\ Lives /\ Places /\ Streams /\ Typed' /\ [Next]_vars => Streams'
<1> SUFFICES ASSUME Typed, Lives, Places, Streams, Typed', [Next]_vars,
                    NEW c \in Client
             PROVE  StreamOf(c)'
  BY DEF Streams
<1>t. /\ queue \in [Client -> Seq(Frame)] /\ seen \in [Client -> Frame]
      /\ clients \in [Life -> SUBSET Client] /\ handler \in [Client -> [pc: Pcs, life: 0..MaxLife]]
      /\ status \in [Life -> {"unborn", "running", "stopped"}] /\ buf \in [Life -> Run]
      /\ refused \in [Client -> BOOLEAN] /\ cur \in 0..MaxLife
      /\ restart \in [pc: {"no", "take", "move"}, hand: SUBSET Client]
  BY DEF Typed
<1>c. queue[c] \in Seq(Frame) /\ seen[c] \in Frame /\ LastSent(c) \in Frame
  BY <1>t, LastType DEF LastSent
<1>s. StreamOf(c) BY DEF Streams
<1>p. /\ Unattached(c) => c \notin restart.hand /\ \A l \in Life : c \notin clients[l]
      /\ \A l, k \in Life : c \in clients[l] /\ c \in clients[k] => l = k
      /\ c \in restart.hand => \A l \in Life : c \notin clients[l]
      /\ c \in restart.hand => restart.pc = "move"
  BY DEF Places, UnattachedNowhere, OneSession, Lives
\* A step that sends the client nothing, and puts it nowhere.
<1>u. ASSUME queue'[c] = queue[c], seen'[c] = seen[c], refused[c] => refused'[c],
             Unattached(c)' => Unattached(c),
             \A l \in Life : c \in clients'[l] => c \in clients[l],
             c \in restart'.hand => c \in restart.hand /\ cur' = cur,
             \A l \in Life : c \in clients'[l] /\ status'[l] = "running" =>
               status[l] = "running" /\ buf'[l] = buf[l]
      PROVE  StreamOf(c)'
  BY <1>s, <1>u DEF StreamOf, LastSent
\* A step that sends the client a frame of the life it watches.
<1>f. ASSUME NEW l \in Life, c \in clients[l], NEW f \in Frame,
             queue'[c] = Append(queue[c], f), UNCHANGED <<seen, restart, handler>>,
             refused'[c] = refused[c],
             f.life = l, ~refused[c] => Follows(LastSent(c), f),
             \A k \in Life : c \in clients'[k] => c \in clients[k],
             status'[l] = "running" => Complete(f, buf'[l])
      PROVE  StreamOf(c)'
  <2>1. ~Unattached(c)' /\ c \notin restart'.hand BY <1>f, <1>p DEF Unattached
  <2>2. \A k \in Life : c \in clients'[k] => k = l BY <1>f, <1>p
  <2>3. LastSent(c)' = f BY <1>c, <1>f, Appending DEF LastSent
  <2>4. ~refused[c] => InOrder(seen[c], Append(queue[c], f))
    BY <1>c, <1>f, <1>s, Appending DEF StreamOf, LastSent
  <2> QED BY <1>f, <2>1, <2>2, <2>3, <2>4 DEF StreamOf
\* A step that attaches the client to a later life than it was sent before.
<1>a. ASSUME NEW l \in Life, Primed(c, l), clients' = [clients EXCEPT ![l] = clients[l] \cup {c}],
             \A k \in Life : c \notin clients[k],
             ~refused[c] => LastSent(c).life < l, c \notin restart'.hand,
             ~Unattached(c)', UNCHANGED <<seen, buf>>
      PROVE  StreamOf(c)'
  <2>1. ~refused'[c] => ~refused[c] /\ queue'[c] = PrimedQueue(queue[c], l) BY <1>a, Priming
  <2>2. \A k \in Life : c \in clients'[k] => k = l BY <1>a, <1>t
  <2>3. buf[l] \in Run BY <1>t
  <2>4. ASSUME ~refused'[c]
        PROVE  /\ InOrder(seen'[c], queue'[c])
               /\ LastSent(c)'.life = l
               /\ Complete(LastSent(c)', buf'[l])
    <3>1. InOrder(seen[c], queue[c]) /\ Last(seen[c], queue[c]).life < l
      BY <1>a, <1>s, <2>1, <2>4 DEF StreamOf, LastSent
    <3>2. /\ InOrder(seen[c], PrimedQueue(queue[c], l))
          /\ Last(seen[c], PrimedQueue(queue[c], l)).life = l
          /\ Complete(Last(seen[c], PrimedQueue(queue[c], l)), buf[l])
      BY <1>c, <2>3, <3>1, PrimedInOrder
    <3> QED BY <1>a, <2>1, <2>4, <3>2 DEF LastSent
  <2> QED BY <1>a, <2>2, <2>4 DEF StreamOf
<1>1. ASSUME NEW l \in Life, Broadcast(l) PROVE StreamOf(c)'
  <2> DEFINE chunk == [from |-> buf[l].to + 1, to |-> buf[l].to + 1]
  <2>1. PICK T \in Takers(clients[l]) :
          /\ Enqueue(T, Bytes(l, chunk))
          /\ clients' = [clients EXCEPT ![l] = clients[l] \ Dropped(clients[l], T)]
    BY <1>1 DEF Broadcast
  <2>2. /\ status[l] = "running" /\ buf' = [buf EXCEPT ![l] = Written(buf[l])]
        /\ UNCHANGED <<seen, restart, handler, refused, status, cur>>
    BY <1>1 DEF Broadcast
  <2>3. \A k \in Life : clients'[k] = IF k = l THEN clients[l] \cap T ELSE clients[k]
    BY <1>t, <2>1 DEF Dropped
  <2>4. buf[l] \in Run /\ buf[l].to < MaxChunk /\ buf'[l] = Written(buf[l])
    BY <1>1, <1>t, <2>2 DEF Broadcast
  <2>5. CASE c \in T
    <3>1. c \in clients[l] BY <2>5 DEF Takers
    <3>2. queue'[c] = Append(queue[c], Bytes(l, chunk)) BY <2>1, <2>5 DEF Enqueue
    <3>3. Bytes(l, chunk) \in Frame BY <2>4, FrameTypes, WrittenType
    <3>4. Complete(Bytes(l, chunk), buf'[l])
      BY <2>4, WrittenType DEF Complete, Bytes
    <3>5. ASSUME ~refused[c] PROVE Follows(LastSent(c), Bytes(l, chunk))
      <4>1. LastSent(c).life = l /\ Complete(LastSent(c), buf[l])
        BY <1>s, <2>2, <3>1, <3>5 DEF StreamOf
      <4> QED BY <4>1 DEF Complete, Follows, Bytes
    <3>6. Bytes(l, chunk).life = l BY DEF Bytes
    <3>7. \A k \in Life : c \in clients'[k] => c \in clients[k] BY <2>3
    <3> HIDE DEF chunk
    <3> QED BY <1>f, <2>2, <3>1, <3>2, <3>3, <3>4, <3>5, <3>6, <3>7
  <2>6. CASE c \notin T
    <3>1. queue'[c] = queue[c] BY <2>1, <2>6 DEF Enqueue
    <3>2. \A k \in Life : c \in clients'[k] => c \in clients[k] /\ k # l BY <2>3, <2>6
    <3>3. \A k \in Life \ {l} : buf'[k] = buf[k] BY <1>t, <2>2
    <3> QED BY <1>u, <2>2, <3>1, <3>2, <3>3 DEF Unattached
  <2> QED BY <2>5, <2>6
<1>2. ASSUME NEW l \in Life, MarkStopped(l) PROVE StreamOf(c)'
  <2>1. PICK T \in Takers(clients[l]) :
          /\ Enqueue(T, Exit(l))
          /\ refused' = [d \in Client |-> refused[d] \/ d \in clients[l] \ T]
    BY <1>2 DEF MarkStopped
  <2>2. /\ status[l] = "running" /\ status' = [status EXCEPT ![l] = "stopped"]
        /\ UNCHANGED <<seen, restart, handler, clients, buf, cur>>
    BY <1>2 DEF MarkStopped
  <2>3. status'[l] = "stopped" /\ \A k \in Life \ {l} : status'[k] = status[k]
    BY <1>t, <2>2
  <2>4. CASE c \in T
    <3>1. c \in clients[l] BY <2>4 DEF Takers
    <3>2. queue'[c] = Append(queue[c], Exit(l)) BY <2>1, <2>4 DEF Enqueue
    <3>3. Exit(l) \in Frame /\ Exit(l).life = l BY FrameTypes DEF Exit
    <3>4. ASSUME ~refused[c] PROVE Follows(LastSent(c), Exit(l))
      <4>1. LastSent(c).life = l /\ Complete(LastSent(c), buf[l])
        BY <1>s, <2>2, <3>1, <3>4 DEF StreamOf
      <4> QED BY <4>1 DEF Complete, Follows, Exit
    <3>5. refused'[c] = refused[c] BY <1>t, <2>1, <2>4
    <3> QED BY <1>f, <2>2, <2>3, <3>1, <3>2, <3>3, <3>4, <3>5
  <2>5. CASE c \notin T
    <3>1. queue'[c] = queue[c] /\ (refused[c] => refused'[c])
      BY <2>1, <2>5 DEF Enqueue
    <3>2. \A k \in Life : status'[k] = "running" => status[k] = "running" BY <2>3
    <3> QED BY <1>u, <2>2, <3>1, <3>2 DEF Unattached
  <2> QED BY <2>4, <2>5
<1>3. ASSUME NEW l \in Life, ReleaseBuffer(l) PROVE StreamOf(c)'
  <2>1. /\ status[l] = "stopped" /\ \A k \in Life \ {l} : buf'[k] = buf[k]
        /\ UNCHANGED <<seen, queue, refused, restart, handler, clients, status, cur>>
    BY <1>3, <1>t DEF ReleaseBuffer, conn
  <2> QED BY <1>u, <2>1 DEF Unattached
<1>4. CASE RestartPublish
  <2>1. cur + 1 \in Life /\ cur # 0 BY <1>4, <1>t, SizesAssumption DEF RestartPublish, Life
  <2>2. clients[cur + 1] = {}
    <3>1. cur + 1 > cur BY <1>t
    <3>2. status[cur + 1] = "unborn" BY <2>1, <3>1 DEF Lives
    <3> QED BY <2>1, <3>2 DEF Lives
  <2>3. restart.pc = "no" /\ restart'.hand = restart.hand BY <1>4, <1>t DEF RestartPublish
  <2>4. \A k \in Life \ {cur + 1} : status'[k] = status[k] /\ buf'[k] = buf[k]
    BY <1>4, <1>t DEF RestartPublish
  <2>5. UNCHANGED <<seen, queue, refused, handler, clients>> BY <1>4 DEF RestartPublish, conn
  <2> QED BY <1>p, <1>u, <2>2, <2>3, <2>4, <2>5 DEF Unattached
<1>5. CASE RestartTakes
  <2>1. cur - 1 \in Life /\ cur - 1 < cur
    BY <1>5, <1>t, SizesAssumption DEF RestartTakes, Lives, Life
  <2>2. /\ restart'.hand = clients[cur - 1]
        /\ \A k \in Life : clients'[k] = IF k = cur - 1 THEN {} ELSE clients[k]
        /\ UNCHANGED <<cur, seen, queue, refused, handler, status, buf>>
    BY <1>5, <1>t DEF RestartTakes, Taken, conn
  <2>3. CASE c \in restart'.hand
    <3>1. c \in clients[cur - 1] /\ \A k \in Life : c \notin clients'[k]
      BY <1>p, <2>1, <2>2, <2>3
    <3>2. ~refused[c] => LastSent(c).life < cur' BY <1>s, <2>1, <2>2, <3>1 DEF StreamOf
    <3> QED BY <1>s, <2>2, <3>1, <3>2 DEF StreamOf, LastSent, Unattached
  <2>4. CASE c \notin restart'.hand BY <1>u, <2>2, <2>4 DEF Unattached
  <2> QED BY <2>3, <2>4
<1>6. CASE RestartEnds
  <2>1. /\ restart'.hand = {}
        /\ UNCHANGED <<cur, seen, queue, refused, handler, status, buf, clients>>
    BY <1>6 DEF RestartEnds, conn
  <2> QED BY <1>u, <2>1 DEF Unattached
<1>7. CASE DeleteBegin
  <2>1. /\ restart.pc = "no"
        /\ UNCHANGED <<seen, queue, refused, handler, status, buf, clients, restart>>
    BY <1>7 DEF DeleteBegin, conn
  <2> QED BY <1>p, <1>u, <2>1 DEF Unattached
<1>8. CASE DeleteCloses
  <2>1. /\ \A k \in Life : clients'[k] \subseteq clients[k]
        /\ UNCHANGED <<cur, seen, queue, refused, handler, status, buf, restart>>
    BY <1>8, <1>t DEF DeleteCloses
  <2> QED BY <1>u, <2>1 DEF Unattached
<1>9. ASSUME NEW d \in Client, RestartMoves(d) PROVE StreamOf(c)'
  <2>1. cur \in Life BY <1>9, <1>t, SizesAssumption DEF RestartMoves, Lives, Life
  <2>2. /\ clients' = [clients EXCEPT ![cur] = clients[cur] \cup {d}]
        /\ restart'.hand = restart.hand \ {d} /\ d \in restart.hand /\ Primed(d, cur)
        /\ UNCHANGED <<cur, seen, handler, status, buf>>
    BY <1>9, <1>t DEF RestartMoves
  <2>3. CASE c = d
    <3>1. /\ ~Unattached(c)'
          /\ ~refused[c] => LastSent(c).life < cur
          /\ \A k \in Life : c \notin clients[k]
      BY <1>p, <1>s, <2>2, <2>3 DEF StreamOf, Unattached
    <3> QED BY <1>a, <2>1, <2>2, <2>3, <3>1
  <2>4. CASE c # d
    <3>1. queue'[c] = queue[c] /\ refused'[c] = refused[c] BY <2>1, <2>2, <2>4, Priming
    <3>2. \A k \in Life : c \in clients'[k] => c \in clients[k] BY <1>t, <2>2, <2>4
    <3> QED BY <1>u, <2>2, <2>4, <3>1, <3>2 DEF Unattached
  <2> QED BY <2>3, <2>4
<1>10. ASSUME NEW d \in Client, AttachAdds(d) PROVE StreamOf(c)'
  <2> DEFINE l == handler[d].life
  <2>1. l \in Life /\ Unattached(d) BY <1>10 DEF AttachAdds, At, Lives, Unattached
  <2>2. /\ clients' = [clients EXCEPT ![l] = clients[l] \cup {d}] /\ Primed(d, l)
        /\ handler' = [handler EXCEPT ![d] = [pc |-> "reading", life |-> 0]]
        /\ UNCHANGED <<cur, seen, restart, status, buf>>
    BY <1>10 DEF AttachAdds, GoTo
  <2> HIDE DEF l
  <2>3. CASE c = d
    <3>1. queue[c] = <<>> /\ seen[c] = Nothing BY <1>s, <2>1, <2>3 DEF StreamOf
    <3>2. LastSent(c).life = 0 BY <3>1 DEF LastSent, Last, Nothing
    <3>3. LastSent(c).life < l BY <2>1, <3>2 DEF Life
    <3>4. ~Unattached(c)' BY <1>t, <2>2, <2>3 DEF Unattached
    <3>5. c \notin restart'.hand /\ \A k \in Life : c \notin clients[k]
      BY <1>p, <2>1, <2>2, <2>3
    <3> QED BY <1>a, <2>1, <2>2, <2>3, <3>3, <3>4, <3>5
  <2>4. CASE c # d
    <3>1. queue'[c] = queue[c] /\ refused'[c] = refused[c] BY <2>1, <2>2, <2>4, Priming
    <3>2. \A k \in Life : c \in clients'[k] => c \in clients[k] BY <1>t, <2>2, <2>4
    <3>3. handler'[c] = handler[c] BY <1>t, <2>2, <2>4
    <3> QED BY <1>u, <2>2, <3>1, <3>2, <3>3 DEF Unattached
  <2> QED BY <2>3, <2>4
<1>11. ASSUME NEW d \in Client, PumpWrites(d) PROVE StreamOf(c)'
  <2>1. /\ queue[d] # <<>> /\ seen' = [seen EXCEPT ![d] = Head(queue[d])]
        /\ queue' = [queue EXCEPT ![d] = Tail(queue[d])]
        /\ UNCHANGED <<cur, refused, restart, status, buf, clients, handler>>
    BY <1>11 DEF PumpWrites, Deliver, session
  <2>2. CASE c = d
    <3>1. ~Unattached(c)' BY <1>s, <2>1, <2>2 DEF StreamOf, Unattached
    <3>2. seen'[c] = Head(queue[c]) /\ queue'[c] = Tail(queue[c]) BY <1>t, <2>1, <2>2
    <3>3. LastSent(c)' = LastSent(c) BY <1>c, <2>1, <2>2, <3>2, Writing DEF LastSent
    <3>4. InOrder(seen[c], queue[c]) => InOrder(seen'[c], queue'[c])
      BY <1>c, <2>1, <2>2, <3>2, Writing
    <3> QED BY <1>s, <2>1, <3>1, <3>3, <3>4 DEF StreamOf
  <2>3. CASE c # d
    <3>1. seen'[c] = seen[c] /\ queue'[c] = queue[c] BY <1>t, <2>1, <2>3
    <3> QED BY <1>u, <2>1, <3>1 DEF Unattached
  <2> QED BY <2>2, <2>3
\* The handler and the pump otherwise send nothing.
<1>12. ASSUME UNCHANGED <<cur, queue, seen, refused, restart, status, buf>>,
              \A k \in Life : clients'[k] \subseteq clients[k],
              Unattached(c)' => Unattached(c)
       PROVE  StreamOf(c)'
  BY <1>u, <1>12
<1>13. ASSUME NEW d \in Client,
              \/ AttachFinds(d) \/ AttachChecks(d) \/ AttachRefused(d) \/ ReadEnds(d)
              \/ InputBegins(d) \/ InputEnds(d) \/ HandlerCloses(d)
       PROVE  StreamOf(c)'
  <2>1. UNCHANGED <<cur, queue, seen, refused, restart, status, buf, clients>>
    BY <1>13 DEF AttachFinds, AttachChecks, AttachRefused, ReadEnds, InputBegins, InputEnds,
                 HandlerCloses, session, conn
  <2>2. Unattached(c)' => Unattached(c)
    <3>1. \/ handler[d].pc \in {"new", "check"}
          \/ handler'[d].pc \in {"reading", "writing", "detach", "gone"}
      BY <1>13, <1>t DEF AttachFinds, AttachChecks, AttachRefused, ReadEnds, InputBegins,
                         InputEnds, HandlerCloses, At, GoTo
    <3>2. \A e \in Client \ {d} : handler'[e] = handler[e]
      BY <1>13, <1>t DEF AttachFinds, AttachChecks, AttachRefused, ReadEnds, InputBegins,
                         InputEnds, HandlerCloses, GoTo
    <3> QED BY <3>1, <3>2 DEF Unattached
  <2> QED BY <1>12, <2>1, <2>2
<1>14. ASSUME NEW d \in Client, Detach(d) PROVE StreamOf(c)'
  <2>1. UNCHANGED <<cur, queue, seen, refused, restart, status, buf>> BY <1>14 DEF Detach, conn
  <2>2. \A k \in Life : clients'[k] \subseteq clients[k] BY <1>14 DEF Detach
  <2>3. Unattached(c)' => Unattached(c) BY <1>14, <1>t DEF Detach, Unattached, At, GoTo
  <2> QED BY <1>12, <2>1, <2>2, <2>3
<1>15. ASSUME NEW d \in Client,
              CloseRuns(d) \/ PumpSeesDone(d) \/ PumpCloses(d) \/ PumpFails(d)
       PROVE  StreamOf(c)'
  <2>1. UNCHANGED <<cur, queue, seen, refused, restart, status, buf, clients, handler>>
    BY <1>15 DEF CloseRuns, PumpSeesDone, PumpCloses, PumpFails, session
  <2> QED BY <1>12, <2>1 DEF Unattached
<1>16. CASE UNCHANGED vars
  <2>1. UNCHANGED <<cur, queue, seen, refused, restart, status, buf, clients, handler>>
    BY <1>16 DEF vars
  <2> QED BY <1>12, <2>1 DEF Unattached
<1>17. ASSUME NEW l \in Life, ShutTerminal(l) PROVE StreamOf(c)'
  <2>1. UNCHANGED <<cur, queue, seen, refused, restart, status, buf, clients, handler>>
    BY <1>17 DEF ShutTerminal, conn
  <2> QED BY <1>12, <2>1 DEF Unattached
<1> QED
  BY <1>1, <1>2, <1>3, <1>4, <1>5, <1>6, <1>7, <1>8, <1>9, <1>10, <1>11, <1>13, <1>14,
     <1>15, <1>16, <1>17
  DEF Next, PumpStep, HandlerStep

-----------------------------------------------------------------------------
LEMMA InvNext == Inv /\ [Next]_vars => Inv'
<1> SUFFICES ASSUME Inv, [Next]_vars PROVE Inv' OBVIOUS
<1>1. Typed /\ Lives /\ Places /\ Streams BY DEF Inv
<1>2. Typed' BY <1>1, TypedNext
<1>3. Lives' BY <1>1, LivesNext
<1>4. Places' BY <1>1, PlacesNext
<1>5. Streams' BY <1>1, <1>2, StreamsNext
<1> QED BY <1>2, <1>3, <1>4, <1>5 DEF Inv

LEMMA Invariance == Spec => []Inv
<1>1. Init => Inv BY TypedInit, LivesInit, PlacesInit, StreamsInit DEF Inv
<1> QED BY <1>1, InvNext, PTL DEF Spec

\* Stream(c), element by element.
LEMMA StreamElements ==
  ASSUME NEW c \in Client, seen[c] \in Frame, queue[c] \in Seq(Frame)
  PROVE  /\ Len(Stream(c)) = Len(queue[c]) + 1
         /\ Stream(c)[1] = seen[c]
         /\ \A i \in 1..Len(queue[c]) : Stream(c)[i + 1] = queue[c][i]
<1>1. <<seen[c]>> \in Seq(Frame) /\ Len(<<seen[c]>>) = 1 /\ <<seen[c]>>[1] = seen[c] OBVIOUS
<1>2. Len(queue[c]) \in Nat BY LenProperties
<1> DEFINE s == <<seen[c]>>
<1>3. /\ Len(s \o queue[c]) = Len(s) + Len(queue[c])
      /\ \A i \in 1..Len(s) + Len(queue[c]) :
           (s \o queue[c])[i] = IF i <= Len(s) THEN s[i] ELSE queue[c][i - Len(s)]
  BY <1>1, ConcatProperties
<1>4. Stream(c) = s \o queue[c] BY DEF Stream
<1>5. Len(s) = 1 /\ s[1] = seen[c] BY <1>1
<1> HIDE DEF s
<1>6. Len(Stream(c)) = Len(queue[c]) + 1 BY <1>2, <1>3, <1>4, <1>5
<1>7. Stream(c)[1] = seen[c] BY <1>2, <1>3, <1>4, <1>5
<1>8. \A i \in 1..Len(queue[c]) : Stream(c)[i + 1] = queue[c][i]
  <2> TAKE i \in 1..Len(queue[c])
  <2>1. i + 1 \in 1..1 + Len(queue[c]) /\ ~(i + 1 <= 1) /\ (i + 1) - 1 = i BY <1>2
  <2> QED BY <1>3, <1>4, <1>5, <2>1
<1> QED BY <1>6, <1>7, <1>8

\* What a browser is sent is in order: the attached frame, the replay, each
\* later chunk once, and exit, of one life after the other (attach, broadcast,
\* markStopped, takeClients).
THEOREM StreamsAreInOrder == Spec => []StreamInOrder
<1>1. Inv => StreamInOrder
  <2> SUFFICES ASSUME Inv, NEW c \in Client, ~refused[c], NEW i \in 1..Len(queue[c])
               PROVE  Follows(Stream(c)[i], Stream(c)[i + 1])
    BY DEF StreamInOrder
  <2>1. queue[c] \in Seq(Frame) /\ seen[c] \in Frame /\ InOrder(seen[c], queue[c])
    BY DEF Inv, Typed, Streams, StreamOf
  <2>2. Len(queue[c]) \in Nat BY <2>1, LenProperties
  <2>3. Stream(c)[i + 1] = queue[c][i] BY <2>1, StreamElements
  <2>4. CASE i = 1
    <3>1. queue[c] # <<>> BY <2>2, EmptySeq
    <3> QED BY <2>1, <2>3, <2>4, <3>1, StreamElements DEF InOrder
  <2>5. CASE i # 1
    <3>1. i - 1 \in 1..Len(queue[c]) - 1 /\ i - 1 \in 1..Len(queue[c]) /\ (i - 1) + 1 = i
      BY <2>2, <2>5
    <3>2. Stream(c)[i] = queue[c][i - 1] BY <2>1, <3>1, StreamElements
    <3>3. Follows(queue[c][i - 1], queue[c][(i - 1) + 1]) BY <2>1, <3>1 DEF InOrder
    <3> QED BY <2>3, <3>1, <3>2, <3>3
  <2> QED BY <2>4, <2>5
<1> QED BY <1>1, Invariance, PTL

\* A watcher of a running session has, or has on its way, all of its output
\* (attach, broadcast).
THEOREM StreamsAreComplete == Spec => []StreamComplete
<1>1. Inv => StreamComplete
  <2> SUFFICES ASSUME Inv, NEW l \in Life, NEW c \in clients[l],
                      status[l] = "running", ~refused[c]
               PROVE  LET last == Stream(c)[Len(Stream(c))] IN
                        last.life = l /\ Complete(last, buf[l])
    BY DEF StreamComplete, Complete
  <2>1. c \in Client BY DEF Inv, Typed
  <2>2. queue[c] \in Seq(Frame) /\ seen[c] \in Frame BY <2>1 DEF Inv, Typed
  <2>3. LastSent(c).life = l /\ Complete(LastSent(c), buf[l])
    BY <2>1 DEF Inv, Streams, StreamOf
  <2>4. Stream(c)[Len(Stream(c))] = LastSent(c)
    <3>1. CASE queue[c] = <<>>
      <4>1. Len(queue[c]) = 0 BY <3>1, EmptySeq
      <4>2. Len(Stream(c)) = Len(queue[c]) + 1 BY <2>1, <2>2, StreamElements
      <4>3. Len(Stream(c)) = 1 BY <4>1, <4>2
      <4> QED BY <2>1, <2>2, <3>1, <4>3, StreamElements DEF LastSent, Last
    <3>2. CASE queue[c] # <<>>
      <4>1. Len(queue[c]) \in Nat \ {0} BY <2>2, <3>2, EmptySeq
      <4>2. Len(queue[c]) \in 1..Len(queue[c]) BY <4>1
      <4>3. Stream(c)[Len(queue[c]) + 1] = queue[c][Len(queue[c])]
        BY <2>1, <2>2, <4>2, StreamElements
      <4>4. Len(Stream(c)) = Len(queue[c]) + 1 BY <2>1, <2>2, StreamElements
      <4> QED BY <3>2, <4>3, <4>4 DEF LastSent, Last
    <3> QED BY <3>1, <3>2
  <2> QED BY <2>3, <2>4
<1> QED BY <1>1, Invariance, PTL

\* A connection is in one client set at most, also while a restart moves it
\* (takeClients).
THEOREM OneSessionEach == Spec => []OneSession
<1>1. Inv => OneSession BY DEF Inv, Places
<1> QED BY <1>1, Invariance, PTL

\* An open connection that is served is in a client set, or in the hands of the
\* restart that will put it in one (broadcast, closeClients, Restart).
THEOREM NobodyIsForgotten == Spec => []NoneForgotten
<1>1. Inv => NoneForgotten BY DEF Inv, Places
<1> QED BY <1>1, Invariance, PTL

-----------------------------------------------------------------------------
(* Queues and pumps                                                        *)

\* A queue holds no more than its channel, and what is owed to a closed client
\* is still in it.
Pumps ==
  /\ pump \in [Client -> {"running", "flushing", "closed", "failed"}]
  /\ owed \in [Client -> Nat]
  /\ \A c \in Client :
       /\ Len(queue[c]) <= QueueSize /\ owed[c] <= Len(queue[c])
       /\ pump[c] \in {"flushing", "closed"} => done[c]
       /\ pump[c] = "closed" => owed[c] = 0

LEMMA PumpsInit == Init => Pumps
<1> SUFFICES ASSUME Init PROVE Pumps OBVIOUS
<1>1. \A c \in Client : Len(queue[c]) = 0 BY EmptySeq DEF Init
<1> QED BY <1>1, SizesAssumption DEF Init, Pumps

LEMMA PumpsNext == Inv /\ Inv' /\ Pumps /\ [Next]_vars => Pumps'
<1> SUFFICES ASSUME Inv, Inv', Pumps, [Next]_vars PROVE Pumps' OBVIOUS
<1>t. /\ queue \in [Client -> Seq(Frame)] /\ queue' \in [Client -> Seq(Frame)]
      /\ clients \in [Life -> SUBSET Client] /\ done \in [Client -> BOOLEAN]
      /\ pump \in [Client -> {"running", "flushing", "closed", "failed"}]
      /\ owed \in [Client -> Nat] /\ cur \in 0..MaxLife /\ Typed /\ Lives
  BY DEF Inv, Typed, Pumps
<1>l. \A c \in Client : Len(queue[c]) \in Nat /\ Len(queue'[c]) \in Nat
  BY <1>t, LenProperties
\* A step that adds to the queues, within their bounds.
<1>q. ASSUME UNCHANGED <<pump, owed, done>>,
             \A c \in Client : Len(queue'[c]) >= Len(queue[c]) /\ Len(queue'[c]) <= QueueSize
      PROVE  Pumps'
  BY <1>l, <1>q DEF Pumps
<1>e. ASSUME NEW l \in Life, NEW T \in Takers(clients[l]), NEW f \in Frame, Enqueue(T, f),
             UNCHANGED <<pump, owed, done>>
      PROVE  Pumps'
  <2>1. ASSUME NEW c \in Client
        PROVE  Len(queue'[c]) >= Len(queue[c]) /\ Len(queue'[c]) <= QueueSize
    <3>1. CASE c \in T
      <4>1. Len(queue[c]) < QueueSize BY <1>e, <3>1 DEF Takers, Room
      <4>2. Len(queue'[c]) = Len(queue[c]) + 1
        BY <1>e, <1>t, <3>1, AppendProperties DEF Enqueue
      <4> QED BY <1>l, <4>1, <4>2, SizesAssumption
    <3>2. CASE c \notin T
      <4>1. queue'[c] = queue[c] BY <1>e, <3>2 DEF Enqueue
      <4> QED BY <1>l, <4>1 DEF Pumps
    <3> QED BY <3>1, <3>2
  <2> QED BY <1>e, <1>q, <2>1
<1>p. ASSUME NEW c \in Client, NEW l \in Life, Primed(c, l), UNCHANGED <<pump, owed, done>>
      PROVE  Pumps'
  <2>1. Len(queue'[c]) >= Len(queue[c]) /\ Len(queue'[c]) <= QueueSize
    <3>1. Len(queue'[c]) \in Len(queue[c])..QueueSize BY <1>p, <1>t, Priming
    <3> QED BY <1>l, <3>1, SizesAssumption
  <2>2. \A d \in Client \ {c} : queue'[d] = queue[d] BY <1>p, <1>t, Priming
  <2>3. \A d \in Client : Len(queue'[d]) >= Len(queue[d]) /\ Len(queue'[d]) <= QueueSize
    BY <1>l, <2>1, <2>2 DEF Pumps
  <2> QED BY <1>p, <1>q, <2>3
<1>u. ASSUME UNCHANGED <<queue, pump, owed, done>> PROVE Pumps'
  BY <1>u DEF Pumps
\* Client.Close.
<1>c. ASSUME NEW c \in Client, CloseNow(c), UNCHANGED <<queue, pump>> PROVE Pumps'
  <2>1. /\ \A d \in Client \ {c} : owed'[d] = owed[d] /\ done'[d] = done[d]
        /\ done'[c] /\ owed'[c] = IF done[c] THEN owed[c] ELSE Len(queue[c])
        /\ owed' = [owed EXCEPT ![c] = IF done[c] THEN owed[c] ELSE Len(queue[c])]
    BY <1>c, <1>t DEF CloseNow
  <2>2. owed' \in [Client -> Nat] BY <1>l, <1>t, <2>1
  <2>3. \A d \in Client : owed'[d] <= Len(queue[d]) BY <1>l, <1>t, <2>1 DEF Pumps
  <2> QED BY <1>c, <1>t, <2>1, <2>2, <2>3 DEF Pumps
<1>1. ASSUME NEW l \in Life, Broadcast(l) PROVE Pumps'
  <2>1. buf[l] \in Run /\ buf[l].to < MaxChunk BY <1>1, <1>t DEF Broadcast, Typed
  <2>2. Bytes(l, [from |-> buf[l].to + 1, to |-> buf[l].to + 1]) \in Frame
    BY <2>1, WrittenType, FrameTypes
  <2> QED BY <1>1, <1>e, <2>2 DEF Broadcast
<1>2. ASSUME NEW l \in Life, MarkStopped(l) PROVE Pumps'
  <2>1. Exit(l) \in Frame BY FrameTypes
  <2> QED BY <1>2, <1>e, <2>1 DEF MarkStopped
<1>3. ASSUME NEW l \in Life, ReleaseBuffer(l) PROVE Pumps'
  BY <1>3, <1>u DEF ReleaseBuffer, conn
<1>4. CASE RestartPublish \/ RestartTakes \/ RestartEnds \/ DeleteBegin \/ DeleteCloses
  BY <1>4, <1>u DEF RestartPublish, RestartTakes, RestartEnds, DeleteBegin, DeleteCloses, conn
<1>5. ASSUME NEW c \in Client, RestartMoves(c) PROVE Pumps'
  <2>1. cur \in Life BY <1>5, <1>t, SizesAssumption DEF RestartMoves, Lives, Life
  <2> QED BY <1>5, <1>p, <2>1 DEF RestartMoves
<1>6. ASSUME NEW c \in Client, AttachAdds(c) PROVE Pumps'
  <2>1. handler[c].life \in Life BY <1>6, <1>t DEF AttachAdds, At, Lives
  <2> QED BY <1>6, <1>p, <2>1 DEF AttachAdds
<1>7. ASSUME NEW c \in Client, AttachRefused(c) \/ HandlerCloses(c) \/ CloseRuns(c) PROVE Pumps'
  BY <1>7, <1>c DEF AttachRefused, HandlerCloses, CloseRuns
<1>8. ASSUME NEW c \in Client,
             \/ AttachFinds(c) \/ AttachChecks(c) \/ ReadEnds(c) \/ InputBegins(c)
             \/ InputEnds(c) \/ Detach(c)
      PROVE  Pumps'
  BY <1>8, <1>u DEF AttachFinds, AttachChecks, ReadEnds, InputBegins, InputEnds, Detach, conn
<1>9. ASSUME NEW c \in Client, PumpWrites(c) PROVE Pumps'
  <2>1. /\ queue[c] # <<>> /\ pump[c] \in {"running", "flushing"}
        /\ queue' = [queue EXCEPT ![c] = Tail(queue[c])]
        /\ owed' = [owed EXCEPT ![c] = IF owed[c] = 0 THEN 0 ELSE owed[c] - 1]
        /\ UNCHANGED <<pump, done>>
    BY <1>9 DEF PumpWrites, Deliver
  <2>2. Len(queue'[c]) = Len(queue[c]) - 1 /\ Len(queue[c]) # 0
    BY <1>t, <2>1, HeadTailProperties, EmptySeq
  <2>3. owed' \in [Client -> Nat] BY <1>t, <2>1
  <2>4. /\ \A d \in Client \ {c} : owed'[d] = owed[d] /\ queue'[d] = queue[d]
        /\ owed'[c] = IF owed[c] = 0 THEN 0 ELSE owed[c] - 1
    BY <1>t, <2>1
  <2>5. Len(queue'[c]) <= QueueSize /\ owed'[c] <= Len(queue'[c])
    BY <1>l, <1>t, <2>2, <2>4, SizesAssumption DEF Pumps
  <2> QED BY <1>t, <2>1, <2>3, <2>4, <2>5 DEF Pumps
<1>10. ASSUME NEW c \in Client, PumpSeesDone(c) PROVE Pumps'
  BY <1>10, <1>t DEF PumpSeesDone, Pumps
<1>11. ASSUME NEW c \in Client, PumpCloses(c) PROVE Pumps'
  <2>1. /\ pump[c] = "flushing" /\ queue[c] = <<>> /\ UNCHANGED <<queue, done, owed>>
        /\ pump' = [pump EXCEPT ![c] = "closed"]
    BY <1>11 DEF PumpCloses, Flushed
  <2>2. Len(queue[c]) = 0 BY <2>1, EmptySeq
  <2>3. owed[c] = 0 BY <1>t, <2>2 DEF Pumps
  <2> QED BY <1>t, <2>1, <2>3 DEF Pumps
<1>12. ASSUME NEW c \in Client, PumpFails(c) PROVE Pumps'
  BY <1>12, <1>t DEF PumpFails, Pumps
<1>13. CASE UNCHANGED vars BY <1>13, <1>u DEF vars
<1>14. ASSUME NEW l \in Life, ShutTerminal(l) PROVE Pumps'
  BY <1>14, <1>u DEF ShutTerminal, conn
<1> QED
  BY <1>1, <1>2, <1>3, <1>4, <1>5, <1>6, <1>7, <1>8, <1>9, <1>10, <1>11, <1>12, <1>13, <1>14
  DEF Next, PumpStep, HandlerStep

LEMMA PumpsInvariance == Spec => []Pumps
<1>1. Init => Pumps BY PumpsInit
<1>2. Inv /\ Inv' /\ Pumps /\ [Next]_vars => Pumps' BY PumpsNext
<1> QED BY <1>1, <1>2, Invariance, PTL DEF Spec

\* What is in a queue and in a buffer is what the types say: no queue outgrows
\* its channel, and every frame is of a shell and a chunk that there is.
THEOREM TypeCorrect == Spec => []TypeOK
<1>1. Inv /\ Pumps => TypeOK
  <2> SUFFICES ASSUME Inv, Pumps PROVE TypeOK OBVIOUS
  <2>1. owed \in [Client -> 0..QueueSize]
    <3>1. \A c \in Client : Len(queue[c]) \in Nat BY LenProperties DEF Inv, Typed
    <3> QED BY <3>1, SizesAssumption DEF Pumps
  <2> QED BY <2>1 DEF Inv, Typed, Pumps, TypeOK, Pcs
<1> QED BY <1>1, Invariance, PumpsInvariance, PTL

\* What was queued when a client was closed is written before the close frame
\* (Close, the select of writePump, flush).
THEOREM NothingIsCutOff == Spec => []FlushedBeforeClose
<1>1. Pumps => FlushedBeforeClose BY DEF Pumps, FlushedBeforeClose
<1> QED BY <1>1, PumpsInvariance, PTL

-----------------------------------------------------------------------------
(* The promise of Watch                                                    *)

\* Watch lets g be shown after f.
Backs(f, g) ==
  /\ g.life \in Life /\ status[g.life] # "unborn"
  /\ \/ g.kind = "attached" /\ g.life > f.life /\ g.run.to = 0
     \/ /\ g.kind = "bytes" /\ g.life = f.life
        /\ g.run.from <= g.run.to /\ g.run.to <= buf[g.life].to
        /\ \/ f.kind = "attached"
           \/ f.kind = "bytes" /\ g.run.from = f.run.to + 1
     \/ /\ g.kind = "exit" /\ g.life = f.life /\ f.kind \in {"attached", "bytes"}
        /\ status[g.life] = "stopped" /\ f.run.to = buf[g.life].to

Backing == {p \in Frame \X Frame : Backs(p[1], p[2])}

\* Each of the frames q behind s is related by R to the one before it.
Chain(s, q, R) ==
  /\ q # <<>> => <<s, q[1]>> \in R
  /\ \A i \in 1..Len(q) - 1 : <<q[i], q[i + 1]>> \in R

\* A buffer is empty before the first chunk and then not until it is released;
\* while the session in the map is stopped the snapshot has all it has written.
Outputs ==
  /\ \A l \in Life : status[l] # "stopped" => (IsEmpty(buf[l]) <=> buf[l].to = 0)
  /\ cur # 0 => \A l \in Life : status[l] = "running" => l = cur
  /\ cur # 0 /\ status[cur] = "stopped" =>
       file.to = buf[cur].to /\ (IsEmpty(file) <=> file.to = 0)

Backed(c) ==
  ~refused[c] =>
    /\ Chain(seen[c], queue[c], Backing)
    /\ LastSent(c).kind = "attached" => LastSent(c).run.to = 0

AllBacked == \A c \in Client : Backed(c)

LEMMA ChainAppending ==
  ASSUME NEW s \in Frame, NEW q \in Seq(Frame), NEW f \in Frame, NEW R,
         Chain(s, q, R), <<Last(s, q), f>> \in R
  PROVE  Chain(s, Append(q, f), R)
<1> DEFINE r == Append(q, f)
<1>1. /\ r \in Seq(Frame) /\ r # <<>> /\ Len(r) = Len(q) + 1
      /\ \A i \in 1..Len(q) : r[i] = q[i]
      /\ r[Len(q) + 1] = f
  BY AppendProperties
<1>2. Len(q) \in Nat /\ (q # <<>> => Len(q) >= 1) BY LenProperties, EmptySeq
<1>3. q = <<>> => Len(q) = 0 BY EmptySeq
<1> HIDE DEF r
<1>4. <<s, r[1]>> \in R
  <2>1. CASE q = <<>> BY <1>1, <1>3, <2>1 DEF Last
  <2>2. CASE q # <<>>
    <3>1. r[1] = q[1] BY <1>1, <1>2, <2>2
    <3> QED BY <2>2, <3>1 DEF Chain
  <2> QED BY <2>1, <2>2
<1>5. ASSUME NEW i \in 1..Len(r) - 1 PROVE <<r[i], r[i + 1]>> \in R
  <2>1. CASE i < Len(q)
    <3>1. i \in 1..Len(q) /\ i + 1 \in 1..Len(q) /\ i \in 1..Len(q) - 1
      BY <1>1, <1>2, <2>1
    <3> QED BY <1>1, <3>1 DEF Chain
  <2>2. CASE i = Len(q)
    <3>1. q # <<>> /\ i \in 1..Len(q) BY <1>1, <1>2, <1>3, <2>2
    <3>2. r[i] = Last(s, q) /\ r[i + 1] = f BY <1>1, <2>2, <3>1 DEF Last
    <3> QED BY <3>2
  <2> QED BY <1>1, <1>2, <2>1, <2>2
<1> QED BY <1>4, <1>5 DEF Chain, r

LEMMA ChainWriting ==
  ASSUME NEW s \in Frame, NEW q \in Seq(Frame), q # <<>>, NEW R, Chain(s, q, R)
  PROVE  <<s, Head(q)>> \in R /\ Chain(Head(q), Tail(q), R)
<1> DEFINE t == Tail(q)
<1>1. /\ t \in Seq(Frame) /\ Len(t) = Len(q) - 1
      /\ \A i \in 1..Len(t) : t[i] = q[i + 1]
  BY HeadTailProperties
<1>2. Len(q) \in Nat \ {0} BY EmptySeq
<1>3. Head(q) = q[1] OBVIOUS
<1>4. t # <<>> => Len(t) \in Nat \ {0} BY <1>1, EmptySeq
<1> HIDE DEF t
<1>5. ASSUME t # <<>> PROVE <<Head(q), t[1]>> \in R
  <2>1. t[1] = q[1 + 1] /\ 1 \in 1..Len(q) - 1 BY <1>1, <1>2, <1>4, <1>5
  <2> QED BY <1>3, <2>1 DEF Chain
<1>6. ASSUME NEW i \in 1..Len(t) - 1 PROVE <<t[i], t[i + 1]>> \in R
  <2>1. i \in 1..Len(t) /\ i + 1 \in 1..Len(t) /\ i + 1 \in 1..Len(q) - 1
    BY <1>1, <1>2
  <2>2. t[i] = q[i + 1] /\ t[i + 1] = q[(i + 1) + 1] BY <1>1, <2>1
  <2> QED BY <2>1, <2>2 DEF Chain
<1>7. <<s, Head(q)>> \in R BY <1>3 DEF Chain
<1> QED BY <1>5, <1>6, <1>7 DEF Chain, t

LEMMA ChainGrows ==
  ASSUME NEW s, NEW q, NEW R, NEW S, R \subseteq S, Chain(s, q, R)
  PROVE  Chain(s, q, S)
  BY DEF Chain

\* What a step does to a shell: it is not unborn again, does not go on after it
\* has stopped, and what was written stays written.
GoesOn(l) ==
  /\ status[l] # "unborn" => status'[l] # "unborn" /\ buf'[l].to >= buf[l].to
  /\ status[l] = "stopped" => status'[l] = "stopped" /\ buf'[l].to = buf[l].to

LEMMA ShellsGoOn ==
  ASSUME Typed, Lives, [Next]_vars, NEW l \in Life
  PROVE  GoesOn(l)
<1>t. /\ buf[l] \in Run /\ buf[l].to \in Nat /\ buf \in [Life -> Run]
      /\ status \in [Life -> {"unborn", "running", "stopped"}]
      /\ file \in Run /\ cur \in 0..MaxLife
  BY SizesAssumption DEF Typed, Run, Chunk
<1>u. ASSUME status' = status, buf' = buf PROVE GoesOn(l)
  BY <1>u, <1>t DEF GoesOn
<1>1. ASSUME NEW k \in Life, Broadcast(k) PROVE GoesOn(l)
  <2>1. status' = status /\ buf' = [buf EXCEPT ![k] = Written(buf[k])] /\ status[k] = "running"
    BY <1>1 DEF Broadcast
  <2>2. CASE k = l
    <3>1. Written(buf[l]).to = buf[l].to + 1 BY <1>1, <1>t, <2>2, WrittenType DEF Broadcast
    <3>2. buf'[l].to = buf[l].to + 1 BY <1>t, <2>1, <2>2, <3>1
    <3> QED BY <1>t, <2>1, <2>2, <3>2 DEF GoesOn
  <2>3. CASE k # l
    <3>1. buf'[l] = buf[l] BY <1>t, <2>1, <2>3
    <3> QED BY <1>t, <2>1, <3>1 DEF GoesOn
  <2> QED BY <2>2, <2>3
<1>2. ASSUME NEW k \in Life, MarkStopped(k) PROVE GoesOn(l)
  BY <1>2, <1>t DEF MarkStopped, GoesOn
<1>3. ASSUME NEW k \in Life, ReleaseBuffer(k) PROVE GoesOn(l)
  <2>1. status' = status /\ buf'[l].to = buf[l].to BY <1>3, <1>t DEF ReleaseBuffer
  <2> QED BY <1>t, <2>1 DEF GoesOn
<1>4. CASE RestartPublish
  <2>1. cur + 1 \in Life /\ cur # 0 /\ cur + 1 > cur
    BY <1>4, <1>t, SizesAssumption DEF RestartPublish, Life
  <2>2. status[cur + 1] = "unborn" BY <2>1 DEF Lives
  <2>3. l # cur + 1 => status'[l] = status[l] /\ buf'[l] = buf[l]
    BY <1>4, <1>t DEF RestartPublish
  <2> QED BY <1>t, <2>2, <2>3 DEF GoesOn
<1>5. CASE RestartTakes \/ RestartEnds \/ DeleteBegin \/ DeleteCloses
  BY <1>5, <1>u DEF RestartTakes, RestartEnds, DeleteBegin, DeleteCloses
<1>6. ASSUME NEW c \in Client, RestartMoves(c) PROVE GoesOn(l)
  BY <1>6, <1>u DEF RestartMoves
<1>7. ASSUME NEW c \in Client, HandlerStep(c) \/ ReadEnds(c) \/ InputBegins(c) \/ InputEnds(c)
      PROVE  GoesOn(l)
  BY <1>7, <1>u DEF HandlerStep, ReadEnds, InputBegins, InputEnds, AttachFinds, AttachChecks,
                    AttachRefused, AttachAdds, Detach, HandlerCloses, session
<1>8. ASSUME NEW c \in Client, CloseRuns(c) \/ PumpStep(c) \/ PumpFails(c) PROVE GoesOn(l)
  BY <1>8, <1>u DEF CloseRuns, PumpStep, PumpFails, PumpWrites, PumpSeesDone, PumpCloses, session
<1>9. CASE UNCHANGED vars BY <1>9, <1>u DEF vars
<1>10. ASSUME NEW k \in Life, ShutTerminal(k) PROVE GoesOn(l)
  BY <1>10, <1>u DEF ShutTerminal
<1> QED BY <1>1, <1>2, <1>3, <1>4, <1>5, <1>6, <1>7, <1>8, <1>9, <1>10 DEF Next

LEMMA BackingGrows ==
  ASSUME Typed, Typed', Lives, [Next]_vars
  PROVE  Backing \subseteq Backing'
<1> SUFFICES ASSUME NEW f \in Frame, NEW g \in Frame, Backs(f, g) PROVE Backs(f, g)'
  BY DEF Backing
<1>1. g.life \in Life BY DEF Backs
<1>2. GoesOn(g.life) BY <1>1, ShellsGoOn
<1>3. /\ buf[g.life].to \in Int /\ buf'[g.life].to \in Int
      /\ g.run.to \in Int /\ g.run.from \in Int
  BY <1>1, SizesAssumption DEF Typed, Frame, Run, Chunk
<1> QED BY <1>2, <1>3 DEF Backs, GoesOn

LEMMA OutputsInit == Init => Outputs
  BY SizesAssumption DEF Init, Outputs, Life, NoRun, IsEmpty

LEMMA OutputsNext == Typed /\ Lives /\ Outputs /\ [Next]_vars => Outputs'
<1> SUFFICES ASSUME Typed, Lives, Outputs, [Next]_vars PROVE Outputs' OBVIOUS
<1>t. /\ buf \in [Life -> Run] /\ file \in Run /\ cur \in 0..MaxLife
      /\ status \in [Life -> {"unborn", "running", "stopped"}]
  BY DEF Typed
<1>r. \A r \in Run : r.to \in Nat BY SizesAssumption DEF Run, Chunk
<1>u. ASSUME status' = status, buf' = buf, file' = file, cur' \in {0, cur} PROVE Outputs'
  BY <1>u DEF Outputs
<1>1. ASSUME NEW k \in Life, Broadcast(k) PROVE Outputs'
  <2>1. /\ status' = status /\ cur' = cur /\ file' = file /\ status[k] = "running"
        /\ buf' = [buf EXCEPT ![k] = Written(buf[k])] /\ buf[k].to < MaxChunk
    BY <1>1 DEF Broadcast
  <2>2. ~IsEmpty(buf'[k]) /\ buf'[k].to # 0
    <3>1. buf[k] \in Run /\ buf'[k] = Written(buf[k]) BY <1>t, <2>1
    <3>2. buf[k].to \in Nat BY <1>r, <3>1
    <3>3. ~IsEmpty(Written(buf[k])) /\ Written(buf[k]).to = buf[k].to + 1
      BY <2>1, <3>1, WrittenType
    <3> QED BY <3>1, <3>2, <3>3
  <2>3. \A l \in Life \ {k} : buf'[l] = buf[l] BY <1>t, <2>1
  <2>4. cur # 0 => cur \in Life BY <1>t, SizesAssumption DEF Life
  <2> QED BY <2>1, <2>2, <2>3, <2>4 DEF Outputs
<1>2. ASSUME NEW k \in Life, MarkStopped(k) PROVE Outputs'
  <2>1. /\ status[k] = "running" /\ status' = [status EXCEPT ![k] = "stopped"]
        /\ file' = buf[k] /\ buf' = buf /\ cur' = cur
    BY <1>2 DEF MarkStopped
  <2>2. status'[k] = "stopped" /\ \A l \in Life \ {k} : status'[l] = status[l] BY <1>t, <2>1
  <2>3. cur # 0 => k = cur BY <2>1 DEF Outputs
  <2>4. IsEmpty(buf[k]) <=> buf[k].to = 0 BY <2>1 DEF Outputs
  <2> QED BY <2>1, <2>2, <2>3, <2>4 DEF Outputs
<1>3. ASSUME NEW k \in Life, ReleaseBuffer(k) PROVE Outputs'
  <2>1. /\ status' = status /\ cur' = cur /\ file' = file /\ status[k] = "stopped"
        /\ \A l \in Life \ {k} : buf'[l] = buf[l]
        /\ buf'[k].to = buf[k].to
    BY <1>3, <1>t DEF ReleaseBuffer
  <2>2. cur # 0 => cur \in Life BY <1>t, SizesAssumption DEF Life
  <2> QED BY <2>1, <2>2 DEF Outputs
<1>4. CASE RestartPublish
  <2>1. /\ cur + 1 \in Life /\ cur \in Life /\ cur # 0 /\ cur + 1 # 0 /\ status[cur] = "stopped"
        /\ file.to < MaxChunk
    BY <1>4, <1>t, SizesAssumption DEF RestartPublish, Life
  <2>2. /\ cur' = cur + 1 /\ file' = file
        /\ status'[cur + 1] = "running" /\ \A l \in Life \ {cur + 1} : status'[l] = status[l]
        /\ buf'[cur + 1] = IF IsEmpty(file) THEN file ELSE Written(file)
        /\ \A l \in Life \ {cur + 1} : buf'[l] = buf[l]
    BY <1>4, <1>t, <2>1 DEF RestartPublish
  <2>3. IsEmpty(file) => file.to = 0 BY <2>1 DEF Outputs
  <2>4. ~IsEmpty(Written(file)) /\ Written(file).to # 0
    <3>1. ~IsEmpty(Written(file)) /\ Written(file).to = file.to + 1 BY <1>t, <2>1, WrittenType
    <3>2. file.to \in Nat BY <1>t, <1>r
    <3> QED BY <3>1, <3>2
  <2>5. IsEmpty(buf'[cur + 1]) <=> buf'[cur + 1].to = 0
    <3>1. CASE IsEmpty(file) BY <2>2, <2>3, <3>1
    <3>2. CASE ~IsEmpty(file) BY <2>2, <2>4, <3>2
    <3> QED BY <3>1, <3>2
  <2>6. \A l \in Life : status[l] # "running" BY <2>1 DEF Outputs
  <2> QED BY <2>1, <2>2, <2>5, <2>6 DEF Outputs
<1>5. CASE RestartTakes \/ RestartEnds \/ DeleteBegin \/ DeleteCloses
  BY <1>5, <1>u DEF RestartTakes, RestartEnds, DeleteBegin, DeleteCloses
<1>6. ASSUME NEW c \in Client, RestartMoves(c) PROVE Outputs'
  BY <1>6, <1>u DEF RestartMoves
<1>7. ASSUME NEW c \in Client, HandlerStep(c) \/ ReadEnds(c) \/ InputBegins(c) \/ InputEnds(c)
      PROVE  Outputs'
  BY <1>7, <1>u DEF HandlerStep, ReadEnds, InputBegins, InputEnds, AttachFinds, AttachChecks,
                    AttachRefused, AttachAdds, Detach, HandlerCloses, session
<1>8. ASSUME NEW c \in Client, CloseRuns(c) \/ PumpStep(c) \/ PumpFails(c) PROVE Outputs'
  BY <1>8, <1>u DEF CloseRuns, PumpStep, PumpFails, PumpWrites, PumpSeesDone, PumpCloses, session
<1>9. CASE UNCHANGED vars BY <1>9, <1>u DEF vars
<1>10. ASSUME NEW k \in Life, ShutTerminal(k) PROVE Outputs'
  BY <1>10, <1>u DEF ShutTerminal
<1> QED BY <1>1, <1>2, <1>3, <1>4, <1>5, <1>6, <1>7, <1>8, <1>9, <1>10 DEF Next

LEMMA BackedInit == Init => AllBacked
<1> SUFFICES ASSUME Init, NEW c \in Client PROVE Backed(c) BY DEF AllBacked
<1>1. queue[c] = <<>> /\ seen[c] = Nothing BY DEF Init
<1>2. Chain(Nothing, <<>>, Backing)
  <2>1. Len(<<>>) = 0 BY EmptySeq
  <2>2. \A i \in 1..Len(<<>>) - 1 : FALSE BY <2>1
  <2> QED BY <2>2 DEF Chain
<1> QED BY <1>1, <1>2 DEF Backed, LastSent, Last, Nothing

LEMMA BackedNext ==
  Inv /\ Typed' /\ Outputs /\ AllBacked /\ [Next]_vars => AllBacked'
<1> SUFFICES ASSUME Inv, Typed', Outputs, AllBacked, [Next]_vars, NEW c \in Client
             PROVE  Backed(c)'
  BY DEF AllBacked
<1>t. /\ queue \in [Client -> Seq(Frame)] /\ seen \in [Client -> Frame]
      /\ status \in [Life -> {"unborn", "running", "stopped"}] /\ buf \in [Life -> Run]
      /\ refused \in [Client -> BOOLEAN] /\ cur \in 0..MaxLife
      /\ queue'[c] \in Seq(Frame) /\ seen'[c] \in Frame
  BY DEF Inv, Typed
<1>c. queue[c] \in Seq(Frame) /\ seen[c] \in Frame /\ LastSent(c) \in Frame
  BY <1>t, LastType DEF LastSent
<1>s. StreamOf(c) /\ Backed(c) /\ Typed /\ Lives BY DEF Inv, Streams, AllBacked
<1>r. \A r \in Run : r.to \in Nat /\ r.from \in Nat BY SizesAssumption DEF Run, Chunk
<1>g. ~refused[c] => Chain(seen[c], queue[c], Backing')
  BY <1>s, BackingGrows, ChainGrows DEF Backed
\* A step that sends the client nothing.
<1>u. ASSUME queue'[c] = queue[c], seen'[c] = seen[c], refused[c] => refused'[c]
      PROVE  Backed(c)'
  BY <1>s, <1>g, <1>u DEF Backed, LastSent
\* A step that sends it one frame.
<1>f. ASSUME NEW f \in Frame, queue'[c] = Append(queue[c], f), seen'[c] = seen[c],
             refused[c] => refused'[c], f.kind # "attached",
             ~refused[c] => <<LastSent(c), f>> \in Backing'
      PROVE  Backed(c)'
  <2>1. LastSent(c)' = f BY <1>c, <1>f, Appending DEF LastSent
  <2>2. ~refused[c] => Chain(seen[c], Append(queue[c], f), Backing')
    BY <1>c, <1>f, <1>g, ChainAppending DEF LastSent
  <2> QED BY <1>f, <2>1, <2>2 DEF Backed
\* A step that attaches it.
<1>a. ASSUME NEW l \in Life, Primed(c, l), status[l] # "unborn", ~refused[c] => LastSent(c).life < l,
             UNCHANGED <<seen, buf, status>>
      PROVE  Backed(c)'
  <2> SUFFICES ASSUME ~refused'[c] PROVE Backed(c)' BY DEF Backed
  <2> DEFINE a == Append(queue[c], Attached(l))
             b == Bytes(l, buf[l])
  <2>1. ~refused[c] /\ queue'[c] = PrimedQueue(queue[c], l) BY <1>a, <1>s, Priming
  <2>2. buf[l] \in Run /\ buf'[l] = buf[l] BY <1>a, <1>t
  <2>3. Attached(l) \in Frame /\ b \in Frame BY <2>2, FrameTypes
  <2>4. <<LastSent(c), Attached(l)>> \in Backing'
    BY <1>a, <1>c, <2>1, <2>3 DEF Backing, Backs, Attached, NoRun
  <2>5. ~IsEmpty(buf[l]) => <<Attached(l), b>> \in Backing'
    <3> SUFFICES ASSUME ~IsEmpty(buf[l]) PROVE <<Attached(l), b>> \in Backing' OBVIOUS
    <3>1. buf[l].from <= buf[l].to BY <1>r, <2>2 DEF IsEmpty
    <3>2. buf[l].to <= buf'[l].to BY <1>r, <2>2
    <3>3. PICK f \in Frame, g \in Frame : f = Attached(l) /\ g = b BY <2>3
    <3>4. Backs(f, g)' BY <1>a, <2>2, <3>1, <3>2, <3>3 DEF Backs, Attached, Bytes
    <3> QED BY <3>3, <3>4 DEF Backing
  <2>6. /\ a \in Seq(Frame) /\ Last(seen[c], a) = Attached(l)
        /\ Chain(seen[c], a, Backing')
    BY <1>c, <1>g, <2>1, <2>3, <2>4, Appending, ChainAppending DEF LastSent
  <2>7. CASE IsEmpty(buf[l])
    <3>1. queue'[c] = a BY <2>1, <2>7 DEF PrimedQueue
    <3> HIDE DEF a
    <3>2. LastSent(c)' = Attached(l) BY <1>a, <2>6, <3>1 DEF LastSent
    <3> QED BY <1>a, <2>6, <3>1, <3>2 DEF Backed, Attached, NoRun
  <2>8. CASE ~IsEmpty(buf[l])
    <3>1. queue'[c] = Append(a, b) BY <2>1, <2>8 DEF PrimedQueue
    <3> HIDE DEF a, b
    <3>2. Last(seen[c], Append(a, b)) = b BY <1>c, <2>3, <2>6, Appending
    <3>3. Chain(seen[c], Append(a, b), Backing')
      BY <1>c, <2>3, <2>5, <2>6, <2>8, ChainAppending
    <3>4. LastSent(c)' = b BY <1>a, <3>1, <3>2 DEF LastSent
    <3> QED BY <1>a, <3>1, <3>3, <3>4 DEF Backed, b, Bytes
  <2> QED BY <2>7, <2>8
<1>1. ASSUME NEW l \in Life, Broadcast(l) PROVE Backed(c)'
  <2> DEFINE chunk == [from |-> buf[l].to + 1, to |-> buf[l].to + 1]
  <2>1. PICK T \in Takers(clients[l]) : Enqueue(T, Bytes(l, chunk)) BY <1>1 DEF Broadcast
  <2>2. /\ status[l] = "running" /\ buf' = [buf EXCEPT ![l] = Written(buf[l])]
        /\ buf[l] \in Run /\ buf[l].to < MaxChunk
        /\ UNCHANGED <<seen, refused, status>>
    BY <1>1, <1>t DEF Broadcast
  <2>3. buf'[l].to = buf[l].to + 1 /\ chunk \in Run BY <1>t, <2>2, WrittenType
  <2>4. CASE c \in T
    <3>1. queue'[c] = Append(queue[c], Bytes(l, chunk)) BY <2>1, <2>4 DEF Enqueue
    <3>2. Bytes(l, chunk) \in Frame BY <2>3, FrameTypes
    <3>3. ASSUME ~refused[c] PROVE <<LastSent(c), Bytes(l, chunk)>> \in Backing'
      <4>1. LastSent(c).life = l /\ Complete(LastSent(c), buf[l])
        BY <1>s, <2>2, <2>4, <3>3 DEF StreamOf, Takers
      <4>2. PICK f \in Frame, g \in Frame : f = LastSent(c) /\ g = Bytes(l, chunk)
        BY <1>c, <3>2
      <4>3. /\ f.life = l /\ g.life = l /\ g.kind = "bytes" /\ g.run = chunk
            /\ f.kind = "attached" \/ (f.kind = "bytes" /\ f.run.to = buf[l].to)
        BY <4>1, <4>2 DEF Complete, Bytes
      <4>4. buf[l].to \in Nat BY <1>r, <2>2
      <4>5. Backs(f, g)' BY <2>2, <2>3, <4>3, <4>4 DEF Backs
      <4> QED BY <4>2, <4>5 DEF Backing
    <3>4. Bytes(l, chunk).kind # "attached" BY DEF Bytes
    <3> HIDE DEF chunk
    <3> QED BY <1>f, <2>2, <3>1, <3>2, <3>3, <3>4
  <2>5. CASE c \notin T
    <3>1. queue'[c] = queue[c] BY <2>1, <2>5 DEF Enqueue
    <3> QED BY <1>u, <2>2, <3>1
  <2> QED BY <2>4, <2>5
<1>2. ASSUME NEW l \in Life, MarkStopped(l) PROVE Backed(c)'
  <2>1. PICK T \in Takers(clients[l]) :
          /\ Enqueue(T, Exit(l))
          /\ refused' = [d \in Client |-> refused[d] \/ d \in clients[l] \ T]
    BY <1>2 DEF MarkStopped
  <2>2. /\ status[l] = "running" /\ status' = [status EXCEPT ![l] = "stopped"]
        /\ UNCHANGED <<seen, buf>>
    BY <1>2 DEF MarkStopped
  <2>3. status'[l] = "stopped" /\ (refused[c] => refused'[c]) BY <1>t, <2>1, <2>2
  <2>4. CASE c \in T
    <3>1. queue'[c] = Append(queue[c], Exit(l)) BY <2>1, <2>4 DEF Enqueue
    <3>2. Exit(l) \in Frame BY FrameTypes
    <3>3. ASSUME ~refused[c] PROVE <<LastSent(c), Exit(l)>> \in Backing'
      <4>1. LastSent(c).life = l /\ Complete(LastSent(c), buf[l])
        BY <1>s, <2>2, <2>4, <3>3 DEF StreamOf, Takers
      <4>2. LastSent(c).kind = "attached" => LastSent(c).run.to = 0
        BY <1>s, <3>3 DEF Backed
      <4>3. IsEmpty(buf[l]) <=> buf[l].to = 0 BY <2>2 DEF Outputs
      <4>4. PICK f \in Frame, g \in Frame : f = LastSent(c) /\ g = Exit(l)
        BY <1>c, <3>2
      <4>5. /\ f.life = l /\ g.life = l /\ g.kind = "exit"
            /\ f.kind \in {"attached", "bytes"} /\ f.run.to = buf[l].to
        BY <4>1, <4>2, <4>3, <4>4 DEF Complete, Exit
      <4>6. Backs(f, g)' BY <2>2, <2>3, <4>5 DEF Backs
      <4> QED BY <4>4, <4>6 DEF Backing
    <3>4. Exit(l).kind # "attached" BY DEF Exit
    <3> QED BY <1>f, <2>2, <2>3, <3>1, <3>2, <3>3, <3>4
  <2>5. CASE c \notin T
    <3>1. queue'[c] = queue[c] BY <2>1, <2>5 DEF Enqueue
    <3> QED BY <1>u, <2>2, <2>3, <3>1
  <2> QED BY <2>4, <2>5
<1>3. ASSUME NEW d \in Client, RestartMoves(d) PROVE Backed(c)'
  <2>1. /\ cur \in Life /\ status[cur] # "unborn" /\ d \in restart.hand /\ Primed(d, cur)
        /\ UNCHANGED <<seen, buf, status>>
    BY <1>3, <1>s, <1>t, SizesAssumption DEF RestartMoves, Lives, Life
  <2>2. CASE c = d
    <3>1. ~refused[c] => LastSent(c).life < cur BY <1>s, <2>1, <2>2 DEF StreamOf
    <3> QED BY <1>a, <2>1, <2>2, <3>1
  <2>3. CASE c # d
    <3>1. queue'[c] = queue[c] /\ refused'[c] = refused[c] BY <1>s, <2>1, <2>3, Priming
    <3> QED BY <1>u, <2>1, <3>1
  <2> QED BY <2>2, <2>3
<1>4. ASSUME NEW d \in Client, AttachAdds(d) PROVE Backed(c)'
  <2> DEFINE l == handler[d].life
  <2>1. /\ l \in Life /\ status[l] # "unborn" /\ Unattached(d) /\ Primed(d, l)
        /\ UNCHANGED <<seen, buf, status>>
    BY <1>4, <1>s DEF AttachAdds, At, Lives, Unattached
  <2> HIDE DEF l
  <2>2. CASE c = d
    <3>1. queue[c] = <<>> /\ seen[c] = Nothing BY <1>s, <2>1, <2>2 DEF StreamOf
    <3>2. LastSent(c).life = 0 BY <3>1 DEF LastSent, Last, Nothing
    <3>3. LastSent(c).life < l BY <2>1, <3>2 DEF Life
    <3> QED BY <1>a, <2>1, <2>2, <3>3
  <2>3. CASE c # d
    <3>1. queue'[c] = queue[c] /\ refused'[c] = refused[c] BY <1>s, <2>1, <2>3, Priming
    <3> QED BY <1>u, <2>1, <3>1
  <2> QED BY <2>2, <2>3
<1>5. ASSUME NEW d \in Client, PumpWrites(d) PROVE Backed(c)'
  <2>1. /\ queue[d] # <<>> /\ seen' = [seen EXCEPT ![d] = Head(queue[d])]
        /\ queue' = [queue EXCEPT ![d] = Tail(queue[d])]
        /\ refused' = refused
    BY <1>5 DEF PumpWrites, Deliver
  <2>2. CASE c = d
    <3>1. seen'[c] = Head(queue[c]) /\ queue'[c] = Tail(queue[c]) BY <1>t, <2>1, <2>2
    <3>2. LastSent(c)' = LastSent(c) BY <1>c, <2>1, <2>2, <3>1, Writing DEF LastSent
    <3>3. ~refused[c] => Chain(Head(queue[c]), Tail(queue[c]), Backing')
      BY <1>c, <1>g, <2>1, <2>2, ChainWriting
    <3> QED BY <1>s, <2>1, <3>1, <3>2, <3>3 DEF Backed
  <2>3. CASE c # d BY <1>t, <1>u, <2>1, <2>3
  <2> QED BY <2>2, <2>3
<1>6. ASSUME NEW l \in Life, ReleaseBuffer(l) PROVE Backed(c)'
  BY <1>6, <1>u DEF ReleaseBuffer, conn
<1>7. CASE RestartPublish \/ RestartTakes \/ RestartEnds \/ DeleteBegin \/ DeleteCloses
  BY <1>7, <1>u DEF RestartPublish, RestartTakes, RestartEnds, DeleteBegin, DeleteCloses, conn
<1>8. ASSUME NEW d \in Client,
             \/ AttachFinds(d) \/ AttachChecks(d) \/ AttachRefused(d) \/ ReadEnds(d)
             \/ InputBegins(d) \/ InputEnds(d) \/ Detach(d) \/ HandlerCloses(d)
      PROVE  Backed(c)'
  BY <1>8, <1>u DEF AttachFinds, AttachChecks, AttachRefused, ReadEnds, InputBegins, InputEnds,
                    Detach, HandlerCloses, conn
<1>9. ASSUME NEW d \in Client,
             CloseRuns(d) \/ PumpSeesDone(d) \/ PumpCloses(d) \/ PumpFails(d)
      PROVE  Backed(c)'
  BY <1>9, <1>u DEF CloseRuns, PumpSeesDone, PumpCloses, PumpFails
<1>10. CASE UNCHANGED vars BY <1>10, <1>u DEF vars
<1>11. ASSUME NEW l \in Life, ShutTerminal(l) PROVE Backed(c)'
  BY <1>11, <1>u DEF ShutTerminal, conn
<1> QED
  BY <1>1, <1>2, <1>3, <1>4, <1>5, <1>6, <1>7, <1>8, <1>9, <1>10, <1>11
  DEF Next, PumpStep, HandlerStep

WatchInv == Inv /\ Outputs /\ AllBacked

LEMMA WatchInvariance == Spec => []WatchInv
<1>1. Init => WatchInv
  BY TypedInit, LivesInit, PlacesInit, StreamsInit, OutputsInit, BackedInit DEF WatchInv, Inv
<1>2. WatchInv /\ [Next]_vars => WatchInv'
  <2> SUFFICES ASSUME WatchInv, [Next]_vars PROVE WatchInv' OBVIOUS
  <2>1. Inv /\ Outputs /\ AllBacked BY DEF WatchInv
  <2>2. Inv' BY <2>1, InvNext
  <2>3. Outputs' BY <2>1, OutputsNext DEF Inv
  <2>4. AllBacked' BY <2>1, <2>2, BackedNext DEF Inv
  <2> QED BY <2>2, <2>3, <2>4 DEF WatchInv
<1> QED BY <1>1, <1>2, PTL DEF Spec

\* The state of Watch a state of the session stands for: watching is what the
\* refinement substitutes for made.
watching == [l \in Life |-> buf[l].to]

LEMMA WatchStart == Init => Watched!Init
<1> SUFFICES ASSUME Init PROVE Watched!Init OBVIOUS
<1>1. [l \in Life |-> buf[l].to] = [l \in Life |-> 0] BY DEF Init, NoRun
<1>2. Watched!NoFrame = Nothing BY DEF Watched!NoFrame, Nothing, NoRun
<1> QED BY <1>1, <1>2 DEF Init, Watched!Init, Watched!Life, Life

LEMMA WatchStep ==
  WatchInv /\ WatchInv' /\ [Next]_vars
    => [Watched!Next]_<<status, [l \in Life |-> buf[l].to], seen, refused>>
<1> SUFFICES ASSUME WatchInv, WatchInv', [Next]_vars
             PROVE  Watched!Next \/ UNCHANGED <<status, watching, seen, refused>>
  BY DEF watching
<1>t. /\ queue \in [Client -> Seq(Frame)] /\ seen \in [Client -> Frame]
      /\ status \in [Life -> {"unborn", "running", "stopped"}] /\ buf \in [Life -> Run]
      /\ refused \in [Client -> BOOLEAN] /\ cur \in 0..MaxLife /\ file \in Run
      /\ refused' \in [Client -> BOOLEAN]
  BY DEF WatchInv, Inv, Typed
<1>l. Watched!Life = Life BY DEF Watched!Life, Life
<1>1. ASSUME NEW l \in Life, Broadcast(l) PROVE Watched!Write(l)
  <2>1. /\ status[l] = "running" /\ buf' = [buf EXCEPT ![l] = Written(buf[l])]
        /\ buf[l].to < MaxChunk /\ UNCHANGED <<status, seen, refused>>
    BY <1>1 DEF Broadcast
  <2>2. Written(buf[l]).to = buf[l].to + 1 BY <1>t, <2>1, WrittenType
  <2>3. watching' = [watching EXCEPT ![l] = watching[l] + 1]
    BY <1>t, <2>1, <2>2 DEF watching
  <2> QED BY <2>1, <2>3 DEF Watched!Write, watching
\* A step that may make some clients miss a frame.
<1>m. ASSUME \A c \in Client : refused[c] => refused'[c]
      PROVE  \E C \in SUBSET Client : Watched!Miss(C)
  <2> DEFINE C == {c \in Client : refused'[c]}
  <2>1. refused' = [c \in Client |-> refused[c] \/ c \in C]
    <3>1. \A c \in Client : refused'[c] = (refused[c] \/ c \in C) BY <1>m, <1>t
    <3> QED BY <1>t, <3>1
  <2>2. Watched!Miss(C) BY <2>1 DEF Watched!Miss
  <2> HIDE DEF C
  <2>3. C \in SUBSET Client BY DEF C
  <2> QED BY <2>2, <2>3
<1>2. ASSUME NEW l \in Life, MarkStopped(l) PROVE Watched!Stop(l)
  <2>1. /\ status[l] = "running" /\ status' = [status EXCEPT ![l] = "stopped"]
        /\ UNCHANGED <<seen, buf>>
    BY <1>2 DEF MarkStopped
  <2>2. \A c \in Client : refused[c] => refused'[c] BY <1>2 DEF MarkStopped
  <2>3. \E C \in SUBSET Client : Watched!Miss(C) BY <1>m, <2>2
  <2> QED BY <2>1, <2>3 DEF Watched!Stop
<1>3. ASSUME NEW l \in Life, ReleaseBuffer(l) PROVE UNCHANGED <<status, watching, seen, refused>>
  <2>1. \A k \in Life : buf'[k].to = buf[k].to BY <1>3, <1>t DEF ReleaseBuffer
  <2>2. watching' = watching BY <2>1 DEF watching
  <2> QED BY <1>3, <2>2 DEF ReleaseBuffer, conn
<1>4. ASSUME RestartPublish PROVE \E l \in Life : Watched!Start(l)
  <2>1. /\ cur + 1 \in Life /\ cur \in Life /\ cur # 0 /\ (cur + 1) - 1 = cur /\ cur + 1 > cur
        /\ file.to < MaxChunk /\ status[cur] = "stopped"
        /\ status' = [status EXCEPT ![cur + 1] = "running"]
        /\ buf' = [buf EXCEPT ![cur + 1] = IF IsEmpty(file) THEN file ELSE Written(file)]
        /\ UNCHANGED <<seen, refused>>
    BY <1>4, <1>t, SizesAssumption DEF RestartPublish, Life, conn
  <2>2. status[cur + 1] = "unborn" BY <2>1 DEF WatchInv, Inv, Lives
  <2>3. file.to = buf[cur].to /\ (IsEmpty(file) <=> file.to = 0)
    BY <2>1 DEF WatchInv, Outputs
  <2>4. buf'[cur + 1].to = IF buf[cur].to = 0 THEN 0 ELSE buf[cur].to + 1
    <3>1. CASE IsEmpty(file) BY <1>t, <2>1, <2>3, <3>1
    <3>2. CASE ~IsEmpty(file)
      <4>1. Written(file).to = file.to + 1 BY <1>t, <2>1, WrittenType
      <4> QED BY <1>t, <2>1, <2>3, <3>2, <4>1
    <3> QED BY <3>1, <3>2
  <2>5. watching' = [watching EXCEPT ![cur + 1] =
                       IF watching[cur] = 0 THEN 0 ELSE watching[cur] + 1]
    <3>1. watching[cur] = buf[cur].to BY <2>1 DEF watching
    <3>2. \A k \in Life : buf'[k].to = IF k = cur + 1 THEN buf'[cur + 1].to ELSE buf[k].to
      BY <1>t, <2>1
    <3> QED BY <2>1, <2>4, <3>1, <3>2 DEF watching
  <2>6. PICK l \in Life : l = cur + 1 BY <2>1
  <2>7. Watched!Start(l) BY <1>l, <2>1, <2>2, <2>5, <2>6 DEF Watched!Start, watching
  <2> QED BY <2>7
<1>5. CASE RestartTakes \/ RestartEnds \/ DeleteBegin \/ DeleteCloses
  BY <1>5 DEF RestartTakes, RestartEnds, DeleteBegin, DeleteCloses, conn, watching
<1>6. ASSUME NEW c \in Client, NEW l \in Life, Primed(c, l), UNCHANGED <<status, buf, seen>>
      PROVE  Watched!Lose
  <2>1. \A d \in Client : refused[d] => refused'[d] BY <1>6, <1>t DEF Primed
  <2>2. \E C \in SUBSET Client : Watched!Miss(C) BY <1>m, <2>1
  <2> QED BY <1>6, <2>2 DEF Watched!Lose
<1>7. ASSUME NEW c \in Client, RestartMoves(c) PROVE Watched!Lose
  <2>1. cur \in Life
    BY <1>7, <1>t, SizesAssumption DEF RestartMoves, WatchInv, Inv, Lives, Life
  <2> QED BY <1>6, <1>7, <2>1 DEF RestartMoves
<1>8. ASSUME NEW c \in Client, AttachAdds(c) PROVE Watched!Lose
  <2>1. handler[c].life \in Life BY <1>8 DEF AttachAdds, At, WatchInv, Inv, Lives
  <2> QED BY <1>6, <1>8, <2>1 DEF AttachAdds
<1>9. ASSUME NEW c \in Client, PumpWrites(c) PROVE Watched!Show(c)
  <2>1. /\ queue[c] # <<>> /\ seen' = [seen EXCEPT ![c] = Head(queue[c])]
        /\ UNCHANGED <<status, buf, refused>>
    BY <1>9 DEF PumpWrites, Deliver, session
  <2>2. Head(queue[c]) \in Frame BY <1>t, <2>1, Writing
  <2>3. Watched!Frame = Frame BY DEF Watched!Frame, Watched!Run, Frame, Run, Chunk
  <2>4. refused[c] \/ Watched!MayFollow(seen[c], Head(queue[c]))
    <3> SUFFICES ASSUME ~refused[c] PROVE Watched!MayFollow(seen[c], Head(queue[c])) OBVIOUS
    <3>1. Chain(seen[c], queue[c], Backing) BY DEF WatchInv, AllBacked, Backed
    <3>2. <<seen[c], Head(queue[c])>> \in Backing BY <1>t, <2>1, <3>1, ChainWriting
    <3>3. Backs(seen[c], Head(queue[c])) BY <3>2 DEF Backing
    <3> QED BY <1>l, <3>3 DEF Backs, Watched!MayFollow
  <2> QED BY <2>1, <2>2, <2>3, <2>4 DEF Watched!Show
<1>10. ASSUME NEW c \in Client,
              \/ AttachFinds(c) \/ AttachChecks(c) \/ AttachRefused(c) \/ ReadEnds(c)
              \/ InputBegins(c) \/ InputEnds(c) \/ Detach(c) \/ HandlerCloses(c)
       PROVE  UNCHANGED <<status, watching, seen, refused>>
  BY <1>10 DEF AttachFinds, AttachChecks, AttachRefused, ReadEnds, InputBegins, InputEnds,
               Detach, HandlerCloses, session, conn, watching
<1>11. ASSUME NEW c \in Client,
              CloseRuns(c) \/ PumpSeesDone(c) \/ PumpCloses(c) \/ PumpFails(c)
       PROVE  UNCHANGED <<status, watching, seen, refused>>
  BY <1>11 DEF CloseRuns, PumpSeesDone, PumpCloses, PumpFails, session, watching
<1>12. CASE UNCHANGED vars BY <1>12 DEF vars, watching
<1>16. ASSUME NEW l \in Life, ShutTerminal(l) PROVE UNCHANGED <<status, watching, seen, refused>>
  BY <1>16 DEF ShutTerminal, conn, watching
<1>13. ASSUME NEW l \in Life, Broadcast(l) \/ MarkStopped(l) PROVE Watched!Next
  BY <1>l, <1>1, <1>2, <1>13 DEF Watched!Next
<1>14. ASSUME RestartPublish PROVE Watched!Next
  BY <1>l, <1>4, <1>14 DEF Watched!Next
<1>15. ASSUME NEW c \in Client, RestartMoves(c) \/ AttachAdds(c) \/ PumpWrites(c)
       PROVE  Watched!Next
  BY <1>7, <1>8, <1>9, <1>15 DEF Watched!Next
<1> QED
  BY <1>3, <1>5, <1>10, <1>11, <1>12, <1>13, <1>14, <1>15, <1>16 DEF Next, PumpStep, HandlerStep

\* Whatever is queued, dropped, moved and released in between, each browser that
\* lost no frame is shown what Watch promises (attach, broadcast, markStopped,
\* takeClients, Restart).
THEOREM BrowsersAreShownTheSession == Spec => IsAWatch
<1>1. Init => Watched!Init BY WatchStart
<1>2. WatchInv /\ WatchInv' /\ [Next]_vars
        => [Watched!Next]_<<status, [l \in Life |-> buf[l].to], seen, refused>>
  BY WatchStep
<1> QED BY <1>1, <1>2, WatchInvariance, PTL DEF Spec, IsAWatch, Watched!Spec
=============================================================================
