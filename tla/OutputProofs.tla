---------------------------- MODULE OutputProofs ----------------------------
(***************************************************************************)
(* Proofs about what is kept of a session's output: its scrollback file    *)
(* (Scrollback), its title and its modes (VtScanners).                     *)
(*                                                                         *)
(* The three promises about the file hold for any number of shells and any *)
(* amount of output, and have one argument.  Of all the lives of a session *)
(* only one can still have a read loop at work, the latest; it is the one  *)
(* the map holds, or a Delete or the Shutdown has taken it out, but not    *)
(* both (OneInCharge).  Its final snapshot reaches as far as its output,   *)
(* because nothing is read once it is taken (SnapIsFinal), and it is on    *)
(* disk before the loop gets any further (SavedFirst).  A session that is  *)
(* being deleted takes none at all from the moment it is marked            *)
(* (DiscardedSavesNothing).                                                *)
(*                                                                         *)
(* The scanners are about any output, put together from any fragments.  A  *)
(* terminal reads a title where an OSC sequence ends, which is a matter of *)
(* the bytes behind its introduction alone (EndOfOsc); after every byte    *)
(* the titleScanner is inside the only sequence that can still end, with   *)
(* as much of its payload as it keeps (Sees), so that it sees the end of a *)
(* sequence when there is one (NewTitle) and else sees none (NoNewTitle).  *)
(* A walk over two chunks is one walk over both (ModeWalkOn), and the fast *)
(* path leaves the scanner where the walk would (FastPath, ModeScan).      *)
(*                                                                         *)
(* The modes that the reference reads off all bytes at once are those of a *)
(* walk (TermStep), by TerminalIs; over bytes without the two weak spots   *)
(* the modeScanner walks beside it (Mirrors).  So the separator is a short *)
(* walk from any modes to the reset ones (SeparatorWalk), and the preamble *)
(* one from the reset ones to the session's (PreambleWalk).  A terminal    *)
(* put into modes that it is then led to again by the replay has each mode *)
(* as it was before or as it will be (Mixed), and is even with the one the *)
(* session has had all along when all is said (CatchUp).                   *)
(*                                                                         *)
(* The filter has read c and the sequence y it is in, and kept o and y;    *)
(* c and o are alike to a terminal and to a screen (Alike), the sequence   *)
(* is in the same place in all three (Behaves).  A query that is dropped   *)
(* would have changed nothing but what is asked (Vanishes), and what is    *)
(* kept asks nothing (Harmless).  The screen's walk is related to what the *)
(* reference draws and asks by Renders.                                    *)
(***************************************************************************)
EXTENDS Scrollback, VtScanners, SequenceTheorems, WellFoundedInduction,
        FiniteSetTheorems, TLAPS

-----------------------------------------------------------------------------
(* The scrollback file                                                     *)

Loops == {"none", "reading", "saving", "saved", "marked", "done"}
Objects ==
  [status: {"unborn", "running", "stopped"}, discarded: BOOLEAN, to: Nat,
   proc: {"none", "alive", "held", "dead"}, loop: Loops, snap: Nat]

Typed ==
  /\ cur \in 0..MaxLife /\ out \in Nat
  /\ obj \in [Life -> Objects]
  /\ file \in [to: Nat, by: {"nobody", "loop", "flush", "shutdown"}]
  /\ flush \in [pc: {"idle", "listed", "saving"}, life: 0..MaxLife, snap: Nat]
  /\ del \in [pc: {"no", "mark", "wait", "discard", "done"}, life: 0..MaxLife]
  /\ sd \in [pc: {"no", "capture", "save", "terminate", "wait", "done"},
             life: 0..MaxLife, snap: Nat]

\* The session is in the map, or in the hands of Delete or of Shutdown.
OneInCharge ==
  /\ cur # 0 => del.pc = "no" /\ sd.pc = "no"
  /\ del.pc = "no" \/ sd.pc = "no"
  /\ del.pc # "no" => del.life # 0
  /\ sd.pc # "no" => sd.life # 0
  /\ flush.pc = "listed" => flush.life # 0

\* The life a read loop is at work for, the latest one.
Latest == IF cur # 0 THEN cur ELSE IF del.pc # "no" THEN del.life ELSE sd.life

OnlyTheLatestRuns ==
  \A l \in Life :
    /\ obj[l].loop \in {"reading", "saving", "saved"} => l = Latest
    /\ obj[l].status = "stopped" => obj[l].loop \in {"marked", "done"}
    /\ obj[l].loop \in {"reading", "saving"} => obj[l].status = "running"

\* Nobody but Delete marks a session as discarded.
OnlyDeleteDiscards ==
  \A l \in Life : obj[l].discarded => del.pc \in {"wait", "discard", "done"}

SnapIsFinal == \A l \in Life : obj[l].loop = "saving" => obj[l].snap = obj[l].to

\* Past its save, the read loop has left a file with all of the output, unless
\* the flush loop or Shutdown has written over it.
SavedFirst ==
  /\ \A l \in Life :
       l = Latest /\ del.pc = "no" /\ obj[l].loop \in {"saved", "marked", "done"} =>
         file.by \in {"flush", "shutdown"} \/ file.to = obj[l].to
  /\ cur # 0 => file.by # "shutdown"

DiscardedSavesNothing ==
  /\ del.pc \in {"wait", "discard", "done"} => obj[del.life].discarded
  /\ del.pc \in {"discard", "done"} => \A l \in Life : obj[l].loop # "saving"

Inv ==
  /\ Typed /\ OneInCharge /\ OnlyTheLatestRuns /\ OnlyDeleteDiscards /\ SnapIsFinal
  /\ SavedFirst /\ DiscardedSavesNothing /\ NoOrphanOfTheLoop

-----------------------------------------------------------------------------
(* Its steps                                                               *)

\* What the steps do to a session object.
LEMMA ObjectEdits ==
  ASSUME NEW o \in Objects, NEW l \in Loops, NEW n \in Nat,
         NEW p \in {"none", "alive", "held", "dead"}
  PROVE  /\ [o EXCEPT !.proc = p] \in Objects
         /\ [o EXCEPT !.loop = l] \in Objects
         /\ [o EXCEPT !.to = n] \in Objects
         /\ [o EXCEPT !.loop = l, !.snap = n] \in Objects
         /\ [o EXCEPT !.status = "stopped", !.loop = l] \in Objects
         /\ [o EXCEPT !.discarded = TRUE, !.proc = p] \in Objects
  BY DEF Objects

LEMMA ObjectsKept ==
  ASSUME NEW f \in [Life -> Objects], NEW l \in Life, NEW o \in Objects
  PROVE  [f EXCEPT ![l] = o] \in [Life -> Objects]
  OBVIOUS

LEMMA StartedIsObject == \A n \in Nat : [Started EXCEPT !.to = n] \in Objects
  BY DEF Started, NotYet, Objects, Loops

LEMMA InvInit == Init => Inv
<1> SUFFICES ASSUME Init PROVE Inv OBVIOUS
<1>1. Started \in Objects /\ NotYet \in Objects BY DEF Started, NotYet, Objects, Loops
<1>2. Typed
  <2>1. obj \in [Life -> Objects] BY <1>1 DEF Init
  <2> QED BY <2>1, BoundsAssumption DEF Init, Typed, NoFile
<1>3. OneInCharge /\ SavedFirst /\ DiscardedSavesNothing /\ NoOrphanOfTheLoop
  BY DEF Init, OneInCharge, SavedFirst, DiscardedSavesNothing, NoOrphanOfTheLoop, NoFile,
         Started, NotYet, Latest
<1>4. OnlyTheLatestRuns /\ OnlyDeleteDiscards /\ SnapIsFinal
  BY DEF Init, OnlyTheLatestRuns, OnlyDeleteDiscards, SnapIsFinal, Latest, Started, NotYet
<1> QED BY <1>2, <1>3, <1>4 DEF Inv

LEMMA InvNext == Inv /\ [Next]_vars => Inv'
<1> SUFFICES ASSUME Inv, [Next]_vars PROVE Inv' OBVIOUS
<1> USE BoundsAssumption
    DEF Inv, Typed, Objects, Loops, OneInCharge, OnlyTheLatestRuns, Latest,
        OnlyDeleteDiscards, SnapIsFinal, SavedFirst, DiscardedSavesNothing,
        NoOrphanOfTheLoop, Life
<1>1. ASSUME NEW l \in Life, ShellExits(l) PROVE Inv'
  <2>1. Typed'
    <3> HIDE DEF Objects, Loops
    <3>1. PICK p \in {"dead", "held"} : obj' = [obj EXCEPT ![l] = [obj[l] EXCEPT !.proc = p]]
      BY <1>1 DEF ShellExits
    <3>2. [obj[l] EXCEPT !.proc = p] \in Objects BY ObjectEdits DEF Loops
    <3> QED BY <1>1, <3>1, <3>2, ObjectsKept DEF ShellExits
  <2>2. OneInCharge' BY <1>1 DEF ShellExits
  <2>3. OnlyTheLatestRuns' BY <1>1 DEF ShellExits
  <2>4. OnlyDeleteDiscards' BY <1>1 DEF ShellExits
  <2>5. SnapIsFinal' BY <1>1 DEF ShellExits
  <2>6. SavedFirst' BY <1>1 DEF ShellExits
  <2>7. DiscardedSavesNothing' BY <1>1 DEF ShellExits
  <2>8. NoOrphanOfTheLoop' BY <1>1 DEF ShellExits
  <2> QED BY <2>1, <2>2, <2>3, <2>4, <2>5, <2>6, <2>7, <2>8
<1>2. ASSUME NEW l \in Life, LoopReads(l) PROVE Inv'
  <2>1. Typed'
    <3> HIDE DEF Objects, Loops
    <3>1. obj[l] \in Objects /\ out + 1 \in Nat BY <1>2
    <3>2. [obj[l] EXCEPT !.to = out + 1] \in Objects BY <3>1, ObjectEdits DEF Loops
    <3>3. obj' = [obj EXCEPT ![l] = [obj[l] EXCEPT !.to = out + 1]] BY <1>2 DEF LoopReads
    <3> QED BY <1>2, <3>1, <3>2, <3>3, ObjectsKept DEF LoopReads
  <2>2. OneInCharge' BY <1>2 DEF LoopReads
  <2>3. OnlyTheLatestRuns' BY <1>2 DEF LoopReads
  <2>4. OnlyDeleteDiscards' BY <1>2 DEF LoopReads
  <2>5. SnapIsFinal' BY <1>2 DEF LoopReads
  <2>6. SavedFirst' BY <1>2 DEF LoopReads
  <2>7. DiscardedSavesNothing' BY <1>2 DEF LoopReads
  <2>8. NoOrphanOfTheLoop' BY <1>2 DEF LoopReads
  <2> QED BY <2>1, <2>2, <2>3, <2>4, <2>5, <2>6, <2>7, <2>8
<1>3. ASSUME NEW l \in Life, LoopCaptures(l) PROVE Inv'
  <2>1. Typed'
    <3> HIDE DEF Objects, Loops
    <3>1. obj[l].to \in Nat BY DEF Objects
    <3>2. /\ [obj[l] EXCEPT !.loop = "saving", !.snap = obj[l].to] \in Objects
          /\ [obj[l] EXCEPT !.loop = "saved"] \in Objects
      BY <3>1, ObjectEdits DEF Loops
    <3> QED BY <1>3, <3>2, ObjectsKept DEF LoopCaptures
  <2>2. OneInCharge' BY <1>3 DEF LoopCaptures, Savable
  <2>3. OnlyTheLatestRuns' BY <1>3 DEF LoopCaptures, Savable
  <2>4. OnlyDeleteDiscards' BY <1>3 DEF LoopCaptures, Savable
  <2>5. SnapIsFinal' BY <1>3 DEF LoopCaptures, Savable
  <2>6. SavedFirst' BY <1>3 DEF LoopCaptures, Savable
  <2>7. DiscardedSavesNothing' BY <1>3 DEF LoopCaptures, Savable
  <2>8. NoOrphanOfTheLoop' BY <1>3 DEF LoopCaptures, Savable
  <2> QED BY <2>1, <2>2, <2>3, <2>4, <2>5, <2>6, <2>7, <2>8
<1>4. ASSUME NEW l \in Life, LoopSaves(l) PROVE Inv' BY <1>4 DEF LoopSaves
<1>5. ASSUME NEW l \in Life, LoopMarksStopped(l) PROVE Inv'
  <2>1. Typed'
    <3> HIDE DEF Objects, Loops
    <3>1. [obj[l] EXCEPT !.status = "stopped", !.loop = "marked"] \in Objects
      BY ObjectEdits DEF Loops
    <3> QED BY <1>5, <3>1, ObjectsKept DEF LoopMarksStopped
  <2>2. OneInCharge' BY <1>5 DEF LoopMarksStopped, Markable
  <2>3. OnlyTheLatestRuns' BY <1>5 DEF LoopMarksStopped, Markable
  <2>4. OnlyDeleteDiscards' BY <1>5 DEF LoopMarksStopped, Markable
  <2>5. SnapIsFinal' BY <1>5 DEF LoopMarksStopped, Markable
  <2>6. SavedFirst' BY <1>5 DEF LoopMarksStopped, Markable
  <2>7. DiscardedSavesNothing' BY <1>5 DEF LoopMarksStopped, Markable
  <2>8. NoOrphanOfTheLoop' BY <1>5 DEF LoopMarksStopped, Markable
  <2> QED BY <2>1, <2>2, <2>3, <2>4, <2>5, <2>6, <2>7, <2>8
<1>6. ASSUME NEW l \in Life, LoopEnds(l) PROVE Inv'
  <2>1. Typed'
    <3> HIDE DEF Objects, Loops
    <3>1. [obj[l] EXCEPT !.loop = "done"] \in Objects BY ObjectEdits DEF Loops
    <3> QED BY <1>6, <3>1, ObjectsKept DEF LoopEnds
  <2>2. OneInCharge' BY <1>6 DEF LoopEnds
  <2>3. OnlyTheLatestRuns' BY <1>6 DEF LoopEnds
  <2>4. OnlyDeleteDiscards' BY <1>6 DEF LoopEnds
  <2>5. SnapIsFinal' BY <1>6 DEF LoopEnds
  <2>6. SavedFirst' BY <1>6 DEF LoopEnds
  <2>7. DiscardedSavesNothing' BY <1>6 DEF LoopEnds
  <2>8. NoOrphanOfTheLoop' BY <1>6 DEF LoopEnds
  <2> QED BY <2>1, <2>2, <2>3, <2>4, <2>5, <2>6, <2>7, <2>8
<1>7. CASE FlushLists BY <1>7 DEF FlushLists
<1>8. CASE FlushCaptures BY <1>8 DEF FlushCaptures, Savable
<1>9. CASE FlushSaves BY <1>9 DEF FlushSaves
<1>10. CASE Restart
  <2>1. Typed'
    <3> HIDE DEF Objects, Loops
    <3>1. [Started EXCEPT !.to = Restored] \in Objects
      BY StartedIsObject DEF Restored
    <3>2. cur + 1 \in Life /\ cur + 1 \in 0..MaxLife BY <1>10 DEF Restart
    <3> QED BY <1>10, <3>1, <3>2, ObjectsKept DEF Restart
  <2>2. OneInCharge' BY <1>10 DEF Restart, Restored, Started, NotYet
  <2>3. OnlyTheLatestRuns' BY <1>10 DEF Restart, Restored, Started, NotYet
  <2>4. OnlyDeleteDiscards' BY <1>10 DEF Restart, Restored, Started, NotYet
  <2>5. SnapIsFinal' BY <1>10 DEF Restart, Restored, Started, NotYet
  <2>6. SavedFirst' BY <1>10 DEF Restart, Restored, Started, NotYet
  <2>7. DiscardedSavesNothing' BY <1>10 DEF Restart, Restored, Started, NotYet
  <2>8. NoOrphanOfTheLoop' BY <1>10 DEF Restart, Restored, Started, NotYet
  <2> QED BY <2>1, <2>2, <2>3, <2>4, <2>5, <2>6, <2>7, <2>8
<1>11. CASE DeleteBegins BY <1>11 DEF DeleteBegins
<1>12. CASE DeleteMarks
  <2>1. Typed'
    <3> HIDE DEF Objects, Loops
    <3>1. del.life \in Life BY <1>12 DEF DeleteMarks
    <3>2. PICK p \in Killed(obj[del.life].proc) :
            obj' = [obj EXCEPT ![del.life] =
                      [obj[del.life] EXCEPT !.discarded = TRUE, !.proc = p]]
      BY <1>12 DEF DeleteMarks
    <3>3. p \in {"none", "alive", "held", "dead"} BY <3>1 DEF Killed, Objects
    <3>4. [obj[del.life] EXCEPT !.discarded = TRUE, !.proc = p] \in Objects
      BY <3>1, <3>3, ObjectEdits DEF Loops
    <3> QED BY <1>12, <3>1, <3>2, <3>4, ObjectsKept DEF DeleteMarks
  <2>2. OneInCharge' BY <1>12 DEF DeleteMarks, Killed
  <2>3. OnlyTheLatestRuns' BY <1>12 DEF DeleteMarks, Killed
  <2>4. OnlyDeleteDiscards' BY <1>12 DEF DeleteMarks, Killed
  <2>5. SnapIsFinal' BY <1>12 DEF DeleteMarks, Killed
  <2>6. SavedFirst' BY <1>12 DEF DeleteMarks, Killed
  <2>7. DiscardedSavesNothing' BY <1>12 DEF DeleteMarks, Killed
  <2>8. NoOrphanOfTheLoop' BY <1>12 DEF DeleteMarks, Killed
  <2> QED BY <2>1, <2>2, <2>3, <2>4, <2>5, <2>6, <2>7, <2>8
<1>13. CASE DeleteWaits
  <2>1. Typed' BY <1>13 DEF DeleteWaits, TerminateReturns
  <2>2. OneInCharge' BY <1>13 DEF DeleteWaits, TerminateReturns
  <2>3. OnlyTheLatestRuns' BY <1>13 DEF DeleteWaits, TerminateReturns
  <2>4. OnlyDeleteDiscards' BY <1>13 DEF DeleteWaits, TerminateReturns
  <2>5. SnapIsFinal' BY <1>13 DEF DeleteWaits, TerminateReturns
  <2>6. SavedFirst' BY <1>13 DEF DeleteWaits, TerminateReturns
  <2>7. DiscardedSavesNothing' BY <1>13 DEF DeleteWaits, TerminateReturns
  <2>8. NoOrphanOfTheLoop' BY <1>13 DEF DeleteWaits, TerminateReturns
  <2> QED BY <2>1, <2>2, <2>3, <2>4, <2>5, <2>6, <2>7, <2>8
<1>14. CASE DeleteDiscards BY <1>14 DEF DeleteDiscards, NoFile
<1>15. CASE ShutdownBegins BY <1>15 DEF ShutdownBegins
<1>16. CASE ShutdownCaptures
  <2>1. sd.life \in Life BY <1>16 DEF ShutdownCaptures
  <2>2. obj[sd.life].to \in Nat BY <2>1
  <2> QED BY <1>16, <2>1, <2>2 DEF ShutdownCaptures
<1>17. CASE ShutdownSaves BY <1>17 DEF ShutdownSaves
<1>18. CASE ShutdownTerminates
  <2>1. Typed'
    <3> HIDE DEF Objects, Loops
    <3>1. sd.life \in Life BY <1>18 DEF ShutdownTerminates
    <3>2. PICK p \in Killed(obj[sd.life].proc) :
            obj' = [obj EXCEPT ![sd.life] = [obj[sd.life] EXCEPT !.proc = p]]
      BY <1>18 DEF ShutdownTerminates
    <3>3. p \in {"none", "alive", "held", "dead"} BY <3>1 DEF Killed, Objects
    <3>4. [obj[sd.life] EXCEPT !.proc = p] \in Objects
      BY <3>1, <3>3, ObjectEdits DEF Loops
    <3> QED BY <1>18, <3>1, <3>2, <3>4, ObjectsKept DEF ShutdownTerminates
  <2>2. OneInCharge' BY <1>18 DEF ShutdownTerminates, Killed
  <2>3. OnlyTheLatestRuns' BY <1>18 DEF ShutdownTerminates, Killed
  <2>4. OnlyDeleteDiscards' BY <1>18 DEF ShutdownTerminates, Killed
  <2>5. SnapIsFinal' BY <1>18 DEF ShutdownTerminates, Killed
  <2>6. SavedFirst' BY <1>18 DEF ShutdownTerminates, Killed
  <2>7. DiscardedSavesNothing' BY <1>18 DEF ShutdownTerminates, Killed
  <2>8. NoOrphanOfTheLoop' BY <1>18 DEF ShutdownTerminates, Killed
  <2> QED BY <2>1, <2>2, <2>3, <2>4, <2>5, <2>6, <2>7, <2>8
<1>19. CASE ShutdownEnds BY <1>19 DEF ShutdownEnds, TerminateReturns
<1>20. CASE UNCHANGED vars BY <1>20 DEF vars
<1> QED
  BY <1>1, <1>2, <1>3, <1>4, <1>5, <1>6, <1>7, <1>8, <1>9, <1>10, <1>11, <1>12, <1>13,
     <1>14, <1>15, <1>16, <1>17, <1>18, <1>19, <1>20 DEF Next

-----------------------------------------------------------------------------
(* The promises about the file                                             *)

LEMMA Invariance == Spec => []Inv
BY InvInit, InvNext, PTL DEF Spec

\* A session that anyone can see stopped has its final output on disk, but for a
\* flush that was in flight (readLoop, snapshotRunning).
THEOREM StoppedHasItsOutput == Spec => []StoppedFileIsFinal
<1>1. Inv => StoppedFileIsFinal
  BY DEF Inv, StoppedFileIsFinal, Typed, Objects, OneInCharge, OnlyTheLatestRuns, Latest,
         SavedFirst, Life
<1> QED BY <1>1, Invariance, PTL

\* However late the read loop of a deleted session ends, it puts no file back
\* (markDiscarded before terminate, discardState after it).
THEOREM DeletedLoopLeavesNothing == Spec => []NoOrphanOfTheLoop
<1>1. Inv => NoOrphanOfTheLoop BY DEF Inv
<1> QED BY <1>1, Invariance, PTL

\* A clean exit keeps the output of the session, unless a flush in flight or
\* Shutdown's own snapshot comes after it (Shutdown).
THEOREM CleanExitKeepsOutput == Spec => []ShutdownKeepsOutput
<1>1. Inv => ShutdownKeepsOutput
  BY DEF Inv, ShutdownKeepsOutput, Typed, OneInCharge, Latest, SavedFirst, Life
<1> QED BY <1>1, Invariance, PTL

-----------------------------------------------------------------------------
(* Induction, and the walks                                                *)

Before == {ss \in Nat \X Nat : ss[1] < ss[2]}

\* Induction over the natural numbers, for a set.
LEMMA SetInduction ==
  ASSUME NEW S, 0 \in S, \A n \in Nat : n \in S => n + 1 \in S
  PROVE  Nat \subseteq S
<1> DEFINE T == Nat \ S
<1> SUFFICES ASSUME T # {} PROVE FALSE OBVIOUS
<1>1. IsWellFoundedOn(Before, Nat) BY NatLessThanWellFounded DEF OpToRel, Before
<1>2. PICK x \in T : \A y \in T : ~(<<y, x>> \in Before) BY <1>1, WFMin
<1>3. \A y \in Nat : <<y, x>> \in Before <=> y < x BY <1>2 DEF Before
<1>4. x \in Nat /\ x # 0 /\ x \notin S BY <1>2
<1>5. x - 1 \in Nat /\ x - 1 < x /\ x - 1 + 1 = x BY <1>4
<1>6. x - 1 \in S BY <1>2, <1>3, <1>5
<1> QED BY <1>4, <1>5, <1>6

\* A set of natural numbers that is not empty has its Least.
LEMMA LeastOf ==
  ASSUME NEW S \in SUBSET Nat, S # {}
  PROVE  /\ Least(S) \in S /\ \A y \in S : Least(S) <= y
         /\ \A x \in S : (\A y \in S : x <= y) => Least(S) = x
<1>1. IsWellFoundedOn(Before, Nat) BY NatLessThanWellFounded DEF OpToRel, Before
<1>2. PICK x \in S : \A y \in S : ~(<<y, x>> \in Before) BY <1>1, WFMin
<1>3. \A y \in S : <<y, x>> \in Before <=> y < x BY <1>2 DEF Before
<1>4. \A y \in S : y \in Nat /\ x \in Nat /\ ~(y < x) BY <1>2, <1>3
<1>5. \A y \in S : x <= y BY <1>4
<1>6. Least(S) \in S /\ \A y \in S : Least(S) <= y BY <1>5 DEF Least
<1>7. ASSUME NEW z \in S, \A y \in S : z <= y PROVE Least(S) = z
  <2>1. z <= Least(S) /\ Least(S) <= z /\ z \in Nat /\ Least(S) \in Nat BY <1>6, <1>7
  <2> QED BY <2>1
<1> QED BY <1>6, <1>7

Scanner == [st: {"ground", "esc", "string", "stringEsc"}, intro: {"", "]", "P"},
            payload: Seq(Byte), title: SUBSET Seq(Byte)]

\* TitleStep, state by state.
LEMMA TitleSteps ==
  ASSUME NEW t \in Scanner, NEW b \in Byte, NEW n, n = TitleStep(t, b)
  PROVE  /\ t.st = "ground" => n = [t EXCEPT !.st = IF b = "ESC" THEN "esc" ELSE "ground"]
         /\ t.st = "esc" => n = TitleEsc(t, b)
         /\ t.st = "string" /\ b = "BEL" => n = Ended(t)
         /\ t.st = "string" /\ b = "ESC" => n = [t EXCEPT !.st = "stringEsc"]
         /\ t.st = "string" /\ b \notin {"ESC", "BEL"} => n = [t EXCEPT !.payload = Added(@, b)]
         /\ t.st = "stringEsc" => n = IF b = "\\" THEN Ended(t) ELSE TitleEsc(t, b)
  BY DEF TitleStep

Walked(t, data) == Walk(TitleStep, t, data)

\* A walk is a chain of steps.
LEMMA TitleWalk ==
  ASSUME NEW t, NEW data \in Seq(Byte)
  PROVE  \E at : /\ Walked(t, data) = at[Len(data)] /\ at[0] = t
                 /\ \A i \in 1..Len(data) : at[i] = TitleStep(at[i - 1], data[i])
<1> DEFINE L == Len(data)
           E(g, m) == g = [i \in 0..m |-> IF i = 0 THEN t ELSE TitleStep(g[i - 1], data[i])]
           S == {m \in Nat : \E g : E(g, m)}
<1>0. L \in Nat BY LenProperties
<1>1. 0 \in S
  <2> DEFINE g == [i \in 0..0 |-> t]
  <2>1. g = [i \in 0..0 |-> IF i = 0 THEN t ELSE TitleStep(g[i - 1], data[i])] OBVIOUS
  <2>2. E(g, 0) BY <2>1
  <2> QED BY <2>2
<1>2. ASSUME NEW m \in Nat, m \in S PROVE m + 1 \in S
  <2>1. PICK g : E(g, m) BY <1>2
  <2> DEFINE h == [i \in 0..m + 1 |-> IF i = 0 THEN t ELSE TitleStep(g[i - 1], data[i])]
  <2>2. \A i \in 0..m : h[i] = g[i] BY <2>1
  <2>3. \A i \in 0..m + 1 : i # 0 => h[i - 1] = g[i - 1]
    <3> TAKE i \in 0..m + 1
    <3> HAVE i # 0
    <3>1. i - 1 \in 0..m OBVIOUS
    <3> QED BY <2>2, <3>1
  <2>4. h = [i \in 0..m + 1 |-> IF i = 0 THEN t ELSE TitleStep(h[i - 1], data[i])] BY <2>3
  <2>5. E(h, m + 1) BY <2>4
  <2> HIDE DEF E, h
  <2> QED BY <2>5
<1>3. L \in S BY <1>0, <1>1, <1>2, SetInduction
<1>4. \E g : E(g, L) BY <1>3
<1> DEFINE at == CHOOSE g : E(g, L)
<1>5. Walked(t, data) = at[L] BY DEF Walked, Walk
<1>6. E(at, L) BY <1>4
<1>7. \A i \in 0..L : at[i] = IF i = 0 THEN t ELSE TitleStep(at[i - 1], data[i]) BY <1>6
<1> HIDE DEF at
<1> QED BY <1>0, <1>5, <1>7

Ending == {"ESC", "BEL"}

\* No byte of s from i to j ends a string or may be the beginning of its end.
Quiet(s, i, j) == \A k \in i..j : s[k] \notin Ending

\* An OSC sequence is introduced at i.
\* A string sequence is introduced at i, and one that is an OSC sequence.
StringAt(s, i) == i \in 1..Len(s) - 1 /\ s[i] = "ESC" /\ s[i + 1] \in {"]", "P"}
\* An OSC sequence is introduced at i.
OscAt(s, i) == i \in 1..Len(s) - 1 /\ s[i] = "ESC" /\ s[i + 1] = "]"

\* A string introduced at i ends at j: a BEL, or the second byte of ST.
EndsAt(s, i, j) ==
  /\ j \in i + 2..Len(s)
  /\ \/ s[j] = "BEL" /\ Quiet(s, i + 2, j - 1)
     \/ s[j] = "\\" /\ j > i + 2 /\ s[j - 1] = "ESC" /\ Quiet(s, i + 2, j - 2)

\* Whatever follows, a string introduced at i has ended or been abandoned.
Settled(s, i) ==
  \E k \in i + 2..Len(s) :
    s[k] \in Ending /\ Quiet(s, i + 2, k - 1) /\ (s[k] = "ESC" => k < Len(s))

LEMMA EndOfString ==
  ASSUME NEW s \in Seq(Byte), NEW i, StringAt(s, i)
  PROVE  /\ \A j : EndsAt(s, i, j) => EndOf(s, i) = j
         /\ EndOf(s, i) # 0 => EndsAt(s, i, EndOf(s, i))
<1> DEFINE L == Len(s)
           A == {j \in Escs(s) : j > i} \cup {L + 1}
           stop == NextEsc(s, i)
           B == {j \in i + 2..stop - 1 : s[j] \in {"BEL"}} \cup {stop}
           bel == Least(B)
<1>1. L \in Nat /\ DOMAIN s = 1..L /\ i \in 1..L - 1 /\ s[i + 1] \in {"]", "P"}
  BY LenProperties DEF StringAt
<1>2. Escs(s) \subseteq 1..L /\ \A j \in 1..L : j \in Escs(s) <=> s[j] = "ESC" BY <1>1 DEF Escs
<1>3. A \in SUBSET Nat /\ A # {} BY <1>1, <1>2
<1>4. stop = Least(A) BY DEF NextEsc
<1>5. stop \in A /\ \A y \in A : stop <= y
  <2> HIDE DEF A, stop
  <2>1. Least(A) \in A /\ \A y \in A : Least(A) <= y BY <1>3, LeastOf
  <2> QED BY <1>4, <2>1
<1>6. stop \in i + 2..L + 1 /\ (stop <= L => s[stop] = "ESC")
      /\ \A j \in i + 1..stop - 1 : s[j] # "ESC"
  <2>1. i + 1 \notin A BY <1>1, <1>2
  <2>2. stop \in i + 1..L + 1 BY <1>1, <1>2, <1>5
  <2>3. stop \in i + 2..L + 1 BY <1>1, <1>5, <2>1, <2>2
  <2>4. stop <= L => s[stop] = "ESC" BY <1>1, <1>2, <1>5, <2>3
  <2>5. \A j \in i + 1..stop - 1 : j \notin A BY <1>1, <1>5, <2>3
  <2>6. \A j \in i + 1..stop - 1 : s[j] # "ESC" BY <1>1, <1>2, <2>3, <2>5
  <2> QED BY <2>3, <2>4, <2>6
<1> HIDE DEF A, stop
<1>7. B \in SUBSET Nat /\ B # {} BY <1>1, <1>6
<1>8. bel \in B /\ \A y \in B : bel <= y BY <1>7, LeastOf
<1>9. /\ bel \in i + 2..stop /\ (bel < stop => s[bel] = "BEL")
      /\ \A j \in i + 2..bel - 1 : s[j] # "BEL"
  <2>1. bel \in i + 2..stop /\ (bel < stop => s[bel] = "BEL") BY <1>1, <1>6, <1>8
  <2>2. \A j \in i + 2..bel - 1 : j \notin B BY <1>1, <1>6, <1>8, <2>1
  <2>3. \A j \in i + 2..bel - 1 : j \in i + 2..stop - 1 BY <1>1, <1>6, <2>1
  <2> QED BY <2>1, <2>2, <2>3
<1>10. EndOf(s, i) = IF bel < stop THEN bel
                     ELSE IF stop < L /\ s[stop + 1] = "\\" THEN stop + 1 ELSE 0
  BY <1>1, <1>6 DEF EndOf, stop
<1> HIDE DEF bel, B
<1>11. ASSUME NEW j, EndsAt(s, i, j) PROVE EndOf(s, i) = j
  <2>1. j \in i + 2..L BY <1>11 DEF EndsAt
  <2>2. CASE s[j] = "BEL" /\ Quiet(s, i + 2, j - 1)
    <3>1. \A k \in i + 2..j - 1 : s[k] # "ESC" /\ s[k] # "BEL" BY <2>2 DEF Quiet, Ending
    <3>2. stop > j BY <1>1, <1>6, <2>1, <2>2, <3>1
    <3>3. bel = j BY <1>1, <1>6, <1>9, <2>1, <2>2, <3>1, <3>2
    <3> QED BY <1>10, <3>2, <3>3
  <2>3. CASE s[j] = "\\" /\ j > i + 2 /\ s[j - 1] = "ESC" /\ Quiet(s, i + 2, j - 2)
    <3>1. \A k \in i + 2..j - 2 : s[k] # "ESC" /\ s[k] # "BEL" BY <2>3 DEF Quiet, Ending
    <3>2. stop = j - 1
      <4>1. stop <= j - 1 BY <1>1, <1>6, <2>1, <2>3
      <4>2. ~(stop <= j - 2) BY <1>1, <1>6, <2>1, <3>1
      <4> QED BY <1>1, <1>6, <2>1, <4>1, <4>2
    <3>3. bel = stop BY <1>1, <1>6, <1>9, <2>1, <3>1, <3>2
    <3>4. stop < L /\ s[stop + 1] = "\\" /\ stop + 1 = j BY <1>1, <2>1, <2>3, <3>2
    <3> QED BY <1>1, <1>6, <1>10, <3>3, <3>4
  <2> QED BY <1>11, <2>2, <2>3 DEF EndsAt
<1>12. ASSUME EndOf(s, i) # 0 PROVE EndsAt(s, i, EndOf(s, i))
  <2>1. CASE bel < stop
    <3>1. Quiet(s, i + 2, bel - 1) BY <1>1, <1>6, <1>9, <2>1 DEF Quiet, Ending
    <3>2. EndOf(s, i) = bel /\ bel \in i + 2..L /\ s[bel] = "BEL" BY <1>1, <1>6, <1>9, <1>10, <2>1
    <3> QED BY <3>1, <3>2 DEF EndsAt
  <2>2. CASE ~(bel < stop) /\ stop < L /\ s[stop + 1] = "\\"
    <3>1. bel = stop BY <1>1, <1>6, <1>9, <2>2
    <3>2. s[stop] = "ESC" /\ s[i + 2] \in Byte BY <1>1, <1>6, <2>2
    <3>3. Quiet(s, i + 2, stop - 1) BY <1>1, <1>6, <1>9, <3>1 DEF Quiet, Ending
    <3>4. EndOf(s, i) = stop + 1 /\ stop + 1 \in i + 2..L /\ stop + 1 > i + 2
          /\ stop + 1 - 1 = stop /\ stop + 1 - 2 = stop - 1
      BY <1>1, <1>6, <1>10, <2>2
    <3> DEFINE j == stop + 1
    <3>5. s[j] = "\\" /\ s[j - 1] = "ESC" /\ Quiet(s, i + 2, j - 2) BY <2>2, <3>2, <3>3, <3>4, <1>6
    <3>6. j \in i + 2..Len(s) /\ j # i + 2
      <4>1. j = i + 2 => stop = i + 1 BY <1>1, <1>6, <3>4
      <4> QED BY <1>1, <1>6, <3>4, <4>1
    <3>7. j > i + 2 BY <1>1, <3>6
    <3>8. EndOf(s, i) = j BY <3>4
    <3> HIDE DEF j
    <3>9. EndsAt(s, i, j) BY <3>5, <3>6, <3>7 DEF EndsAt
    <3> QED BY <3>8, <3>9
  <2> QED BY <1>10, <1>12, <2>1, <2>2
<1> QED BY <1>11, <1>12

\* The same of an OSC sequence.
LEMMA EndOfOsc ==
  ASSUME NEW s \in Seq(Byte), NEW i, OscAt(s, i)
  PROVE  /\ \A j : EndsAt(s, i, j) => EndOf(s, i) = j
         /\ EndOf(s, i) # 0 => EndsAt(s, i, EndOf(s, i))
<1>1. StringAt(s, i) BY DEF OscAt, StringAt
<1> QED BY <1>1, EndOfString

-----------------------------------------------------------------------------
(* The title                                                               *)

\* The OSC sequences of s that are complete, and those that are titles.
Oscs(s) == {i \in 1..Len(s) : OscAt(s, i) /\ \E j \in 1..Len(s) : EndsAt(s, i, j)}
Titles(s) == {i \in Complete(s, "]") : Finish("]", Kept(Inside(s, i))) # {}}

LEMMA CompleteOscs ==
  ASSUME NEW s \in Seq(Byte)
  PROVE  Complete(s, "]") = Oscs(s)
<1>1. Len(s) \in Nat /\ DOMAIN s = 1..Len(s) BY LenProperties
<1>2. ASSUME NEW i \in Complete(s, "]") PROVE i \in Oscs(s)
  <2>1. i \in 1..Len(s) /\ s[i] = "ESC" /\ s[i + 1] = "]" /\ EndOf(s, i) # 0
    BY <1>1, <1>2 DEF Complete, Escs
  <2>2. i # Len(s)
    <3> SUFFICES ASSUME i = Len(s) PROVE EndOf(s, i) = 0 BY <2>1
    <3>1. {j \in Escs(s) : j > i} \cup {Len(s) + 1} = {i + 1} BY <1>1 DEF Escs
    <3>2. \A S : S = {i + 1} => Least(S) = i + 1 BY <1>1 DEF Least
    <3>3. NextEsc(s, i) = i + 1 BY <3>1, <3>2 DEF NextEsc
    <3> QED BY <3>3 DEF EndOf
  <2>3. OscAt(s, i)
    <3>1. \A n \in Nat : i \in 1..n /\ i # n => i \in 1..n - 1 OBVIOUS
    <3>2. i \in 1..Len(s) - 1 BY <1>1, <2>1, <2>2, <3>1
    <3> QED BY <2>1, <3>2 DEF OscAt
  <2>4. EndsAt(s, i, EndOf(s, i)) BY <2>1, <2>3, EndOfOsc
  <2>5. EndOf(s, i) \in i + 2..Len(s) BY <2>4 DEF EndsAt
  <2>6. EndOf(s, i) \in 1..Len(s) BY <1>1, <2>1, <2>5
  <2> QED BY <2>1, <2>3, <2>4, <2>6 DEF Oscs
<1>3. ASSUME NEW i \in Oscs(s) PROVE i \in Complete(s, "]")
  <2>1. PICK j \in 1..Len(s) : OscAt(s, i) /\ EndsAt(s, i, j) BY <1>3 DEF Oscs
  <2>2. EndOf(s, i) = j BY <2>1, EndOfOsc
  <2>3. i \in Escs(s) /\ s[i + 1] = "]" BY <1>1, <2>1 DEF Escs, OscAt
  <2>4. j # 0 BY <1>1, <2>1
  <2> QED BY <2>2, <2>3, <2>4 DEF Complete
<1> QED BY <1>2, <1>3

\* One byte more.
LEMMA OneMore ==
  ASSUME NEW s \in Seq(Byte), NEW b \in Byte, NEW u, u = Append(s, b)
  PROVE  /\ u \in Seq(Byte) /\ Len(s) \in Nat /\ Len(u) = Len(s) + 1 /\ u[Len(s) + 1] = b
         /\ \A k \in 1..Len(s) : u[k] = s[k]
         /\ \A i \in 1..Len(s), j \in Nat : j <= Len(s) => SubSeq(u, i, j) = SubSeq(s, i, j)
<1>1. u \in Seq(Byte) /\ Len(s) \in Nat /\ Len(u) = Len(s) + 1 /\ u[Len(s) + 1] = b
      /\ \A k \in 1..Len(s) : u[k] = s[k]
  BY LenProperties, AppendProperties
<1>2. ASSUME NEW i \in 1..Len(s), NEW j \in Nat, j <= Len(s) PROVE SubSeq(u, i, j) = SubSeq(s, i, j)
  <2>1. \A k \in i..j : k \in 1..Len(s) /\ s[k] \in Byte /\ u[k] \in Byte /\ u[k] = s[k]
    BY <1>1, <1>2, ElementOfSeq
  <2> DEFINE p == SubSeq(s, i, j) q == SubSeq(u, i, j)
  <2>2. p \in Seq(Byte) /\ Len(p) = (IF i <= j THEN j - i + 1 ELSE 0)
        /\ \A k \in 1..(j - i + 1) : p[k] = s[i + k - 1]
    BY <1>1, <2>1, SubSeqProperties
  <2>3. q \in Seq(Byte) /\ Len(q) = (IF i <= j THEN j - i + 1 ELSE 0)
        /\ \A k \in 1..(j - i + 1) : q[k] = u[i + k - 1]
    BY <1>1, <2>1, SubSeqProperties
  <2> HIDE DEF p, q
  <2>4. \A k \in 1..(j - i + 1) : i + k - 1 \in i..j BY <1>1
  <2>5. \A k \in 1..(j - i + 1) : p[k] = q[k] BY <2>1, <2>2, <2>3, <2>4
  <2>6. Len(p) = Len(q) /\ \A k \in 1..Len(p) : p[k] = q[k] BY <1>1, <2>2, <2>3, <2>5
  <2>7. p = q BY <2>2, <2>3, <2>6, SeqEqual
  <2> QED BY <2>7 DEF p, q
<1> QED BY <1>1, <1>2

\* One more byte introduces at most one sequence, moves no end, and ends none
\* that is settled.
LEMMA OscsStay ==
  ASSUME NEW s \in Seq(Byte), NEW b \in Byte, NEW u, u = Append(s, b)
  PROVE  /\ \A i : OscAt(s, i) => OscAt(u, i)
         /\ \A i : OscAt(u, i) /\ i # Len(s) => OscAt(s, i)
         /\ OscAt(u, Len(s)) => s[Len(s)] = "ESC" /\ b = "]"
         /\ \A i : \A j \in Int : OscAt(s, i) /\ j <= Len(s) => (EndsAt(u, i, j) <=> EndsAt(s, i, j))
         /\ \A i : OscAt(s, i) /\ Settled(s, i) => Settled(u, i) /\ ~EndsAt(u, i, Len(u))
<1>0. u \in Seq(Byte) /\ Len(s) \in Nat /\ Len(u) = Len(s) + 1 /\ u[Len(s) + 1] = b
      /\ \A k \in 1..Len(s) : u[k] = s[k]
  BY OneMore
<1>1. \A i : OscAt(s, i) => OscAt(u, i) BY <1>0 DEF OscAt
<1>2. \A i : OscAt(u, i) /\ i # Len(s) => OscAt(s, i) BY <1>0 DEF OscAt
<1>3. OscAt(u, Len(s)) => s[Len(s)] = "ESC" /\ b = "]" BY <1>0 DEF OscAt
<1>4. ASSUME NEW i \in 1..Len(s), NEW j \in Int, j <= Len(s) PROVE Quiet(u, i + 2, j) <=> Quiet(s, i + 2, j)
  <2>1. \A k \in i + 2..j : u[k] = s[k] BY <1>0, <1>4
  <2> QED BY <2>1 DEF Quiet
<1>5. ASSUME NEW i, NEW j \in Int, OscAt(s, i), j <= Len(s) PROVE EndsAt(u, i, j) <=> EndsAt(s, i, j)
  <2>1. i \in 1..Len(s) BY <1>0, <1>5 DEF OscAt
  <2>2. j \in i + 2..Len(u) <=> j \in i + 2..Len(s) BY <1>0, <1>5, <2>1
  <2>3. ASSUME j \in i + 2..Len(s)
        PROVE /\ u[j] = s[j] /\ u[j - 1] = s[j - 1]
              /\ Quiet(u, i + 2, j - 1) <=> Quiet(s, i + 2, j - 1)
              /\ Quiet(u, i + 2, j - 2) <=> Quiet(s, i + 2, j - 2)
    <3>1. j \in 1..Len(s) /\ j - 1 \in 1..Len(s) /\ j - 1 <= Len(s) /\ j - 2 <= Len(s)
      BY <1>0, <2>1, <2>3
    <3> QED BY <1>0, <1>4, <2>1, <3>1
  <2> QED BY <2>2, <2>3 DEF EndsAt
<1>6. ASSUME NEW i, OscAt(s, i), Settled(s, i) PROVE Settled(u, i) /\ ~EndsAt(u, i, Len(u))
  <2>1. i \in 1..Len(s) BY <1>0, <1>6 DEF OscAt
  <2>2. PICK k \in i + 2..Len(s) :
          s[k] \in Ending /\ Quiet(s, i + 2, k - 1) /\ (s[k] = "ESC" => k < Len(s))
    BY <1>6 DEF Settled
  <2>3. k \in 1..Len(s) /\ k \in i + 2..Len(u) /\ k < Len(u) /\ k - 1 <= Len(s) BY <1>0, <2>1, <2>2
  <2>4. u[k] = s[k] /\ Quiet(u, i + 2, k - 1) BY <1>0, <1>4, <2>1, <2>2, <2>3
  <2>5. Settled(u, i) BY <2>2, <2>3, <2>4 DEF Settled
  <2>6. ~Quiet(u, i + 2, Len(s))
    <3>1. k \in i + 2..Len(s) BY <2>2
    <3> QED BY <2>2, <2>4, <3>1 DEF Quiet
  <2>7. u[Len(s)] = "ESC" => ~Quiet(u, i + 2, Len(s) - 1)
    <3> SUFFICES ASSUME u[Len(s)] = "ESC" PROVE k \in i + 2..Len(s) - 1 BY <2>2, <2>4 DEF Quiet
    <3>1. k # Len(s) BY <1>0, <2>1, <2>2, <2>4
    <3> QED BY <1>0, <2>1, <2>2, <3>1
  <2>8. Len(u) - 1 = Len(s) /\ Len(u) - 2 = Len(s) - 1 BY <1>0
  <2> QED BY <2>5, <2>6, <2>7, <2>8 DEF EndsAt
<1> QED BY <1>1, <1>2, <1>3, <1>5, <1>6

\* A set of positions that is not empty has its last.
LEMMA LastOf ==
  ASSUME NEW n \in Nat, NEW S \in SUBSET (1..n), S # {}
  PROVE  \E x \in S : (\A y \in S : y <= x) /\ x = CHOOSE z \in S : \A y \in S : y <= z
<1> DEFINE R == {r \in 0..n : n - r \in S}
<1>1. \A y \in 1..n : n - y \in 0..n /\ n - (n - y) = y OBVIOUS
<1>2. R \in SUBSET Nat /\ R # {} /\ \A y \in S : n - y \in R
  <2>1. \A y \in S : n - y \in R BY <1>1
  <2>2. R \in SUBSET Nat OBVIOUS
  <2> QED BY <2>1, <2>2
<1>3. PICK r \in R : \A q \in R : r <= q
  <2> HIDE DEF R
  <2> QED BY <1>2, LeastOf
<1>4. n - r \in S /\ r \in Nat BY <1>2, <1>3
<1>5. ASSUME NEW y \in S PROVE y <= n - r
  <2>1. r <= n - y BY <1>2, <1>3
  <2>2. y \in 1..n OBVIOUS
  <2> QED BY <1>4, <2>1, <2>2
<1> QED BY <1>4, <1>5

\* The payload of a complete OSC sequence.
LEMMA InsideOf ==
  ASSUME NEW s \in Seq(Byte), NEW i, NEW j, OscAt(s, i), EndsAt(s, i, j)
  PROVE  Inside(s, i) = SubSeq(s, i + 2, IF s[j] = "\\" THEN j - 2 ELSE j - 1)
<1>1. EndOf(s, i) = j BY EndOfOsc
<1>2. s[i + 1] # "[" BY DEF OscAt
<1> QED BY <1>1, <1>2 DEF Inside

\* A complete sequence stays complete, with the payload it had.
LEMMA InsideStays ==
  ASSUME NEW s \in Seq(Byte), NEW b \in Byte, NEW u, u = Append(s, b), NEW i \in Oscs(s)
  PROVE  i \in Oscs(u) /\ Inside(u, i) = Inside(s, i)
<1>0. u \in Seq(Byte) /\ Len(s) \in Nat /\ Len(u) = Len(s) + 1
      /\ \A k \in 1..Len(s) : u[k] = s[k]
  BY OneMore
<1>1. PICK j \in 1..Len(s) : OscAt(s, i) /\ EndsAt(s, i, j) /\ i \in 1..Len(s) BY DEF Oscs
<1>2. j \in Int /\ j <= Len(s) /\ j \in 1..Len(u) /\ i \in 1..Len(u) BY <1>0, <1>1
<1>3. OscAt(u, i) /\ EndsAt(u, i, j) BY <1>1, <1>2, OscsStay
<1>4. j \in i + 2..Len(s) BY <1>1 DEF EndsAt
<1> DEFINE n == IF s[j] = "\\" THEN j - 2 ELSE j - 1
<1>5. n \in Nat /\ n <= Len(s) /\ i + 2 \in 1..Len(s) BY <1>0, <1>1, <1>4
<1>6. SubSeq(u, i + 2, n) = SubSeq(s, i + 2, n)
  <2> HIDE DEF n
  <2> QED BY <1>5, OneMore
<1>7. Inside(s, i) = SubSeq(s, i + 2, n) BY <1>1, InsideOf
<1>8. Inside(u, i) = SubSeq(u, i + 2, n)
  <2>1. u[j] = s[j] BY <1>0, <1>1
  <2>2. Inside(u, i) = SubSeq(u, i + 2, IF u[j] = "\\" THEN j - 2 ELSE j - 1)
    BY <1>0, <1>3, InsideOf
  <2> QED BY <2>1, <2>2
<1> QED BY <1>2, <1>3, <1>6, <1>7, <1>8 DEF Oscs

\* The title completed last is the one that shows.
LastTitle(s) == CHOOSE i \in Titles(s) : \A j \in Titles(s) : j <= i

\* TerminalTitle, in these terms.
LEMMA TitleOf ==
  ASSUME NEW s
  PROVE  TerminalTitle(s) = IF Titles(s) = {} THEN <<>>
                            ELSE CHOOSE t \in Finish("]", Kept(Inside(s, LastTitle(s)))) : TRUE
  BY DEF TerminalTitle, Titles, LastTitle

\* A byte that ends no OSC sequence leaves the title alone.
LEMMA NoNewTitle ==
  ASSUME NEW s \in Seq(Byte), NEW b \in Byte, NEW u, u = Append(s, b),
         \A i : OscAt(u, i) => ~EndsAt(u, i, Len(u))
  PROVE  Titles(u) = Titles(s) /\ TerminalTitle(u) = TerminalTitle(s)
<1>0. u \in Seq(Byte) /\ Len(s) \in Nat /\ Len(u) = Len(s) + 1 BY OneMore
<1>1. ASSUME NEW i \in Oscs(u) PROVE i \in Oscs(s)
  <2>1. PICK j \in 1..Len(u) : OscAt(u, i) /\ EndsAt(u, i, j) BY <1>1 DEF Oscs
  <2>2. j # Len(u) BY <2>1
  <2>3. j \in i + 2..Len(u) /\ i \in 1..Len(u) - 1 BY <2>1 DEF EndsAt, OscAt
  <2>4. j \in 1..Len(s) /\ j \in Int /\ i \in 1..Len(s) /\ i # Len(s) BY <1>0, <2>2, <2>3
  <2>5. OscAt(s, i) BY <2>1, <2>4, OscsStay
  <2>6. EndsAt(s, i, j)
    <3>1. j <= Len(s) BY <1>0, <2>4
    <3> QED BY <2>1, <2>4, <2>5, <3>1, OscsStay
  <2> QED BY <2>4, <2>5, <2>6 DEF Oscs
<1>2. Oscs(u) = Oscs(s) BY <1>1, InsideStays
<1>3. Complete(u, "]") = Oscs(u) /\ Complete(s, "]") = Oscs(s) BY <1>0, CompleteOscs
<1>4. \A i \in Oscs(s) : Inside(u, i) = Inside(s, i) BY InsideStays
<1>5. Titles(u) = Titles(s) BY <1>2, <1>3, <1>4 DEF Titles
<1>6. Titles(s) # {} => LastTitle(s) \in Oscs(s)
  <2>1. Titles(s) \in SUBSET (1..Len(s)) BY <1>3 DEF Titles, Oscs
  <2>2. Titles(s) \subseteq Oscs(s) BY <1>3 DEF Titles
  <2> QED BY <1>0, <2>1, <2>2, LastOf DEF LastTitle
<1>7. LastTitle(u) = LastTitle(s) BY <1>5 DEF LastTitle
<1>8. TerminalTitle(u) = TerminalTitle(s)
  <2>1. TerminalTitle(u) = IF Titles(s) = {} THEN <<>>
                           ELSE CHOOSE t \in Finish("]", Kept(Inside(u, LastTitle(s)))) : TRUE
    BY <1>5, <1>7, TitleOf
  <2>2. Titles(s) # {} => Inside(u, LastTitle(s)) = Inside(s, LastTitle(s)) BY <1>4, <1>6
  <2>3. TerminalTitle(s) = IF Titles(s) = {} THEN <<>>
                           ELSE CHOOSE t \in Finish("]", Kept(Inside(s, LastTitle(s)))) : TRUE
    BY TitleOf
  <2> QED BY <2>1, <2>2, <2>3
<1> QED BY <1>5, <1>8

\* One that does sets the title, if the sequence is one of a title.
LEMMA NewTitle ==
  ASSUME NEW s \in Seq(Byte), NEW b \in Byte, NEW u, u = Append(s, b),
         NEW e, OscAt(u, e), EndsAt(u, e, Len(u))
  PROVE  TerminalTitle(u) = IF Finish("]", Kept(Inside(u, e))) = {} THEN TerminalTitle(s)
                            ELSE CHOOSE t \in Finish("]", Kept(Inside(u, e))) : TRUE
<1> DEFINE L == Len(s)
           F == Finish("]", Kept(Inside(u, e)))
<1>0. u \in Seq(Byte) /\ L \in Nat /\ Len(u) = L + 1 /\ u[L + 1] = b /\ \A k \in 1..L : u[k] = s[k]
  BY OneMore
<1>1. e \in 1..L - 1 /\ u[e] = "ESC" /\ u[e + 1] = "]"
      /\ \/ u[L + 1] = "BEL" /\ Quiet(u, e + 2, L)
         \/ u[L + 1] = "\\" /\ L + 1 > e + 2 /\ Quiet(u, e + 2, L - 1)
  <2>1. L + 1 \in e + 2..L + 1 /\ e \in 1..L BY <1>0 DEF EndsAt, OscAt
  <2>2. e \in 1..L - 1 BY <1>0, <2>1
  <2>3. Len(u) - 1 = L /\ Len(u) - 2 = L - 1 BY <1>0
  <2>4. u[e] = "ESC" /\ u[e + 1] = "]" BY DEF OscAt
  <2>5. \/ u[Len(u)] = "BEL" /\ Quiet(u, e + 2, L)
        \/ u[Len(u)] = "\\" /\ Len(u) > e + 2 /\ Quiet(u, e + 2, L - 1)
    BY <2>3 DEF EndsAt
  <2> QED BY <1>0, <2>2, <2>4, <2>5
<1>2. ASSUME NEW i, OscAt(u, i), i # e PROVE i < e
  <2>1. i \in 1..L /\ u[i] = "ESC" /\ u[i + 1] = "]" BY <1>0, <1>2 DEF OscAt
  <2>2. i # e + 1 BY <1>1, <2>1
  <2>3. i \notin e + 2..L - 1
    <3>1. \A k \in e + 2..L - 1 : k \in e + 2..L BY <1>0, <1>1
    <3> QED BY <1>1, <2>1, <3>1 DEF Quiet, Ending
  <2>4. i # L
    <3> SUFFICES ASSUME i = L PROVE FALSE OBVIOUS
    <3>1. u[L + 1] = "]" BY <2>1
    <3> QED BY <1>1, <3>1
  <2> QED BY <1>0, <1>1, <1>2, <2>1, <2>2, <2>3, <2>4
<1>3. ASSUME NEW i, OscAt(u, i), i # e PROVE ~EndsAt(u, i, Len(u))
  <2>0. i < e BY <1>2, <1>3
  <2>1. i \in 1..L /\ u[i] = "ESC" /\ u[i + 1] = "]" /\ i < e BY <1>0, <2>0, <1>3 DEF OscAt
  <2>2. e # i + 1 BY <1>1, <2>1
  <2>3. e \in i + 2..L - 1 /\ e \in i + 2..L BY <1>0, <1>1, <2>1, <2>2
  <2>4. ~Quiet(u, i + 2, L) /\ ~Quiet(u, i + 2, L - 1) BY <1>1, <2>3 DEF Quiet, Ending
  <2>5. Len(u) - 1 = L /\ Len(u) - 2 = L - 1 BY <1>0
  <2> QED BY <2>4, <2>5 DEF EndsAt
<1>4. ASSUME NEW i \in Oscs(u), i # e PROVE i \in Oscs(s)
  <2>1. PICK j \in 1..Len(u) : OscAt(u, i) /\ EndsAt(u, i, j) BY <1>4 DEF Oscs
  <2>2. j # Len(u) BY <1>3, <1>4, <2>1
  <2>3. j \in i + 2..Len(u) /\ i \in 1..Len(u) - 1 BY <2>1 DEF EndsAt, OscAt
  <2>4. j \in 1..L /\ j \in Int /\ i \in 1..L /\ i # L /\ j <= L BY <1>0, <2>2, <2>3
  <2>5. OscAt(s, i) BY <2>1, <2>4, OscsStay
  <2>6. EndsAt(s, i, j) BY <2>1, <2>4, <2>5, OscsStay
  <2> QED BY <2>4, <2>5, <2>6 DEF Oscs
<1>5. e \in Oscs(u)
  <2>1. e \in 1..Len(u) /\ Len(u) \in 1..Len(u) BY <1>0, <1>1
  <2> QED BY <2>1 DEF Oscs
<1>6. e \notin Oscs(s)
  <2> SUFFICES ASSUME e \in Oscs(s) PROVE FALSE OBVIOUS
  <2>1. PICK j \in 1..L : OscAt(s, e) /\ EndsAt(s, e, j) BY DEF Oscs
  <2>2. j \in Int /\ j <= L BY <1>0, <2>1
  <2>3. EndsAt(u, e, j) BY <2>1, <2>2, OscsStay
  <2>4. EndOf(u, e) = j /\ EndOf(u, e) = Len(u) BY <1>0, <2>3, EndOfOsc
  <2> QED BY <1>0, <2>2, <2>4
<1>7. Oscs(u) = Oscs(s) \cup {e} BY <1>4, <1>5, InsideStays
<1>8. Complete(u, "]") = Oscs(u) /\ Complete(s, "]") = Oscs(s) BY <1>0, CompleteOscs
<1>9. \A i \in Oscs(s) : Inside(u, i) = Inside(s, i) BY InsideStays
<1>10. Titles(u) = Titles(s) \cup (IF F = {} THEN {} ELSE {e})
  BY <1>6, <1>7, <1>8, <1>9 DEF Titles
<1>11. CASE F = {}
  <2>1. Titles(u) = Titles(s) BY <1>10, <1>11
  <2>2. LastTitle(u) = LastTitle(s) BY <2>1 DEF LastTitle
  <2>3. Titles(s) # {} => LastTitle(s) \in Oscs(s)
    <3>1. Titles(s) \in SUBSET (1..L) BY <1>8 DEF Titles, Oscs
    <3>2. Titles(s) \subseteq Oscs(s) BY <1>8 DEF Titles
    <3> QED BY <1>0, <3>1, <3>2, LastOf DEF LastTitle
  <2>4. TerminalTitle(u) = IF Titles(s) = {} THEN <<>>
                           ELSE CHOOSE t \in Finish("]", Kept(Inside(u, LastTitle(s)))) : TRUE
    BY <2>1, <2>2, TitleOf
  <2>5. Titles(s) # {} => Inside(u, LastTitle(s)) = Inside(s, LastTitle(s)) BY <1>9, <2>3
  <2>6. TerminalTitle(s) = IF Titles(s) = {} THEN <<>>
                           ELSE CHOOSE t \in Finish("]", Kept(Inside(s, LastTitle(s)))) : TRUE
    BY TitleOf
  <2> QED BY <1>11, <2>4, <2>5, <2>6
<1>12. CASE F # {}
  <2>1. e \in Titles(u) BY <1>10, <1>12
  <2>2. Titles(u) \subseteq Oscs(u) BY <1>8 DEF Titles
  <2>3. \A y \in Titles(u) : y <= e
    <3>1. \A y \in Oscs(u) : OscAt(u, y) BY DEF Oscs
    <3>2. e <= e BY <1>1
    <3>3. \A y \in Oscs(u) : y # e => y <= e
      <4>1. \A y \in Oscs(u) : y # e => y < e /\ y \in 1..Len(u) BY <1>2, <3>1 DEF Oscs
      <4> QED BY <1>0, <1>1, <4>1
    <3> QED BY <2>2, <3>2, <3>3
  <2>4. \A y \in Titles(u) : y \in Int BY <1>0, <2>2 DEF Oscs
  <2>5. \A x \in Titles(u) : (\A y \in Titles(u) : y <= x) => x = e
    <3> TAKE x \in Titles(u)
    <3> HAVE \A y \in Titles(u) : y <= x
    <3>1. e <= x /\ x <= e BY <2>1, <2>3
    <3> QED BY <1>1, <2>4, <3>1
  <2>6. LastTitle(u) = e BY <2>1, <2>3, <2>5 DEF LastTitle
  <2>7. Titles(u) # {} BY <2>1
  <2> QED BY <1>12, <2>6, <2>7, TitleOf
<1> QED BY <1>11, <1>12
-----------------------------------------------------------------------------
(* The titleScanner inside a sequence                                      *)

\* The string that t is in was introduced at e, and its payload goes up to n.
OpenAt(t, s, e, n) ==
  /\ e \in 1..n - 1 /\ s[e] = "ESC" /\ s[e + 1] = t.intro /\ t.intro \in {"]", "P"}
  /\ Quiet(s, e + 2, n) /\ t.payload = Kept(SubSeq(s, e + 2, n))

SeesAt(t, s, e) ==
  /\ t.st = "ground" => s = <<>> \/ s[Len(s)] # "ESC"
  /\ t.st = "esc" => s # <<>> /\ s[Len(s)] = "ESC"
  /\ t.st = "string" => OpenAt(t, s, e, Len(s))
  /\ t.st = "stringEsc" => s # <<>> /\ s[Len(s)] = "ESC" /\ OpenAt(t, s, e, Len(s) - 1)
  /\ \A i : OscAt(s, i) /\ (t.st \in {"ground", "esc"} \/ i # e) => Settled(s, i)

\* The scanner is where it should be after s: no OSC sequence can still end but
\* the one that it is in.
Sees(t, s) == \E e : SeesAt(t, s, e)

\* What a terminal shows is what the scanner completed last, or the old title.
Shows(t, s, old) ==
  TerminalTitle(s) = IF t.title = {} THEN old ELSE CHOOSE x \in t.title : TRUE

LEMMA FinishTyped ==
  ASSUME NEW intro, NEW payload \in Seq(Byte)
  PROVE  Finish(intro, payload) \in SUBSET Seq(Byte)
<1>1. Len(payload) \in Nat BY LenProperties
<1>2. \A k \in 3..Len(payload) : payload[k] \in Byte BY <1>1, ElementOfSeq
<1>3. SubSeq(payload, 3, Len(payload)) \in Seq(Byte) BY <1>1, <1>2, SubSeqProperties
<1> QED BY <1>3 DEF Finish

LEMMA EscFields ==
  ASSUME NEW t \in Scanner, NEW b \in Byte, NEW n, n = TitleEsc(t, b)
  PROVE  /\ n \in Scanner /\ n.title = t.title /\ n.payload = <<>>
         /\ b = "ESC" => n.st = "esc"
         /\ b \in {"]", "P"} => n.st = "string" /\ n.intro = b
         /\ b \notin {"ESC", "]", "P"} => n.st = "ground"
<1>1. n.title = t.title /\ n.payload = <<>>
      /\ (b = "ESC" => n.st = "esc")
      /\ (b \in {"]", "P"} => n.st = "string" /\ n.intro = b)
      /\ (b \notin {"ESC", "]", "P"} => n.st = "ground")
  BY DEF TitleEsc, Scanner
<1>2. <<>> \in Seq(Byte) BY EmptySeq
<1>3. n \in Scanner
  <2>1. CASE b \in {"]", "P"}
    <3>1. n = [t EXCEPT !.st = "string", !.intro = b, !.payload = <<>>] BY <2>1 DEF TitleEsc
    <3> QED BY <1>2, <2>1, <3>1 DEF Scanner
  <2>2. CASE b = "ESC"
    <3>1. n = [t EXCEPT !.st = "esc", !.intro = "", !.payload = <<>>] BY <2>2 DEF TitleEsc
    <3> QED BY <1>2, <3>1 DEF Scanner
  <2>3. CASE b \notin {"ESC", "]", "P"}
    <3>1. n = [t EXCEPT !.st = "ground", !.intro = "", !.payload = <<>>] BY <2>3 DEF TitleEsc
    <3> QED BY <1>2, <3>1 DEF Scanner
  <2> QED BY <2>1, <2>2, <2>3
<1> QED BY <1>1, <1>3

LEMMA EndedFields ==
  ASSUME NEW t \in Scanner, NEW n, n = Ended(t)
  PROVE  /\ n \in Scanner /\ n.st = "ground"
         /\ n.title = IF Finish(t.intro, t.payload) = {} THEN t.title
                      ELSE Finish(t.intro, t.payload)
<1> DEFINE F == Finish(t.intro, t.payload)
           new == IF F = {} THEN t.title ELSE F
<1>1. n = [t EXCEPT !.st = "ground", !.payload = <<>>, !.title = new] BY DEF Ended
<1>2. F \in SUBSET Seq(Byte) BY FinishTyped DEF Scanner
<1>3. new \in SUBSET Seq(Byte) BY <1>2 DEF Scanner
<1>4. <<>> \in Seq(Byte) BY EmptySeq
<1> HIDE DEF F, new
<1>5. n \in Scanner /\ n.st = "ground" /\ n.title = new BY <1>1, <1>3, <1>4 DEF Scanner
<1> QED BY <1>5 DEF F, new

LEMMA KeptOfNone == Kept(<<>>) = <<>>
<1>1. Len(<<>>) = 0 /\ MaxTitle \in Nat \ {0} BY ConstantsAssumption, EmptySeq
<1>2. SubSeq(<<>>, 1, 0) = <<>> BY SubSeqEmpty
<1> QED BY <1>1, <1>2 DEF Kept

\* What is kept of a payload grows as the scanner's does.
LEMMA KeptAdded ==
  ASSUME NEW p \in Seq(Byte), NEW b \in Byte
  PROVE  Kept(Append(p, b)) = Added(Kept(p), b)
<1> DEFINE u == Append(p, b)
<1>0. MaxTitle \in Nat \ {0} BY ConstantsAssumption
<1>1. u \in Seq(Byte) /\ Len(p) \in Nat /\ Len(u) = Len(p) + 1
      /\ \A i \in 1..Len(p), j \in Nat : j <= Len(p) => SubSeq(u, i, j) = SubSeq(p, i, j)
  BY OneMore
<1>2. SubSeq(p, 1, Len(p)) = p /\ SubSeq(u, 1, Len(u)) = u BY <1>1, SubSeqFull
<1>3. CASE Len(p) < MaxTitle
  <2>1. Kept(p) = p BY <1>2, <1>3 DEF Kept
  <2>2. Kept(u) = u
    <3>1. Len(u) < MaxTitle \/ Len(u) = MaxTitle BY <1>0, <1>1, <1>3
    <3> HIDE DEF u
    <3> QED BY <1>2, <3>1 DEF Kept
  <2> QED BY <1>3, <2>1, <2>2 DEF Added
<1>4. CASE ~(Len(p) < MaxTitle)
  <2>1. ~(Len(u) < MaxTitle) /\ 1 \in 1..Len(p) /\ MaxTitle \in Nat /\ MaxTitle <= Len(p)
    BY <1>0, <1>1, <1>4
  <2>2. SubSeq(u, 1, MaxTitle) = SubSeq(p, 1, MaxTitle) BY <1>1, <2>1
  <2>3. Kept(u) = Kept(p)
    <3> HIDE DEF u
    <3> QED BY <1>4, <2>1, <2>2 DEF Kept
  <2>4. Len(SubSeq(p, 1, MaxTitle)) = MaxTitle
    <3>1. \A k \in 1..MaxTitle : k \in 1..Len(p) BY <1>0, <1>1, <2>1
    <3>2. \A k \in 1..MaxTitle : p[k] \in Byte BY <3>1, ElementOfSeq
    <3>3. Len(SubSeq(p, 1, MaxTitle)) = IF 1 <= MaxTitle THEN MaxTitle - 1 + 1 ELSE 0
      BY <2>1, <3>2, SubSeqProperties
    <3> QED BY <1>0, <3>3
  <2>5. Kept(p) = SubSeq(p, 1, MaxTitle) BY <1>4 DEF Kept
  <2>6. ~(Len(Kept(p)) < MaxTitle) BY <1>0, <2>4, <2>5
  <2> QED BY <2>3, <2>6 DEF Added
<1> QED BY <1>3, <1>4

\* After an ESC that leaves no sequence open, as in TitleEsc.
LEMMA EscStep ==
  ASSUME NEW t \in Scanner, NEW s \in Seq(Byte), NEW b \in Byte, NEW u, u = Append(s, b),
         NEW n, n = TitleEsc(t, b), s # <<>>, s[Len(s)] = "ESC",
         \A i : OscAt(s, i) => Settled(u, i) /\ ~EndsAt(u, i, Len(u))
  PROVE  Sees(n, u) /\ TerminalTitle(u) = TerminalTitle(s)
<1> DEFINE L == Len(s)
<1>0. u \in Seq(Byte) /\ L \in Nat /\ Len(u) = L + 1 /\ u[L + 1] = b /\ \A k \in 1..L : u[k] = s[k]
  BY OneMore
<1>1. L # 0 BY <1>0, EmptySeq
<1>2. ~EndsAt(u, L, Len(u))
  <2>1. Len(u) \notin L + 2..Len(u) BY <1>0
  <2> QED BY <2>1 DEF EndsAt
<1>3. \A i : OscAt(u, i) => ~EndsAt(u, i, Len(u)) BY <1>2, OscsStay
<1>4. TerminalTitle(u) = TerminalTitle(s) BY <1>3, NoNewTitle
<1>5. ASSUME NEW i, OscAt(u, i), b # "]" \/ i # L PROVE Settled(u, i)
  <2>1. i # L
    <3>1. OscAt(u, L) => b = "]" BY OscsStay
    <3> QED BY <1>5, <3>1
  <2>2. OscAt(s, i) BY <1>5, <2>1, OscsStay
  <2> QED BY <2>2
<1>6. u # <<>> BY <1>0, EmptySeq
<1>7. CASE b \in {"]", "P"}
  <2>1. n.st = "string" /\ n.intro = b /\ n.payload = <<>> BY <1>7, EscFields
  <2>2. Quiet(u, L + 2, L + 1) BY <1>0 DEF Quiet
  <2>3. Kept(SubSeq(u, L + 2, L + 1)) = <<>>
    <3>1. SubSeq(u, L + 2, L + 1) = <<>> BY <1>0, SubSeqEmpty
    <3> QED BY <3>1, KeptOfNone
  <2>4. L \in 1..(L + 1) - 1 /\ u[L] = "ESC" BY <1>0, <1>1
  <2>5. OpenAt(n, u, L, Len(u)) BY <1>0, <1>7, <2>1, <2>2, <2>3, <2>4 DEF OpenAt
  <2>6. SeesAt(n, u, L) BY <1>5, <2>1, <2>5 DEF SeesAt
  <2> QED BY <1>4, <2>6 DEF Sees
<1>8. CASE b \notin {"]", "P"}
  <2>1. n.st = (IF b = "ESC" THEN "esc" ELSE "ground") BY <1>8, EscFields
  <2>2. \A i : OscAt(u, i) => Settled(u, i) BY <1>5, <1>8
  <2>3. u[Len(u)] = b BY <1>0
  <2>4. SeesAt(n, u, L) BY <1>6, <2>1, <2>2, <2>3 DEF SeesAt
  <2> QED BY <1>4, <2>4 DEF Sees
<1> QED BY <1>7, <1>8

\* One byte, in every state.
LEMMA TitleByte ==
  ASSUME NEW t \in Scanner, NEW s \in Seq(Byte), NEW b \in Byte, NEW u, u = Append(s, b),
         NEW old, Sees(t, s), Shows(t, s, old), NEW n, n = TitleStep(t, b)
  PROVE  n \in Scanner /\ Sees(n, u) /\ Shows(n, u, old)
<1> DEFINE L == Len(s)
<1>0. u \in Seq(Byte) /\ L \in Nat /\ Len(u) = L + 1 /\ u[L + 1] = b /\ \A k \in 1..L : u[k] = s[k]
  BY OneMore
<1>1. PICK e : SeesAt(t, s, e) BY DEF Sees
<1>2. \A i : OscAt(s, i) /\ Settled(s, i) => Settled(u, i) /\ ~EndsAt(u, i, Len(u)) BY OscsStay
<1>3. u # <<>> BY <1>0, EmptySeq
<1>4. t.st \in {"ground", "esc", "string", "stringEsc"} BY DEF Scanner
<1>5. CASE t.st = "ground"
  <2>1. n = [t EXCEPT !.st = IF b = "ESC" THEN "esc" ELSE "ground"] BY <1>5, TitleSteps
  <2>2. n \in Scanner /\ n.title = t.title /\ n.st = (IF b = "ESC" THEN "esc" ELSE "ground")
    BY <2>1 DEF Scanner
  <2>3. \A i : OscAt(s, i) => Settled(s, i) BY <1>1, <1>5 DEF SeesAt
  <2>4. s = <<>> \/ s[L] # "ESC" BY <1>1, <1>5 DEF SeesAt
  <2>5. ASSUME NEW i, OscAt(u, i) PROVE OscAt(s, i)
    <3>1. CASE i = L
      <4>1. s[L] = "ESC" BY <2>5, <3>1, OscsStay
      <4>2. s = <<>> => L = 0 BY EmptySeq
      <4>3. OscAt(u, 0) => FALSE BY DEF OscAt
      <4> QED BY <2>4, <2>5, <3>1, <4>1, <4>2, <4>3
    <3> QED BY <2>5, <3>1, OscsStay
  <2>6. \A i : OscAt(u, i) => Settled(u, i) /\ ~EndsAt(u, i, Len(u)) BY <1>2, <2>3, <2>5
  <2>7. TerminalTitle(u) = TerminalTitle(s) BY <2>6, NoNewTitle
  <2>8. SeesAt(n, u, e) BY <1>0, <1>3, <2>2, <2>6 DEF SeesAt
  <2> QED BY <2>2, <2>7, <2>8 DEF Sees, Shows
<1>6. ASSUME n = TitleEsc(t, b), s # <<>>, s[L] = "ESC",
             \A i : OscAt(s, i) => Settled(u, i) /\ ~EndsAt(u, i, Len(u))
      PROVE  n \in Scanner /\ Sees(n, u) /\ Shows(n, u, old)
  <2>1. n \in Scanner /\ n.title = t.title BY <1>6, EscFields
  <2>2. Sees(n, u) /\ TerminalTitle(u) = TerminalTitle(s) BY <1>6, EscStep
  <2> QED BY <2>1, <2>2 DEF Shows
<1>7. CASE t.st = "esc"
  <2>1. n = TitleEsc(t, b) BY <1>7, TitleSteps
  <2>2. s # <<>> /\ s[L] = "ESC" /\ \A i : OscAt(s, i) => Settled(s, i)
    BY <1>1, <1>7 DEF SeesAt
  <2> QED BY <1>2, <1>6, <2>1, <2>2
<1>8. CASE t.st = "string"
  <2>1. OpenAt(t, s, e, L) BY <1>1, <1>8 DEF SeesAt
  <2>2. e \in 1..L - 1 /\ e \in 1..L /\ e + 1 \in 1..L /\ e + 2 \in Int /\ s[e] = "ESC"
        /\ s[e + 1] = t.intro /\ t.intro \in {"]", "P"} /\ Quiet(s, e + 2, L)
        /\ t.payload = Kept(SubSeq(s, e + 2, L))
    BY <1>0, <2>1 DEF OpenAt
  <2>3. u[e] = "ESC" /\ u[e + 1] = t.intro BY <1>0, <2>2
  <2>4. Quiet(u, e + 2, L)
    <3>1. \A k \in e + 2..L : k \in 1..L BY <1>0, <2>2
    <3> QED BY <1>0, <2>2, <3>1 DEF Quiet
  <2>5. s[L] # "ESC"
    <3>1. CASE L = e + 1 BY <2>2, <3>1
    <3>2. CASE L # e + 1
      <4>1. L \in e + 2..L BY <1>0, <2>2, <3>2
      <4> QED BY <2>2, <4>1 DEF Quiet, Ending
    <3> QED BY <3>1, <3>2
  <2>6. \A i : OscAt(s, i) /\ i # e => Settled(s, i) BY <1>1, <1>8 DEF SeesAt
  <2>7. \A i : OscAt(u, i) => OscAt(s, i)
    <3>1. ~OscAt(u, L) BY <2>5, OscsStay
    <3> QED BY <3>1, OscsStay
  <2>8. \A i : OscAt(u, i) /\ i # e => Settled(u, i) /\ ~EndsAt(u, i, Len(u))
    BY <1>2, <2>6, <2>7
  <2>9. Kept(SubSeq(u, e + 2, L)) = t.payload
    <3>1. CASE e + 2 \in 1..L
      <4>1. SubSeq(u, e + 2, L) = SubSeq(s, e + 2, L) BY <1>0, <3>1, OneMore
      <4> QED BY <2>2, <4>1
    <3>2. CASE e + 2 \notin 1..L
      <4>1. L < e + 2 /\ L \in Int /\ e + 2 \in Int BY <1>0, <2>2, <3>2
      <4>2. SubSeq(u, e + 2, L) = SubSeq(s, e + 2, L) BY <4>1, SubSeqEmpty
      <4> QED BY <2>2, <4>2
    <3> QED BY <3>1, <3>2
  <2>10. CASE b = "BEL"
    <3>1. n = Ended(t) BY <1>8, <2>10, TitleSteps
    <3>2. n \in Scanner /\ n.st = "ground"
          /\ n.title = (IF Finish(t.intro, t.payload) = {} THEN t.title
                         ELSE Finish(t.intro, t.payload))
      BY <3>1, EndedFields
    <3>3. Len(u) \in e + 2..Len(u) /\ u[Len(u)] = "BEL" /\ Len(u) - 1 = L
      BY <1>0, <2>2, <2>10
    <3>4. Settled(u, e) BY <2>4, <3>3 DEF Settled, Ending
    <3>5. SeesAt(n, u, e)
      <4>1. \A i : OscAt(u, i) => Settled(u, i) BY <2>8, <3>4
      <4>2. u[Len(u)] # "ESC" BY <3>3
      <4> QED BY <3>2, <4>1, <4>2 DEF SeesAt
    <3>6. Shows(n, u, old)
      <4>1. CASE t.intro = "]"
        <5>1. OscAt(u, e) BY <1>0, <2>2, <2>3, <4>1 DEF OscAt
        <5>2. EndsAt(u, e, Len(u)) BY <2>4, <3>3 DEF EndsAt
        <5>3. Kept(Inside(u, e)) = t.payload
          <6>1. Inside(u, e) = SubSeq(u, e + 2, Len(u) - 1) BY <1>0, <3>3, <5>1, <5>2, InsideOf
          <6> QED BY <2>9, <3>3, <6>1
        <5>4. TerminalTitle(u) = IF Finish("]", t.payload) = {} THEN TerminalTitle(s)
                                 ELSE CHOOSE x \in Finish("]", t.payload) : TRUE
          BY <5>1, <5>2, <5>3, NewTitle
        <5> QED BY <3>2, <4>1, <5>4 DEF Shows
      <4>2. CASE t.intro = "P"
        <5>1. Finish(t.intro, t.payload) = {} BY <4>2 DEF Finish
        <5>2. ~OscAt(u, e) BY <2>3, <4>2 DEF OscAt
        <5>3. TerminalTitle(u) = TerminalTitle(s) BY <2>8, <5>2, NoNewTitle
        <5> QED BY <3>2, <5>1, <5>3 DEF Shows
      <4> QED BY <2>2, <4>1, <4>2
    <3> QED BY <3>2, <3>5, <3>6 DEF Sees
  <2>11. ASSUME b # "BEL" PROVE TerminalTitle(u) = TerminalTitle(s)
    <3>1. u[Len(u) - 1] # "ESC" \/ Len(u) = e + 2
      <4>1. Len(u) - 1 = L /\ u[L] = s[L] BY <1>0, <2>2
      <4> QED BY <2>5, <4>1
    <3>2. ~EndsAt(u, e, Len(u))
      <4>1. u[Len(u)] # "BEL" BY <1>0, <2>11
      <4>2. Len(u) = e + 2 => ~(Len(u) > e + 2) BY <1>0
      <4> QED BY <3>1, <4>1, <4>2 DEF EndsAt
    <3> QED BY <2>8, <3>2, NoNewTitle
  <2>12. CASE b = "ESC"
    <3>1. n = [t EXCEPT !.st = "stringEsc"] BY <1>8, <2>12, TitleSteps
    <3>2. n \in Scanner /\ n.st = "stringEsc" /\ n.title = t.title /\ n.intro = t.intro
          /\ n.payload = t.payload
      BY <3>1 DEF Scanner
    <3>3. Len(u) - 1 = L /\ u[Len(u)] = "ESC" BY <1>0, <2>12
    <3>4. OpenAt(n, u, e, L) BY <2>2, <2>3, <2>4, <2>9, <3>2 DEF OpenAt
    <3>5. SeesAt(n, u, e) BY <1>3, <2>8, <3>2, <3>3, <3>4 DEF SeesAt
    <3> QED BY <2>11, <2>12, <3>2, <3>5 DEF Sees, Shows
  <2>13. CASE b \notin {"ESC", "BEL"}
    <3>1. n = [t EXCEPT !.payload = Added(@, b)] BY <1>8, <2>13, TitleSteps
    <3>2. t.payload \in Seq(Byte) BY DEF Scanner
    <3>3. Added(t.payload, b) \in Seq(Byte) BY <3>2, AppendProperties DEF Added
    <3>4. n \in Scanner /\ n.st = "string" /\ n.title = t.title /\ n.intro = t.intro
          /\ n.payload = Added(t.payload, b)
      BY <1>8, <3>1, <3>3 DEF Scanner
    <3>5. Kept(SubSeq(u, e + 2, L + 1)) = Added(t.payload, b)
      <4> DEFINE p == SubSeq(u, e + 2, L)
      <4>1. e + 2 \in 1..Len(u) /\ L + 1 \in e + 2..Len(u) /\ L + 1 - 1 = L BY <1>0, <2>2
      <4>2. SubSeq(u, e + 2, L + 1) = SubSeq(u, e + 2, L) \o <<u[L + 1]>>
        <5>1. \A m \in 1..Len(u) : \A k \in m..Len(u) :
                SubSeq(u, m, k) = SubSeq(u, m, k - 1) \o <<u[k]>>
          BY <1>0, SubSeqRecursiveSecond
        <5>2. SubSeq(u, e + 2, L + 1) = SubSeq(u, e + 2, (L + 1) - 1) \o <<u[L + 1]>>
          <6> HIDE DEF L
          <6> QED BY <4>1, <5>1, Zenon
        <5>3. (L + 1) - 1 = L BY <4>1
        <5> QED BY <5>2, <5>3, Zenon
      <4>3. p \in Seq(Byte)
        <5>1. \A k \in e + 2..L : k \in 1..Len(u) BY <1>0, <2>2
        <5>2. \A k \in e + 2..L : u[k] \in Byte BY <1>0, <5>1, ElementOfSeq
        <5> QED BY <1>0, <2>2, <5>2, SubSeqProperties
      <4>4. SubSeq(u, e + 2, L + 1) = p \o <<b>> BY <1>0, <4>2, Zenon
      <4> HIDE DEF p
      <4>5. Append(p, b) = p \o <<b>> BY <4>3, AppendIsConcat
      <4>6. Kept(Append(p, b)) = Added(Kept(p), b) BY <4>3, KeptAdded
      <4>7. Kept(p) = t.payload BY <2>9 DEF p
      <4> QED BY <4>4, <4>5, <4>6, <4>7
    <3>6. Quiet(u, e + 2, L + 1)
      <4>1. \A f, k \in Int : k \in f..L + 1 => k \in f..L \/ k = L + 1 BY <1>0
      <4>2. \A k \in e + 2..L + 1 : k \in e + 2..L \/ k = L + 1 BY <2>2, <4>1
      <4> QED BY <1>0, <2>4, <2>13, <4>2 DEF Quiet, Ending
    <3>7. e \in 1..(L + 1) - 1 BY <1>0, <2>2
    <3>8. OpenAt(n, u, e, Len(u)) BY <1>0, <2>2, <2>3, <3>4, <3>5, <3>6, <3>7 DEF OpenAt
    <3>9. SeesAt(n, u, e) BY <2>8, <3>4, <3>8 DEF SeesAt
    <3> QED BY <2>11, <2>13, <3>4, <3>9 DEF Sees, Shows
  <2> QED BY <2>10, <2>12, <2>13
<1>9. CASE t.st = "stringEsc"
  <2>1. OpenAt(t, s, e, L - 1) /\ s # <<>> /\ s[L] = "ESC" BY <1>1, <1>9 DEF SeesAt
  <2>2. e \in 1..L - 2 /\ e \in 1..L /\ e + 1 \in 1..L /\ L \in 1..L /\ e + 2 \in 1..L /\ s[e] = "ESC"
        /\ s[e + 1] = t.intro /\ t.intro \in {"]", "P"} /\ Quiet(s, e + 2, L - 1)
        /\ t.payload = Kept(SubSeq(s, e + 2, L - 1))
    BY <1>0, <2>1 DEF OpenAt
  <2>3. u[e] = "ESC" /\ u[e + 1] = t.intro /\ u[L] = "ESC" BY <1>0, <2>1, <2>2
  <2>4. Quiet(u, e + 2, L - 1)
    <3>1. \A k \in e + 2..L - 1 : k \in 1..L BY <1>0, <2>2
    <3> QED BY <1>0, <2>2, <3>1 DEF Quiet
  <2>5. \A i : OscAt(s, i) /\ i # e => Settled(s, i) BY <1>1, <1>9 DEF SeesAt
  <2>6. Settled(u, e)
    <3>1. L \in e + 2..Len(u) /\ L < Len(u) BY <1>0, <2>2
    <3> QED BY <2>3, <2>4, <3>1 DEF Settled, Ending
  <2>7. Kept(SubSeq(u, e + 2, L - 1)) = t.payload
    <3>1. L - 1 \in Nat /\ L - 1 <= L BY <1>0, <2>2
    <3>2. SubSeq(u, e + 2, L - 1) = SubSeq(s, e + 2, L - 1) BY <2>2, <3>1, OneMore
    <3> QED BY <2>2, <3>2
  <2>8. CASE b = "\\"
    <3>1. n = Ended(t) BY <1>9, <2>8, TitleSteps
    <3>2. n \in Scanner /\ n.st = "ground"
          /\ n.title = (IF Finish(t.intro, t.payload) = {} THEN t.title
                         ELSE Finish(t.intro, t.payload))
      BY <3>1, EndedFields
    <3>3. Len(u) \in e + 2..Len(u) /\ u[Len(u)] = "\\" /\ Len(u) - 1 = L /\ Len(u) - 2 = L - 1
          /\ Len(u) > e + 2
      BY <1>0, <2>2, <2>8
    <3>4. \A i : OscAt(u, i) => OscAt(s, i)
      <4>1. ~OscAt(u, L) BY <2>8, OscsStay
      <4> QED BY <4>1, OscsStay
    <3>5. \A i : OscAt(u, i) /\ i # e => Settled(u, i) /\ ~EndsAt(u, i, Len(u)) BY <1>2, <2>5, <3>4
    <3>6. SeesAt(n, u, e)
      <4>1. \A i : OscAt(u, i) => Settled(u, i) BY <2>6, <3>5
      <4>2. u[Len(u)] # "ESC" BY <3>3
      <4> QED BY <3>2, <4>1, <4>2 DEF SeesAt
    <3>7. Shows(n, u, old)
      <4>1. CASE t.intro = "]"
        <5>1. OscAt(u, e)
          <6>1. e \in 1..Len(u) - 1 BY <1>0, <2>2
          <6> QED BY <2>3, <4>1, <6>1 DEF OscAt
        <5>2. EndsAt(u, e, Len(u)) BY <2>3, <2>4, <3>3 DEF EndsAt
        <5>3. Kept(Inside(u, e)) = t.payload
          <6>1. Inside(u, e) = SubSeq(u, e + 2, IF u[Len(u)] = "\\" THEN Len(u) - 2 ELSE Len(u) - 1)
            BY <1>0, <5>1, <5>2, InsideOf
          <6> QED BY <2>7, <3>3, <6>1
        <5>4. TerminalTitle(u) = IF Finish("]", t.payload) = {} THEN TerminalTitle(s)
                                 ELSE CHOOSE x \in Finish("]", t.payload) : TRUE
          BY <5>1, <5>2, <5>3, NewTitle
        <5> QED BY <3>2, <4>1, <5>4 DEF Shows
      <4>2. CASE t.intro = "P"
        <5>1. Finish(t.intro, t.payload) = {} BY <4>2 DEF Finish
        <5>2. ~OscAt(u, e) BY <2>3, <4>2 DEF OscAt
        <5>3. TerminalTitle(u) = TerminalTitle(s) BY <3>5, <5>2, NoNewTitle
        <5> QED BY <3>2, <5>1, <5>3 DEF Shows
      <4> QED BY <2>2, <4>1, <4>2
    <3> QED BY <3>2, <3>6, <3>7 DEF Sees
  <2>9. CASE b # "\\"
    <3>1. n = TitleEsc(t, b) BY <1>9, <2>9, TitleSteps
    <3>2. ~EndsAt(u, e, Len(u))
      <4>1. u[Len(u)] # "\\" BY <1>0, <2>9
      <4>2. ~Quiet(u, e + 2, Len(u) - 1)
        <5>1. L \in e + 2..Len(u) - 1 BY <1>0, <2>2
        <5> QED BY <2>3, <5>1 DEF Quiet, Ending
      <4> QED BY <4>1, <4>2 DEF EndsAt
    <3>3. \A i : OscAt(s, i) => Settled(u, i) /\ ~EndsAt(u, i, Len(u)) BY <1>2, <2>5, <2>6, <3>2
    <3> QED BY <1>6, <2>1, <3>1, <3>3
  <2> QED BY <2>8, <2>9
<1> QED BY <1>4, <1>5, <1>7, <1>8, <1>9

-----------------------------------------------------------------------------
(* Chunks                                                                  *)

\* A chunk, read byte by byte.
LEMMA Prefixes ==
  ASSUME NEW s \in Seq(Byte), NEW data \in Seq(Byte)
  PROVE  /\ s \o SubSeq(data, 1, 0) = s
         /\ s \o SubSeq(data, 1, Len(data)) = s \o data
         /\ \A m \in 0..Len(data) : s \o SubSeq(data, 1, m) \in Seq(Byte)
         /\ \A m \in 0..Len(data) - 1 :
              s \o SubSeq(data, 1, m + 1) = Append(s \o SubSeq(data, 1, m), data[m + 1])
<1>0. Len(data) \in Nat BY LenProperties
<1>1. SubSeq(data, 1, 0) = <<>> BY SubSeqEmpty
<1>2. s \o <<>> = s BY ConcatEmptySeq
<1>3. SubSeq(data, 1, Len(data)) = data BY SubSeqFull
<1>4. ASSUME NEW m \in 0..Len(data) PROVE SubSeq(data, 1, m) \in Seq(Byte)
  <2>1. \A k \in 1..m : data[k] \in Byte BY <1>0, ElementOfSeq
  <2>2. m \in Int BY <1>0
  <2> QED BY <2>1, <2>2, SubSeqProperties
<1>5. ASSUME NEW m \in 0..Len(data) PROVE s \o SubSeq(data, 1, m) \in Seq(Byte)
  BY <1>4, ConcatProperties
<1>6. ASSUME NEW m \in 0..Len(data) - 1
      PROVE  s \o SubSeq(data, 1, m + 1) = Append(s \o SubSeq(data, 1, m), data[m + 1])
  <2> DEFINE p == SubSeq(data, 1, m)
             d == data[m + 1]
  <2>1. 1 \in 1..Len(data) /\ m + 1 \in 1..Len(data) /\ (m + 1) - 1 = m /\ m \in 0..Len(data) BY <1>0
  <2>2. SubSeq(data, 1, m + 1) = SubSeq(data, 1, (m + 1) - 1) \o <<data[m + 1]>>
    <3>1. \A n \in 1..Len(data) : SubSeq(data, 1, n) = SubSeq(data, 1, n - 1) \o <<data[n]>>
      BY <2>1, SubSeqRecursiveSecond
    <3> QED BY <2>1, <3>1, Zenon
  <2>3. SubSeq(data, 1, m + 1) = p \o <<d>> BY <2>1, <2>2, Zenon
  <2>4. p \in Seq(Byte) /\ d \in Byte /\ <<d>> \in Seq(Byte) BY <1>4, <2>1, ElementOfSeq
  <2> HIDE DEF p, d
  <2>5. s \o (p \o <<d>>) = (s \o p) \o <<d>> BY <2>4, ConcatAssociative
  <2>6. s \o p \in Seq(Byte) BY <2>4, ConcatProperties
  <2>7. Append(s \o p, d) = (s \o p) \o <<d>> BY <2>4, <2>6, AppendIsConcat
  <2>8. s \o SubSeq(data, 1, m + 1) = Append(s \o p, d) BY <2>3, <2>5, <2>7
  <2> QED BY <2>8 DEF p, d
<1> QED BY <1>1, <1>2, <1>3, <1>5, <1>6

\* One chunk.
LEMMA TitleChunk ==
  ASSUME NEW t \in Scanner, NEW s \in Seq(Byte), NEW data \in Seq(Byte), NEW old,
         Sees(t, s), Shows(t, s, old), NEW n, n = Walked(t, data)
  PROVE  n \in Scanner /\ Sees(n, s \o data) /\ Shows(n, s \o data, old)
<1> DEFINE L == Len(data)
<1>0. L \in Nat BY LenProperties
<1>1. PICK at : /\ Walked(t, data) = at[L] /\ at[0] = t
                /\ \A i \in 1..L : at[i] = TitleStep(at[i - 1], data[i])
  BY TitleWalk
<1> DEFINE P(i) == LET u == s \o SubSeq(data, 1, i)
                   IN  at[i] \in Scanner /\ Sees(at[i], u) /\ Shows(at[i], u, old)
           S == {i \in Nat : i <= L => P(i)}
<1>2. P(0)
  <2>1. s \o SubSeq(data, 1, 0) = s BY Prefixes
  <2> QED BY <1>1, <2>1
<1>3. ASSUME NEW i \in Nat, i + 1 <= L, P(i) PROVE P(i + 1)
  <2> DEFINE u == s \o SubSeq(data, 1, i)
             v == s \o SubSeq(data, 1, i + 1)
  <2>1. i \in 0..L - 1 /\ i \in 0..L /\ i + 1 \in 1..L /\ (i + 1) - 1 = i BY <1>0, <1>3
  <2>2. u \in Seq(Byte) /\ v = Append(u, data[i + 1]) BY <2>1, Prefixes
  <2>3. data[i + 1] \in Byte BY <2>1, ElementOfSeq
  <2>4. at[i + 1] = TitleStep(at[i], data[i + 1])
    <3>1. at[i + 1] = TitleStep(at[(i + 1) - 1], data[i + 1]) BY <1>1, <2>1, Zenon
    <3> QED BY <2>1, <3>1
  <2>5. at[i] \in Scanner /\ Sees(at[i], u) /\ Shows(at[i], u, old) BY <1>3
  <2> DEFINE a == at[i] c == at[i + 1] b == data[i + 1]
  <2> HIDE DEF u, v, a, b, c
  <2>6. c \in Scanner /\ Sees(c, v) /\ Shows(c, v, old)
    <3>1. a \in Scanner /\ b \in Byte /\ v = Append(u, b) /\ Sees(a, u) /\ Shows(a, u, old)
          /\ c = TitleStep(a, b) /\ u \in Seq(Byte)
      BY <2>2, <2>3, <2>4, <2>5 DEF a, b, c
    <3> QED BY <3>1, TitleByte
  <2> QED BY <2>6 DEF v, c
<1> HIDE DEF P
<1>4. 0 \in S BY <1>2
<1>5. \A i \in Nat : i \in S => i + 1 \in S
  <2>1. \A i \in Nat : i + 1 <= L => i <= L BY <1>0
  <2> QED BY <1>3, <2>1
<1> HIDE DEF S
<1>6. L \in S BY <1>0, <1>4, <1>5, SetInduction
<1>7. P(L) BY <1>0, <1>6 DEF S
<1>8. s \o SubSeq(data, 1, L) = s \o data BY Prefixes
<1> QED BY <1>1, <1>7, <1>8 DEF P

\* The fast path leaves what the walk would have left.
LEMMA FastPath ==
  ASSUME NEW t \in Scanner, NEW data \in Seq(Byte)
  PROVE  ScanTitle(t, data) = Walked([t EXCEPT !.title = {}], data)
<1> DEFINE L == Len(data)
           z == [t EXCEPT !.title = {}]
<1> SUFFICES ASSUME t.st = "ground", ~HasEsc(data) PROVE Walked(z, data) = z
  BY DEF ScanTitle, Walked
<1>0. L \in Nat /\ DOMAIN data = 1..L BY LenProperties
<1>1. {} \in SUBSET Seq(Byte) OBVIOUS
<1>2. z \in Scanner /\ z.st = "ground" BY <1>1 DEF Scanner
<1> HIDE DEF z
<1>3. PICK at : /\ Walked(z, data) = at[L] /\ at[0] = z
                /\ \A i \in 1..L : at[i] = TitleStep(at[i - 1], data[i])
  BY TitleWalk
<1>4. \A i \in 1..L : data[i] # "ESC" /\ data[i] \in Byte BY <1>0, ElementOfSeq DEF HasEsc
<1>5. ASSUME NEW b \in Byte, b # "ESC" PROVE TitleStep(z, b) = z
  <2>1. TitleStep(z, b) = [z EXCEPT !.st = "ground"] BY <1>2, <1>5, TitleSteps
  <2> QED BY <1>2, <2>1 DEF Scanner
<1> DEFINE S == {i \in Nat : i <= L => at[i] = z}
<1>6. 0 \in S BY <1>3
<1>7. ASSUME NEW i \in Nat, i \in S PROVE i + 1 \in S
  <2> SUFFICES ASSUME i + 1 <= L PROVE at[i + 1] = z OBVIOUS
  <2>1. i + 1 \in 1..L /\ (i + 1) - 1 = i /\ i <= L BY <1>0
  <2>2. at[i + 1] = TitleStep(at[(i + 1) - 1], data[i + 1]) BY <1>3, <2>1, Zenon
  <2>3. at[i] = z BY <1>7, <2>1
  <2> QED BY <1>4, <1>5, <2>1, <2>2, <2>3
<1> HIDE DEF S
<1>8. L \in S BY <1>0, <1>6, <1>7, SetInduction
<1> QED BY <1>0, <1>3, <1>8 DEF S

Cat(p, q) == p \o q

\* x is no longer than m fragments.
NoLonger(x, m) ==
  \A M \in Nat : (\A f \in Fragments : Len(f) <= M) => Len(x) <= m * M

\* What a read returns is a sequence of bytes.
LEMMA ReadsAreBytes ==
  ASSUME NEW n \in Nat, NEW data \in Reads(n)
  PROVE  data \in Seq(Byte) /\ NoLonger(data, n) /\ (n # 0 => Fragments # {})
<1>1. PICK fs \in [1..n -> Fragments] : data = Walk(LAMBDA all, f : all \o f, <<>>, fs)
  BY DEF Reads
<1>2. fs \in Seq(Fragments) /\ Len(fs) = n BY SMT
<1>3. \A i \in 1..n : fs[i] \in Seq(Byte) BY <1>1, ConstantsAssumption
<1> DEFINE E(g, m) == g = [i \in 0..m |-> IF i = 0 THEN <<>> ELSE Cat(g[i - 1], fs[i])]
           S == {m \in Nat : m <= n => \E g : E(g, m) /\ g[m] \in Seq(Byte) /\ NoLonger(g[m], m)}
<1>4. 0 \in S
  <2> DEFINE g == [i \in 0..0 |-> <<>>]
  <2>1. g = [i \in 0..0 |-> IF i = 0 THEN <<>> ELSE Cat(g[i - 1], fs[i])] OBVIOUS
  <2>2. E(g, 0) /\ g[0] \in Seq(Byte) BY <2>1, EmptySeq
  <2>3. NoLonger(g[0], 0)
    <3>1. g[0] = <<>> /\ Len(<<>>) = 0 OBVIOUS
    <3>2. \A M \in Nat : 0 <= 0 * M OBVIOUS
    <3> QED BY <3>1, <3>2 DEF NoLonger
  <2> QED BY <2>2, <2>3
<1>5. ASSUME NEW m \in Nat, m \in S PROVE m + 1 \in S
  <2> SUFFICES ASSUME m + 1 <= n
               PROVE  \E g : E(g, m + 1) /\ g[m + 1] \in Seq(Byte) /\ NoLonger(g[m + 1], m + 1)
    <3> HIDE DEF E
    <3> QED OBVIOUS
  <2>0. m <= n /\ m + 1 \in 1..n /\ (m + 1) - 1 = m OBVIOUS
  <2>1. PICK g : E(g, m) /\ g[m] \in Seq(Byte) /\ NoLonger(g[m], m) BY <1>5, <2>0
  <2> DEFINE h == [i \in 0..m + 1 |-> IF i = 0 THEN <<>> ELSE Cat(g[i - 1], fs[i])]
  <2>2. \A i \in 0..m : h[i] = g[i] BY <2>1
  <2>3. \A i \in 0..m + 1 : i # 0 => h[i - 1] = g[i - 1]
    <3> TAKE i \in 0..m + 1
    <3> HAVE i # 0
    <3>1. i - 1 \in 0..m OBVIOUS
    <3> QED BY <2>2, <3>1
  <2>4. h = [i \in 0..m + 1 |-> IF i = 0 THEN <<>> ELSE Cat(h[i - 1], fs[i])] BY <2>3
  <2>5. E(h, m + 1) BY <2>4
  <2>6. h[m + 1] = Cat(g[m], fs[m + 1]) BY <2>0
  <2>7. h[m + 1] \in Seq(Byte) BY <1>3, <2>0, <2>1, <2>6, ConcatProperties DEF Cat
  <2>8. NoLonger(h[m + 1], m + 1)
    <3> SUFFICES ASSUME NEW M \in Nat, \A f \in Fragments : Len(f) <= M
                 PROVE  Len(h[m + 1]) <= (m + 1) * M
      BY DEF NoLonger
    <3> DEFINE k == m * M
    <3>1. Len(g[m]) <= k BY <2>1 DEF NoLonger
    <3>2. fs[m + 1] \in Fragments /\ fs[m + 1] \in Seq(Byte) BY <1>1, <1>3, <2>0
    <3>3. Len(fs[m + 1]) <= M BY <3>2
    <3>4. Len(h[m + 1]) = Len(g[m]) + Len(fs[m + 1])
      <4> DEFINE p == g[m] q == fs[m + 1]
      <4>1. h[m + 1] = p \o q BY <2>6 DEF Cat
      <4>2. p \in Seq(Byte) /\ q \in Seq(Byte) BY <2>1, <3>2
      <4> HIDE DEF p, q, h
      <4>3. Len(p \o q) = Len(p) + Len(q) BY <4>2, ConcatProperties
      <4> QED BY <4>1, <4>3 DEF p, q
    <3>5. Len(g[m]) \in Nat /\ Len(fs[m + 1]) \in Nat BY <2>1, <3>2, LenProperties
    <3>6. (m + 1) * M = k + M /\ k \in Nat OBVIOUS
    <3> DEFINE k1 == (m + 1) * M
    <3>7. k1 = k + M /\ k \in Nat BY <3>6
    <3> HIDE DEF k, k1, h
    <3>8. \A x \in Nat : \A y \in Nat : x <= k /\ y <= M => x + y <= k1 BY <3>7
    <3>9. Len(g[m]) + Len(fs[m + 1]) <= k1 BY <3>1, <3>3, <3>5, <3>8
    <3> QED BY <3>4, <3>9 DEF k1
  <2> HIDE DEF E, h
  <2> QED BY <2>5, <2>7, <2>8
<1>6. n \in S
  <2> HIDE DEF S
  <2> QED BY <1>4, <1>5, SetInduction
<1> DEFINE at == CHOOSE g : E(g, n)
<1>7. PICK g : E(g, n) /\ g[n] \in Seq(Byte) /\ NoLonger(g[n], n)
  <2> HIDE DEF E
  <2> QED BY <1>6
<1>8. E(at, n) BY <1>7
<1>9. at = g
  <2> DEFINE Q == {m \in Nat : m <= n => at[m] = g[m]}
  <2>1. \A i \in 0..n : at[i] = (IF i = 0 THEN <<>> ELSE Cat(at[i - 1], fs[i]))
                       /\ g[i] = (IF i = 0 THEN <<>> ELSE Cat(g[i - 1], fs[i]))
    BY <1>7, <1>8
  <2> HIDE DEF at
  <2>2. 0 \in Q
    <3>1. 0 \in 0..n OBVIOUS
    <3> QED BY <2>1, <3>1
  <2>3. ASSUME NEW m \in Nat, m \in Q PROVE m + 1 \in Q
    <3>1. (m + 1) - 1 = m /\ (m + 1 <= n => m <= n /\ m + 1 \in 0..n /\ m + 1 # 0) OBVIOUS
    <3> QED BY <2>1, <2>3, <3>1
  <2> HIDE DEF Q
  <2>4. Nat \subseteq Q BY <2>2, <2>3, SetInduction
  <2>5. \A m \in 0..n : at[m] = g[m]
    <3>1. \A m \in 0..n : m \in Nat /\ m <= n OBVIOUS
    <3> QED BY <2>4, <3>1 DEF Q
  <2>6. at = [i \in 0..n |-> at[i]] /\ g = [i \in 0..n |-> g[i]] BY <1>7, <1>8
  <2> QED BY <2>5, <2>6
<1>10. data = at[n] BY <1>1, <1>2 DEF Walk, Cat
<1>11. n # 0 => Fragments # {}
  <2>0. n # 0 => 1 \in 1..n OBVIOUS
  <2>1. \A i \in 1..n : fs[i] \in Fragments BY <1>1
  <2> QED BY <2>0, <2>1
<1> HIDE DEF at
<1> QED BY <1>7, <1>9, <1>10, <1>11

-----------------------------------------------------------------------------
(* The title follows                                                       *)

\* What was scanned, which is the output up to the chunk that is waiting.
TitleInv ==
  /\ unread \in Seq(Byte) /\ title \in Scanner
  /\ \E buf, modes, old : session = [buffer |-> buf, modes |-> modes, title |-> old]
  /\ \E s \in Seq(Byte) :
       output = s \o unread /\ Sees(title, s) /\ session.title = TerminalTitle(s)

LEMMA NoTitleYet == TerminalTitle(<<>>) = <<>>
<1>1. Escs(<<>>) = {} BY EmptySeq DEF Escs
<1>2. Titles(<<>>) = {} BY <1>1 DEF Titles, Complete
<1> QED BY <1>2, TitleOf

LEMMA TitleInit == ScannersInit => TitleInv
<1> SUFFICES ASSUME ScannersInit PROVE TitleInv OBVIOUS
<1>1. <<>> \in Seq(Byte) /\ <<>> \o <<>> = <<>> /\ Len(<<>>) = 0 BY EmptySeq, ConcatEmptySeq
<1>2. {} \in SUBSET Seq(Byte) OBVIOUS
<1>3. title \in Scanner /\ title.st = "ground"
  BY <1>1, <1>2 DEF ScannersInit, NewTitleScanner, Scanner
<1>4. \A i : ~OscAt(<<>>, i) BY <1>1 DEF OscAt
<1>5. SeesAt(title, <<>>, 0) BY <1>3, <1>4 DEF SeesAt
<1>6. Sees(title, <<>>) BY <1>5 DEF Sees
<1>7. \E buf, modes, old : session = [buffer |-> buf, modes |-> modes, title |-> old]
  BY DEF ScannersInit
<1>8. session.title = <<>> BY DEF ScannersInit
<1> QED BY <1>1, <1>3, <1>6, <1>7, <1>8, NoTitleYet DEF TitleInv, ScannersInit

LEMMA TitleNext == TitleInv /\ [ScannersNext]_scannerVars => TitleInv'
<1> SUFFICES ASSUME TitleInv, [ScannersNext]_scannerVars PROVE TitleInv' OBVIOUS
<1>0. /\ unread \in Seq(Byte) /\ title \in Scanner
      /\ \E buf, modes, old : session = [buffer |-> buf, modes |-> modes, title |-> old]
  BY DEF TitleInv
<1>1. PICK s \in Seq(Byte) :
        output = s \o unread /\ Sees(title, s) /\ session.title = TerminalTitle(s)
  BY DEF TitleInv
<1>2. PICK buf, modes, old : session = [buffer |-> buf, modes |-> modes, title |-> old] BY <1>0
<1>3. CASE Broadcast
  <2>1. PICK n \in 1..MaxRead : \E data \in Reads(n) :
          /\ output' = output \o data /\ unread' = data
          /\ session' = [session EXCEPT !.buffer = Written(@, data)]
    BY <1>3 DEF Broadcast
  <2>2. PICK data \in Reads(n) :
          /\ output' = output \o data /\ unread' = data
          /\ session' = [session EXCEPT !.buffer = Written(@, data)]
    BY <2>1
  <2>3. data \in Seq(Byte) BY ReadsAreBytes
  <2>4. output = s BY <1>1, <1>3, ConcatEmptySeq DEF Broadcast
  <2>5. title' = title BY <1>3 DEF Broadcast
  <2>6. session' = [buffer |-> Written(buf, data), modes |-> modes, title |-> old]
        /\ session'.title = session.title
    BY <1>2, <2>2
  <2>7. \E b, m, o : session' = [buffer |-> b, modes |-> m, title |-> o] BY <2>6
  <2>8. output' = s \o unread' /\ Sees(title', s) /\ session'.title = TerminalTitle(s)
    BY <1>1, <2>2, <2>4, <2>5, <2>6
  <2> QED BY <1>0, <2>2, <2>3, <2>5, <2>7, <2>8 DEF TitleInv
<1>4. CASE Scan
  <2> DEFINE z == [title EXCEPT !.title = {}]
  <2>1. {} \in SUBSET Seq(Byte) OBVIOUS
  <2>2. z \in Scanner /\ z.title = {} /\ z.st = title.st /\ z.intro = title.intro
        /\ z.payload = title.payload
    BY <1>0, <2>1 DEF Scanner
  <2> HIDE DEF z
  <2>3. Sees(z, s)
    <3>1. PICK e : SeesAt(title, s, e) BY <1>1 DEF Sees
    <3>2. SeesAt(z, s, e) BY <2>2, <3>1 DEF SeesAt, OpenAt
    <3> QED BY <3>2 DEF Sees
  <2>4. Shows(z, s, TerminalTitle(s)) BY <2>2 DEF Shows
  <2>5. title' = Walked(z, unread) BY <1>0, <1>4, FastPath DEF Scan, z
  <2>6. title' \in Scanner /\ Sees(title', s \o unread)
        /\ Shows(title', s \o unread, TerminalTitle(s))
    BY <1>0, <2>2, <2>3, <2>4, <2>5, TitleChunk
  <2>7. unread' = <<>> /\ output' = output BY <1>4 DEF Scan
  <2>8. session'.title = TerminalTitle(s \o unread)
        /\ \E b, m, o : session' = [buffer |-> b, modes |-> m, title |-> o]
    <3> DEFINE new == IF title'.title = {} THEN old ELSE CHOOSE t \in title'.title : TRUE
    <3>1. session' = [session EXCEPT !.modes = mode'.modes, !.title = new]
      BY <1>2, <1>4 DEF Scan
    <3>2. old = TerminalTitle(s) BY <1>1, <1>2
    <3>3. new = TerminalTitle(s \o unread) BY <2>6, <3>2 DEF Shows
    <3> HIDE DEF new
    <3>4. session' = [buffer |-> buf, modes |-> mode'.modes, title |-> new] BY <1>2, <3>1
    <3> QED BY <3>3, <3>4
  <2>9. s \o unread \in Seq(Byte) /\ (s \o unread) \o <<>> = s \o unread
    BY <1>0, ConcatProperties, ConcatEmptySeq
  <2>10. output' = (s \o unread) \o unread' BY <1>1, <2>7, <2>9
  <2>11. unread' \in Seq(Byte) BY <2>7, EmptySeq
  <2> QED BY <2>6, <2>8, <2>9, <2>10, <2>11 DEF TitleInv
<1>5. CASE UNCHANGED scannerVars
  BY <1>5 DEF TitleInv, scannerVars
<1> QED BY <1>3, <1>4, <1>5 DEF ScannersNext

\* Whatever the reads cut apart, however long the output and whatever interrupts
\* what, the session's title is that of a terminal that was given all of it
\* (titleScanner.scan, setTitle).
THEOREM TheTitleFollows == ScannersSpec => []TitleFollows
<1>1. TitleInv => TitleFollows
  <2> SUFFICES ASSUME TitleInv, unread = <<>> PROVE session.title = TerminalTitle(output)
    BY DEF TitleFollows
  <2>1. PICK s \in Seq(Byte) : output = s \o unread /\ session.title = TerminalTitle(s)
    BY DEF TitleInv
  <2> QED BY <2>1, ConcatEmptySeq
<1> QED BY <1>1, TitleInit, TitleNext, PTL DEF ScannersSpec

-----------------------------------------------------------------------------
(* The modeScanner's walk                                                  *)

ModeWalk(m, bytes) == Walk(ModeStep, m, bytes)

\* A scanner of modes, whatever its modes are.
IsModeScanner(m) ==
  /\ m = [st |-> m.st, params |-> m.params, modes |-> m.modes]
  /\ m.st \in {"ground", "esc", "csi", "string", "stringEsc"}

\* A step leaves a scanner, and in ground only an ESC changes it.
LEMMA ModeSteps ==
  ASSUME NEW m, IsModeScanner(m), NEW b \in Byte
  PROVE  /\ IsModeScanner(ModeStep(m, b))
         /\ m.st = "ground" /\ b # "ESC" => ModeStep(m, b) = m
<1> DEFINE n == ModeStep(m, b)
<1>1. PICK st, ps, ms : m = [st |-> st, params |-> ps, modes |-> ms] BY DEF IsModeScanner
<1>2. m.st \in {"ground", "esc", "csi", "string", "stringEsc"} BY DEF IsModeScanner
<1>3. Introduced(b) \in {"csi", "string", "ground"} BY DEF Introduced
<1>4. ASSUME NEW p, NEW q, NEW r, p \in {"ground", "esc", "csi", "string", "stringEsc"},
             n = [st |-> p, params |-> q, modes |-> r]
      PROVE  IsModeScanner(n)
  <2> HIDE DEF n
  <2> QED BY <1>4 DEF IsModeScanner
<1>5. CASE m.st = "ground"
  <2>1. n = [m EXCEPT !.st = IF b = "ESC" THEN "esc" ELSE "ground"] BY <1>5 DEF ModeStep
  <2>2. n = [st |-> IF b = "ESC" THEN "esc" ELSE "ground", params |-> ps, modes |-> ms]
    BY <1>1, <2>1
  <2>3. b # "ESC" => n = m BY <1>1, <1>5, <2>2
  <2> QED BY <1>4, <2>2, <2>3
<1>6. CASE m.st = "esc"
  <2>1. n = [st |-> IF b = "ESC" THEN "esc" ELSE Introduced(b),
             params |-> <<>>, modes |-> Keypad(m.modes, b)]
    BY <1>6 DEF ModeStep
  <2> QED BY <1>3, <1>4, <1>6, <2>1
<1>7. CASE m.st = "csi"
  <2>1. CASE b \in FinalByte
    <3>1. n = [st |-> "ground", params |-> <<>>, modes |-> Completed(m.modes, m.params, b)]
      <4>1. b \notin ParamByte
        BY <2>1 DEF FinalByte, ParamByte, Digits, AltSpelling
      <4> QED BY <1>7, <2>1, <4>1 DEF ModeStep
    <3> QED BY <1>4, <1>7, <3>1
  <2>2. CASE b \notin FinalByte /\ b \in ParamByte
    <3>1. n = [m EXCEPT !.params = Collected(@, b)]
      BY <1>7, <2>2 DEF ModeStep
    <3>2. n = [st |-> "csi", params |-> Collected(ps, b), modes |-> ms] BY <1>1, <1>7, <3>1
    <3> QED BY <1>4, <1>7, <3>2
  <2>3. CASE b \notin FinalByte /\ b \notin ParamByte
    <3>1. n = [m EXCEPT !.st = "ground", !.params = <<>>] BY <1>7, <2>3 DEF ModeStep
    <3>2. n = [st |-> "ground", params |-> <<>>, modes |-> ms] BY <1>1, <3>1
    <3> QED BY <1>4, <1>7, <3>2
  <2> QED BY <2>1, <2>2, <2>3
<1>8. CASE m.st = "string"
  <2>1. PICK x \in {"ground", "stringEsc", "string"} : n = [m EXCEPT !.st = x]
    BY <1>8 DEF ModeStep
  <2>2. n = [st |-> x, params |-> ps, modes |-> ms] BY <1>1, <2>1
  <2> QED BY <1>4, <1>8, <2>2
<1>9. CASE m.st = "stringEsc"
  <2>1. n = [m EXCEPT !.st = Introduced(b), !.modes = Keypad(@, b)] BY <1>9 DEF ModeStep
  <2>2. n = [st |-> Introduced(b), params |-> ps, modes |-> Keypad(ms, b)] BY <1>1, <2>1
  <2> QED BY <1>3, <1>4, <1>9, <2>2
<1> QED BY <1>2, <1>5, <1>6, <1>7, <1>8, <1>9

\* The states at of a walk from m over data.
\* The states of the walk from m over data.  A lemma cannot take a step operator, so
\* that each walk has these lemmas of its own: it is a chain of steps (...Walks), one
\* byte more is one step more (...Byte).
AreStates(at, m, data) ==
  /\ ModeWalk(m, data) = at[Len(data)] /\ at[0] = m
  /\ \A i \in 1..Len(data) : at[i] = ModeStep(at[i - 1], data[i])

\* A walk is a chain of steps.
LEMMA ModeWalks ==
  ASSUME NEW m, NEW data \in Seq(Byte)
  PROVE  \E at : AreStates(at, m, data)
<1> DEFINE L == Len(data)
           E(g, n) == g = [i \in 0..n |-> IF i = 0 THEN m ELSE ModeStep(g[i - 1], data[i])]
           S == {n \in Nat : \E g : E(g, n)}
<1>0. L \in Nat BY LenProperties
<1>1. 0 \in S
  <2> DEFINE g == [i \in 0..0 |-> m]
  <2>1. g = [i \in 0..0 |-> IF i = 0 THEN m ELSE ModeStep(g[i - 1], data[i])] OBVIOUS
  <2>2. E(g, 0) BY <2>1
  <2> QED BY <2>2
<1>2. ASSUME NEW n \in Nat, n \in S PROVE n + 1 \in S
  <2>1. PICK g : E(g, n) BY <1>2
  <2> DEFINE h == [i \in 0..n + 1 |-> IF i = 0 THEN m ELSE ModeStep(g[i - 1], data[i])]
  <2>2. \A i \in 0..n : h[i] = g[i] BY <2>1
  <2>3. \A i \in 0..n + 1 : i # 0 => h[i - 1] = g[i - 1]
    <3> TAKE i \in 0..n + 1
    <3> HAVE i # 0
    <3>1. i - 1 \in 0..n OBVIOUS
    <3> QED BY <2>2, <3>1
  <2>4. h = [i \in 0..n + 1 |-> IF i = 0 THEN m ELSE ModeStep(h[i - 1], data[i])] BY <2>3
  <2>5. E(h, n + 1) BY <2>4
  <2> HIDE DEF E, h
  <2> QED BY <2>5
<1>3. L \in S BY <1>0, <1>1, <1>2, SetInduction
<1>4. \E g : E(g, L) BY <1>3
<1> DEFINE at == CHOOSE g : E(g, L)
<1>5. ModeWalk(m, data) = at[L] BY DEF ModeWalk, Walk
<1>6. E(at, L) BY <1>4
<1>7. \A i \in 0..L : at[i] = IF i = 0 THEN m ELSE ModeStep(at[i - 1], data[i]) BY <1>6
<1> HIDE DEF at
<1>8. AreStates(at, m, data) BY <1>0, <1>5, <1>7 DEF AreStates
<1> QED BY <1>8

\* Two walks go on from one another.
LEMMA ModeWalkOn ==
  ASSUME NEW m, NEW s \in Seq(Byte), NEW data \in Seq(Byte)
  PROVE  ModeWalk(m, s \o data) = ModeWalk(ModeWalk(m, s), data)
<1> DEFINE w == s \o data
           K == Len(s)
           L == Len(data)
<1>0. /\ K \in Nat /\ L \in Nat /\ w \in Seq(Byte) /\ Len(w) = K + L
      /\ \A i \in 1..K : w[i] = s[i]
      /\ \A i \in 1..L : w[K + i] = data[i]
  <2>1. K \in Nat /\ L \in Nat BY LenProperties
  <2>2. /\ w \in Seq(Byte) /\ Len(w) = K + L
        /\ \A i \in 1..K + L : w[i] = IF i <= K THEN s[i] ELSE data[i - K]
    BY ConcatProperties
  <2>3. \A i \in 1..K : i \in 1..K + L /\ i <= K BY <2>1
  <2>4. \A i \in 1..L : K + i \in 1..K + L /\ ~(K + i <= K) /\ (K + i) - K = i BY <2>1
  <2> HIDE DEF w, K, L
  <2> QED BY <2>1, <2>2, <2>3, <2>4
<1>1. PICK a : AreStates(a, m, s) BY ModeWalks
<1> DEFINE k == a[K]
           M == K + L
<1> HIDE DEF w, k
<1>2. PICK c : AreStates(c, m, w) BY <1>0, ModeWalks
<1>3. PICK d : AreStates(d, k, data) BY ModeWalks
<1>7. /\ ModeWalk(m, s) = a[K] /\ a[0] = m
      /\ \A i \in 1..K : a[i] = ModeStep(a[i - 1], s[i])
  BY <1>1 DEF AreStates
<1>8. /\ ModeWalk(m, w) = c[M] /\ c[0] = m
      /\ \A i \in 1..M : c[i] = ModeStep(c[i - 1], w[i])
  BY <1>0, <1>2 DEF AreStates
<1>9. /\ ModeWalk(k, data) = d[L] /\ d[0] = a[K]
      /\ \A i \in 1..L : d[i] = ModeStep(d[i - 1], data[i])
  BY <1>3 DEF AreStates, k
<1> HIDE DEF K, L
<1>4. c[K] = a[K]
  <2> DEFINE S == {i \in Nat : i <= K => c[i] = a[i]}
  <2>1. 0 \in S BY <1>7, <1>8
  <2>2. ASSUME NEW i \in Nat, i \in S PROVE i + 1 \in S
    <3> SUFFICES ASSUME i + 1 <= K PROVE c[i + 1] = a[i + 1] OBVIOUS
    <3>1. i + 1 \in 1..K /\ i + 1 \in 1..M /\ (i + 1) - 1 = i /\ i <= K BY <1>0
    <3>2. c[i + 1] = ModeStep(c[(i + 1) - 1], w[i + 1]) BY <1>8, <3>1, Zenon
    <3>3. a[i + 1] = ModeStep(a[(i + 1) - 1], s[i + 1]) BY <1>7, <3>1, Zenon
    <3>4. c[i] = a[i] /\ w[i + 1] = s[i + 1] BY <1>0, <2>2, <3>1
    <3> QED BY <3>1, <3>2, <3>3, <3>4
  <2> HIDE DEF S
  <2>3. K \in S BY <1>0, <2>1, <2>2, SetInduction
  <2> QED BY <1>0, <2>3 DEF S
<1>5. c[K + L] = d[L]
  <2> DEFINE S == {i \in Nat : i <= L => c[K + i] = d[i]}
  <2>1. 0 \in S
    <3>1. K + 0 = K BY <1>0
    <3> QED BY <1>9, <1>4, <3>1
  <2>2. ASSUME NEW i \in Nat, i \in S PROVE i + 1 \in S
    <3> SUFFICES ASSUME i + 1 <= L PROVE c[K + (i + 1)] = d[i + 1] OBVIOUS
    <3>1. i + 1 \in 1..L /\ K + (i + 1) \in 1..M /\ (i + 1) - 1 = i
          /\ (K + (i + 1)) - 1 = K + i /\ i <= L
      BY <1>0
    <3>2. c[K + (i + 1)] = ModeStep(c[(K + (i + 1)) - 1], w[K + (i + 1)]) BY <1>8, <3>1, Zenon
    <3>3. d[i + 1] = ModeStep(d[(i + 1) - 1], data[i + 1]) BY <1>9, <3>1, Zenon
    <3>4. w[K + (i + 1)] = data[i + 1] BY <1>0, <3>1, Zenon
    <3>5. c[K + i] = d[i] BY <2>2, <3>1
    <3> QED BY <3>1, <3>2, <3>3, <3>4, <3>5
  <2> HIDE DEF S
  <2>3. L \in S BY <1>0, <2>1, <2>2, SetInduction
  <2> QED BY <1>0, <2>3 DEF S
<1>6. ModeWalk(m, w) = ModeWalk(ModeWalk(m, s), data) BY <1>7, <1>8, <1>9, <1>5 DEF k
<1> QED BY <1>6 DEF w

\* ScanModes is the walk, whether the chunk is walked or not.
LEMMA ModeScan ==
  ASSUME NEW m, IsModeScanner(m), NEW data \in Seq(Byte)
  PROVE  ScanModes(m, data) = ModeWalk(m, data) /\ IsModeScanner(ModeWalk(m, data))
<1> DEFINE L == Len(data)
<1>0. L \in Nat /\ DOMAIN data = 1..L BY LenProperties
<1>1. PICK at : /\ ModeWalk(m, data) = at[L] /\ at[0] = m
                /\ \A i \in 1..L : at[i] = ModeStep(at[i - 1], data[i])
  BY ModeWalks DEF AreStates
<1> DEFINE plain == m.st = "ground" /\ ~HasEsc(data)
           S == {i \in Nat : i <= L => IsModeScanner(at[i]) /\ (plain => at[i] = m)}
<1>2. 0 \in S BY <1>1
<1>3. ASSUME NEW i \in Nat, i \in S PROVE i + 1 \in S
  <2> SUFFICES ASSUME i + 1 <= L
               PROVE  IsModeScanner(at[i + 1]) /\ (plain => at[i + 1] = m)
    OBVIOUS
  <2>1. i + 1 \in 1..L /\ (i + 1) - 1 = i /\ i <= L BY <1>0
  <2>2. at[i + 1] = ModeStep(at[(i + 1) - 1], data[i + 1]) BY <1>1, <2>1, Zenon
  <2>3. IsModeScanner(at[i]) /\ (plain => at[i] = m) BY <1>3, <2>1
  <2>4. data[i + 1] \in Byte BY <2>1, ElementOfSeq
  <2>5. plain => m.st = "ground" /\ data[i + 1] # "ESC" BY <1>0, <2>1 DEF HasEsc
  <2> HIDE DEF plain
  <2> QED BY <2>1, <2>2, <2>3, <2>4, <2>5, ModeSteps
<1> HIDE DEF S, plain
<1>4. L \in S BY <1>0, <1>2, <1>3, SetInduction
<1>5. IsModeScanner(at[L]) /\ (plain => at[L] = m) BY <1>0, <1>4 DEF S
<1>6. ScanModes(m, data) = (IF plain THEN m ELSE ModeWalk(m, data))
  BY DEF ScanModes, plain, ModeWalk
<1> QED BY <1>1, <1>5, <1>6

ModeInv ==
  /\ output \in Seq(Byte) /\ unread \in Seq(Byte) /\ IsModeScanner(mode)
  /\ \E buf, old : session = [buffer |-> buf, modes |-> mode.modes, title |-> old]
  /\ \E s \in Seq(Byte) : output = s \o unread /\ mode = ModeWalk(NewModeScanner, s)

LEMMA ModeInit == ScannersInit => ModeInv
<1> SUFFICES ASSUME ScannersInit PROVE ModeInv OBVIOUS
<1>1. <<>> \in Seq(Byte) /\ <<>> \o <<>> = <<>> /\ Len(<<>>) = 0 BY EmptySeq, ConcatEmptySeq
<1>2. IsModeScanner(mode) /\ mode.modes = Reset
  BY DEF ScannersInit, NewModeScanner, IsModeScanner
<1>3. ModeWalk(NewModeScanner, <<>>) = NewModeScanner
  <2>1. \A s \in Seq(Byte) : Len(s) = 0 => ModeWalk(NewModeScanner, s) = NewModeScanner
    <3> TAKE s \in Seq(Byte)
    <3> HAVE Len(s) = 0
    <3>1. PICK at : AreStates(at, NewModeScanner, s) BY ModeWalks
    <3> QED BY <3>1 DEF AreStates
  <2> QED BY <1>1, <2>1
<1>4. \E buf, old : session = [buffer |-> buf, modes |-> mode.modes, title |-> old]
  BY <1>2 DEF ScannersInit
<1> QED BY <1>1, <1>2, <1>3, <1>4 DEF ModeInv, ScannersInit

LEMMA ModeNext == ModeInv /\ [ScannersNext]_scannerVars => ModeInv'
<1> SUFFICES ASSUME ModeInv, [ScannersNext]_scannerVars PROVE ModeInv' OBVIOUS
<1>0. output \in Seq(Byte) /\ unread \in Seq(Byte) /\ IsModeScanner(mode) BY DEF ModeInv
<1>1. PICK s \in Seq(Byte) : output = s \o unread /\ mode = ModeWalk(NewModeScanner, s)
  BY DEF ModeInv
<1>2. PICK buf, old : session = [buffer |-> buf, modes |-> mode.modes, title |-> old]
  BY DEF ModeInv
<1>3. CASE Broadcast
  <2>1. PICK n \in 1..MaxRead : \E data \in Reads(n) :
          /\ output' = output \o data /\ unread' = data
          /\ session' = [session EXCEPT !.buffer = Written(@, data)]
    BY <1>3 DEF Broadcast
  <2>2. PICK data \in Reads(n) :
          /\ output' = output \o data /\ unread' = data
          /\ session' = [session EXCEPT !.buffer = Written(@, data)]
    BY <2>1
  <2>3. data \in Seq(Byte) BY ReadsAreBytes
  <2>4. output = s BY <1>1, <1>3, ConcatEmptySeq DEF Broadcast
  <2>5. mode' = mode BY <1>3 DEF Broadcast
  <2>6. session' = [buffer |-> Written(buf, data), modes |-> mode'.modes, title |-> old]
    BY <1>2, <2>2, <2>5
  <2>7. output' = s \o unread' /\ mode' = ModeWalk(NewModeScanner, s)
    BY <1>1, <2>2, <2>4, <2>5
  <2>8. output' \in Seq(Byte) BY <1>0, <2>2, <2>3, ConcatProperties
  <2> QED BY <1>0, <2>2, <2>3, <2>5, <2>6, <2>7, <2>8 DEF ModeInv
<1>4. CASE Scan
  <2>1. mode' = ModeWalk(mode, unread) /\ IsModeScanner(mode')
    BY <1>0, <1>4, ModeScan DEF Scan
  <2>2. mode' = ModeWalk(NewModeScanner, output) BY <1>0, <1>1, <2>1, ModeWalkOn
  <2>3. unread' = <<>> /\ output' = output BY <1>4 DEF Scan
  <2>4. \E b, o : session' = [buffer |-> b, modes |-> mode'.modes, title |-> o]
    <3> DEFINE new == IF title'.title = {} THEN old ELSE CHOOSE t \in title'.title : TRUE
    <3>1. session' = [session EXCEPT !.modes = mode'.modes, !.title = new]
      BY <1>2, <1>4 DEF Scan
    <3> HIDE DEF new
    <3>2. session' = [buffer |-> buf, modes |-> mode'.modes, title |-> new] BY <1>2, <3>1
    <3> QED BY <3>2
  <2>5. <<>> \in Seq(Byte) /\ output \o <<>> = output BY <1>0, EmptySeq, ConcatEmptySeq
  <2> QED BY <1>0, <2>1, <2>2, <2>3, <2>4, <2>5 DEF ModeInv
<1>5. CASE UNCHANGED scannerVars
  BY <1>5 DEF ModeInv, scannerVars
<1> QED BY <1>3, <1>4, <1>5 DEF ScannersNext

\* The modes of a session do not depend on where the reads cut its output, nor on
\* the chunks that are not walked for want of an ESC: they are those that one walk
\* over all of it finds (modeScanner.scan, setModes).
CutsDoNotMatter ==
  unread = <<>> => session.modes = Walk(ModeStep, NewModeScanner, output).modes

THEOREM ModesIgnoreCuts == ScannersSpec => []CutsDoNotMatter
<1>1. ModeInv => CutsDoNotMatter
  <2> SUFFICES ASSUME ModeInv, unread = <<>>
               PROVE  session.modes = ModeWalk(NewModeScanner, output).modes
    BY DEF CutsDoNotMatter, ModeWalk
  <2>1. PICK s \in Seq(Byte) : output = s \o unread /\ mode = ModeWalk(NewModeScanner, s)
    BY DEF ModeInv
  <2>2. output = s BY <2>1, ConcatEmptySeq
  <2>3. session.modes = mode.modes BY DEF ModeInv
  <2> QED BY <2>1, <2>2, <2>3
<1> QED BY <1>1, ModeInit, ModeNext, PTL DEF ScannersSpec

-----------------------------------------------------------------------------
(* Where sequences end, and what modes they leave                          *)

\* The ESC that follows i, if any, is the next one.
LEMMA NextFacts ==
  ASSUME NEW s \in Seq(Byte), NEW i \in Escs(s)
  PROVE  /\ i \in 1..Len(s) /\ s[i] = "ESC"
         /\ NextEsc(s, i) \in i + 1..Len(s) + 1
         /\ NextEsc(s, i) <= Len(s) => s[NextEsc(s, i)] = "ESC"
         /\ \A j \in i + 1..NextEsc(s, i) - 1 : s[j] # "ESC"
<1> DEFINE L == Len(s)
           A == {j \in Escs(s) : j > i} \cup {L + 1}
           stop == NextEsc(s, i)
<1>1. L \in Nat /\ DOMAIN s = 1..L BY LenProperties
<1>2. Escs(s) \subseteq 1..L /\ \A j \in 1..L : j \in Escs(s) <=> s[j] = "ESC" BY <1>1 DEF Escs
<1>3. A \in SUBSET Nat /\ A # {} BY <1>1, <1>2
<1>4. stop = Least(A) BY DEF NextEsc
<1>5. stop \in A /\ \A y \in A : stop <= y
  <2> HIDE DEF A, stop
  <2>1. Least(A) \in A /\ \A y \in A : Least(A) <= y BY <1>3, LeastOf
  <2> QED BY <1>4, <2>1
<1> HIDE DEF stop
<1>6. stop \in i + 1..L + 1 /\ (stop <= L => s[stop] = "ESC") BY <1>1, <1>2, <1>5
<1>7. \A j \in i + 1..stop - 1 : s[j] # "ESC"
  <2>1. \A j \in i + 1..stop - 1 : j \notin A BY <1>1, <1>2, <1>5, <1>6
  <2>2. \A j \in i + 1..stop - 1 : j \in 1..L /\ j > i BY <1>1, <1>2, <1>6
  <2> QED BY <1>2, <2>1, <2>2
<1> QED BY <1>1, <1>2, <1>6, <1>7 DEF stop

\* The parameters of a CSI sequence introduced at i go on up to j.
ParamsTo(s, i, j) == \A k \in i + 2..j : s[k] \in ParamByte

\* The sequence introduced at i ends at j, which depends on the bytes from i to j.
Ends(s, i, j) ==
  /\ i \in 1..Len(s) - 1 /\ s[i] = "ESC"
  /\ \/ s[i + 1] \notin {"ESC", "[", "]", "P"} /\ j = i + 1
     \/ s[i + 1] = "[" /\ j \in i + 2..Len(s) /\ s[j] \in FinalByte /\ ParamsTo(s, i, j - 1)
     \/ s[i + 1] \in {"]", "P"} /\ EndsAt(s, i, j)

\* The bytes, by kind.
LEMMA Bytes ==
  /\ \A b \in Byte : b \in ParamByte \/ b \in FinalByte \/ b = "ESC" \/ b = "BEL"
  /\ \A b \in ParamByte : b \in Byte /\ b \notin FinalByte /\ b # "ESC" /\ b # "BEL"
  /\ \A b \in FinalByte : b \in Byte /\ b # "ESC" /\ b # "BEL"
  BY DEF Byte, ParamByte, FinalByte, Digits, AltSpelling

\* EndOf of a CSI sequence.
LEMMA EndOfCsi ==
  ASSUME NEW s \in Seq(Byte), NEW i \in Escs(s), i < Len(s), s[i + 1] = "["
  PROVE  /\ \A j : Ends(s, i, j) => EndOf(s, i) = j
         /\ EndOf(s, i) # 0 => Ends(s, i, EndOf(s, i))
<1> DEFINE L == Len(s)
           stop == NextEsc(s, i)
           A == {j \in i + 2..stop - 1 : s[j] \in Byte \ ParamByte} \cup {stop}
           f == Least(A)
<1>1. L \in Nat /\ i \in 1..L - 1 /\ s[i] = "ESC" BY LenProperties, NextFacts
<1>2. /\ stop \in i + 1..L + 1 /\ (stop <= L => s[stop] = "ESC")
      /\ \A j \in i + 1..stop - 1 : s[j] # "ESC"
  BY NextFacts
<1>3. stop # i + 1 /\ stop \in i + 2..L + 1 BY <1>1, <1>2
<1> HIDE DEF stop
<1>4. A \in SUBSET Nat /\ A # {} BY <1>1, <1>3
<1>5. f \in A /\ \A y \in A : f <= y
  <2> HIDE DEF A
  <2> QED BY <1>4, LeastOf
<1>6. EndOf(s, i) = IF f < stop /\ s[f] \in FinalByte THEN f ELSE 0
  BY <1>3 DEF EndOf, stop
<1>7. \A k \in 1..L : s[k] \in Byte BY <1>1, ElementOfSeq
<1> HIDE DEF f
<1>8. f \in i + 2..stop /\ \A k \in i + 2..f - 1 : s[k] \in ParamByte
  <2>1. f \in i + 2..stop BY <1>1, <1>3, <1>5
  <2>2. \A k \in i + 2..f - 1 : k \in i + 2..stop - 1 /\ k \in 1..L /\ k \notin A
    BY <1>1, <1>3, <1>5, <2>1
  <2> QED BY <1>7, <2>1, <2>2
<1>9. f < stop => s[f] \notin ParamByte /\ f \in i + 2..L BY <1>1, <1>3, <1>5, <1>8
<1> HIDE DEF A
<1>10. ASSUME NEW j, Ends(s, i, j) PROVE EndOf(s, i) = j
  <2>1. j \in i + 2..L /\ s[j] \in FinalByte /\ \A k \in i + 2..j - 1 : s[k] \in ParamByte
    BY <1>10 DEF Ends, ParamsTo
  <2>2. \A k \in i + 2..j : s[k] # "ESC"
    <3>1. \A k \in i + 2..j : k = j \/ k \in i + 2..j - 1 BY <1>1, <2>1
    <3> QED BY <2>1, <3>1, Bytes
  <2>3. j < stop BY <1>1, <1>2, <1>3, <2>1, <2>2
  <2>4. ~(f > j)
    <3> SUFFICES ASSUME f > j PROVE FALSE OBVIOUS
    <3>1. j \in i + 2..f - 1 BY <1>1, <1>8, <2>1
    <3> QED BY <1>8, <2>1, <3>1, Bytes
  <2>5. ~(f < j)
    <3> SUFFICES ASSUME f < j PROVE FALSE OBVIOUS
    <3>1. f \in i + 2..j - 1 /\ f < stop BY <1>1, <1>3, <1>8, <2>1, <2>3
    <3> QED BY <1>9, <2>1, <3>1
  <2>6. f = j BY <1>1, <1>3, <1>8, <2>1, <2>4, <2>5
  <2> QED BY <1>6, <2>1, <2>3, <2>6
<1>11. ASSUME EndOf(s, i) # 0 PROVE Ends(s, i, EndOf(s, i))
  <2>1. EndOf(s, i) = f /\ f < stop /\ s[f] \in FinalByte BY <1>6, <1>11
  <2> QED BY <1>1, <1>8, <1>9, <2>1 DEF Ends, ParamsTo
<1> QED BY <1>10, <1>11

\* The reference's EndOf is the end that Ends describes, of a sequence of any kind.
LEMMA EndOfIs ==
  ASSUME NEW s \in Seq(Byte), NEW i \in Escs(s)
  PROVE  /\ i \in 1..Len(s) /\ s[i] = "ESC"
         /\ \A j : Ends(s, i, j) => EndOf(s, i) = j
         /\ EndOf(s, i) # 0 => Ends(s, i, EndOf(s, i))
<1> DEFINE L == Len(s)
           stop == NextEsc(s, i)
<1>1. L \in Nat /\ i \in 1..L /\ s[i] = "ESC" /\ i \in Nat BY LenProperties, NextFacts
<1>2. /\ stop \in i + 1..L + 1 /\ (stop <= L => s[stop] = "ESC")
      /\ \A j \in i + 1..stop - 1 : s[j] # "ESC"
  BY NextFacts
<1>3. stop = i + 1 => EndOf(s, i) = 0 BY DEF EndOf
<1>4. CASE i = L
  <2>1. stop = i + 1 BY <1>1, <1>2, <1>4
  <2>2. i \notin 1..L - 1 BY <1>1, <1>4
  <2> QED BY <1>1, <1>3, <2>1, <2>2 DEF Ends
<1>5. CASE i # L /\ s[i + 1] = "ESC"
  <2>1. stop = i + 1
    <3> SUFFICES ASSUME stop # i + 1 PROVE FALSE OBVIOUS
    <3> HIDE DEF stop
    <3>1. i + 1 \in i + 1..stop - 1 BY <1>1, <1>2
    <3> QED BY <1>2, <1>5, <3>1
  <2>2. \A j : ~Ends(s, i, j) BY <1>5 DEF Ends
  <2> QED BY <1>1, <1>3, <2>1, <2>2
<1>6. CASE i # L /\ s[i + 1] = "["
  <2>1. i < Len(s) BY <1>1, <1>6
  <2> QED BY <1>1, <1>6, <2>1, EndOfCsi
<1>7. CASE i # L /\ s[i + 1] \in {"]", "P"}
  <2>1. i \in 1..L - 1 BY <1>1, <1>7
  <2>2. StringAt(s, i) BY <1>1, <1>7, <2>1 DEF StringAt
  <2>3. \A j : Ends(s, i, j) <=> EndsAt(s, i, j) BY <1>1, <1>7, <2>1 DEF Ends
  <2> QED BY <1>1, <2>2, <2>3, EndOfString
<1>8. CASE i # L /\ s[i + 1] \notin {"ESC", "[", "]", "P"}
  <2>1. i \in 1..L - 1 BY <1>1, <1>8
  <2>2. stop # i + 1 BY <1>1, <1>2, <1>8, <2>1
  <2>3. EndOf(s, i) = i + 1 BY <1>8, <2>2 DEF EndOf
  <2>4. \A j : Ends(s, i, j) <=> j = i + 1 BY <1>1, <1>8, <2>1 DEF Ends
  <2> QED BY <1>1, <2>3, <2>4
<1> QED BY <1>4, <1>5, <1>6, <1>7, <1>8

\* A sequence that ends has two bytes at least.
LEMMA EndsWithin ==
  ASSUME NEW s \in Seq(Byte), NEW i, NEW j, Ends(s, i, j)
  PROVE  /\ Len(s) \in Nat /\ i \in 1..Len(s) /\ i \in Escs(s) /\ j \in i + 1..Len(s)
         /\ j \in 1..Len(s) /\ EndOf(s, i) = j /\ s[i] = "ESC" /\ i < j
<1>1. Len(s) \in Nat /\ DOMAIN s = 1..Len(s) BY LenProperties
<1>2. i \in 1..Len(s) - 1 /\ i \in 1..Len(s) /\ s[i] = "ESC" BY <1>1 DEF Ends
<1>3. i \in Escs(s) BY <1>1, <1>2 DEF Escs
<1>4. j \in i + 1..Len(s) BY <1>1, <1>2 DEF Ends, EndsAt
<1> QED BY <1>1, <1>2, <1>3, <1>4, EndOfIs

\* Two sequences of bytes, one after the other.
LEMMA Halves ==
  ASSUME NEW s \in Seq(Byte), NEW x \in Seq(Byte), NEW u, u = s \o x
  PROVE  /\ u \in Seq(Byte) /\ Len(s) \in Nat /\ Len(x) \in Nat /\ Len(u) = Len(s) + Len(x)
         /\ DOMAIN u = 1..Len(u) /\ DOMAIN s = 1..Len(s) /\ DOMAIN x = 1..Len(x)
         /\ \A k \in 1..Len(s) : u[k] = s[k]
         /\ \A k \in 1..Len(x) : u[Len(s) + k] = x[k]
<1>1. Len(s) \in Nat /\ Len(x) \in Nat BY LenProperties
<1>2. /\ u \in Seq(Byte) /\ Len(u) = Len(s) + Len(x)
      /\ \A i \in 1..Len(s) + Len(x) : u[i] = IF i <= Len(s) THEN s[i] ELSE x[i - Len(s)]
  BY ConcatProperties
<1>3. DOMAIN u = 1..Len(u) /\ DOMAIN s = 1..Len(s) /\ DOMAIN x = 1..Len(x) BY <1>2, LenProperties
<1>4. \A i \in 1..Len(s) : i \in 1..Len(s) + Len(x) /\ i <= Len(s) BY <1>1
<1>5. \A i \in 1..Len(x) : Len(s) + i \in 1..Len(s) + Len(x) /\ ~(Len(s) + i <= Len(s))
                            /\ (Len(s) + i) - Len(s) = i
  BY <1>1
<1> QED BY <1>1, <1>2, <1>3, <1>4, <1>5

\* Which sequences end in the first half depends on that half alone, and the
\* sequences of the second half are those it has by itself.
LEMMA EndsSplit ==
  ASSUME NEW s \in Seq(Byte), NEW x \in Seq(Byte), NEW u, u = s \o x
  PROVE  /\ \A i : \A j \in Int : j <= Len(s) => (Ends(u, i, j) <=> Ends(s, i, j))
         /\ \A i \in 1..Len(x) : \A j \in Int : Ends(u, Len(s) + i, Len(s) + j) <=> Ends(x, i, j)
<1> DEFINE L == Len(s)
           M == Len(x)
<1>1. /\ u \in Seq(Byte) /\ L \in Nat /\ M \in Nat /\ Len(u) = L + M
      /\ \A k \in 1..L : u[k] = s[k]
      /\ \A k \in 1..M : u[L + k] = x[k]
  BY Halves
<1> HIDE DEF L, M
<1>2. ASSUME NEW i, NEW j \in Int, j <= L PROVE Ends(u, i, j) <=> Ends(s, i, j)
  <2>1. Ends(u, i, j) => i \in 1..L - 1 /\ j \in i + 1..L
    <3> SUFFICES ASSUME Ends(u, i, j) PROVE i \in 1..L - 1 /\ j \in i + 1..L OBVIOUS
    <3>1. i \in 1..Len(u) /\ j \in i + 1..Len(u) BY <1>1, EndsWithin
    <3> QED BY <1>1, <1>2, <3>1
  <2>2. Ends(s, i, j) => i \in 1..L - 1 /\ j \in i + 1..L
    <3> SUFFICES ASSUME Ends(s, i, j) PROVE i \in 1..L - 1 /\ j \in i + 1..L OBVIOUS
    <3>1. i \in 1..Len(s) /\ j \in i + 1..Len(s) BY EndsWithin
    <3> QED BY <1>1, <1>2, <3>1 DEF L
  <2>3. ASSUME i \in 1..L - 1, j \in i + 1..L PROVE Ends(u, i, j) <=> Ends(s, i, j)
    <3>1. \A k \in i..j : u[k] = s[k] BY <1>1, <2>3
    <3>12. i \in Int /\ i \in i..j /\ i + 1 \in i..j /\ j \in i..j BY <2>3
    <3>2. u[i] = s[i] /\ u[i + 1] = s[i + 1] /\ u[j] = s[j] BY <3>1, <3>12
    <3>13. \A k \in i + 2..j - 1 : u[k] = s[k] BY <1>1, <2>3, <3>1
    <3>14. \A k \in i + 2..j - 2 : u[k] = s[k] BY <1>1, <2>3, <3>1
    <3>3. ParamsTo(u, i, j - 1) <=> ParamsTo(s, i, j - 1) BY <3>13 DEF ParamsTo
    <3>15. j - 1 >= i + 2 => j - 1 \in i..j BY <2>3, <3>12
    <3>4. j - 1 >= i + 2 => u[j - 1] = s[j - 1] BY <3>1, <3>15
    <3>5. Quiet(u, i + 2, j - 1) <=> Quiet(s, i + 2, j - 1) BY <3>13 DEF Quiet
    <3>6. Quiet(u, i + 2, j - 2) <=> Quiet(s, i + 2, j - 2) BY <3>14 DEF Quiet
    <3>7. i \in 1..Len(u) - 1 BY <1>1, <2>3
    <3>8. i \in 1..Len(s) - 1 BY <2>3 DEF L
    <3>9. j \in i + 2..Len(u) <=> j \in i + 2..L BY <1>1, <2>3
    <3>10. j > i + 2 => j - 1 >= i + 2 BY <2>3
    <3>11. EndsAt(u, i, j) <=> EndsAt(s, i, j)
      BY <3>2, <3>4, <3>5, <3>6, <3>9, <3>10 DEF EndsAt, L
    <3> QED BY <3>2, <3>3, <3>7, <3>8, <3>9, <3>11 DEF Ends, L
  <2> QED BY <2>1, <2>2, <2>3
<1>3. ASSUME NEW i \in 1..M, NEW j \in Int PROVE Ends(u, L + i, L + j) <=> Ends(x, i, j)
  <2>1. Ends(u, L + i, L + j) => i \in 1..M - 1 /\ j \in i + 1..M
    <3> SUFFICES ASSUME Ends(u, L + i, L + j) PROVE i \in 1..M - 1 /\ j \in i + 1..M OBVIOUS
    <3>1. L + i \in 1..Len(u) /\ L + j \in L + i + 1..Len(u) BY <1>1, EndsWithin
    <3> QED BY <1>1, <1>3, <3>1
  <2>2. Ends(x, i, j) => i \in 1..M - 1 /\ j \in i + 1..M
    <3> SUFFICES ASSUME Ends(x, i, j) PROVE i \in 1..M - 1 /\ j \in i + 1..M OBVIOUS
    <3>1. i \in 1..Len(x) /\ j \in i + 1..Len(x) BY EndsWithin
    <3> QED BY <1>1, <1>3, <3>1 DEF M
  <2>3. ASSUME i \in 1..M - 1, j \in i + 1..M PROVE Ends(u, L + i, L + j) <=> Ends(x, i, j)
    <3> DEFINE a == L + i
               b == L + j
    <3>0. a \in Int /\ b \in Int /\ a + 2 = L + (i + 2) /\ a + 1 = L + (i + 1)
          /\ b - 1 = L + (j - 1) /\ b - 2 = L + (j - 2)
      BY <1>1, <2>3
    <3>1. \A k \in i..j : u[L + k] = x[k] BY <1>1, <2>3
    <3>2. u[a] = x[i] /\ u[a + 1] = x[i + 1] /\ u[b] = x[j]
      <4>1. i \in i..j /\ i + 1 \in i..j /\ j \in i..j BY <2>3
      <4>2. u[L + i] = x[i] /\ u[L + (i + 1)] = x[i + 1] /\ u[L + j] = x[j] BY <3>1, <4>1
      <4>3. a = L + i /\ b = L + j OBVIOUS
      <4> HIDE DEF a, b
      <4> QED BY <3>0, <4>2, <4>3
    <3>3. \A k \in a..b : k - L \in i..j /\ u[k] = x[k - L] /\ L + (k - L) = k
      <4> TAKE k \in a..b
      <4>1. k - L \in i..j /\ L + (k - L) = k BY <1>1, <2>3
      <4> QED BY <3>1, <4>1
    <3> HIDE DEF a, b
    <3>4. \A n \in Int : n <= j => (ParamsTo(u, a, L + n) <=> ParamsTo(x, i, n))
      <4> TAKE n \in Int
      <4> HAVE n <= j
      <4>1. \A k \in i + 2..n : L + k \in a + 2..L + n /\ k \in i..j BY <1>1, <2>3, <3>0
      <4>2. \A k \in a + 2..L + n : k - L \in i + 2..n /\ k \in a..b
        BY <1>1, <2>3, <3>0 DEF a, b
      <4> QED BY <3>1, <3>3, <4>1, <4>2 DEF ParamsTo
    <3>5. ParamsTo(u, a, b - 1) <=> ParamsTo(x, i, j - 1)
      <4>1. j - 1 \in Int /\ j - 1 <= j BY <2>3
      <4> QED BY <3>0, <3>4, <4>1
    <3>6. \A n \in Int : n <= j => (Quiet(u, a + 2, L + n) <=> Quiet(x, i + 2, n))
      <4> TAKE n \in Int
      <4> HAVE n <= j
      <4>1. \A k \in i + 2..n : L + k \in a + 2..L + n /\ k \in i..j BY <1>1, <2>3, <3>0
      <4>2. \A k \in a + 2..L + n : k - L \in i + 2..n /\ k \in a..b
        BY <1>1, <2>3, <3>0 DEF a, b
      <4> QED BY <3>1, <3>3, <4>1, <4>2 DEF Quiet
    <3>7. Quiet(u, a + 2, b - 1) <=> Quiet(x, i + 2, j - 1)
      <4>1. j - 1 \in Int /\ j - 1 <= j BY <2>3
      <4> QED BY <3>0, <3>6, <4>1
    <3>8. Quiet(u, a + 2, b - 2) <=> Quiet(x, i + 2, j - 2)
      <4>1. j - 2 \in Int /\ j - 2 <= j BY <2>3
      <4> QED BY <3>0, <3>6, <4>1
    <3>9. j > i + 2 => u[b - 1] = x[j - 1]
      <4>1. j > i + 2 => j - 1 \in i..j BY <1>1, <2>3
      <4>2. j > i + 2 => u[L + (j - 1)] = x[j - 1] BY <3>1, <4>1
      <4> QED BY <3>0, <4>2
    <3>10. /\ a \in 1..Len(u) - 1 /\ i \in 1..Len(x) - 1
           /\ b = a + 1 <=> j = i + 1
           /\ b \in a + 2..Len(u) <=> j \in i + 2..Len(x)
           /\ b > a + 2 <=> j > i + 2
      BY <1>1, <2>3 DEF M, a, b
    <3>11. EndsAt(u, a, b) <=> EndsAt(x, i, j)
      BY <3>2, <3>7, <3>8, <3>9, <3>10 DEF EndsAt
    <3>12. Ends(u, a, b) <=> Ends(x, i, j) BY <3>2, <3>5, <3>10, <3>11 DEF Ends
    <3> QED BY <3>12 DEF a, b
  <2> QED BY <2>1, <2>2, <2>3
<1> QED BY <1>2, <1>3 DEF L, M

LEMMA CompleteIs ==
  ASSUME NEW s \in Seq(Byte), NEW kind
  PROVE  \A i : i \in Complete(s, kind) <=>
           i \in 1..Len(s) /\ s[i + 1] = kind /\ \E j \in 1..Len(s) : Ends(s, i, j)
<1>1. ASSUME NEW i \in Complete(s, kind)
      PROVE  i \in 1..Len(s) /\ s[i + 1] = kind /\ \E j \in 1..Len(s) : Ends(s, i, j)
  <2>1. i \in Escs(s) /\ EndOf(s, i) # 0 /\ s[i + 1] = kind BY <1>1 DEF Complete
  <2>2. Ends(s, i, EndOf(s, i)) BY <2>1, EndOfIs
  <2>3. EndOf(s, i) \in 1..Len(s) /\ i \in 1..Len(s) BY <2>2, EndsWithin
  <2> QED BY <2>1, <2>2, <2>3
<1>2. ASSUME NEW i \in 1..Len(s), s[i + 1] = kind, NEW j \in 1..Len(s), Ends(s, i, j)
      PROVE  i \in Complete(s, kind)
  <2>1. i \in Escs(s) /\ EndOf(s, i) = j /\ Len(s) \in Nat BY <1>2, EndsWithin
  <2>2. j # 0 BY <2>1
  <2> QED BY <1>2, <2>1, <2>2 DEF Complete
<1> QED BY <1>1, <1>2

\* A complete sequence stays as it is, whatever follows.
Stays(s, u, i, j) ==
  /\ Ends(u, i, j) /\ EndOf(s, i) = j /\ EndOf(u, i) = j
  /\ u[i + 1] = s[i + 1] /\ u[j] = s[j]
  /\ Inside(u, i) = Inside(s, i)

LEMMA CompleteStays ==
  ASSUME NEW s \in Seq(Byte), NEW x \in Seq(Byte), NEW u, u = s \o x,
         NEW i, NEW j, Ends(s, i, j)
  PROVE  Stays(s, u, i, j)
<1>1. /\ u \in Seq(Byte) /\ Len(s) \in Nat /\ Len(x) \in Nat /\ Len(u) = Len(s) + Len(x)
      /\ \A k \in 1..Len(s) : u[k] = s[k]
  BY Halves
<1>2. /\ i \in 1..Len(s) /\ j \in i + 1..Len(s) /\ j \in 1..Len(s) /\ EndOf(s, i) = j
  BY EndsWithin
<1>3. Ends(u, i, j)
  <2>1. j \in Int /\ j <= Len(s) BY <1>1, <1>2
  <2> QED BY <2>1, EndsSplit
<1>4. EndOf(u, i) = j BY <1>1, <1>3, EndsWithin
<1>5. u[i + 1] = s[i + 1] /\ u[j] = s[j] /\ i + 2 \in 1..Len(s) + 1 BY <1>1, <1>2
<1> DEFINE n == IF s[j] = "\\" /\ s[i + 1] # "[" THEN j - 2 ELSE j - 1
<1>6. Inside(s, i) = SubSeq(s, i + 2, n) BY <1>2 DEF Inside
<1>7. Inside(u, i) = SubSeq(u, i + 2, n) BY <1>4, <1>5 DEF Inside
<1>8. n \in Int /\ n <= Len(s) - 1 BY <1>1, <1>2
<1> HIDE DEF n
<1>9. SubSeq(u, i + 2, n) = SubSeq(s, i + 2, n)
  <2>1. CASE n < i + 2
    <3>1. i + 2 \in Int BY <1>2
    <3> QED BY <1>8, <2>1, <3>1, SubSeqEmpty
  <2>2. CASE ~(n < i + 2)
    <3>1. i + 2 \in 1..Len(s) /\ n \in 1..Len(s) BY <1>1, <1>2, <1>8, <2>2
    <3> QED BY <3>1, SubSeqOfConcat1
  <2> QED BY <2>1, <2>2
<1> QED BY <1>2, <1>3, <1>4, <1>5, <1>6, <1>7, <1>9 DEF Stays

\* The parameters in a run are numbered from 1.
LEMMA SplitNumbered ==
  ASSUME NEW run \in Seq(Byte)
  PROVE  \E k \in Nat : DOMAIN SplitParams(run) = 1..k /\ Len(SplitParams(run)) = k
                        /\ SplitParams(run) \in Seq({SplitParams(run)[n] : n \in 1..k})
<1> DEFINE cuts == {0, Len(run) + 1} \cup {i \in DOMAIN run : run[i] = ";"}
           k == Cardinality(cuts) - 1
           ps == SplitParams(run)
<1>1. Len(run) \in Nat /\ DOMAIN run = 1..Len(run) BY LenProperties
<1>2. cuts \subseteq 0..Len(run) + 1
  <2>1. {i \in DOMAIN run : run[i] = ";"} \subseteq 1..Len(run) BY <1>1
  <2>2. 1..Len(run) \subseteq 0..Len(run) + 1 BY <1>1
  <2>3. 0 \in 0..Len(run) + 1 /\ Len(run) + 1 \in 0..Len(run) + 1 BY <1>1
  <2> QED BY <2>1, <2>2, <2>3
<1>3. IsFiniteSet(0..Len(run) + 1)
  <2>1. 0 \in Int /\ Len(run) + 1 \in Int BY <1>1
  <2> QED BY <2>1, FS_Interval
<1>4. IsFiniteSet(cuts) BY <1>2, <1>3, FS_Subset
<1>5. Cardinality(cuts) \in Nat /\ Cardinality(cuts) # 0
  <2>1. cuts # {} OBVIOUS
  <2> HIDE DEF cuts
  <2> QED BY <1>4, <2>1, FS_CardinalityType, FS_EmptySet
<1>6. k \in Nat
  <2> HIDE DEF cuts
  <2> QED BY <1>5
<1>7. DOMAIN ps = 1..k /\ ps = [n \in DOMAIN ps |-> ps[n]]
  <2> DEFINE next(i) == CHOOSE j \in cuts : j > i /\ \A m \in cuts : m > i => j <= m
             from(n) == CHOOSE c \in cuts : Cardinality({m \in cuts : m < c}) = n - 1
             part(n) == SubSeq(run, from(n) + 1, next(from(n)) - 1)
  <2>1. ps = [n \in 1..k |-> part(n)] BY DEF SplitParams
  <2> HIDE DEF ps, k, part
  <2> QED BY <2>1
<1> HIDE DEF ps, k
<1>8. ps \in [1..k -> {ps[n] : n \in 1..k}] BY <1>7
<1>9. ps \in Seq({ps[n] : n \in 1..k}) BY <1>6, <1>8, SeqDef
<1>10. Len(ps) = k
  <2>1. Len(ps) \in Nat /\ DOMAIN ps = 1..Len(ps) BY <1>9, LenProperties
  <2> QED BY <1>6, <1>7, <2>1
<1> QED BY <1>6, <1>7, <1>9, <1>10 DEF ps

\* The n-th of the parameters switches one of the modes in P.
SwitchesOne(ps, n, P) == n \in DOMAIN ps /\ Len(ps[n]) = 1 /\ ps[n][1] \in P

LEMMA SwitchIs ==
  ASSUME NEW s, NEW P
  PROVE  /\ \A w : w \in Switches(s, P) <=>
              \E i \in Complete(s, "[") : \E n : SwitchesOne(Private(s, i), n, P)
                                              /\ w = <<i, n, Private(s, i)[n][1]>>
  BY DEF Switches, SwitchesOne

\* Of the switches in S, w is the last.
LastIn(S, w) == w \in S /\ \A v \in S : v[1] < w[1] \/ (v[1] = w[1] /\ v[2] <= w[2])

\* The parameters that switch private modes are numbered from 1, if there are any.
LEMMA PrivateNumbered ==
  ASSUME NEW s \in Seq(Byte), NEW i \in Complete(s, "[")
  PROVE  /\ Inside(s, i) \in Seq(Byte)
         /\ \E k \in Nat : DOMAIN Private(s, i) = 1..k
<1>1. PICK j \in 1..Len(s) : Ends(s, i, j) /\ s[i + 1] = "[" BY CompleteIs
<1>2. Len(s) \in Nat /\ i \in 1..Len(s) /\ EndOf(s, i) = j BY <1>1, EndsWithin
<1>3. Inside(s, i) = SubSeq(s, i + 2, j - 1) BY <1>1, <1>2 DEF Inside
<1>4. Inside(s, i) \in Seq(Byte)
  <2>1. \A k \in i + 2..j - 1 : k \in 1..Len(s) BY <1>1, <1>2
  <2>2. \A k \in i + 2..j - 1 : s[k] \in Byte BY <2>1, ElementOfSeq
  <2>3. i + 2 \in Int /\ j - 1 \in Int BY <1>1, <1>2
  <2> QED BY <1>3, <2>2, <2>3, SubSeqProperties
<1>5. CASE Private(s, i) = <<>>
  <2>1. DOMAIN Private(s, i) = 1..0 BY <1>5
  <2> QED BY <1>4, <2>1
<1>6. CASE Private(s, i) # <<>>
  <2>1. Private(s, i) = SplitParams(Tail(Inside(s, i))) /\ Len(Inside(s, i)) \in 1..MaxParams
    BY <1>6 DEF Private
  <2>2. Inside(s, i) # <<>>
    <3>1. Len(<<>>) = 0 BY EmptySeq
    <3> QED BY <2>1, <3>1
  <2>3. Tail(Inside(s, i)) \in Seq(Byte) BY <1>4, <2>2, HeadTailProperties
  <2> QED BY <1>4, <2>1, <2>3, SplitNumbered
<1> QED BY <1>5, <1>6

\* If any there are, one is the last.
LEMMA LastOne ==
  ASSUME NEW s \in Seq(Byte), NEW P, Switches(s, P) # {}
  PROVE  \E w : /\ LastIn(Switches(s, P), w)
                /\ \A v : LastIn(Switches(s, P), v) => v = w
                /\ w[1] \in Complete(s, "[")
<1> DEFINE S == Switches(s, P)
           I == {i \in Complete(s, "[") : \E n : SwitchesOne(Private(s, i), n, P)}
<1>0. Len(s) \in Nat /\ Complete(s, "[") \subseteq 1..Len(s) BY LenProperties, CompleteIs
<1>1. \A w : w \in S <=> \E i \in Complete(s, "[") : \E n : SwitchesOne(Private(s, i), n, P)
                                              /\ w = <<i, n, Private(s, i)[n][1]>>
  BY SwitchIs
<1> HIDE DEF S
<1>2. I \in SUBSET (1..Len(s)) /\ I # {} BY <1>0, <1>1 DEF S
<1>3. PICK i \in I : \A y \in I : y <= i BY <1>0, <1>2, LastOf
<1> DEFINE ps == Private(s, i)
           N == {n \in DOMAIN ps : SwitchesOne(ps, n, P)}
<1>4. PICK k \in Nat : DOMAIN ps = 1..k BY PrivateNumbered
<1>5. N \in SUBSET (1..k) /\ N # {} BY <1>3, <1>4 DEF SwitchesOne
<1>6. PICK n \in N : \A m \in N : m <= n BY <1>4, <1>5, LastOf
<1> DEFINE w == <<i, n, ps[n][1]>>
<1>7. w \in S BY <1>1, <1>3, <1>6
<1>8. ASSUME NEW v \in S PROVE v[1] < w[1] \/ (v[1] = w[1] /\ v[2] <= w[2])
  <2>1a. PICK y \in Complete(s, "[") : \E m : SwitchesOne(Private(s, y), m, P)
                                      /\ v = <<y, m, Private(s, y)[m][1]>>
    BY <1>1, <1>8
  <2>1. PICK m : SwitchesOne(Private(s, y), m, P)
                                      /\ v = <<y, m, Private(s, y)[m][1]>> BY <2>1a
  <2>2. y \in I /\ y <= i /\ y \in 1..Len(s) /\ i \in 1..Len(s) BY <1>0, <1>3, <2>1
  <2>3. y = i => m \in N /\ m <= n BY <1>6, <2>1 DEF SwitchesOne
  <2>4. y < i \/ y = i BY <1>0, <2>2
  <2> QED BY <2>1, <2>3, <2>4
<1>9. LastIn(S, w) BY <1>7, <1>8 DEF LastIn
<1>10. ASSUME NEW v, LastIn(S, v) PROVE v = w
  <2>1a. PICK y \in Complete(s, "[") : \E m : SwitchesOne(Private(s, y), m, P)
                                      /\ v = <<y, m, Private(s, y)[m][1]>>
    BY <1>1, <1>10 DEF LastIn
  <2>1. PICK m : SwitchesOne(Private(s, y), m, P)
                                      /\ v = <<y, m, Private(s, y)[m][1]>> BY <2>1a
  <2>2. /\ y < i \/ (y = i /\ m <= n)
        /\ i < y \/ (i = y /\ n <= m)
    BY <1>7, <1>8, <1>10, <2>1 DEF LastIn
  <2>3. y \in 1..Len(s) /\ i \in 1..Len(s) BY <1>0, <1>3
  <2>4. y = i /\ m <= n /\ n <= m BY <1>0, <2>2, <2>3
  <2>5. m \in 1..k /\ n \in 1..k BY <1>4, <1>5, <2>1, <2>4 DEF SwitchesOne
  <2>6. m = n BY <1>4, <2>4, <2>5
  <2> QED BY <2>1, <2>4, <2>6
<1>11. w[1] \in Complete(s, "[") BY <1>3
<1> QED BY <1>9, <1>10, <1>11 DEF S

\* What the last switch of each kind makes of a terminal.
LEMMA AltIs ==
  ASSUME NEW s
  PROVE  /\ Switches(s, AltSpelling) = {} => TerminalModes(s).alt = ""
         /\ \A w : LastIn(Switches(s, AltSpelling), w)
                   /\ (\A v : LastIn(Switches(s, AltSpelling), v) => v = w)
                   => TerminalModes(s).alt = IF s[EndOf(s, w[1])] = "h" THEN w[3] ELSE ""
<1> DEFINE S == Switches(s, AltSpelling)
           best == CHOOSE x \in S : \A v \in S : v[1] < x[1] \/ (v[1] = x[1] /\ v[2] <= x[2])
           on(x) == IF s[EndOf(s, x[1])] = "h" THEN x[3] ELSE ""
<1>1. TerminalModes(s).alt = IF S = {} THEN "" ELSE on(best) BY DEF TerminalModes, LastSwitch
<1>2. \A w : LastIn(S, w) => S # {} BY DEF LastIn
<1>3. \A w : LastIn(S, w) /\ (\A v : LastIn(S, v) => v = w) => best = w BY DEF LastIn
<1> HIDE DEF S, best, on
<1>4. \A w : LastIn(S, w) /\ (\A v : LastIn(S, v) => v = w) => TerminalModes(s).alt = on(w)
  BY <1>1, <1>2, <1>3
<1>5. S = {} => TerminalModes(s).alt = "" BY <1>1
<1> QED BY <1>4, <1>5 DEF S, on

LEMMA WrapIs ==
  ASSUME NEW s
  PROVE  /\ Switches(s, {"7"}) = {} => TerminalModes(s).wrapOff = FALSE
         /\ \A w : LastIn(Switches(s, {"7"}), w)
                   /\ (\A v : LastIn(Switches(s, {"7"}), v) => v = w)
                   => TerminalModes(s).wrapOff = (s[EndOf(s, w[1])] # "h")
<1> DEFINE S == Switches(s, {"7"})
           best == CHOOSE x \in S : \A v \in S : v[1] < x[1] \/ (v[1] = x[1] /\ v[2] <= x[2])
           on(x) == IF s[EndOf(s, x[1])] = "h" THEN TRUE ELSE FALSE
<1>1. TerminalModes(s).wrapOff = (S # {} /\ ~(IF S = {} THEN FALSE ELSE on(best)))
  BY DEF TerminalModes, LastSwitch
<1>2. \A w : LastIn(S, w) => S # {} BY DEF LastIn
<1>3. \A w : LastIn(S, w) /\ (\A v : LastIn(S, v) => v = w) => best = w BY DEF LastIn
<1> HIDE DEF S, best
<1>4. \A w : LastIn(S, w) /\ (\A v : LastIn(S, v) => v = w)
              => TerminalModes(s).wrapOff = (s[EndOf(s, w[1])] # "h")
  BY <1>1, <1>2, <1>3
<1>5. S = {} => TerminalModes(s).wrapOff = FALSE BY <1>1
<1> QED BY <1>4, <1>5 DEF S

\* One byte more completes at most one CSI sequence, the last one introduced.
LEMMA OneCsi ==
  ASSUME NEW s \in Seq(Byte), NEW b \in Byte, NEW u, u = Append(s, b),
         NEW e, Ends(u, e, Len(u)), u[e + 1] = "["
  PROVE  \A i : Ends(u, i, Len(u)) /\ u[i + 1] = "[" => i = e
<1>1. u \in Seq(Byte) BY OneMore
<1>2. Len(u) \in Nat /\ e \in 1..Len(u) /\ e < Len(u) /\ u[e] = "ESC" BY <1>1, EndsWithin
<1>3. ASSUME NEW i, NEW j, Ends(u, i, Len(u)), u[i + 1] = "[", u[j] = "ESC", j \in 1..Len(u)
      PROVE  ~(i < j)
  <2>1. i \in 1..Len(u) BY <1>1, <1>3, EndsWithin
  <2>2. u[Len(u)] \in FinalByte /\ \A k \in i + 2..Len(u) - 1 : u[k] \in ParamByte
    BY <1>3 DEF Ends, ParamsTo
  <2>3. j # Len(u) /\ j # i + 1 BY <1>3, <2>2, Bytes
  <2>4. j \notin i + 2..Len(u) - 1 BY <1>3, <2>2, Bytes
  <2> QED BY <1>2, <1>3, <2>1, <2>3, <2>4
<1> TAKE i
<1> HAVE Ends(u, i, Len(u)) /\ u[i + 1] = "["
<1>4. i \in 1..Len(u) /\ u[i] = "ESC" BY <1>1, EndsWithin
<1>5. ~(i < e) /\ ~(e < i) BY <1>2, <1>3, <1>4
<1> QED BY <1>2, <1>4, <1>5

\* What one byte more changes of the sequences that are complete.
LEMMA CompleteKept ==
  ASSUME NEW s \in Seq(Byte), NEW b \in Byte, NEW u, u = Append(s, b), NEW i \in Complete(s, "[")
  PROVE  /\ i \in Complete(u, "[") /\ Private(u, i) = Private(s, i) /\ EndOf(u, i) = EndOf(s, i)
         /\ u[EndOf(s, i)] = s[EndOf(s, i)]
<1>0. u \in Seq(Byte) /\ Len(s) \in Nat /\ Len(u) = Len(s) + 1 BY OneMore
<1>5. PICK x \in Seq(Byte) : u = s \o x
  <2>1. <<b>> \in Seq(Byte) /\ u = s \o <<b>> BY AppendIsConcat
  <2> QED BY <2>1
<1>1. PICK j \in 1..Len(s) : Ends(s, i, j) /\ s[i + 1] = "[" /\ i \in 1..Len(s) BY CompleteIs
<1>6. Stays(s, u, i, j) BY <1>1, <1>5, CompleteStays
<1>2. /\ Ends(u, i, j) /\ EndOf(s, i) = j /\ EndOf(u, i) = j
      /\ u[i + 1] = s[i + 1] /\ u[j] = s[j] /\ Inside(u, i) = Inside(s, i)
  BY <1>6 DEF Stays
<1>3. j \in 1..Len(u) /\ i \in 1..Len(u) BY <1>0, <1>1
<1>4. i \in Complete(u, "[") BY <1>0, <1>1, <1>2, <1>3, CompleteIs
<1> QED BY <1>2, <1>4 DEF Private

LEMMA CompleteSame ==
  ASSUME NEW s \in Seq(Byte), NEW b \in Byte, NEW u, u = Append(s, b),
         NEW i \in Complete(u, "["), ~Ends(u, i, Len(u))
  PROVE  i \in Complete(s, "[")
<1>0. u \in Seq(Byte) /\ Len(s) \in Nat /\ Len(u) = Len(s) + 1 /\ u = s \o <<b>> /\ <<b>> \in Seq(Byte)
      /\ \A k \in 1..Len(s) : u[k] = s[k]
  BY OneMore, AppendIsConcat
<1>1. PICK j \in 1..Len(u) : Ends(u, i, j) /\ u[i + 1] = "[" BY <1>0, CompleteIs
<1>2. j # Len(u) BY <1>1
<1>3. i \in 1..Len(u) /\ i < j BY <1>0, <1>1, EndsWithin
<1>4. j \in Int /\ j <= Len(s) /\ j \in 1..Len(s) /\ i \in 1..Len(s) /\ i + 1 \in 1..Len(s)
  BY <1>0, <1>2, <1>3
<1>5. Ends(s, i, j) BY <1>0, <1>1, <1>4, EndsSplit
<1>6. s[i + 1] = "[" BY <1>0, <1>1, <1>4
<1> QED BY <1>4, <1>5, <1>6, CompleteIs

LEMMA CompleteGrows ==
  ASSUME NEW s \in Seq(Byte), NEW b \in Byte, NEW u, u = Append(s, b),
         NEW e, Ends(u, e, Len(u)), u[e + 1] = "["
  PROVE  /\ e \in Complete(u, "[") /\ EndOf(u, e) = Len(u)
         /\ \A i \in Complete(u, "[") : i # e => i \in Complete(s, "[")
         /\ \A i \in Complete(s, "[") : i < e
<1>0. u \in Seq(Byte) /\ Len(s) \in Nat /\ Len(u) = Len(s) + 1
      /\ \A k \in 1..Len(s) : u[k] = s[k]
  BY OneMore
<1>1. e \in 1..Len(u) /\ e < Len(u) /\ Len(u) \in 1..Len(u) /\ EndOf(u, e) = Len(u)
      /\ u[e] = "ESC"
  BY <1>0, EndsWithin
<1>2. e \in Complete(u, "[") BY <1>0, <1>1, CompleteIs
<1>3. ASSUME NEW i \in Complete(u, "[") PROVE u[i + 1] = "["
  <2>1. u \in Seq(Byte) BY <1>0
  <2>2. \A k : k \in Complete(u, "[") => u[k + 1] = "["
    <3>1. \A k : k \in Complete(u, "[") <=>
            k \in 1..Len(u) /\ u[k + 1] = "[" /\ \E j \in 1..Len(u) : Ends(u, k, j)
      BY <2>1, CompleteIs
    <3> QED BY <3>1
  <2> QED BY <2>2
<1>4. ASSUME NEW i \in Complete(u, "["), i # e PROVE i \in Complete(s, "[")
  <2>1. ~Ends(u, i, Len(u)) BY <1>3, <1>4, OneCsi
  <2> QED BY <1>4, <2>1, CompleteSame
<1>5. ASSUME NEW i \in Complete(s, "[") PROVE i < e
  <2>1. PICK j \in 1..Len(s) : Ends(s, i, j) /\ s[i + 1] = "[" BY CompleteIs
  <2>2. i \in 1..Len(s) /\ s[i] = "ESC" /\ i < j BY <2>1, EndsWithin
  <2>3. i \in 1..Len(u) /\ i # Len(u) /\ u[i] = "ESC" BY <1>0, <2>2
  <2>4. u[Len(u)] \in FinalByte /\ \A k \in e + 2..Len(u) - 1 : u[k] \in ParamByte
    BY DEF Ends, ParamsTo
  <2>5. i # e + 1 /\ i \notin e + 2..Len(u) - 1 BY <2>3, <2>4, Bytes
  <2>6. i # e
    <3> SUFFICES ASSUME i = e PROVE FALSE OBVIOUS
    <3>1. EndOf(s, i) = j BY <2>1, EndsWithin
    <3>2. EndOf(u, i) = EndOf(s, i) BY CompleteKept
    <3> QED BY <1>0, <1>1, <2>1, <3>1, <3>2
  <2> QED BY <1>0, <1>1, <2>3, <2>5, <2>6
<1> QED BY <1>1, <1>2, <1>4, <1>5

\* The keypad's mode is that of the last sequence that sets it.
Keys(s) == {i \in Escs(s) : i < Len(s) /\ s[i + 1] \in {"=", ">"}}

LEMMA KeypadIs ==
  ASSUME NEW s
  PROVE  TerminalModes(s).keypad = \E i \in Keys(s) : s[i + 1] = "=" /\ \A j \in Keys(s) : j <= i
  BY DEF TerminalModes, Keys

\* Keypad, of the byte that follows an ESC.
LEMMA KeypadByte ==
  ASSUME NEW s \in Seq(Byte), NEW b \in Byte, NEW u, u = Append(s, b)
  PROVE  TerminalModes(u).keypad = IF s # <<>> /\ s[Len(s)] = "ESC" /\ b \in {"=", ">"}
                                   THEN b = "=" ELSE TerminalModes(s).keypad
<1> DEFINE L == Len(s)
<1>0. /\ u \in Seq(Byte) /\ L \in Nat /\ Len(u) = L + 1 /\ u[L + 1] = b
      /\ \A k \in 1..L : u[k] = s[k]
  BY OneMore
<1>1. s # <<>> <=> L # 0 BY <1>0, EmptySeq
<1>2. DOMAIN s = 1..L /\ DOMAIN u = 1..L + 1 BY <1>0, LenProperties
<1>3. \A i : i \in Keys(s) <=> i \in 1..L - 1 /\ s[i] = "ESC" /\ s[i + 1] \in {"=", ">"}
  BY <1>0, <1>2 DEF Keys, Escs
<1>4. \A i : i \in Keys(u) <=> i \in 1..L /\ u[i] = "ESC" /\ u[i + 1] \in {"=", ">"}
  BY <1>0, <1>2 DEF Keys, Escs
<1> HIDE DEF L
<1>5. \A i \in 1..L - 1 : u[i] = s[i] /\ u[i + 1] = s[i + 1] BY <1>0
<1>6. \A i \in 1..L : i # L => i \in 1..L - 1 BY <1>0
<1>7. CASE L # 0 /\ s[L] = "ESC" /\ b \in {"=", ">"}
  <2>1. L \in 1..L /\ u[L] = "ESC" /\ u[L + 1] = b BY <1>0, <1>7
  <2>2. L \in Keys(u) /\ \A j \in Keys(u) : j <= L BY <1>0, <1>4, <1>7, <2>1
  <2>3. ASSUME NEW i \in Keys(u), \A j \in Keys(u) : j <= i PROVE i = L
    <3>1. i \in 1..L /\ L <= i BY <1>4, <2>2, <2>3
    <3> QED BY <1>0, <3>1
  <2>4. (\E i \in Keys(u) : u[i + 1] = "=" /\ \A j \in Keys(u) : j <= i) <=> b = "="
    BY <2>1, <2>2, <2>3
  <2> QED BY <1>1, <1>7, <2>4, KeypadIs DEF L
<1>8. CASE ~(L # 0 /\ s[L] = "ESC" /\ b \in {"=", ">"})
  <2>1. L \notin Keys(u)
    <3> SUFFICES ASSUME L \in Keys(u) PROVE FALSE OBVIOUS
    <3>1. L \in 1..L /\ u[L] = "ESC" /\ u[L + 1] \in {"=", ">"} BY <1>4
    <3> QED BY <1>0, <1>8, <3>1
  <2>2. Keys(u) = Keys(s)
    <3>1. ASSUME NEW i \in Keys(u) PROVE i \in Keys(s)
      <4>1. i \in 1..L - 1 BY <1>4, <1>6, <2>1
      <4>2. u[i] = "ESC" /\ u[i + 1] \in {"=", ">"} BY <1>4
      <4>3. s[i] = "ESC" /\ s[i + 1] \in {"=", ">"} BY <1>5, <4>1, <4>2
      <4> QED BY <1>3, <4>1, <4>3
    <3>2. \A i \in 1..L - 1 : i \in 1..L BY <1>0
    <3>3. \A i : i \in Keys(s) => i \in Keys(u) BY <1>3, <1>4, <1>5, <3>2
    <3> QED BY <3>1, <3>3
  <2>3. \A i \in Keys(s) : u[i + 1] = s[i + 1] BY <1>3, <1>5
  <2>4. (\E i \in Keys(u) : u[i + 1] = "=" /\ \A j \in Keys(u) : j <= i)
        <=> (\E i \in Keys(s) : s[i + 1] = "=" /\ \A j \in Keys(s) : j <= i)
    BY <2>2, <2>3
  <2>5. TerminalModes(u).keypad = TerminalModes(s).keypad BY <2>4, KeypadIs
  <2> QED BY <1>1, <1>8, <2>5 DEF L
<1> QED BY <1>7, <1>8

Modes == [alt: AltSpelling \cup {""}, keypad: BOOLEAN, wrapOff: BOOLEAN]

\* One parameter.
On(set, x) == IF set THEN x ELSE ""

LEMMA ApplyOne ==
  ASSUME NEW ms \in Modes, NEW p, NEW set \in BOOLEAN, NEW r, r = Apply(ms, p, set)
  PROVE  /\ r \in Modes /\ r.keypad = ms.keypad
         /\ Len(p) = 1 /\ p[1] \in AltSpelling => r.alt = On(set, p[1])
         /\ ~(Len(p) = 1 /\ p[1] \in AltSpelling) => r.alt = ms.alt
         /\ Len(p) = 1 /\ p[1] \in {"7"} => r.wrapOff \in BOOLEAN /\ r.wrapOff # set
         /\ ~(Len(p) = 1 /\ p[1] \in {"7"}) => r.wrapOff = ms.wrapOff
<1>1. "7" \notin AltSpelling BY DEF AltSpelling
<1>2. CASE Len(p) = 1 /\ p[1] \in AltSpelling
  <2> DEFINE a == On(set, p[1])
  <2>1. r = [ms EXCEPT !.alt = a] BY <1>2 DEF Apply, On
  <2>2. a \in AltSpelling \cup {""} BY <1>2 DEF On
  <2> HIDE DEF a
  <2>3. r \in Modes /\ r.alt = a /\ r.keypad = ms.keypad /\ r.wrapOff = ms.wrapOff
    BY <2>1, <2>2 DEF Modes
  <2> QED BY <1>1, <1>2, <2>3 DEF a
<1>3. CASE Len(p) = 1 /\ p[1] \notin AltSpelling /\ p[1] = "7"
  <2>1. r = [ms EXCEPT !.wrapOff = ~set] BY <1>3 DEF Apply
  <2>2. r \in Modes /\ r.alt = ms.alt /\ r.keypad = ms.keypad /\ r.wrapOff = ~set
    BY <2>1 DEF Modes
  <2> QED BY <1>3, <2>2
<1>4. CASE ~(Len(p) = 1 /\ (p[1] \in AltSpelling \/ p[1] = "7"))
  <2>1. r = ms BY <1>4 DEF Apply
  <2> QED BY <1>4, <2>1
<1> QED BY <1>2, <1>3, <1>4

\* The parameters of one sequence are applied in order.
InOrder(r, ms, ps, set) ==
  \E k \in Nat : \E at :
    /\ DOMAIN ps = 1..k /\ r = at[k] /\ at[0] = ms
    /\ \A i \in 1..k : at[i] = Apply(at[i - 1], ps[i], set)

LEMMA ApplyChain ==
  ASSUME NEW ms, NEW run \in Seq(Byte), NEW set
  PROVE  InOrder(ApplyAll(ms, run, set), ms, SplitParams(run), set)
<1> DEFINE ps == SplitParams(run)
           E(g, m) == g = [i \in 0..m |-> IF i = 0 THEN ms ELSE Apply(g[i - 1], ps[i], set)]
           S == {m \in Nat : \E g : E(g, m)}
<1>0. PICK k \in Nat : DOMAIN ps = 1..k /\ Len(ps) = k BY SplitNumbered
<1> HIDE DEF ps
<1>1. 0 \in S
  <2> DEFINE g == [i \in 0..0 |-> ms]
  <2>1. g = [i \in 0..0 |-> IF i = 0 THEN ms ELSE Apply(g[i - 1], ps[i], set)] OBVIOUS
  <2>2. E(g, 0) BY <2>1
  <2> QED BY <2>2
<1>2. ASSUME NEW m \in Nat, m \in S PROVE m + 1 \in S
  <2>1. PICK g : E(g, m) BY <1>2
  <2> DEFINE h == [i \in 0..m + 1 |-> IF i = 0 THEN ms ELSE Apply(g[i - 1], ps[i], set)]
  <2>2. \A i \in 0..m : h[i] = g[i] BY <2>1
  <2>3. \A i \in 0..m + 1 : i # 0 => h[i - 1] = g[i - 1]
    <3> TAKE i \in 0..m + 1
    <3> HAVE i # 0
    <3>1. i - 1 \in 0..m OBVIOUS
    <3> QED BY <2>2, <3>1
  <2>4. h = [i \in 0..m + 1 |-> IF i = 0 THEN ms ELSE Apply(h[i - 1], ps[i], set)] BY <2>3
  <2>5. E(h, m + 1) BY <2>4
  <2> HIDE DEF E, h
  <2> QED BY <2>5
<1>3. k \in S BY <1>1, <1>2, SetInduction
<1>4. \E g : E(g, k) BY <1>3
<1> DEFINE at == CHOOSE g : E(g, k)
<1>5. ApplyAll(ms, run, set) = at[k] BY <1>0 DEF ApplyAll, Walk, ps
<1>6. E(at, k) BY <1>4
<1>7. \A i \in 0..k : at[i] = IF i = 0 THEN ms ELSE Apply(at[i - 1], ps[i], set) BY <1>6
<1> HIDE DEF at
<1>8. InOrder(ApplyAll(ms, run, set), ms, ps, set) BY <1>0, <1>5, <1>7 DEF InOrder
<1> QED BY <1>8 DEF ps

\* Of the parameters in ps, the last that switches a mode decides.
Decided(r, ms, ps, set) ==
  /\ r \in Modes /\ r.keypad = ms.keypad
  /\ (\A n : ~SwitchesOne(ps, n, AltSpelling)) => r.alt = ms.alt
  /\ \A n : SwitchesOne(ps, n, AltSpelling) /\ (\A m : SwitchesOne(ps, m, AltSpelling) => m <= n)
            => r.alt = On(set, ps[n][1])
  /\ (\A n : ~SwitchesOne(ps, n, {"7"})) => r.wrapOff = ms.wrapOff
  /\ (\E n : SwitchesOne(ps, n, {"7"})) => r.wrapOff \in BOOLEAN /\ r.wrapOff # set

LEMMA ApplyAllIs ==
  ASSUME NEW ms \in Modes, NEW run \in Seq(Byte), NEW set \in BOOLEAN,
         NEW r, r = ApplyAll(ms, run, set), NEW ps, ps = SplitParams(run)
  PROVE  Decided(r, ms, ps, set)
<1>0. PICK k \in Nat : \E at :
        /\ DOMAIN ps = 1..k /\ r = at[k] /\ at[0] = ms
        /\ \A i \in 1..k : at[i] = Apply(at[i - 1], ps[i], set)
  <2>1. InOrder(r, ms, ps, set) BY ApplyChain
  <2> QED BY <2>1 DEF InOrder
<1>1. PICK at :
        /\ DOMAIN ps = 1..k /\ r = at[k] /\ at[0] = ms
        /\ \A i \in 1..k : at[i] = Apply(at[i - 1], ps[i], set)
  BY <1>0
<1> DEFINE A(n) == SwitchesOne(ps, n, AltSpelling)
           W(n) == SwitchesOne(ps, n, {"7"})
           P(i) == /\ at[i] \in Modes /\ at[i].keypad = ms.keypad
                   /\ (\A n \in 1..i : ~A(n)) => at[i].alt = ms.alt
                   /\ \A n \in 1..i : A(n) /\ (\A m \in 1..i : A(m) => m <= n)
                        => at[i].alt = On(set, ps[n][1])
                   /\ (\A n \in 1..i : ~W(n)) => at[i].wrapOff = ms.wrapOff
                   /\ (\E n \in 1..i : W(n)) => at[i].wrapOff \in BOOLEAN /\ at[i].wrapOff # set
           S == {i \in Nat : i <= k => P(i)}
<1>2. P(0) BY <1>1
<1>3. ASSUME NEW i \in Nat, i + 1 <= k, P(i) PROVE P(i + 1)
  <2> DEFINE a == at[i] c == at[i + 1] p == ps[i + 1]
  <2>0. i + 1 \in 1..k /\ (i + 1) - 1 = i
        /\ \A n \in 1..i + 1 : n = i + 1 \/ n \in 1..i
    <3>1. i + 1 <= k BY <1>3
    <3> HIDE DEF P
    <3> QED BY <3>1
  <2>1. c = Apply(a, p, set)
    <3>1. at[i + 1] = Apply(at[(i + 1) - 1], ps[i + 1], set) BY <1>1, <2>0, Zenon
    <3> QED BY <2>0, <3>1
  <2>2. a \in Modes BY <1>3
  <2>3. A(i + 1) <=> Len(p) = 1 /\ p[1] \in AltSpelling BY <1>1, <2>0 DEF SwitchesOne
  <2>4. W(i + 1) <=> Len(p) = 1 /\ p[1] \in {"7"} BY <1>1, <2>0 DEF SwitchesOne
  <2>5. /\ c \in Modes /\ c.keypad = a.keypad
        /\ A(i + 1) => c.alt = On(set, p[1])
        /\ ~A(i + 1) => c.alt = a.alt
        /\ W(i + 1) => c.wrapOff \in BOOLEAN /\ c.wrapOff # set
        /\ ~W(i + 1) => c.wrapOff = a.wrapOff
    <3> HIDE DEF a, c, p, A, W
    <3> QED BY <2>1, <2>2, <2>3, <2>4, ApplyOne
  <2>6. i + 1 \in 1..i + 1 /\ \A n \in 1..i : n \in 1..i + 1 /\ ~(i + 1 <= n) OBVIOUS
  <2>7. a.keypad = ms.keypad BY <1>3
  <2> HIDE DEF A, W
  <2>8. (\A n \in 1..i + 1 : ~A(n)) => c.alt = ms.alt BY <1>3, <2>5, <2>6
  <2>9. ASSUME NEW n \in 1..i + 1, A(n), \A m \in 1..i + 1 : A(m) => m <= n
        PROVE  c.alt = On(set, ps[n][1])
    <3>1. CASE n = i + 1 BY <2>5, <2>9, <3>1
    <3>2. CASE n # i + 1
      <4>1. n \in 1..i BY <2>0, <3>2
      <4>2. ~A(i + 1) BY <2>6, <2>9, <4>1
      <4>3. \A m \in 1..i : A(m) => m <= n BY <2>6, <2>9
      <4>4. a.alt = On(set, ps[n][1]) BY <1>3, <2>9, <4>1, <4>3
      <4> QED BY <2>5, <4>2, <4>4
    <3> QED BY <3>1, <3>2
  <2>10. (\A n \in 1..i + 1 : ~W(n)) => c.wrapOff = ms.wrapOff BY <1>3, <2>5, <2>6
  <2>11. (\E n \in 1..i + 1 : W(n)) => c.wrapOff \in BOOLEAN /\ c.wrapOff # set
    <3> SUFFICES ASSUME NEW n \in 1..i + 1, W(n) PROVE c.wrapOff \in BOOLEAN /\ c.wrapOff # set OBVIOUS
    <3>1. CASE W(i + 1) BY <2>5, <3>1
    <3>2. CASE ~W(i + 1)
      <4>1. n \in 1..i BY <2>0, <3>2
      <4>2. a.wrapOff \in BOOLEAN /\ a.wrapOff # set BY <1>3, <4>1
      <4> QED BY <2>5, <3>2, <4>2
    <3> QED BY <3>1, <3>2
  <2> QED BY <2>5, <2>7, <2>8, <2>9, <2>10, <2>11
<1> HIDE DEF P
<1>4. 0 \in S BY <1>2
<1>5. \A i \in Nat : i \in S => i + 1 \in S
  <2>1. \A i \in Nat : i + 1 <= k => i <= k OBVIOUS
  <2> QED BY <1>3, <2>1
<1>6. k \in S
  <2> HIDE DEF S
  <2> QED BY <1>4, <1>5, SetInduction
<1>7. P(k) BY <1>6
<1>8. \A n : (A(n) => n \in 1..k) /\ (W(n) => n \in 1..k) BY <1>1 DEF SwitchesOne
<1> HIDE DEF A, W
<1>9. /\ r \in Modes /\ r.keypad = ms.keypad
      /\ (\A n : ~A(n)) => r.alt = ms.alt
      /\ \A n : A(n) /\ (\A m : A(m) => m <= n) => r.alt = On(set, ps[n][1])
      /\ (\A n : ~W(n)) => r.wrapOff = ms.wrapOff
      /\ (\E n : W(n)) => r.wrapOff \in BOOLEAN /\ r.wrapOff # set
  BY <1>1, <1>7, <1>8 DEF P
<1> QED BY <1>9 DEF A, W, Decided

\* A byte that ends no CSI sequence, or none that switches a mode in P, switches none.
LEMMA NoSwitch ==
  ASSUME NEW s \in Seq(Byte), NEW b \in Byte, NEW u, u = Append(s, b), NEW P,
         \A e, n : Ends(u, e, Len(u)) /\ u[e + 1] = "[" => ~SwitchesOne(Private(u, e), n, P)
  PROVE  /\ Switches(u, P) = Switches(s, P)
         /\ P = AltSpelling => TerminalModes(u).alt = TerminalModes(s).alt
         /\ P = {"7"} => TerminalModes(u).wrapOff = TerminalModes(s).wrapOff
<1> DEFINE C == Complete(s, "[")
           D == Complete(u, "[")
<1>0. \A i \in C : /\ Private(u, i) = Private(s, i) /\ EndOf(u, i) = EndOf(s, i)
                   /\ u[EndOf(s, i)] = s[EndOf(s, i)] /\ i \in D
  BY CompleteKept
<1>1. ASSUME NEW i \in D, NEW n, SwitchesOne(Private(u, i), n, P) PROVE i \in C
  <2>1. u[i + 1] = "[" /\ u \in Seq(Byte)
    <3>1. u \in Seq(Byte) BY OneMore
    <3> QED BY <3>1, CompleteIs
  <2>2. ~Ends(u, i, Len(u)) BY <1>1, <2>1
  <2> QED BY <2>2, CompleteSame
<1> HIDE DEF C, D
<1>3. \A w : w \in Switches(s, P) <=>
        \E i \in C : \E n : SwitchesOne(Private(s, i), n, P) /\ w = <<i, n, Private(s, i)[n][1]>>
  BY SwitchIs DEF C
<1>4. \A w : w \in Switches(u, P) <=>
        \E i \in D : \E n : SwitchesOne(Private(u, i), n, P) /\ w = <<i, n, Private(u, i)[n][1]>>
  BY SwitchIs DEF D
<1>5. ASSUME NEW w \in Switches(u, P) PROVE w \in Switches(s, P)
  <2>1a. PICK i \in D : \E n : SwitchesOne(Private(u, i), n, P) /\ w = <<i, n, Private(u, i)[n][1]>>
    BY <1>4
  <2>1. PICK n : SwitchesOne(Private(u, i), n, P) /\ w = <<i, n, Private(u, i)[n][1]>> BY <2>1a
  <2>2. i \in C /\ Private(u, i) = Private(s, i) BY <1>0, <1>1, <2>1
  <2> QED BY <1>3, <2>1, <2>2
<1>6. ASSUME NEW w \in Switches(s, P) PROVE w \in Switches(u, P)
  <2>1a. PICK i \in C : \E n : SwitchesOne(Private(s, i), n, P) /\ w = <<i, n, Private(s, i)[n][1]>>
    BY <1>3
  <2>1. PICK n : SwitchesOne(Private(s, i), n, P) /\ w = <<i, n, Private(s, i)[n][1]>> BY <2>1a
  <2>2. i \in D /\ Private(u, i) = Private(s, i) BY <1>0
  <2> QED BY <1>4, <2>1, <2>2
<1>7. Switches(u, P) = Switches(s, P) BY <1>5, <1>6
<1>8. Switches(s, P) # {} =>
        \E w : /\ LastIn(Switches(s, P), w) /\ \A v : LastIn(Switches(s, P), v) => v = w
               /\ u[EndOf(u, w[1])] = s[EndOf(s, w[1])]
  <2> SUFFICES ASSUME Switches(s, P) # {}
               PROVE \E w : /\ LastIn(Switches(s, P), w)
                            /\ \A v : LastIn(Switches(s, P), v) => v = w
                            /\ u[EndOf(u, w[1])] = s[EndOf(s, w[1])]
    OBVIOUS
  <2>1. PICK w : /\ LastIn(Switches(s, P), w)
                 /\ \A v : LastIn(Switches(s, P), v) => v = w
                 /\ w[1] \in C
    BY LastOne DEF C
  <2> QED BY <1>0, <2>1
<1>9. P = AltSpelling => TerminalModes(u).alt = TerminalModes(s).alt
  <2> SUFFICES ASSUME P = AltSpelling PROVE TerminalModes(u).alt = TerminalModes(s).alt OBVIOUS
  <2>1. CASE Switches(s, P) = {} BY <1>7, <2>1, AltIs
  <2>2. CASE Switches(s, P) # {}
    <3>1. PICK w : /\ LastIn(Switches(s, P), w) /\ \A v : LastIn(Switches(s, P), v) => v = w
                   /\ u[EndOf(u, w[1])] = s[EndOf(s, w[1])]
      BY <1>8, <2>2
    <3>2. TerminalModes(s).alt = IF s[EndOf(s, w[1])] = "h" THEN w[3] ELSE "" BY <3>1, AltIs
    <3>3. LastIn(Switches(u, P), w) /\ \A v : LastIn(Switches(u, P), v) => v = w BY <1>7, <3>1
    <3>4. TerminalModes(u).alt = IF u[EndOf(u, w[1])] = "h" THEN w[3] ELSE "" BY <3>3, AltIs
    <3> QED BY <3>1, <3>2, <3>4
  <2> QED BY <2>1, <2>2
<1>10. P = {"7"} => TerminalModes(u).wrapOff = TerminalModes(s).wrapOff
  <2> SUFFICES ASSUME P = {"7"} PROVE TerminalModes(u).wrapOff = TerminalModes(s).wrapOff OBVIOUS
  <2>1. CASE Switches(s, P) = {} BY <1>7, <2>1, WrapIs
  <2>2. CASE Switches(s, P) # {}
    <3>1. PICK w : /\ LastIn(Switches(s, P), w) /\ \A v : LastIn(Switches(s, P), v) => v = w
                   /\ u[EndOf(u, w[1])] = s[EndOf(s, w[1])]
      BY <1>8, <2>2
    <3>2. TerminalModes(s).wrapOff = (s[EndOf(s, w[1])] # "h") BY <3>1, WrapIs
    <3>3. LastIn(Switches(u, P), w) /\ \A v : LastIn(Switches(u, P), v) => v = w BY <1>7, <3>1
    <3>4. TerminalModes(u).wrapOff = (u[EndOf(u, w[1])] # "h") BY <3>3, WrapIs
    <3> QED BY <3>1, <3>2, <3>4
  <2> QED BY <2>1, <2>2
<1> QED BY <1>7, <1>9, <1>10

SetBy(b) == b = "h"
Off(b) == b # "h"

\* One that ends a CSI sequence that does: the last of its parameters decides.
SwitchedBy(u, e, b, m, P) ==
  /\ SwitchesOne(Private(u, e), m, P)
  /\ \A k : SwitchesOne(Private(u, e), k, P) => k <= m
  /\ P = AltSpelling => TerminalModes(u).alt = On(SetBy(b), Private(u, e)[m][1])
  /\ P = {"7"} => TerminalModes(u).wrapOff = Off(b)

LEMMA NewSwitch ==
  ASSUME NEW s \in Seq(Byte), NEW b \in Byte, NEW u, u = Append(s, b), NEW P,
         NEW e, Ends(u, e, Len(u)), u[e + 1] = "[",
         NEW n, SwitchesOne(Private(u, e), n, P)
  PROVE  \E m : SwitchedBy(u, e, b, m, P)
<1> DEFINE C == Complete(s, "[")
           D == Complete(u, "[")
<1>0. u \in Seq(Byte) /\ Len(s) \in Nat /\ Len(u) = Len(s) + 1 /\ u[Len(u)] = b BY OneMore
<1>1. e \in D /\ EndOf(u, e) = Len(u) /\ (\A i \in D : i # e => i \in C) /\ \A i \in C : i < e
  BY CompleteGrows
<1>2. e \in 1..Len(u) /\ \A i \in D : i \in 1..Len(u) BY <1>0, <1>1, CompleteIs
<1>3. \A w : w \in Switches(u, P) <=>
        \E i \in D : \E k : SwitchesOne(Private(u, i), k, P) /\ w = <<i, k, Private(u, i)[k][1]>>
  BY SwitchIs
<1> DEFINE v(k) == <<e, k, Private(u, e)[k][1]>>
<1> HIDE DEF C, D
<1>4. \A k : SwitchesOne(Private(u, e), k, P) => v(k) \in Switches(u, P) BY <1>1, <1>3
<1>5. Switches(u, P) # {} BY <1>4
<1>6. PICK w : /\ LastIn(Switches(u, P), w)
               /\ \A x : LastIn(Switches(u, P), x) => x = w
  BY <1>0, <1>5, LastOne
<1>7a. PICK i \in D : \E m : SwitchesOne(Private(u, i), m, P) /\ w = <<i, m, Private(u, i)[m][1]>>
  BY <1>3, <1>6 DEF LastIn
<1>7. PICK m : SwitchesOne(Private(u, i), m, P) /\ w = <<i, m, Private(u, i)[m][1]>> BY <1>7a
<1>8. ASSUME NEW k, SwitchesOne(Private(u, e), k, P) PROVE e < i \/ (e = i /\ k <= m)
  <2>1. v(k) \in Switches(u, P) /\ v(k)[1] = e /\ v(k)[2] = k BY <1>4, <1>8
  <2>2. w[1] = i /\ w[2] = m BY <1>7
  <2>3. \A x \in Switches(u, P) : x[1] < w[1] \/ (x[1] = w[1] /\ x[2] <= w[2]) BY <1>6 DEF LastIn
  <2> HIDE DEF v
  <2>4. v(k)[1] < w[1] \/ (v(k)[1] = w[1] /\ v(k)[2] <= w[2]) BY <2>1, <2>3
  <2> QED BY <2>1, <2>2, <2>4
<1>9. i = e
  <2>1. ~(e < i)
    <3>1. i = e \/ i < e BY <1>1, <1>7
    <3>2. e \in Int /\ i \in Int BY <1>0, <1>2, <1>7
    <3> QED BY <3>1, <3>2
  <2> QED BY <1>8, <2>1
<1>10. \A k : SwitchesOne(Private(u, e), k, P) => k <= m
  <2>1. ~(e < e) BY <1>2
  <2> QED BY <1>8, <1>9, <2>1
<1>11. u[EndOf(u, w[1])] = b /\ w[3] = Private(u, e)[m][1] BY <1>0, <1>1, <1>7, <1>9
<1>12. P = AltSpelling => TerminalModes(u).alt = On(SetBy(b), Private(u, e)[m][1])
  <2> SUFFICES ASSUME P = AltSpelling
               PROVE  TerminalModes(u).alt = On(SetBy(b), Private(u, e)[m][1])
    OBVIOUS
  <2>1. TerminalModes(u).alt = IF u[EndOf(u, w[1])] = "h" THEN w[3] ELSE "" BY <1>6, AltIs
  <2> QED BY <1>11, <2>1 DEF On, SetBy
<1>13. P = {"7"} => TerminalModes(u).wrapOff = Off(b)
  <2> SUFFICES ASSUME P = {"7"} PROVE TerminalModes(u).wrapOff = Off(b) OBVIOUS
  <2>1. TerminalModes(u).wrapOff = (u[EndOf(u, w[1])] # "h") BY <1>6, WrapIs
  <2> QED BY <1>11, <2>1 DEF Off
<1> QED BY <1>7, <1>9, <1>10, <1>12, <1>13 DEF SwitchedBy

\* Completed, of the parameters that the reference reads.
LEMMA CompletedIs ==
  ASSUME NEW ms \in Modes, NEW run \in Seq(Byte), NEW b \in Byte,
         NEW r, r = Completed(ms, run, b),
         NEW ps, ps = IF b \in {"h", "l"} /\ Len(run) \in 1..MaxParams /\ Head(run) = "?"
                      THEN SplitParams(Tail(run)) ELSE <<>>
  PROVE  Decided(r, ms, ps, SetBy(b))
<1>1. Len(run) \in Nat /\ (run # <<>> <=> Len(run) # 0) BY LenProperties, EmptySeq
<1>2. MaxParams \in Nat BY ConstantsAssumption
<1>3. Len(run) \in 1..MaxParams <=> run # <<>> /\ ~TooLong(run) BY <1>1, <1>2 DEF TooLong
<1>4. CASE b \in {"h", "l"} /\ Len(run) \in 1..MaxParams /\ Head(run) = "?"
  <2>1. Tail(run) \in Seq(Byte) BY <1>1, <1>3, <1>4, HeadTailProperties
  <2>2. r = ApplyAll(ms, Tail(run), SetBy(b)) BY <1>3, <1>4 DEF Completed, SetBy
  <2>3. ps = SplitParams(Tail(run)) BY <1>4
  <2>4. SetBy(b) \in BOOLEAN BY DEF SetBy
  <2> QED BY <2>1, <2>2, <2>3, <2>4, ApplyAllIs
<1>5. CASE ~(b \in {"h", "l"} /\ Len(run) \in 1..MaxParams /\ Head(run) = "?")
  <2>1. r = ms BY <1>3, <1>5 DEF Completed
  <2>2. ps = <<>> BY <1>5
  <2>3. \A n, P : ~SwitchesOne(ps, n, P) BY <2>2 DEF SwitchesOne
  <2> QED BY <2>1, <2>3 DEF Decided
<1> QED BY <1>4, <1>5

\* What one byte more does to a terminal's modes.
LEMMA ModesByte ==
  ASSUME NEW s \in Seq(Byte), NEW b \in Byte, NEW u, u = Append(s, b), TerminalModes(s) \in Modes
  PROVE  /\ \A e : Ends(u, e, Len(u)) /\ u[e + 1] = "["
                   => TerminalModes(u) = Completed(TerminalModes(s), Inside(u, e), b)
         /\ (\A e : Ends(u, e, Len(u)) => u[e + 1] # "[")
            => TerminalModes(u) = IF s # <<>> /\ s[Len(s)] = "ESC" THEN Keypad(TerminalModes(s), b)
                                  ELSE TerminalModes(s)
<1> DEFINE ms == TerminalModes(s)
           ns == TerminalModes(u)
<1>0. u \in Seq(Byte) /\ Len(s) \in Nat /\ Len(u) = Len(s) + 1 /\ u[Len(u)] = b BY OneMore
<1>1. ns = [alt |-> ns.alt, keypad |-> ns.keypad, wrapOff |-> ns.wrapOff] BY DEF TerminalModes
<1>2. ms = [alt |-> ms.alt, keypad |-> ms.keypad, wrapOff |-> ms.wrapOff] /\ ms.keypad \in BOOLEAN
  BY DEF Modes
<1>3. ns.keypad = IF s # <<>> /\ s[Len(s)] = "ESC" /\ b \in {"=", ">"} THEN b = "=" ELSE ms.keypad
  BY KeypadByte
<1>4. ms \in Modes OBVIOUS
<1> HIDE DEF ms, ns
<1>5. ASSUME NEW e, Ends(u, e, Len(u)), u[e + 1] = "["
      PROVE  ns = Completed(ms, Inside(u, e), b)
  <2> DEFINE run == Inside(u, e)
             r == Completed(ms, run, b)
             ps == Private(u, e)
  <2>1. EndOf(u, e) = Len(u) /\ e \in Complete(u, "[")
    <3>1. EndOf(u, e) = Len(u) /\ e \in 1..Len(u) /\ Len(u) \in 1..Len(u) BY <1>0, <1>5, EndsWithin
    <3> QED BY <1>0, <1>5, <3>1, CompleteIs
  <2>2. run \in Seq(Byte) BY <1>0, <2>1, PrivateNumbered
  <2>3. ps = IF b \in {"h", "l"} /\ Len(run) \in 1..MaxParams /\ Head(run) = "?"
             THEN SplitParams(Tail(run)) ELSE <<>>
    BY <1>0, <2>1 DEF Private
  <2>4. b \in FinalByte BY <1>0, <1>5 DEF Ends
  <2> HIDE DEF run, r, ps
  <2>5. Decided(r, ms, ps, SetBy(b)) BY <1>4, <2>2, <2>3, CompletedIs DEF r
  <2>6. ns.keypad = r.keypad
    <3>1. b \notin {"=", ">"} BY <2>4 DEF FinalByte
    <3> QED BY <1>3, <2>5, <3>1 DEF Decided
  <2>7. \A P : (\A n : ~SwitchesOne(ps, n, P)) =>
          \A f, n : Ends(u, f, Len(u)) /\ u[f + 1] = "[" => ~SwitchesOne(Private(u, f), n, P)
    BY <1>5, OneCsi DEF ps
  <2>8. ns.alt = r.alt
    <3>1. CASE \A n : ~SwitchesOne(ps, n, AltSpelling)
      <4>1. ns.alt = ms.alt BY <2>7, <3>1, NoSwitch DEF ns, ms
      <4> QED BY <2>5, <3>1, <4>1 DEF Decided
    <3>2. CASE \E n : SwitchesOne(ps, n, AltSpelling)
      <4>0. PICK n : SwitchesOne(Private(u, e), n, AltSpelling) BY <3>2 DEF ps
      <4>1. PICK m : /\ SwitchesOne(ps, m, AltSpelling)
                     /\ \A k : SwitchesOne(ps, k, AltSpelling) => k <= m
                     /\ ns.alt = On(SetBy(b), ps[m][1])
        <5>1. PICK m : SwitchedBy(u, e, b, m, AltSpelling) BY <1>5, <4>0, NewSwitch
        <5> QED BY <5>1 DEF SwitchedBy, ns, ps
      <4> QED BY <2>5, <4>1 DEF Decided
    <3> QED BY <3>1, <3>2
  <2>9. ns.wrapOff = r.wrapOff
    <3>1. CASE \A n : ~SwitchesOne(ps, n, {"7"})
      <4>1. ns.wrapOff = ms.wrapOff BY <2>7, <3>1, NoSwitch DEF ns, ms
      <4> QED BY <2>5, <3>1, <4>1 DEF Decided
    <3>2. CASE \E n : SwitchesOne(ps, n, {"7"})
      <4>0. PICK n : SwitchesOne(Private(u, e), n, {"7"}) BY <3>2 DEF ps
      <4>1. PICK m : SwitchesOne(ps, m, {"7"}) /\ ns.wrapOff = Off(b)
        <5>1. PICK m : SwitchedBy(u, e, b, m, {"7"}) BY <1>5, <4>0, NewSwitch
        <5> QED BY <5>1 DEF SwitchedBy, ns, ps
      <4>2. r.wrapOff \in BOOLEAN /\ r.wrapOff # SetBy(b) BY <2>5, <4>1 DEF Decided
      <4> QED BY <4>1, <4>2 DEF Off, SetBy
    <3> QED BY <3>1, <3>2
  <2>10. r = [alt |-> r.alt, keypad |-> r.keypad, wrapOff |-> r.wrapOff] BY <2>5 DEF Modes, Decided
  <2>11. ns = r BY <1>1, <2>6, <2>8, <2>9, <2>10
  <2> QED BY <2>11 DEF r, run
<1>6. ASSUME \A e : Ends(u, e, Len(u)) => u[e + 1] # "["
      PROVE  ns = IF s # <<>> /\ s[Len(s)] = "ESC" THEN Keypad(ms, b) ELSE ms
  <2>1. \A P : \A f, n : Ends(u, f, Len(u)) /\ u[f + 1] = "[" => ~SwitchesOne(Private(u, f), n, P)
    BY <1>6
  <2>2. ns.alt = ms.alt /\ ns.wrapOff = ms.wrapOff BY <2>1, NoSwitch DEF ns, ms
  <2>3. CASE s # <<>> /\ s[Len(s)] = "ESC" /\ b \in {"=", ">"}
    <3>1. Keypad(ms, b) = [ms EXCEPT !.keypad = (b = "=")] BY <2>3 DEF Keypad
    <3>2. Keypad(ms, b) = [alt |-> ms.alt, keypad |-> b = "=", wrapOff |-> ms.wrapOff] BY <1>2, <3>1
    <3> QED BY <1>1, <1>3, <2>2, <2>3, <3>2
  <2>4. CASE ~(s # <<>> /\ s[Len(s)] = "ESC" /\ b \in {"=", ">"})
    <3>1. ns = ms BY <1>1, <1>2, <1>3, <2>2, <2>4
    <3>2. s # <<>> /\ s[Len(s)] = "ESC" => Keypad(ms, b) = ms BY <2>4 DEF Keypad
    <3> QED BY <3>1, <3>2
  <2> QED BY <2>3, <2>4
<1> QED BY <1>5, <1>6 DEF ns, ms

\* What holds of no bytes, and of one byte more when it holds of those before it,
\* holds of all outputs.
LEMMA PrefixInduction ==
  ASSUME NEW S, <<>> \in S,
         \A s \in Seq(Byte) : \A b \in Byte : s \in S => Append(s, b) \in S
  PROVE  \A s \in Seq(Byte) : s \in S
<1> DEFINE T == {n \in Nat : \A s \in Seq(Byte) : Len(s) = n => s \in S}
<1>1. 0 \in T
  <2>1. \A s \in Seq(Byte) : Len(s) = 0 => s = <<>> BY EmptySeq
  <2> QED BY <2>1
<1>2. ASSUME NEW n \in Nat, n \in T PROVE n + 1 \in T
  <2> SUFFICES ASSUME NEW s \in Seq(Byte), Len(s) = n + 1 PROVE s \in S OBVIOUS
  <2>1. s # <<>>
    <3>1. Len(<<>>) = 0 BY EmptySeq
    <3> QED BY <3>1
  <2>2. PICK p \in Seq(Byte), b \in Byte : s = Append(p, b) BY <2>1, SequenceEmptyOrAppend
  <2>3. Len(s) = Len(p) + 1 /\ Len(p) \in Nat BY <2>2, OneMore
  <2>4. Len(p) = n BY <2>3
  <2> QED BY <1>2, <2>2, <2>4
<1>3. Nat \subseteq T
  <2> HIDE DEF T
  <2> QED BY <1>1, <1>2, SetInduction
<1> TAKE s \in Seq(Byte)
<1>4. Len(s) \in Nat BY LenProperties
<1> QED BY <1>3, <1>4

-----------------------------------------------------------------------------
(* A terminal's own walk                                                   *)

\* A CSI sequence is introduced at e and has had nothing but parameters yet.
CsiOpen(p, e) ==
  /\ e \in 1..Len(p) - 1 /\ p[e] = "ESC" /\ p[e + 1] = "["
  /\ ParamsTo(p, e, Len(p))

EndsInEsc(p) == p # <<>> /\ p[Len(p)] = "ESC"

CsiGrows(p, b, u) ==
  /\ \A e : Ends(u, e, Len(u)) /\ u[e + 1] = "[" <=> CsiOpen(p, e) /\ b \in FinalByte
  /\ \A e : CsiOpen(u, e) <=> \/ CsiOpen(p, e) /\ b \in ParamByte
                              \/ e = Len(p) /\ EndsInEsc(p) /\ b = "["
  /\ \A e : CsiOpen(p, e) => ~EndsInEsc(p)
  /\ EndsInEsc(u) <=> b = "ESC"

\* One byte more ends, continues or introduces a CSI sequence.
LEMMA CsiByte ==
  ASSUME NEW p \in Seq(Byte), NEW b \in Byte, NEW u, u = Append(p, b)
  PROVE  CsiGrows(p, b, u)
<1> DEFINE L == Len(p)
<1>0. /\ u \in Seq(Byte) /\ L \in Nat /\ Len(u) = L + 1 /\ u[L + 1] = b
      /\ \A k \in 1..L : u[k] = p[k]
  BY OneMore
<1>1. EndsInEsc(u) <=> b = "ESC"
  <2>1. u # <<>> BY AppendProperties
  <2> QED BY <1>0, <2>1 DEF EndsInEsc
<1>2. p # <<>> <=> L # 0 BY EmptySeq
<1>3. EndsInEsc(p) <=> L # 0 /\ p[L] = "ESC" BY <1>2 DEF EndsInEsc
<1> HIDE DEF L
<1>4. \A e : CsiOpen(p, e) => ~EndsInEsc(p)
  <2> SUFFICES ASSUME NEW e, CsiOpen(p, e) PROVE p[L] # "ESC" BY <1>3
  <2>1. e \in 1..L - 1 /\ p[e + 1] = "[" /\ \A k \in e + 2..L : p[k] \in ParamByte
    BY DEF CsiOpen, ParamsTo, L
  <2>2. e + 1 = L \/ L \in e + 2..L BY <1>0, <2>1
  <2> QED BY <2>1, <2>2, Bytes
<1>5. ASSUME NEW e, Ends(u, e, Len(u)), u[e + 1] = "[" PROVE CsiOpen(p, e) /\ b \in FinalByte
  <2>1. /\ e \in 1..L /\ u[e] = "ESC" /\ L + 1 \in e + 2..L + 1 /\ b \in FinalByte
        /\ \A k \in e + 2..L : u[k] \in ParamByte
    BY <1>0, <1>5 DEF Ends, ParamsTo
  <2>2. e \in 1..L - 1 /\ e \in 1..L /\ e + 1 \in 1..L /\ \A k \in e + 2..L : k \in 1..L BY <1>0, <2>1
  <2>3. p[e] = "ESC" /\ p[e + 1] = "[" /\ \A k \in e + 2..L : p[k] \in ParamByte
    BY <1>0, <1>5, <2>1, <2>2
  <2> QED BY <2>1, <2>2, <2>3 DEF CsiOpen, ParamsTo, L
<1>6. ASSUME NEW e, CsiOpen(p, e)
      PROVE  /\ u[e] = "ESC" /\ u[e + 1] = "[" /\ e \in 1..Len(u) - 1 /\ L + 1 \in e + 2..Len(u)
             /\ \A k \in e + 2..L : u[k] \in ParamByte
  <2>1. /\ e \in 1..L - 1 /\ p[e] = "ESC" /\ p[e + 1] = "["
        /\ \A k \in e + 2..L : p[k] \in ParamByte
    BY <1>6 DEF CsiOpen, ParamsTo, L
  <2>2. e \in 1..L /\ e + 1 \in 1..L /\ \A k \in e + 2..L : k \in 1..L BY <1>0, <2>1
  <2> QED BY <1>0, <2>1, <2>2
<1>7. ASSUME NEW e, CsiOpen(p, e), b \in FinalByte PROVE Ends(u, e, Len(u)) /\ u[e + 1] = "["
  <2>1. /\ u[e] = "ESC" /\ u[e + 1] = "[" /\ e \in 1..Len(u) - 1 /\ L + 1 \in e + 2..Len(u)
        /\ \A k \in e + 2..L : u[k] \in ParamByte
    BY <1>6, <1>7
  <2>2. ParamsTo(u, e, Len(u) - 1)
    <3>1. Len(u) - 1 = L BY <1>0
    <3> QED BY <2>1, <3>1 DEF ParamsTo
  <2>3. Len(u) \in e + 2..Len(u) /\ u[Len(u)] \in FinalByte BY <1>0, <1>7, <2>1
  <2> QED BY <2>1, <2>2, <2>3 DEF Ends
<1>8. ASSUME NEW e, CsiOpen(p, e), b \in ParamByte PROVE CsiOpen(u, e)
  <2>1. /\ u[e] = "ESC" /\ u[e + 1] = "[" /\ e \in 1..Len(u) - 1
        /\ \A k \in e + 2..L : u[k] \in ParamByte
    BY <1>6, <1>8
  <2>2. \A k \in e + 2..Len(u) : k \in e + 2..L \/ k = L + 1 BY <1>0
  <2>3. ParamsTo(u, e, Len(u)) BY <1>0, <1>8, <2>1, <2>2 DEF ParamsTo
  <2> QED BY <2>1, <2>3 DEF CsiOpen
<1>9. ASSUME NEW e, e = L, EndsInEsc(p), b = "[" PROVE CsiOpen(u, e)
  <2>1. L \in 1..Len(u) - 1 /\ u[L] = "ESC" /\ u[L + 1] = "[" BY <1>0, <1>3, <1>9
  <2>2. \A k \in L + 2..Len(u) : FALSE BY <1>0
  <2> QED BY <1>9, <2>1, <2>2 DEF CsiOpen, ParamsTo
<1>10. ASSUME NEW e, CsiOpen(u, e)
       PROVE  \/ CsiOpen(p, e) /\ b \in ParamByte
              \/ e = L /\ EndsInEsc(p) /\ b = "["
  <2>1. /\ e \in 1..L /\ u[e] = "ESC" /\ u[e + 1] = "["
        /\ \A k \in e + 2..L + 1 : u[k] \in ParamByte
    BY <1>0, <1>10 DEF CsiOpen, ParamsTo
  <2>2. CASE e = L BY <1>0, <1>3, <2>1, <2>2
  <2>3. CASE e # L
    <3>1. /\ e \in 1..L - 1 /\ e + 1 \in 1..L /\ L + 1 \in e + 2..L + 1
          /\ \A k \in e + 2..L : k \in 1..L /\ k \in e + 2..L + 1
      BY <1>0, <2>1, <2>3
    <3>2. p[e] = "ESC" /\ p[e + 1] = "[" /\ b \in ParamByte
          /\ \A k \in e + 2..L : p[k] \in ParamByte
      BY <1>0, <2>1, <3>1
    <3> QED BY <3>1, <3>2 DEF CsiOpen, ParamsTo, L
  <2> QED BY <2>2, <2>3
<1> QED BY <1>1, <1>4, <1>5, <1>7, <1>8, <1>9, <1>10 DEF L, CsiGrows

\* A terminal's own walk, as far as its modes go: an ESC begins a sequence wherever
\* it comes.
TermStep(t, b) ==
  IF b = "ESC" THEN [st |-> "esc", params |-> <<>>, modes |-> t.modes]
  ELSE IF t.st = "esc"
    THEN [st |-> IF b = "[" THEN "csi" ELSE "ground", params |-> <<>>, modes |-> Keypad(t.modes, b)]
  ELSE IF t.st = "csi" /\ b \in FinalByte
    THEN [st |-> "ground", params |-> <<>>, modes |-> Completed(t.modes, t.params, b)]
  ELSE IF t.st = "csi" /\ b \in ParamByte
    THEN [st |-> "csi", params |-> Collected(t.params, b), modes |-> t.modes]
  ELSE [st |-> "ground", params |-> <<>>, modes |-> t.modes]

\* The walk of a terminal.
TermWalk(t, bytes) == Walk(TermStep, t, bytes)

AreTerminals(at, t, data) ==
  /\ TermWalk(t, data) = at[Len(data)] /\ at[0] = t
  /\ \A i \in 1..Len(data) : at[i] = TermStep(at[i - 1], data[i])

LEMMA TermWalks ==
  ASSUME NEW t, NEW data \in Seq(Byte)
  PROVE  \E at : AreTerminals(at, t, data)
<1> DEFINE L == Len(data)
           E(g, n) == g = [i \in 0..n |-> IF i = 0 THEN t ELSE TermStep(g[i - 1], data[i])]
           S == {n \in Nat : \E g : E(g, n)}
<1>0. L \in Nat BY LenProperties
<1>1. 0 \in S
  <2> DEFINE g == [i \in 0..0 |-> t]
  <2>1. g = [i \in 0..0 |-> IF i = 0 THEN t ELSE TermStep(g[i - 1], data[i])] OBVIOUS
  <2>2. E(g, 0) BY <2>1
  <2> QED BY <2>2
<1>2. ASSUME NEW n \in Nat, n \in S PROVE n + 1 \in S
  <2>1. PICK g : E(g, n) BY <1>2
  <2> DEFINE h == [i \in 0..n + 1 |-> IF i = 0 THEN t ELSE TermStep(g[i - 1], data[i])]
  <2>2. \A i \in 0..n : h[i] = g[i] BY <2>1
  <2>3. \A i \in 0..n + 1 : i # 0 => h[i - 1] = g[i - 1]
    <3> TAKE i \in 0..n + 1
    <3> HAVE i # 0
    <3>1. i - 1 \in 0..n OBVIOUS
    <3> QED BY <2>2, <3>1
  <2>4. h = [i \in 0..n + 1 |-> IF i = 0 THEN t ELSE TermStep(h[i - 1], data[i])] BY <2>3
  <2>5. E(h, n + 1) BY <2>4
  <2> HIDE DEF E, h
  <2> QED BY <2>5
<1>3. L \in S BY <1>0, <1>1, <1>2, SetInduction
<1>4. \E g : E(g, L) BY <1>3
<1> DEFINE at == CHOOSE g : E(g, L)
<1>5. TermWalk(t, data) = at[L] BY DEF TermWalk, Walk
<1>6. E(at, L) BY <1>4
<1>7. \A i \in 0..L : at[i] = IF i = 0 THEN t ELSE TermStep(at[i - 1], data[i]) BY <1>6
<1> HIDE DEF at
<1>8. AreTerminals(at, t, data) BY <1>0, <1>5, <1>7 DEF AreTerminals
<1> QED BY <1>8

\* A byte more is a step more.
LEMMA TermByte ==
  ASSUME NEW t
  PROVE  /\ TermWalk(t, <<>>) = t
         /\ \A s \in Seq(Byte) : \A b \in Byte :
              TermWalk(t, Append(s, b)) = TermStep(TermWalk(t, s), b)
<1>1. TermWalk(t, <<>>) = t
  <2>1. <<>> \in Seq(Byte) /\ Len(<<>>) = 0 BY EmptySeq
  <2>2. PICK at : AreTerminals(at, t, <<>>) BY <2>1, TermWalks
  <2> QED BY <2>1, <2>2 DEF AreTerminals
<1>2. ASSUME NEW s \in Seq(Byte), NEW b \in Byte
      PROVE  TermWalk(t, Append(s, b)) = TermStep(TermWalk(t, s), b)
  <2> DEFINE u == Append(s, b)
             K == Len(s)
  <2>0. /\ u \in Seq(Byte) /\ K \in Nat /\ Len(u) = K + 1 /\ u[K + 1] = b
        /\ \A k \in 1..K : u[k] = s[k]
    BY OneMore
  <2> HIDE DEF u
  <2>1. PICK a : AreTerminals(a, t, s) BY TermWalks
  <2>2. PICK c : AreTerminals(c, t, u) BY <2>0, TermWalks
  <2>3. /\ TermWalk(t, s) = a[K] /\ a[0] = t
        /\ \A i \in 1..K : a[i] = TermStep(a[i - 1], s[i])
    BY <2>1 DEF AreTerminals
  <2>4. /\ TermWalk(t, u) = c[K + 1] /\ c[0] = t
        /\ \A i \in 1..K + 1 : c[i] = TermStep(c[i - 1], u[i])
    BY <2>0, <2>2 DEF AreTerminals
  <2> HIDE DEF K
  <2> DEFINE S == {i \in Nat : i <= K => c[i] = a[i]}
  <2>5. 0 \in S BY <2>3, <2>4
  <2>6. ASSUME NEW i \in Nat, i \in S PROVE i + 1 \in S
    <3> SUFFICES ASSUME i + 1 <= K PROVE c[i + 1] = a[i + 1] OBVIOUS
    <3>1. i + 1 \in 1..K /\ i + 1 \in 1..K + 1 /\ (i + 1) - 1 = i /\ i <= K BY <2>0
    <3>2. c[i + 1] = TermStep(c[(i + 1) - 1], u[i + 1]) BY <2>4, <3>1, Zenon
    <3>3. a[i + 1] = TermStep(a[(i + 1) - 1], s[i + 1]) BY <2>3, <3>1, Zenon
    <3>4. c[i] = a[i] /\ u[i + 1] = s[i + 1] BY <2>0, <2>6, <3>1
    <3> QED BY <3>1, <3>2, <3>3, <3>4
  <2> HIDE DEF S
  <2>7. K \in S BY <2>0, <2>5, <2>6, SetInduction
  <2>8. c[K] = a[K] BY <2>0, <2>7 DEF S
  <2>9. K + 1 \in 1..K + 1 /\ (K + 1) - 1 = K BY <2>0
  <2>10. c[K + 1] = TermStep(c[(K + 1) - 1], u[K + 1]) BY <2>4, <2>9, Zenon
  <2> QED BY <2>0, <2>3, <2>4, <2>8, <2>9, <2>10 DEF u
<1> QED BY <1>1, <1>2

\* The modes a scanner keeps are modes, whatever comes.
LEMMA CompletedModes ==
  ASSUME NEW ms \in Modes, NEW run \in Seq(Byte), NEW b \in Byte
  PROVE  Completed(ms, run, b) \in Modes
<1> DEFINE ps == IF b \in {"h", "l"} /\ Len(run) \in 1..MaxParams /\ Head(run) = "?"
                 THEN SplitParams(Tail(run)) ELSE <<>>
<1> HIDE DEF ps
<1>1. Decided(Completed(ms, run, b), ms, ps, SetBy(b)) BY CompletedIs DEF ps
<1> QED BY <1>1 DEF Decided

LEMMA KeypadModes == ASSUME NEW ms \in Modes, NEW b PROVE Keypad(ms, b) \in Modes
  BY DEF Keypad, Modes

\* What a terminal can be in.
Terminals == {t \in [st: {"ground", "esc", "csi"}, params: Seq(Byte), modes: Modes] :
                t.st # "csi" => t.params = <<>>}

\* What is collected of a run: all of it, or what is too long.
Collects(params, run) ==
  /\ params \in Seq(Byte)
  /\ IF TooLong(run) THEN TooLong(params) ELSE params = run

CollectsOn(params, run, b) ==
  /\ Collects(Collected(params, b), Append(run, b))
  /\ \A ms : Completed(ms, params, b) = Completed(ms, run, b)

\* One byte more of a run: more of it is collected, if it is not too long yet.
LEMMA CollectsMore ==
  ASSUME NEW run \in Seq(Byte), NEW params, Collects(params, run), NEW b \in Byte
  PROVE  CollectsOn(params, run, b)
<1>1. Len(run) \in Nat /\ Len(Append(run, b)) = Len(run) + 1 /\ Append(run, b) \in Seq(Byte)
  BY LenProperties, AppendProperties
<1>2. Len(params) \in Nat /\ Len(Append(params, b)) = Len(params) + 1 /\ Append(params, b) \in Seq(Byte)
      /\ params \in Seq(Byte)
  BY LenProperties, AppendProperties DEF Collects
<1>3. MaxParams \in Nat BY ConstantsAssumption
<1>4. Collects(Collected(params, b), Append(run, b))
  <2>1. CASE TooLong(run)
    <3>1. TooLong(params) /\ TooLong(Append(run, b)) BY <1>1, <1>3, <2>1 DEF Collects, TooLong
    <3>2. Collected(params, b) = params BY <3>1 DEF Collected, TooLong
    <3> QED BY <1>2, <3>1, <3>2 DEF Collects
  <2>2. CASE ~TooLong(run)
    <3>1. params = run BY <2>2 DEF Collects
    <3>2. Collected(params, b) = Append(run, b) BY <2>2, <3>1 DEF Collected, TooLong
    <3> QED BY <1>1, <3>2 DEF Collects
  <2> QED BY <2>1, <2>2
<1>5. \A ms : Completed(ms, params, b) = Completed(ms, run, b) BY DEF Collects, Completed
<1> QED BY <1>4, <1>5 DEF CollectsOn

\* The terminal's walk agrees with the reading of all bytes at once.
Follows(t, p) ==
  /\ t \in Terminals
  /\ t.modes = TerminalModes(p)
  /\ t.st = "esc" <=> EndsInEsc(p)
  /\ t.st = "csi" <=> \E e : CsiOpen(p, e)
  /\ \A e : CsiOpen(p, e) => Collects(t.params, SubSeq(p, e + 2, Len(p)))

\* What one byte does to a terminal.
LEMMA TermSteps ==
  ASSUME NEW t \in Terminals, NEW b \in Byte, NEW n, n = TermStep(t, b)
  PROVE  /\ n \in Terminals
         /\ b = "ESC" => n.st = "esc" /\ n.params = <<>> /\ n.modes = t.modes
         /\ b # "ESC" /\ t.st = "esc" => n.st = (IF b = "[" THEN "csi" ELSE "ground")
                                         /\ n.params = <<>> /\ n.modes = Keypad(t.modes, b)
         /\ t.st = "csi" /\ b \in FinalByte => n.st = "ground" /\ n.params = <<>>
                                                /\ n.modes = Completed(t.modes, t.params, b)
         /\ t.st = "csi" /\ b \in ParamByte => n.st = "csi" /\ n.params = Collected(t.params, b)
                                                /\ n.modes = t.modes
         /\ b # "ESC" /\ (t.st = "ground" \/ (t.st = "csi" /\ b \notin FinalByte \cup ParamByte)) =>
              n.st = "ground" /\ n.params = <<>> /\ n.modes = t.modes
<1>1. t.st \in {"ground", "esc", "csi"} /\ t.params \in Seq(Byte) /\ t.modes \in Modes
  BY DEF Terminals
<1>2. Completed(t.modes, t.params, b) \in Modes BY <1>1, CompletedModes
<1>3. Keypad(t.modes, b) \in Modes BY <1>1, KeypadModes
<1>4. <<>> \in Seq(Byte) BY EmptySeq
<1>5. Collected(t.params, b) \in Seq(Byte) BY <1>1, AppendProperties DEF Collected
<1>6. ASSUME NEW x \in {"ground", "esc", "csi"}, NEW y \in Seq(Byte), NEW z \in Modes,
             x # "csi" => y = <<>>, n = [st |-> x, params |-> y, modes |-> z]
      PROVE  n \in Terminals /\ n.st = x /\ n.params = y /\ n.modes = z
  <2>1. n \in [st: {"ground", "esc", "csi"}, params: Seq(Byte), modes: Modes] BY <1>6
  <2>2. n.st = x /\ n.params = y /\ n.modes = z BY <1>6
  <2> QED BY <1>6, <2>1, <2>2 DEF Terminals
<1>7. ASSUME b = "ESC" PROVE n \in Terminals /\ n.st = "esc" /\ n.params = <<>> /\ n.modes = t.modes
  <2>1. n = [st |-> "esc", params |-> <<>>, modes |-> t.modes] BY <1>7 DEF TermStep
  <2> QED BY <1>1, <1>4, <1>6, <2>1
<1>8. ASSUME b # "ESC", t.st = "esc"
      PROVE  n \in Terminals /\ n.st = (IF b = "[" THEN "csi" ELSE "ground")
             /\ n.params = <<>> /\ n.modes = Keypad(t.modes, b)
  <2> DEFINE x == IF b = "[" THEN "csi" ELSE "ground"
  <2>1. n = [st |-> x, params |-> <<>>, modes |-> Keypad(t.modes, b)]
    BY <1>8 DEF TermStep
  <2>2. x \in {"ground", "esc", "csi"} OBVIOUS
  <2> HIDE DEF x
  <2>3. n \in Terminals /\ n.st = x /\ n.params = <<>> /\ n.modes = Keypad(t.modes, b)
    BY <1>3, <1>4, <1>6, <2>1, <2>2
  <2> QED BY <2>3 DEF x
<1>9. ASSUME t.st = "csi", b \in FinalByte
      PROVE  n \in Terminals /\ n.st = "ground" /\ n.params = <<>>
             /\ n.modes = Completed(t.modes, t.params, b)
  <2>1. n = [st |-> "ground", params |-> <<>>, modes |-> Completed(t.modes, t.params, b)]
    BY <1>9, Bytes DEF TermStep
  <2> QED BY <1>2, <1>4, <1>6, <2>1
<1>10. ASSUME t.st = "csi", b \in ParamByte
       PROVE  n \in Terminals /\ n.st = "csi" /\ n.params = Collected(t.params, b)
              /\ n.modes = t.modes
  <2>1. n = [st |-> "csi", params |-> Collected(t.params, b), modes |-> t.modes]
    BY <1>10, Bytes DEF TermStep
  <2> QED BY <1>1, <1>5, <1>6, <2>1
<1>11. ASSUME b # "ESC", t.st = "ground" \/ (t.st = "csi" /\ b \notin FinalByte \cup ParamByte)
       PROVE  n \in Terminals /\ n.st = "ground" /\ n.params = <<>> /\ n.modes = t.modes
  <2>1. n = [st |-> "ground", params |-> <<>>, modes |-> t.modes] BY <1>11 DEF TermStep
  <2> QED BY <1>1, <1>4, <1>6, <2>1
<1>12. n \in Terminals
  <2>1. CASE t.st = "ground"
    <3>1. t.st = "ground" \/ (t.st = "csi" /\ b \notin FinalByte \cup ParamByte) BY <2>1
    <3>2. CASE b = "ESC" BY <1>7, <3>2
    <3>3. CASE b # "ESC" BY <1>11, <3>1, <3>3
    <3> QED BY <3>2, <3>3
  <2>2. CASE t.st = "esc" BY <1>7, <1>8, <2>2
  <2>3. CASE t.st = "csi" BY <1>7, <1>9, <1>10, <1>11, <2>3
  <2> QED BY <1>1, <2>1, <2>2, <2>3
<1> QED BY <1>7, <1>8, <1>9, <1>10, <1>11, <1>12

\* The rest of a CSI sequence, with one byte more.
RestGrows(p, b, u, e) ==
  /\ SubSeq(p, e + 2, Len(p)) \in Seq(Byte)
  /\ SubSeq(u, e + 2, Len(p)) = SubSeq(p, e + 2, Len(p))
  /\ SubSeq(u, e + 2, Len(u)) = Append(SubSeq(p, e + 2, Len(p)), b)

\* What is behind the introduction of a sequence grows by the byte.
LEMMA RestOf ==
  ASSUME NEW p \in Seq(Byte), NEW b \in Byte, NEW u, u = Append(p, b), NEW e \in 1..Len(p) - 1
  PROVE  RestGrows(p, b, u, e)
<1> DEFINE L == Len(p)
           r == SubSeq(p, e + 2, L)
<1>0. /\ u \in Seq(Byte) /\ L \in Nat /\ Len(u) = L + 1 /\ u[L + 1] = b
      /\ \A k \in 1..L : u[k] = p[k]
      /\ \A i \in 1..L, j \in Nat : j <= L => SubSeq(u, i, j) = SubSeq(p, i, j)
  BY OneMore
<1>1. e \in 1..L - 1 OBVIOUS
<1>2. SubSeq(u, e + 2, L) = r
  <2>1. CASE e + 2 <= L
    <3>1. e + 2 \in 1..L BY <1>0, <1>1, <2>1
    <3> QED BY <1>0, <3>1
  <2>2. CASE ~(e + 2 <= L)
    <3>1. e + 2 \in Int /\ L \in Int /\ L < e + 2 BY <1>0, <1>1, <2>2
    <3> QED BY <3>1, SubSeqEmpty
  <2> QED BY <2>1, <2>2
<1>3. r \in Seq(Byte)
  <2>1. \A k \in e + 2..L : k \in 1..L BY <1>0, <1>1
  <2>2. \A k \in e + 2..L : p[k] \in Byte BY <2>1, ElementOfSeq
  <2>3. e + 2 \in Int /\ L \in Int BY <1>0, <1>1
  <2> QED BY <2>2, <2>3, SubSeqProperties
<1>4. SubSeq(u, e + 2, L + 1) = SubSeq(u, e + 2, L) \o <<u[L + 1]>>
  <2>1. e + 2 \in 1..Len(u) /\ L + 1 \in e + 2..Len(u) /\ L + 1 - 1 = L BY <1>0, <1>1
  <2>2. \A m \in 1..Len(u) : \A k \in m..Len(u) :
          SubSeq(u, m, k) = SubSeq(u, m, k - 1) \o <<u[k]>>
    BY <1>0, SubSeqRecursiveSecond
  <2> HIDE DEF L
  <2>3. SubSeq(u, e + 2, L + 1) = SubSeq(u, e + 2, (L + 1) - 1) \o <<u[L + 1]>> BY <2>1, <2>2, Zenon
  <2>4. (L + 1) - 1 = L BY <1>0
  <2> QED BY <2>3, <2>4, Zenon
<1> HIDE DEF r
<1>5. Append(r, b) = r \o <<b>> BY <1>3, AppendIsConcat
<1> QED BY <1>0, <1>2, <1>3, <1>4, <1>5 DEF r, RestGrows

\* The collected run grows with the sequence.
LEMMA RestOfCsi ==
  ASSUME NEW p \in Seq(Byte), NEW b \in Byte, NEW u, u = Append(p, b), NEW e, CsiOpen(p, e)
  PROVE  RestGrows(p, b, u, e)
  BY RestOf DEF CsiOpen

\* One byte more, and they still agree.
LEMMA FollowsByte ==
  ASSUME NEW p \in Seq(Byte), NEW b \in Byte, NEW t, Follows(t, p)
  PROVE  Follows(TermStep(t, b), Append(p, b))
<1> DEFINE u == Append(p, b)
           n == TermStep(t, b)
           ms == TerminalModes(p)
<1> SUFFICES Follows(n, u) OBVIOUS
<1>0. u = Append(p, b) OBVIOUS
<1> HIDE DEF u
<1>1. /\ t \in Terminals /\ t.modes = ms /\ (t.st = "esc" <=> EndsInEsc(p))
      /\ t.st = "csi" <=> \E e : CsiOpen(p, e)
      /\ \A e : CsiOpen(p, e) => Collects(t.params, SubSeq(p, e + 2, Len(p)))
  BY DEF Follows
<1>2. ms \in Modes /\ t.st \in {"ground", "esc", "csi"} BY <1>1 DEF Terminals
<1>3. /\ \A e : Ends(u, e, Len(u)) /\ u[e + 1] = "[" <=> CsiOpen(p, e) /\ b \in FinalByte
      /\ \A e : CsiOpen(u, e) <=> \/ CsiOpen(p, e) /\ b \in ParamByte
                                  \/ e = Len(p) /\ EndsInEsc(p) /\ b = "["
      /\ \A e : CsiOpen(p, e) => ~EndsInEsc(p)
      /\ EndsInEsc(u) <=> b = "ESC"
  <2>1. CsiGrows(p, b, u) BY <1>0, CsiByte
  <2> QED BY <2>1 DEF CsiGrows
<1>4. /\ \A e : Ends(u, e, Len(u)) /\ u[e + 1] = "["
                => TerminalModes(u) = Completed(ms, Inside(u, e), b)
      /\ (\A e : ~(CsiOpen(p, e) /\ b \in FinalByte))
         => TerminalModes(u) = IF EndsInEsc(p) THEN Keypad(ms, b) ELSE ms
  <2>1. /\ \A e : Ends(u, e, Len(u)) /\ u[e + 1] = "["
                => TerminalModes(u) = Completed(ms, Inside(u, e), b)
        /\ (\A e : Ends(u, e, Len(u)) => u[e + 1] # "[")
           => TerminalModes(u) = IF p # <<>> /\ p[Len(p)] = "ESC" THEN Keypad(ms, b) ELSE ms
    BY <1>0, <1>2, ModesByte
  <2>2. (\A e : ~(CsiOpen(p, e) /\ b \in FinalByte)) => (\A e : Ends(u, e, Len(u)) => u[e + 1] # "[")
    BY <1>3
  <2> QED BY <2>1, <2>2 DEF EndsInEsc
<1> HIDE DEF n, ms
<1>5. CASE b = "ESC"
  <2>1. n \in Terminals /\ n.st = "esc" /\ n.modes = t.modes BY <1>1, <1>5, TermSteps DEF n
  <2>2. b \notin FinalByte /\ b \notin ParamByte /\ b # "[" BY <1>5, Bytes
  <2>3. \A e : ~CsiOpen(u, e) BY <1>3, <2>2
  <2>4. TerminalModes(u) = ms
    <3>1. Keypad(ms, b) = ms BY <1>5 DEF Keypad
    <3> QED BY <1>4, <2>2, <3>1
  <2> QED BY <1>1, <1>3, <1>5, <2>1, <2>3, <2>4 DEF Follows
<1>6. CASE b # "ESC" /\ t.st = "esc"
  <2>1. n \in Terminals /\ n.st = (IF b = "[" THEN "csi" ELSE "ground")
        /\ n.params = <<>> /\ n.modes = Keypad(t.modes, b)
    BY <1>1, <1>6, TermSteps DEF n
  <2>2. EndsInEsc(p) /\ \A e : ~CsiOpen(p, e) BY <1>1, <1>6
  <2>3. TerminalModes(u) = Keypad(ms, b) BY <1>4, <2>2
  <2>4. \A e : CsiOpen(u, e) <=> e = Len(p) /\ b = "[" BY <1>3, <2>2
  <2>5. ASSUME NEW e, CsiOpen(u, e) PROVE Collects(n.params, SubSeq(u, e + 2, Len(u)))
    <3>1. e = Len(p) /\ Len(u) = Len(p) + 1 /\ Len(p) \in Nat BY <2>4, <2>5, <1>0, OneMore
    <3>2. e + 2 \in Int /\ Len(u) \in Int /\ Len(u) < e + 2 BY <3>1
    <3>3. SubSeq(u, e + 2, Len(u)) = <<>> BY <3>2, SubSeqEmpty
    <3>4. <<>> \in Seq(Byte) /\ Len(<<>>) = 0 BY EmptySeq
    <3>5. MaxParams \in Nat BY ConstantsAssumption
    <3>6. ~TooLong(<<>>) BY <3>4, <3>5 DEF TooLong
    <3> QED BY <2>1, <3>3, <3>4, <3>6 DEF Collects
  <2>6. n.st = "esc" <=> EndsInEsc(u) BY <1>3, <1>6, <2>1
  <2>7. n.st = "csi" <=> \E e : CsiOpen(u, e) BY <2>1, <2>4
  <2> QED BY <1>1, <2>1, <2>3, <2>5, <2>6, <2>7 DEF Follows
<1>7. CASE t.st = "csi" /\ b \in FinalByte
  <2>1. n \in Terminals /\ n.st = "ground" /\ n.modes = Completed(t.modes, t.params, b)
    BY <1>1, <1>7, TermSteps DEF n
  <2>2. PICK e : CsiOpen(p, e) BY <1>1, <1>7
  <2>3. Ends(u, e, Len(u)) /\ u[e + 1] = "[" BY <1>3, <1>7, <2>2
  <2>4. TerminalModes(u) = Completed(ms, Inside(u, e), b) BY <1>4, <2>3
  <2>5. Inside(u, e) = SubSeq(p, e + 2, Len(p)) /\ SubSeq(p, e + 2, Len(p)) \in Seq(Byte)
    <3>0. u \in Seq(Byte) /\ Len(u) = Len(p) + 1 /\ Len(p) \in Nat BY <1>0, OneMore
    <3>1. EndOf(u, e) = Len(u) BY <2>3, <3>0, EndsWithin
    <3>2. Len(u) - 1 = Len(p) BY <3>0
    <3>3. Inside(u, e) = SubSeq(u, e + 2, Len(p)) BY <2>3, <3>1, <3>2 DEF Inside
    <3>4. RestGrows(p, b, u, e) BY <2>2, <1>0, RestOfCsi
    <3> QED BY <3>3, <3>4 DEF RestGrows
  <2>6. Completed(ms, t.params, b) = Completed(ms, SubSeq(p, e + 2, Len(p)), b)
    <3> DEFINE run == SubSeq(p, e + 2, Len(p))
    <3>1. run \in Seq(Byte) /\ Collects(t.params, run) BY <1>1, <2>2, <2>5
    <3> HIDE DEF run
    <3>2. CollectsOn(t.params, run, b) BY <3>1, CollectsMore
    <3> QED BY <3>2 DEF CollectsOn, run
  <2>7. b \notin ParamByte /\ b # "ESC" BY <1>7, Bytes
  <2>8. ~EndsInEsc(p) BY <1>3, <2>2
  <2>9. \A e1 : ~CsiOpen(u, e1) BY <1>3, <2>7, <2>8
  <2>10. n.modes = TerminalModes(u) BY <1>1, <2>1, <2>4, <2>5, <2>6
  <2> QED BY <1>3, <2>1, <2>7, <2>9, <2>10 DEF Follows
<1>8. CASE t.st = "csi" /\ b \in ParamByte
  <2>1. n \in Terminals /\ n.st = "csi" /\ n.params = Collected(t.params, b) /\ n.modes = t.modes
    BY <1>1, <1>8, TermSteps DEF n
  <2>2. PICK e : CsiOpen(p, e) BY <1>1, <1>8
  <2>3. b \notin FinalByte /\ b # "ESC" /\ b # "[" /\ ~EndsInEsc(p)
    BY <1>3, <1>8, <2>2, Bytes DEF FinalByte
  <2>4. TerminalModes(u) = ms BY <1>4, <2>3
  <2>5. \A k : CsiOpen(u, k) <=> CsiOpen(p, k) BY <1>3, <1>8, <2>3
  <2>6. ASSUME NEW k, CsiOpen(u, k) PROVE Collects(n.params, SubSeq(u, k + 2, Len(u)))
    <3>1. CsiOpen(p, k) BY <2>5, <2>6
    <3>2. SubSeq(p, k + 2, Len(p)) \in Seq(Byte)
          /\ SubSeq(u, k + 2, Len(u)) = Append(SubSeq(p, k + 2, Len(p)), b)
      <4>1. RestGrows(p, b, u, k) BY <3>1, <1>0, RestOfCsi
      <4> QED BY <4>1 DEF RestGrows
    <3>3. Collects(t.params, SubSeq(p, k + 2, Len(p))) BY <1>1, <3>1
    <3>4. Collects(Collected(t.params, b), Append(SubSeq(p, k + 2, Len(p)), b))
      <4> DEFINE run == SubSeq(p, k + 2, Len(p))
      <4>1. run \in Seq(Byte) /\ Collects(t.params, run) BY <3>2, <3>3
      <4> HIDE DEF run
      <4>2. CollectsOn(t.params, run, b) BY <4>1, CollectsMore
      <4> QED BY <4>2 DEF CollectsOn, run
    <3> QED BY <2>1, <3>2, <3>4
  <2>7. (n.st = "esc" <=> EndsInEsc(u)) /\ (n.st = "csi" <=> \E k : CsiOpen(u, k))
    BY <1>3, <2>1, <2>2, <2>3, <2>5
  <2> QED BY <1>1, <2>1, <2>4, <2>6, <2>7 DEF Follows
<1>9. CASE b # "ESC" /\ (t.st = "ground" \/ (t.st = "csi" /\ b \notin FinalByte \cup ParamByte))
  <2>1. n \in Terminals /\ n.st = "ground" /\ n.modes = t.modes BY <1>1, <1>9, TermSteps DEF n
  <2>2. ~EndsInEsc(p) BY <1>1, <1>9
  <2>3. \A e : CsiOpen(p, e) => b \notin FinalByte /\ b \notin ParamByte BY <1>1, <1>9
  <2>4. TerminalModes(u) = ms BY <1>4, <2>2, <2>3
  <2>5. \A e : ~CsiOpen(u, e) BY <1>3, <2>2, <2>3
  <2>6. ~EndsInEsc(u) BY <1>3, <1>9
  <2> QED BY <1>1, <2>1, <2>4, <2>5, <2>6 DEF Follows
<1> QED
  <2>1. CASE b = "ESC" BY <1>5, <2>1
  <2>2. CASE b # "ESC" /\ t.st = "ground" BY <1>9, <2>2
  <2>3. CASE b # "ESC" /\ t.st = "esc" BY <1>6, <2>3
  <2>4. CASE b # "ESC" /\ t.st = "csi" BY <1>7, <1>8, <1>9, <2>4
  <2> QED BY <1>2, <2>1, <2>2, <2>3, <2>4

\* What the terminal has before it has been given anything.
LEMMA NewTerminal ==
  /\ NewModeScanner \in Terminals /\ Reset \in Modes
  /\ NewModeScanner.st = "ground" /\ NewModeScanner.modes = Reset
<1>1. <<>> \in Seq(Byte) BY EmptySeq
<1>2. Reset \in Modes BY DEF Reset, Modes
<1> QED BY <1>1, <1>2 DEF NewModeScanner, Terminals

\* No output leaves a terminal reset.
LEMMA NothingShown == TerminalModes(<<>>) = Reset
<1>1. <<>> \in Seq(Byte) /\ Len(<<>>) = 0 BY EmptySeq
<1>2. \A kind : Complete(<<>>, kind) = {}
  <2>1. Escs(<<>>) = {} BY <1>1, LenProperties DEF Escs
  <2> QED BY <2>1 DEF Complete
<1>3. \A P : Switches(<<>>, P) = {}
  <2>1. \A P, w : w \notin Switches(<<>>, P) BY <1>2, SwitchIs
  <2> QED BY <2>1
<1>4. TerminalModes(<<>>).alt = "" /\ TerminalModes(<<>>).wrapOff = FALSE BY <1>3, AltIs, WrapIs
<1>5. Keys(<<>>) = {} BY <1>1, LenProperties DEF Keys, Escs
<1>6. TerminalModes(<<>>).keypad = FALSE BY <1>5, KeypadIs
<1>7. TerminalModes(<<>>) = [alt |-> TerminalModes(<<>>).alt, keypad |-> TerminalModes(<<>>).keypad,
                             wrapOff |-> TerminalModes(<<>>).wrapOff]
  BY DEF TerminalModes
<1> QED BY <1>4, <1>6, <1>7 DEF Reset

\* The modes that the reference reads off all bytes are those of its walk.
LEMMA TerminalIs ==
  ASSUME NEW s \in Seq(Byte)
  PROVE  Follows(TermWalk(NewModeScanner, s), s)
<1> DEFINE S == {p \in Seq(Byte) : Follows(TermWalk(NewModeScanner, p), p)}
<1>1. <<>> \in S
  <2>1. <<>> \in Seq(Byte) /\ Len(<<>>) = 0 BY EmptySeq
  <2>2. \A e : ~CsiOpen(<<>>, e) BY <2>1 DEF CsiOpen
  <2>3. ~EndsInEsc(<<>>) BY DEF EndsInEsc
  <2>4. TermWalk(NewModeScanner, <<>>) = NewModeScanner BY TermByte
  <2>5. Follows(NewModeScanner, <<>>) BY <2>2, <2>3, NewTerminal, NothingShown DEF Follows
  <2> QED BY <2>1, <2>4, <2>5
<1>2. ASSUME NEW p \in Seq(Byte), NEW b \in Byte, p \in S PROVE Append(p, b) \in S
  <2>1. TermWalk(NewModeScanner, Append(p, b)) = TermStep(TermWalk(NewModeScanner, p), b) BY TermByte
  <2>2. Follows(TermWalk(NewModeScanner, p), p) BY <1>2
  <2>3. Append(p, b) \in Seq(Byte) BY OneMore
  <2> QED BY <2>1, <2>2, <2>3, FollowsByte
<1> HIDE DEF S
<1>3. s \in S BY <1>1, <1>2, PrefixInduction
<1> QED BY <1>3 DEF S

\* One byte more is one step more.
LEMMA ModeByte ==
  ASSUME NEW m
  PROVE  /\ ModeWalk(m, <<>>) = m
         /\ \A s \in Seq(Byte) : \A b \in Byte :
              ModeWalk(m, Append(s, b)) = ModeStep(ModeWalk(m, s), b)
<1>1. ModeWalk(m, <<>>) = m
  <2>1. <<>> \in Seq(Byte) /\ Len(<<>>) = 0 BY EmptySeq
  <2>2. PICK at : AreStates(at, m, <<>>) BY <2>1, ModeWalks
  <2> QED BY <2>1, <2>2 DEF AreStates
<1>2. ASSUME NEW s \in Seq(Byte), NEW b \in Byte
      PROVE  ModeWalk(m, Append(s, b)) = ModeStep(ModeWalk(m, s), b)
  <2> DEFINE k == ModeWalk(m, s)
             x == <<b>>
  <2>1. x \in Seq(Byte) /\ Len(x) = 1 /\ x[1] = b OBVIOUS
  <2>2. Append(s, b) = s \o x BY AppendIsConcat
  <2> HIDE DEF x
  <2>3. ModeWalk(m, s \o x) = ModeWalk(k, x) BY <2>1, ModeWalkOn
  <2> HIDE DEF k
  <2>4. PICK at : AreStates(at, k, x) BY <2>1, ModeWalks
  <2>5. ModeWalk(k, x) = at[1] /\ at[0] = k /\ \A i \in 1..1 : at[i] = ModeStep(at[i - 1], x[i])
    BY <2>1, <2>4 DEF AreStates
  <2>6. 1 \in 1..1 /\ 1 - 1 = 0 OBVIOUS
  <2>7. at[1] = ModeStep(at[1 - 1], x[1]) BY <2>5, <2>6, Zenon
  <2>8. ModeWalk(k, x) = ModeStep(k, b) BY <2>1, <2>5, <2>6, <2>7
  <2> QED BY <2>2, <2>3, <2>8 DEF k
<1> QED BY <1>1, <1>2

\* A modeScanner that has collected nothing outside of a CSI sequence.
\* What a modeScanner can be in.
ModeScanners ==
  {m \in [st: {"ground", "esc", "csi", "string", "stringEsc"}, params: Seq(Byte), modes: Modes] :
     m.st # "csi" => m.params = <<>>}

\* Where a modeScanner in state st is after b, and the modes it is in.
StateAfter(st, b) ==
  IF st = "ground" THEN (IF b = "ESC" THEN "esc" ELSE "ground")
  ELSE IF st = "esc" THEN (IF b = "ESC" THEN "esc" ELSE Introduced(b))
  ELSE IF st = "csi" THEN (IF b \in ParamByte THEN "csi" ELSE "ground")
  ELSE IF st = "string"
    THEN (IF b = "BEL" THEN "ground" ELSE IF b = "ESC" THEN "stringEsc" ELSE "string")
  ELSE Introduced(b)

ModesAfter(m, b) ==
  IF m.st \in {"esc", "stringEsc"} THEN Keypad(m.modes, b)
  ELSE IF m.st = "csi" /\ b \in FinalByte THEN Completed(m.modes, m.params, b)
  ELSE m.modes

ParamsAfter(m, b) ==
  IF m.st = "csi" /\ b \in ParamByte THEN Collected(m.params, b) ELSE <<>>

\* What one byte does to a modeScanner, field by field.
LEMMA ModeFields ==
  ASSUME NEW m \in ModeScanners, NEW b \in Byte
  PROVE  /\ ModeStep(m, b) \in ModeScanners
         /\ ModeStep(m, b).st = StateAfter(m.st, b)
         /\ ModeStep(m, b).params = ParamsAfter(m, b)
         /\ ModeStep(m, b).modes = ModesAfter(m, b)
<1> DEFINE n == ModeStep(m, b)
           r == [st |-> StateAfter(m.st, b), params |-> ParamsAfter(m, b), modes |-> ModesAfter(m, b)]
<1>1. PICK st, ps, ms : m = [st |-> st, params |-> ps, modes |-> ms]
  BY DEF ModeScanners
<1>2. /\ st \in {"ground", "esc", "csi", "string", "stringEsc"} /\ ps \in Seq(Byte) /\ ms \in Modes
      /\ st # "csi" => ps = <<>>
      /\ m.st = st /\ m.params = ps /\ m.modes = ms
  BY <1>1 DEF ModeScanners
<1>3. n = r
  <2>1. CASE st = "ground"
    <3>1. n = [m EXCEPT !.st = IF b = "ESC" THEN "esc" ELSE "ground"] BY <1>2, <2>1 DEF ModeStep
    <3>2. n = [st |-> IF b = "ESC" THEN "esc" ELSE "ground", params |-> <<>>, modes |-> ms]
      BY <1>1, <1>2, <2>1, <3>1
    <3> QED BY <1>2, <2>1, <3>2 DEF StateAfter, ParamsAfter, ModesAfter
  <2>2. CASE st = "esc"
    <3>1. n = [st |-> IF b = "ESC" THEN "esc" ELSE Introduced(b),
               params |-> <<>>, modes |-> Keypad(ms, b)]
      BY <1>2, <2>2 DEF ModeStep
    <3> QED BY <1>2, <2>2, <3>1 DEF StateAfter, ParamsAfter, ModesAfter
  <2>3. CASE st = "csi" /\ b \in FinalByte
    <3>1. n = [st |-> "ground", params |-> <<>>, modes |-> Completed(ms, ps, b)]
      BY <1>2, <2>3, Bytes DEF ModeStep
    <3>2. b \notin ParamByte BY <2>3, Bytes
    <3> QED BY <1>2, <2>3, <3>1, <3>2 DEF StateAfter, ParamsAfter, ModesAfter
  <2>4. CASE st = "csi" /\ b \in ParamByte
    <3>0. b \notin FinalByte BY <2>4, Bytes
    <3>1. n = [m EXCEPT !.params = Collected(@, b)] BY <1>2, <2>4, <3>0 DEF ModeStep
    <3>2. n = [st |-> "csi", params |-> Collected(ps, b), modes |-> ms] BY <1>1, <2>4, <3>1
    <3> QED BY <1>2, <2>4, <3>0, <3>2 DEF StateAfter, ParamsAfter, ModesAfter
  <2>5. CASE st = "csi" /\ b \notin ParamByte /\ b \notin FinalByte
    <3>1. n = [m EXCEPT !.st = "ground", !.params = <<>>] BY <1>2, <2>5 DEF ModeStep
    <3>2. n = [st |-> "ground", params |-> <<>>, modes |-> ms] BY <1>1, <3>1
    <3> QED BY <1>2, <2>5, <3>2 DEF StateAfter, ParamsAfter, ModesAfter
  <2>6. CASE st = "string"
    <3> DEFINE x == IF b = "BEL" THEN "ground" ELSE IF b = "ESC" THEN "stringEsc" ELSE "string"
    <3>1. n = [m EXCEPT !.st = x] BY <1>2, <2>6 DEF ModeStep
    <3> HIDE DEF x
    <3>2. n = [st |-> x, params |-> <<>>, modes |-> ms] BY <1>1, <1>2, <2>6, <3>1
    <3> QED BY <1>2, <2>6, <3>2 DEF StateAfter, ParamsAfter, ModesAfter, x
  <2>7. CASE st = "stringEsc"
    <3>1. n = [m EXCEPT !.st = Introduced(b), !.modes = Keypad(@, b)] BY <1>2, <2>7 DEF ModeStep
    <3>2. n = [st |-> Introduced(b), params |-> <<>>, modes |-> Keypad(ms, b)]
      BY <1>1, <1>2, <2>7, <3>1
    <3> QED BY <1>2, <2>7, <3>2 DEF StateAfter, ParamsAfter, ModesAfter
  <2> QED BY <1>2, <2>1, <2>2, <2>3, <2>4, <2>5, <2>6, <2>7
<1>4. StateAfter(st, b) \in {"ground", "esc", "csi", "string", "stringEsc"}
  BY DEF StateAfter, Introduced
<1>5. ParamsAfter(m, b) \in Seq(Byte)
  <2>1. <<>> \in Seq(Byte) BY EmptySeq
  <2>2. Collected(ps, b) \in Seq(Byte) BY <1>2, AppendProperties DEF Collected
  <2> QED BY <1>2, <2>1, <2>2 DEF ParamsAfter
<1>6. ModesAfter(m, b) \in Modes BY <1>2, CompletedModes, KeypadModes DEF ModesAfter
<1>7. StateAfter(st, b) # "csi" => ParamsAfter(m, b) = <<>> BY <1>2 DEF StateAfter, ParamsAfter
<1> HIDE DEF n
<1>8. n.st = StateAfter(st, b) /\ n.params = ParamsAfter(m, b) /\ n.modes = ModesAfter(m, b)
  BY <1>2, <1>3
<1>9. n \in [st: {"ground", "esc", "csi", "string", "stringEsc"}, params: Seq(Byte), modes: Modes]
  BY <1>2, <1>3, <1>4, <1>5, <1>6
<1>10. n \in ModeScanners BY <1>7, <1>8, <1>9 DEF ModeScanners
<1> QED BY <1>2, <1>8, <1>10 DEF n

-----------------------------------------------------------------------------
(* The modeScanner beside it                                               *)

\* A control byte at j in a CSI sequence introduced at e; an ESC in a string, with
\* another one after it.
CutAt(s, e, j) ==
  /\ e \in 1..Len(s) - 1 /\ s[e] = "ESC" /\ s[e + 1] = "["
  /\ j \in e + 2..Len(s) /\ ParamsTo(s, e, j - 1) /\ s[j] \in Ending

DoubledAt(s, e, j) ==
  /\ StringAt(s, e) /\ j \in e + 2..Len(s) - 1 /\ Quiet(s, e + 2, j - 1)
  /\ s[j] = "ESC" /\ s[j + 1] = "ESC"

\* Neither happens in s.
Plain(s) == \A e, j : ~CutAt(s, e, j) /\ ~DoubledAt(s, e, j)

\* CutShort and Doubled, byte by byte.
LEMMA PlainOf ==
  ASSUME NEW s \in Seq(Byte), ~CutShort(s), ~Doubled(s)
  PROVE  Plain(s)
<1> DEFINE L == Len(s)
<1>0. L \in Nat /\ DOMAIN s = 1..L BY LenProperties
<1>1. ASSUME NEW e, NEW j, CutAt(s, e, j) PROVE FALSE
  <2>1. /\ e \in 1..L - 1 /\ s[e] = "ESC" /\ s[e + 1] = "[" /\ j \in e + 2..L
        /\ s[j] \in {"ESC", "BEL"} /\ \A k \in e + 2..j - 1 : s[k] \in ParamByte
    BY <1>1 DEF CutAt, ParamsTo, Ending
  <2>2. e \in Escs(s) BY <1>0, <2>1 DEF Escs
  <2>3. EndOf(s, e) = 0
    <3> SUFFICES ASSUME EndOf(s, e) # 0 PROVE FALSE OBVIOUS
    <3> DEFINE k == EndOf(s, e)
    <3>1. Ends(s, e, k) BY <2>2, EndOfIs
    <3>2. k \in e + 2..L /\ s[k] \in FinalByte /\ \A i \in e + 2..k - 1 : s[i] \in ParamByte
      BY <2>1, <3>1 DEF Ends, ParamsTo
    <3> HIDE DEF k
    <3>3. k # j BY <2>1, <3>2, Bytes
    <3>4. ~(k < j)
      <4> SUFFICES ASSUME k < j PROVE FALSE OBVIOUS
      <4>1. k \in e + 2..j - 1 BY <1>0, <2>1, <3>2
      <4> QED BY <2>1, <3>2, <4>1, Bytes
    <3>5. ~(k > j)
      <4> SUFFICES ASSUME k > j PROVE FALSE OBVIOUS
      <4>1. j \in e + 2..k - 1 BY <1>0, <2>1, <3>2
      <4> QED BY <2>1, <3>2, <4>1, Bytes
    <3> QED BY <1>0, <2>1, <3>2, <3>3, <3>4, <3>5
  <2>4. e < Len(s) /\ j \in e + 2..Len(s) BY <1>0, <2>1
  <2>5. CutShort(s) BY <2>1, <2>2, <2>3, <2>4 DEF CutShort
  <2> QED BY <2>5
<1>2. ASSUME NEW e, NEW j, DoubledAt(s, e, j) PROVE FALSE
  <2>1. /\ StringAt(s, e) /\ e \in 1..L - 1 /\ s[e] = "ESC" /\ s[e + 1] \in {"]", "P"}
        /\ j \in e + 2..L - 1 /\ s[j] = "ESC" /\ s[j + 1] = "ESC"
        /\ \A k \in e + 2..j - 1 : s[k] # "ESC" /\ s[k] # "BEL"
    BY <1>2 DEF DoubledAt, StringAt, Quiet, Ending
  <2>2. e \in Escs(s) BY <1>0, <2>1 DEF Escs
  <2>3. NextEsc(s, e) = j
    <3> DEFINE k == NextEsc(s, e)
    <3>1. k \in e + 1..L + 1 /\ (k <= L => s[k] = "ESC") /\ \A i \in e + 1..k - 1 : s[i] # "ESC"
      BY <2>2, NextFacts
    <3> HIDE DEF k
    <3>2. ~(k > j)
      <4> SUFFICES ASSUME k > j PROVE FALSE OBVIOUS
      <4>1. j \in e + 1..k - 1 BY <1>0, <2>1, <3>1
      <4> QED BY <2>1, <3>1, <4>1
    <3>3. ~(k < j)
      <4> SUFFICES ASSUME k < j PROVE FALSE OBVIOUS
      <4>1. k <= L /\ (k = e + 1 \/ k \in e + 2..j - 1) BY <1>0, <2>1, <3>1
      <4> QED BY <2>1, <3>1, <4>1
    <3>4. k = j BY <1>0, <2>1, <3>1, <3>2, <3>3
    <3> QED BY <3>4 DEF k
  <2>4. EndOf(s, e) = 0
    <3> SUFFICES ASSUME EndOf(s, e) # 0 PROVE FALSE OBVIOUS
    <3> DEFINE k == EndOf(s, e)
    <3>1. EndsAt(s, e, k) BY <2>1, EndOfString
    <3> HIDE DEF k
    <3>2. k \in e + 2..L BY <3>1 DEF EndsAt
    <3>3. CASE s[k] = "BEL" /\ Quiet(s, e + 2, k - 1)
      <4>1. k # j /\ \A i \in e + 2..k - 1 : s[i] # "ESC" BY <2>1, <3>3 DEF Quiet, Ending
      <4>2. k < j
        <5> SUFFICES ASSUME ~(k < j) PROVE FALSE OBVIOUS
        <5>1. j \in e + 2..k - 1 BY <1>0, <2>1, <3>2, <4>1
        <5> QED BY <2>1, <4>1, <5>1
      <4>3. k \in e + 2..j - 1 BY <1>0, <2>1, <3>2, <4>2
      <4> QED BY <2>1, <3>3, <4>3
    <3>4. CASE s[k] = "\\" /\ k > e + 2 /\ s[k - 1] = "ESC" /\ Quiet(s, e + 2, k - 2)
      <4>1. \A i \in e + 2..k - 2 : s[i] # "ESC" BY <3>4 DEF Quiet, Ending
      <4>2. ~(k - 1 < j)
        <5> SUFFICES ASSUME k - 1 < j PROVE FALSE OBVIOUS
        <5>1. k - 1 \in e + 2..j - 1 BY <1>0, <2>1, <3>2, <3>4
        <5> QED BY <2>1, <3>4, <5>1
      <4>3. ~(k - 1 > j)
        <5> SUFFICES ASSUME k - 1 > j PROVE FALSE OBVIOUS
        <5>1. j \in e + 2..k - 2 BY <1>0, <2>1, <3>2, <3>4
        <5> QED BY <2>1, <4>1, <5>1
      <4>4. k = j + 1 BY <1>0, <2>1, <3>2, <3>4, <4>2, <4>3
      <4> QED BY <2>1, <3>4, <4>4
    <3> QED BY <3>1, <3>3, <3>4 DEF EndsAt
  <2>5. j <= Len(s) /\ j < Len(s) BY <1>0, <2>1
  <2>6. e \in Abandoned(s) BY <2>2, <2>3, <2>4, <2>5 DEF Abandoned
  <2>7. Doubled(s) BY <2>1, <2>3, <2>5, <2>6 DEF Doubled
  <2> QED BY <2>7
<1> QED BY <1>1, <1>2 DEF Plain

\* What is still plain of a byte more was plain before.
LEMMA PlainBefore ==
  ASSUME NEW p \in Seq(Byte), NEW b \in Byte, Plain(Append(p, b))
  PROVE  Plain(p)
<1> DEFINE u == Append(p, b)
           L == Len(p)
<1>0. /\ L \in Nat /\ Len(u) = L + 1 /\ \A k \in 1..L : u[k] = p[k]
  BY OneMore
<1>1. Plain(u) OBVIOUS
<1> HIDE DEF u
<1>2. ASSUME NEW e, NEW j, CutAt(p, e, j) PROVE FALSE
  <2>1. /\ e \in 1..L - 1 /\ p[e] = "ESC" /\ p[e + 1] = "[" /\ j \in e + 2..L /\ p[j] \in Ending
        /\ \A k \in e + 2..j - 1 : p[k] \in ParamByte
    BY <1>2 DEF CutAt, ParamsTo
  <2>2. e \in 1..L /\ e + 1 \in 1..L /\ j \in 1..L /\ \A k \in e + 2..j - 1 : k \in 1..L
    BY <1>0, <2>1
  <2>3. /\ e \in 1..Len(u) - 1 /\ u[e] = "ESC" /\ u[e + 1] = "[" /\ j \in e + 2..Len(u)
        /\ u[j] \in Ending /\ \A k \in e + 2..j - 1 : u[k] \in ParamByte
    BY <1>0, <2>1, <2>2
  <2>4. CutAt(u, e, j) BY <2>3 DEF CutAt, ParamsTo
  <2> QED BY <1>1, <2>4 DEF Plain
<1>3. ASSUME NEW e, NEW j, DoubledAt(p, e, j) PROVE FALSE
  <2>1. /\ e \in 1..L - 1 /\ p[e] = "ESC" /\ p[e + 1] \in {"]", "P"}
        /\ j \in e + 2..L - 1 /\ p[j] = "ESC" /\ p[j + 1] = "ESC"
        /\ \A k \in e + 2..j - 1 : p[k] \notin Ending
    BY <1>3 DEF DoubledAt, StringAt, Quiet
  <2>2. e \in 1..L /\ e + 1 \in 1..L /\ j \in 1..L /\ j + 1 \in 1..L
        /\ \A k \in e + 2..j - 1 : k \in 1..L
    BY <1>0, <2>1
  <2>3. /\ e \in 1..Len(u) - 1 /\ u[e] = "ESC" /\ u[e + 1] \in {"]", "P"}
        /\ j \in e + 2..Len(u) - 1 /\ u[j] = "ESC" /\ u[j + 1] = "ESC"
        /\ \A k \in e + 2..j - 1 : u[k] \notin Ending
    BY <1>0, <2>1, <2>2
  <2>4. DoubledAt(u, e, j) BY <2>3 DEF DoubledAt, StringAt, Quiet
  <2> QED BY <1>1, <2>4 DEF Plain
<1> QED BY <1>2, <1>3 DEF Plain

\* The modeScanner is in a string introduced at e, and has seen an ESC in it.
InString(p, e) == StringAt(p, e) /\ Quiet(p, e + 2, Len(p))
StringEnding(p, e) ==
  StringAt(p, e) /\ Len(p) \in e + 2..Len(p) /\ Quiet(p, e + 2, Len(p) - 1)

\* A string is introduced, goes on and is interrupted.
LEMMA StringByte ==
  ASSUME NEW p \in Seq(Byte), NEW b \in Byte, NEW u, u = Append(p, b)
  PROVE  /\ EndsInEsc(p) /\ b \in {"]", "P"} => InString(u, Len(p))
         /\ \A e : InString(p, e) /\ b \notin Ending => InString(u, e)
         /\ \A e : InString(p, e) => StringEnding(u, e)
         /\ \A e : EndsInEsc(p) /\ StringEnding(p, e) /\ b = "ESC" => ~Plain(u)
<1> DEFINE L == Len(p)
<1>0. /\ L \in Nat /\ Len(u) = L + 1 /\ u[L + 1] = b /\ \A k \in 1..L : u[k] = p[k]
  BY OneMore
<1>1. EndsInEsc(p) => L # 0 /\ p[L] = "ESC" BY EmptySeq DEF EndsInEsc
<1> HIDE DEF L
<1>2. ASSUME EndsInEsc(p), b \in {"]", "P"} PROVE InString(u, L)
  <2>1. L \in 1..Len(u) - 1 /\ u[L] = "ESC" /\ u[L + 1] = b BY <1>0, <1>1, <1>2
  <2>2. StringAt(u, L) BY <1>2, <2>1 DEF StringAt
  <2>3. \A k \in L + 2..Len(u) : FALSE BY <1>0
  <2> QED BY <2>2, <2>3 DEF InString, Quiet
<1>3. ASSUME NEW e, StringAt(p, e) PROVE StringAt(u, e) /\ e \in 1..L - 1
  <2>1. e \in 1..L - 1 /\ p[e] = "ESC" /\ p[e + 1] \in {"]", "P"} BY <1>3 DEF StringAt, L
  <2>2. e \in 1..L /\ e + 1 \in 1..L /\ e \in 1..Len(u) - 1 BY <1>0, <2>1
  <2> QED BY <1>0, <2>1, <2>2 DEF StringAt
<1>4. ASSUME NEW e, InString(p, e) PROVE (b \notin Ending => InString(u, e)) /\ StringEnding(u, e)
  <2>1. StringAt(u, e) /\ e \in 1..L - 1 /\ \A k \in e + 2..L : p[k] \notin Ending
    BY <1>3, <1>4 DEF InString, Quiet, L
  <2>2. \A k \in e + 2..L : k \in 1..L BY <1>0, <2>1
  <2>3. \A k \in e + 2..L : u[k] \notin Ending BY <1>0, <2>1, <2>2
  <2>4. \A k \in e + 2..Len(u) : k \in e + 2..L \/ k = L + 1 BY <1>0, <2>1
  <2>5. b \notin Ending => InString(u, e) BY <1>0, <2>1, <2>3, <2>4 DEF InString, Quiet
  <2>6. Len(u) \in e + 2..Len(u) /\ Len(u) - 1 = L BY <1>0, <2>1
  <2>7. StringEnding(u, e) BY <2>1, <2>3, <2>6 DEF StringEnding, Quiet
  <2> QED BY <2>5, <2>7
<1>5. ASSUME NEW e, EndsInEsc(p), StringEnding(p, e), b = "ESC" PROVE ~Plain(u)
  <2>1. StringAt(u, e) /\ e \in 1..L - 1 /\ L \in e + 2..L
        /\ \A k \in e + 2..L - 1 : p[k] \notin Ending
    BY <1>3, <1>5 DEF StringEnding, Quiet, L
  <2>2. \A k \in e + 2..L - 1 : k \in 1..L BY <1>0, <2>1
  <2>3. \A k \in e + 2..L - 1 : u[k] \notin Ending BY <1>0, <2>1, <2>2
  <2>4. L \in e + 2..Len(u) - 1 /\ u[L] = "ESC" /\ u[L + 1] = "ESC" BY <1>0, <1>1, <1>5, <2>1
  <2>5. DoubledAt(u, e, L) BY <2>1, <2>3, <2>4 DEF DoubledAt, Quiet
  <2> QED BY <2>5 DEF Plain
<1> QED BY <1>2, <1>4, <1>5 DEF L

\* The two walks over the same plain bytes.
\* The modeScanner m and the terminal t stand at the same place after p; only that m
\* knows of strings.
Mirrors(m, t, p) ==
  /\ m \in ModeScanners /\ t \in Terminals
  /\ m.modes = t.modes /\ m.params = t.params
  /\ m.st \in {"esc", "stringEsc"} <=> t.st = "esc"
  /\ m.st = "csi" <=> t.st = "csi"
  /\ m.st = "string" => \E e : InString(p, e)
  /\ m.st = "stringEsc" => \E e : StringEnding(p, e)

\* One byte more, and they still stand at the same place.
LEMMA MirrorsByte ==
  ASSUME NEW p \in Seq(Byte), NEW b \in Byte, NEW m, NEW t, NEW u, u = Append(p, b), Plain(u),
         Mirrors(m, t, p), Follows(t, p)
  PROVE  Mirrors(ModeStep(m, b), TermStep(t, b), u)
<1> DEFINE n == ModeStep(m, b)
           v == TermStep(t, b)
<1>1. /\ m \in ModeScanners /\ t \in Terminals /\ m.modes = t.modes /\ m.params = t.params
      /\ m.st \in {"esc", "stringEsc"} <=> t.st = "esc"
      /\ m.st = "csi" <=> t.st = "csi"
      /\ m.st = "string" => \E e : InString(p, e)
      /\ m.st = "stringEsc" => \E e : StringEnding(p, e)
  BY DEF Mirrors
<1>2. /\ t.st = "esc" <=> EndsInEsc(p)
      /\ t.st = "csi" <=> \E e : CsiOpen(p, e)
  BY DEF Follows
<1>3. /\ n \in ModeScanners /\ n.st = StateAfter(m.st, b) /\ n.params = ParamsAfter(m, b)
      /\ n.modes = ModesAfter(m, b)
  BY <1>1, ModeFields
<1>4. m.st \in {"ground", "esc", "csi", "string", "stringEsc"} BY <1>1 DEF ModeScanners
<1>5. /\ EndsInEsc(p) /\ b \in {"]", "P"} => InString(u, Len(p))
      /\ \A e : InString(p, e) /\ b \notin Ending => InString(u, e)
      /\ \A e : InString(p, e) => StringEnding(u, e)
      /\ \A e : EndsInEsc(p) /\ StringEnding(p, e) /\ b = "ESC" => ~Plain(u)
  BY StringByte
<1>6. t.st \in {"ground", "esc", "csi"} BY <1>1 DEF Terminals
<1>7. /\ v \in Terminals
      /\ b = "ESC" => v.st = "esc" /\ v.params = <<>> /\ v.modes = t.modes
      /\ b # "ESC" /\ t.st = "esc" => v.st = (IF b = "[" THEN "csi" ELSE "ground")
                                      /\ v.params = <<>> /\ v.modes = Keypad(t.modes, b)
      /\ t.st = "csi" /\ b \in FinalByte => v.st = "ground" /\ v.params = <<>>
                                             /\ v.modes = Completed(t.modes, t.params, b)
      /\ t.st = "csi" /\ b \in ParamByte => v.st = "csi" /\ v.params = Collected(t.params, b)
                                             /\ v.modes = t.modes
      /\ b # "ESC" /\ (t.st = "ground" \/ (t.st = "csi" /\ b \notin FinalByte \cup ParamByte)) =>
           v.st = "ground" /\ v.params = <<>> /\ v.modes = t.modes
  BY <1>1, TermSteps
<1>8. ~(t.st = "csi" /\ b = "ESC")
  <2> SUFFICES ASSUME t.st = "csi", b = "ESC" PROVE FALSE OBVIOUS
  <2>1. PICK e : CsiOpen(p, e) BY <1>2
  <2>2. /\ u \in Seq(Byte) /\ Len(p) \in Nat /\ Len(u) = Len(p) + 1 /\ u[Len(p) + 1] = "ESC"
        /\ \A k \in 1..Len(p) : u[k] = p[k]
    BY OneMore
  <2>3. /\ e \in 1..Len(p) - 1 /\ p[e] = "ESC" /\ p[e + 1] = "["
        /\ \A k \in e + 2..Len(p) : p[k] \in ParamByte
    BY <2>1 DEF CsiOpen, ParamsTo
  <2>4. e \in 1..Len(p) /\ e + 1 \in 1..Len(p) /\ \A k \in e + 2..Len(p) : k \in 1..Len(p)
    BY <2>2, <2>3
  <2>5. /\ e \in 1..Len(u) - 1 /\ Len(u) \in e + 2..Len(u) /\ Len(u) - 1 = Len(p)
        /\ u[e] = "ESC" /\ u[e + 1] = "[" /\ u[Len(u)] = "ESC"
        /\ \A k \in e + 2..Len(p) : u[k] \in ParamByte
    BY <2>2, <2>3, <2>4
  <2>6. CutAt(u, e, Len(u)) BY <2>5 DEF CutAt, ParamsTo, Ending
  <2> QED BY <2>6 DEF Plain
<1>9. ~(m.st = "stringEsc" /\ b = "ESC") BY <1>1, <1>2, <1>5
<1> HIDE DEF n, v
<1>10. b = "ESC" => b \notin FinalByte /\ b \notin ParamByte /\ b # "BEL" /\ b # "[" /\ b \notin {"=", ">"}
  BY Bytes DEF ParamByte
<1>11. CASE m.st = "ground"
  <2>1. t.st = "ground" BY <1>1, <1>6, <1>11
  <2>2. n.st = (IF b = "ESC" THEN "esc" ELSE "ground") /\ n.params = <<>> /\ n.modes = m.modes
    BY <1>3, <1>11 DEF StateAfter, ParamsAfter, ModesAfter
  <2> QED BY <1>1, <1>3, <1>7, <2>1, <2>2 DEF Mirrors, n, v
<1>12. CASE m.st = "esc"
  <2>1. t.st = "esc" /\ EndsInEsc(p) BY <1>1, <1>2, <1>12
  <2>2. n.st = (IF b = "ESC" THEN "esc" ELSE Introduced(b)) /\ n.params = <<>>
        /\ n.modes = Keypad(m.modes, b)
    BY <1>3, <1>12 DEF StateAfter, ParamsAfter, ModesAfter
  <2>3. CASE b = "ESC"
    <3>1. Keypad(m.modes, b) = m.modes BY <1>10, <2>3 DEF Keypad
    <3> QED BY <1>1, <1>3, <1>7, <2>2, <2>3, <3>1 DEF Mirrors, n, v
  <2>4. CASE b # "ESC"
    <3>1. n.st = Introduced(b) BY <2>2, <2>4
    <3>2. n.st = "csi" <=> b = "[" BY <3>1 DEF Introduced
    <3>3. n.st = "string" => b \in {"]", "P"} BY <3>1 DEF Introduced
    <3>4. n.st \in {"csi", "string", "ground"} BY <3>1 DEF Introduced
    <3>5. n.st = "string" => \E e : InString(u, e) BY <1>5, <2>1, <3>3
    <3> QED BY <1>1, <1>3, <1>7, <2>1, <2>2, <2>4, <3>2, <3>4, <3>5 DEF Mirrors, n, v
  <2> QED BY <2>3, <2>4
<1>13. CASE m.st = "csi"
  <2>1. t.st = "csi" /\ b # "ESC" BY <1>1, <1>8, <1>13
  <2>2. CASE b \in ParamByte
    <3>1. b \notin FinalByte BY <2>2, Bytes
    <3>2. n.st = "csi" /\ n.params = Collected(m.params, b) /\ n.modes = m.modes
      BY <1>3, <1>13, <2>2, <3>1 DEF StateAfter, ParamsAfter, ModesAfter
    <3> QED BY <1>1, <1>3, <1>7, <2>1, <2>2, <3>2 DEF Mirrors, n, v
  <2>3. CASE b \in FinalByte
    <3>1. b \notin ParamByte BY <2>3, Bytes
    <3>2. n.st = "ground" /\ n.params = <<>> /\ n.modes = Completed(m.modes, m.params, b)
      BY <1>3, <1>13, <2>3, <3>1 DEF StateAfter, ParamsAfter, ModesAfter
    <3> QED BY <1>1, <1>3, <1>7, <2>1, <2>3, <3>2 DEF Mirrors, n, v
  <2>4. CASE b \notin ParamByte /\ b \notin FinalByte
    <3>2. n.st = "ground" /\ n.params = <<>> /\ n.modes = m.modes
      BY <1>3, <1>13, <2>4 DEF StateAfter, ParamsAfter, ModesAfter
    <3> QED BY <1>1, <1>3, <1>7, <2>1, <2>4, <3>2 DEF Mirrors, n, v
  <2> QED BY <2>2, <2>3, <2>4
<1>14. CASE m.st = "string"
  <2>1. t.st = "ground" BY <1>1, <1>6, <1>14
  <2>2. n.st = (IF b = "BEL" THEN "ground" ELSE IF b = "ESC" THEN "stringEsc" ELSE "string")
        /\ n.params = <<>> /\ n.modes = m.modes
    BY <1>3, <1>14 DEF StateAfter, ParamsAfter, ModesAfter
  <2>3. PICK e : InString(p, e) BY <1>1, <1>14
  <2>4. n.st = "string" => InString(u, e) BY <1>5, <2>2, <2>3 DEF Ending
  <2>5. StringEnding(u, e) BY <1>5, <2>3
  <2> QED BY <1>1, <1>3, <1>7, <1>10, <2>1, <2>2, <2>4, <2>5 DEF Mirrors, n, v
<1>15. CASE m.st = "stringEsc"
  <2>1. t.st = "esc" /\ EndsInEsc(p) /\ b # "ESC" BY <1>1, <1>2, <1>9, <1>15
  <2>2. n.st = Introduced(b) /\ n.params = <<>> /\ n.modes = Keypad(m.modes, b)
    BY <1>3, <1>15 DEF StateAfter, ParamsAfter, ModesAfter
  <2>3. n.st = "csi" <=> b = "[" BY <2>2 DEF Introduced
  <2>4. n.st = "string" => b \in {"]", "P"} BY <2>2 DEF Introduced
  <2>5. n.st \in {"csi", "string", "ground"} BY <2>2 DEF Introduced
  <2>6. n.st = "string" => \E e : InString(u, e) BY <1>5, <2>1, <2>4
  <2> QED BY <1>1, <1>3, <1>7, <2>1, <2>2, <2>3, <2>5, <2>6 DEF Mirrors, n, v
<1> QED BY <1>4, <1>11, <1>12, <1>13, <1>14, <1>15

\* Over plain bytes a modeScanner keeps a terminal's modes.
LEMMA ModesMirror ==
  ASSUME NEW s \in Seq(Byte), Plain(s)
  PROVE  ModeWalk(NewModeScanner, s).modes = TerminalModes(s)
<1> DEFINE M(p) == ModeWalk(NewModeScanner, p)
           T(p) == TermWalk(NewModeScanner, p)
           S == {p \in Seq(Byte) : Plain(p) => Mirrors(M(p), T(p), p)}
<1>1. <<>> \in S
  <2>1. <<>> \in Seq(Byte) BY EmptySeq
  <2>2. M(<<>>) = NewModeScanner /\ T(<<>>) = NewModeScanner BY ModeByte, TermByte
  <2>3. NewModeScanner \in ModeScanners /\ NewModeScanner.st = "ground"
    BY <2>1, NewTerminal DEF NewModeScanner, ModeScanners
  <2>4. Mirrors(NewModeScanner, NewModeScanner, <<>>) BY <2>3, NewTerminal DEF Mirrors
  <2> QED BY <2>1, <2>2, <2>4
<1>2. ASSUME NEW p \in Seq(Byte), NEW b \in Byte, p \in S PROVE Append(p, b) \in S
  <2> DEFINE u == Append(p, b)
  <2>0. u = Append(p, b) OBVIOUS
  <2> SUFFICES ASSUME Plain(u) PROVE u \in Seq(Byte) /\ Mirrors(M(u), T(u), u) BY OneMore
  <2>1. u \in Seq(Byte) BY OneMore
  <2>2. M(u) = ModeStep(M(p), b) /\ T(u) = TermStep(T(p), b) BY ModeByte, TermByte
  <2>3. Plain(p) BY PlainBefore
  <2>4. Follows(T(p), p) BY TerminalIs
  <2>5. Mirrors(M(p), T(p), p) BY <1>2, <2>3
  <2> HIDE DEF u, M, T
  <2>6. Mirrors(ModeStep(M(p), b), TermStep(T(p), b), u) BY <2>0, <2>4, <2>5, MirrorsByte
  <2> QED BY <2>1, <2>2, <2>6
<1> HIDE DEF S
<1>3. s \in S BY <1>1, <1>2, PrefixInduction
<1>4. Mirrors(M(s), T(s), s) BY <1>3 DEF S
<1>5. Follows(T(s), s) BY TerminalIs
<1> QED BY <1>4, <1>5 DEF Mirrors, Follows

\* Two walks of a terminal go on from one another.
LEMMA TermWalkOn ==
  ASSUME NEW t, NEW s \in Seq(Byte), NEW x \in Seq(Byte)
  PROVE  TermWalk(t, s \o x) = TermWalk(TermWalk(t, s), x)
<1> DEFINE k == TermWalk(t, s)
           S == {y \in Seq(Byte) : TermWalk(t, s \o y) = TermWalk(k, y)}
<1>1. <<>> \in S
  <2>1. s \o <<>> = s /\ <<>> \in Seq(Byte) BY EmptySeq, ConcatEmptySeq
  <2>2. TermWalk(k, <<>>) = k BY TermByte
  <2> QED BY <2>1, <2>2
<1>2. ASSUME NEW y \in Seq(Byte), NEW b \in Byte, y \in S PROVE Append(y, b) \in S
  <2>1. s \o y \in Seq(Byte) /\ Append(y, b) \in Seq(Byte) BY ConcatProperties, AppendProperties
  <2>2. s \o Append(y, b) = Append(s \o y, b)
    <3>1. <<b>> \in Seq(Byte) OBVIOUS
    <3>2. Append(y, b) = y \o <<b>> /\ Append(s \o y, b) = (s \o y) \o <<b>>
      BY <2>1, AppendIsConcat
    <3>3. s \o (y \o <<b>>) = (s \o y) \o <<b>> BY <3>1, ConcatAssociative
    <3> QED BY <3>2, <3>3
  <2>3. TermWalk(t, Append(s \o y, b)) = TermStep(TermWalk(t, s \o y), b) BY <2>1, TermByte
  <2>4. TermWalk(k, Append(y, b)) = TermStep(TermWalk(k, y), b) BY TermByte
  <2>5. TermWalk(t, s \o y) = TermWalk(k, y) BY <1>2
  <2> HIDE DEF k
  <2> QED BY <2>1, <2>2, <2>3, <2>4, <2>5
<1> HIDE DEF S
<1>3. x \in S BY <1>1, <1>2, PrefixInduction
<1> QED BY <1>3 DEF S

-----------------------------------------------------------------------------
(* The separator and the preamble                                          *)

\* A walk over few bytes, one by one.
LEMMA OneByte ==
  ASSUME NEW b \in Byte
  PROVE  <<b>> \in Seq(Byte) /\ Len(<<b>>) = 1 /\ <<b>>[1] = b
  OBVIOUS

\* The parameters of a run of one.
LEMMA SplitOne ==
  ASSUME NEW d \in Digits
  PROVE  SplitParams(<<d>>) = <<<<d>>>>
<1> DEFINE run == <<d>>
           cuts == {0, Len(run) + 1} \cup {i \in DOMAIN run : run[i] = ";"}
           next(i) == CHOOSE j \in cuts : j > i /\ \A k \in cuts : k > i => j <= k
           from(n) == CHOOSE c \in cuts : Cardinality({k \in cuts : k < c}) = n - 1
           part(n) == SubSeq(run, from(n) + 1, next(from(n)) - 1)
<1>0. d \in Byte /\ d # ";" BY DEF Digits, AltSpelling, Byte, ParamByte
<1>1. Len(run) = 1 /\ DOMAIN run = 1..1 /\ run[1] = d /\ run \in Seq(Byte)
  <2>1. run \in Seq(Byte) /\ Len(run) = 1 /\ run[1] = d BY <1>0, OneByte
  <2> HIDE DEF run
  <2>2. DOMAIN run = 1..1 BY <2>1, LenProperties
  <2> QED BY <2>1, <2>2
<1> HIDE DEF run
<1>2. cuts = {0, 2}
  <2>1. {i \in DOMAIN run : run[i] = ";"} = {}
    <3>1. \A i \in DOMAIN run : run[i] = d BY <1>1
    <3> QED BY <1>0, <3>1
  <2>2. Len(run) + 1 = 2 BY <1>1
  <2> QED BY <2>1, <2>2
<1>3. SplitParams(run) = [n \in 1..Cardinality(cuts) - 1 |-> part(n)] BY DEF SplitParams
<1>4. Cardinality({0, 2}) = 2
  <2>1. IsFiniteSet({0}) /\ Cardinality({0}) = 1 BY FS_Singleton
  <2>2. {0, 2} = {0} \cup {2} /\ 2 \notin {0} OBVIOUS
  <2>3. Cardinality({0} \cup {2}) = Cardinality({0}) + 1 BY <2>1, <2>2, FS_AddElement
  <2> QED BY <2>1, <2>2, <2>3
<1> HIDE DEF cuts
<1>5. next(0) = 2
  <2> DEFINE P(j) == j > 0 /\ \A k \in cuts : k > 0 => j <= k
  <2>1. P(2) /\ ~P(0) BY <1>2
  <2> HIDE DEF P
  <2>2. (CHOOSE j \in cuts : P(j)) = 2 BY <1>2, <2>1
  <2> QED BY <2>2 DEF P
<1>6. from(1) = 0
  <2> DEFINE P(c) == Cardinality({k \in cuts : k < c}) = 1 - 1
  <2>1. {k \in cuts : k < 0} = {} BY <1>2
  <2>2. {k \in cuts : k < 2} = {0} BY <1>2
  <2>3. Cardinality({}) = 0 /\ Cardinality({0}) = 1 BY FS_Singleton, FS_EmptySet
  <2>4. P(0)
    <3>1. 1 - 1 = 0 OBVIOUS
    <3> QED BY <2>1, <2>3, <3>1, Zenon
  <2>5. ~P(2) BY <2>2, <2>3
  <2> HIDE DEF P
  <2>6. (CHOOSE c \in cuts : P(c)) = 0 BY <1>2, <2>4, <2>5
  <2> QED BY <2>6 DEF P
<1>7. SubSeq(run, 1, 1) = run
  <2>1. SubSeq(run, 1, Len(run)) = run BY <1>1, SubSeqFull
  <2> QED BY <1>1, <2>1
<1> HIDE DEF next, from
<1>8. part(1) = run
  <2>1. from(1) + 1 = 1 /\ next(from(1)) - 1 = 1 BY <1>5, <1>6
  <2> QED BY <1>7, <2>1
<1> HIDE DEF part
<1>9. SplitParams(run) = [n \in 1..1 |-> part(n)] BY <1>2, <1>3, <1>4
<1>10. [n \in 1..1 |-> part(n)] = <<part(1)>> OBVIOUS
<1> QED BY <1>8, <1>9, <1>10 DEF run

LEMMA ApplyAllOne ==
  ASSUME NEW ms, NEW d \in Digits, NEW set
  PROVE  ApplyAll(ms, <<d>>, set) = Apply(ms, <<d>>, set)
<1> DEFINE run == <<d>>
<1>0. run \in Seq(Byte)
  <2>1. d \in Byte BY DEF Byte, ParamByte
  <2> QED BY <2>1
<1>1. SplitParams(run) = <<run>> BY SplitOne
<1>2. DOMAIN <<run>> = 1..1 /\ <<run>>[1] = run OBVIOUS
<1> HIDE DEF run
<1> DEFINE ps == SplitParams(run)
           r == ApplyAll(ms, run, set)
<1>3. InOrder(r, ms, ps, set) BY <1>0, ApplyChain
<1> HIDE DEF ps, r
<1>4a. PICK k \in Nat : \E at :
        /\ DOMAIN ps = 1..k /\ r = at[k] /\ at[0] = ms
        /\ \A i \in 1..k : at[i] = Apply(at[i - 1], ps[i], set)
  BY <1>3 DEF InOrder
<1>4. PICK at :
        /\ DOMAIN ps = 1..k /\ r = at[k] /\ at[0] = ms
        /\ \A i \in 1..k : at[i] = Apply(at[i - 1], ps[i], set)
  BY <1>4a
<1>5. k = 1
  <2>1. 1..k = 1..1 BY <1>1, <1>2, <1>4 DEF ps
  <2> QED BY <2>1
<1>6. 1 \in 1..k /\ 1 - 1 = 0 BY <1>5
<1>7. at[1] = Apply(at[1 - 1], ps[1], set) BY <1>4, <1>6, Zenon
<1>8. ps[1] = run BY <1>1, <1>2 DEF ps
<1>9. r = Apply(ms, run, set) BY <1>4, <1>5, <1>6, <1>7, <1>8
<1> QED BY <1>9 DEF run, r

LEMMA Pairs ==
  ASSUME NEW a \in Byte, NEW b \in Byte
  PROVE  <<a, b>> = Append(<<a>>, b)
  OBVIOUS

\* What one byte does to a terminal, case by case.
TermStepped(n, t, b) ==
  /\ n \in Terminals
  /\ b = "ESC" => n.st = "esc" /\ n.params = <<>> /\ n.modes = t.modes
  /\ b # "ESC" /\ t.st = "esc" => n.st = (IF b = "[" THEN "csi" ELSE "ground")
                                  /\ n.params = <<>> /\ n.modes = Keypad(t.modes, b)
  /\ t.st = "csi" /\ b \in FinalByte => n.st = "ground" /\ n.params = <<>>
                                         /\ n.modes = Completed(t.modes, t.params, b)
  /\ t.st = "csi" /\ b \in ParamByte => n.st = "csi" /\ n.params = Collected(t.params, b)
                                         /\ n.modes = t.modes
  /\ b # "ESC" /\ (t.st = "ground" \/ (t.st = "csi" /\ b \notin FinalByte \cup ParamByte)) =>
       n.st = "ground" /\ n.params = <<>> /\ n.modes = t.modes

LEMMA TermStepsTo ==
  ASSUME NEW t \in Terminals, NEW b \in Byte
  PROVE  TermStepped(TermStep(t, b), t, b)
<1> DEFINE n == TermStep(t, b)
<1>1. n = TermStep(t, b) OBVIOUS
<1> HIDE DEF n
<1>2. TermStepped(n, t, b) BY <1>1, TermSteps DEF TermStepped
<1> QED BY <1>1, <1>2

\* A sequence of five bytes, one by one.
OneByOne(t, a, b, c, d, e) ==
  /\ <<a, b>> \in Seq(Byte) /\ <<a, b, c, d, e>> \in Seq(Byte)
  /\ TermWalk(t, <<a>>) = TermStep(t, a)
  /\ TermWalk(t, <<a, b>>) = TermStep(TermStep(t, a), b)
  /\ TermWalk(t, <<a, b, c, d, e>>) =
       TermStep(TermStep(TermStep(TermStep(TermStep(t, a), b), c), d), e)

LEMMA FiveBytes ==
  ASSUME NEW t, NEW a \in Byte, NEW b \in Byte, NEW c \in Byte, NEW d \in Byte, NEW e \in Byte
  PROVE  OneByOne(t, a, b, c, d, e)
<1> DEFINE s1 == <<a>>
           s2 == <<a, b>>
           s3 == <<a, b, c>>
           s4 == <<a, b, c, d>>
           s5 == <<a, b, c, d, e>>
<1>0. <<>> \in Seq(Byte) BY EmptySeq
<1>1. s1 = Append(<<>>, a) OBVIOUS
<1>2. s2 = Append(s1, b) OBVIOUS
<1>3. s3 = Append(s2, c) OBVIOUS
<1>4. s4 = Append(s3, d) OBVIOUS
<1>5. s5 = Append(s4, e) OBVIOUS
<1> HIDE DEF s1, s2, s3, s4, s5
<1>6. s1 \in Seq(Byte) BY <1>0, <1>1, AppendProperties
<1>7. s2 \in Seq(Byte) BY <1>2, <1>6, AppendProperties
<1>8. s3 \in Seq(Byte) BY <1>3, <1>7, AppendProperties
<1>9. s4 \in Seq(Byte) BY <1>4, <1>8, AppendProperties
<1>10. s5 \in Seq(Byte) BY <1>5, <1>9, AppendProperties
<1>11. TermWalk(t, s1) = TermStep(t, a)
  <2> DEFINE s0 == <<>>
  <2>1. TermWalk(t, s0) = t BY TermByte
  <2>2. s0 \in Seq(Byte) /\ s1 = Append(s0, a) BY <1>0, <1>1
  <2> HIDE DEF s0
  <2>3. TermWalk(t, Append(s0, a)) = TermStep(TermWalk(t, s0), a) BY <2>2, TermByte
  <2> QED BY <2>1, <2>2, <2>3
<1>12. TermWalk(t, s2) = TermStep(TermWalk(t, s1), b) BY <1>2, <1>6, TermByte
<1>13. TermWalk(t, s3) = TermStep(TermWalk(t, s2), c) BY <1>3, <1>7, TermByte
<1>14. TermWalk(t, s4) = TermStep(TermWalk(t, s3), d) BY <1>4, <1>8, TermByte
<1>15. TermWalk(t, s5) = TermStep(TermWalk(t, s4), e) BY <1>5, <1>9, TermByte
<1>16. s2 \in Seq(Byte) /\ s5 \in Seq(Byte) /\ TermWalk(t, s1) = TermStep(t, a)
       /\ TermWalk(t, s2) = TermStep(TermStep(t, a), b)
       /\ TermWalk(t, s5) = TermStep(TermStep(TermStep(TermStep(TermStep(t, a), b), c), d), e)
  BY <1>7, <1>10, <1>11, <1>12, <1>13, <1>14, <1>15
<1> QED BY <1>16 DEF s1, s2, s5, OneByOne

\* A terminal that is in no sequence, and in the modes ms.
Grounded(t, ms) == t \in Terminals /\ t.st = "ground" /\ t.modes = ms

\* A sequence that sets or resets one private mode.
LEMMA SwitchSequence ==
  ASSUME NEW t \in Terminals, NEW d \in Digits, NEW b \in {"h", "l"}
  PROVE  /\ <<"ESC", "[", "?", d, b>> \in Seq(Byte)
         /\ Grounded(TermWalk(t, <<"ESC", "[", "?", d, b>>), Apply(t.modes, <<d>>, SetBy(b)))
<1>1. "ESC" \in Byte /\ "[" \in Byte /\ "?" \in Byte /\ d \in Byte /\ b \in Byte /\ b \in FinalByte /\ d \in ParamByte /\ "?" \in ParamByte
      /\ "[" \notin ParamByte
  BY DEF Byte, ParamByte, FinalByte, Digits, AltSpelling
<1>2. b # "ESC" /\ d # "ESC" BY <1>1, Bytes
<1> DEFINE t1 == TermStep(t, "ESC")
           t2 == TermStep(t1, "[")
           t3 == TermStep(t2, "?")
           t4 == TermStep(t3, d)
           t5 == TermStep(t4, b)
           s == <<"ESC", "[", "?", d, b>>
<1>3. s \in Seq(Byte) /\ TermWalk(t, s) = t5
  <2>1. OneByOne(t, "ESC", "[", "?", d, b) BY <1>1, FiveBytes
  <2> QED BY <2>1 DEF OneByOne
<1>4. t1 \in Terminals /\ t1.st = "esc" /\ t1.modes = t.modes BY <1>1, TermSteps
<1> HIDE DEF t1
<1>5. t2 \in Terminals /\ t2.st = "csi" /\ t2.params = <<>> /\ t2.modes = t.modes
  <2>1. Keypad(t.modes, "[") = t.modes BY DEF Keypad
  <2>2. "[" \in Byte /\ "[" # "ESC" BY <1>1
  <2> QED BY <1>4, <2>1, <2>2, TermSteps
<1> HIDE DEF t2
<1>6. t3 \in Terminals /\ t3.st = "csi" /\ t3.params = Collected(<<>>, "?") /\ t3.modes = t.modes
  <2>1. TermStepped(t3, t2, "?") BY <1>1, <1>5, TermStepsTo
  <2> QED BY <1>1, <1>5, <2>1 DEF TermStepped
<1> HIDE DEF t3
<1>7. t4 \in Terminals /\ t4.st = "csi" /\ t4.params = Collected(t3.params, d) /\ t4.modes = t.modes
  <2>1. TermStepped(t4, t3, d) BY <1>1, <1>6, TermStepsTo
  <2> QED BY <1>1, <1>6, <2>1 DEF TermStepped
<1> HIDE DEF t4
<1>8. t5 \in Terminals /\ t5.st = "ground" /\ t5.modes = Completed(t.modes, t4.params, b)
  <2>1. TermStepped(t5, t4, b) BY <1>1, <1>7, TermStepsTo
  <2> QED BY <1>1, <1>7, <2>1 DEF TermStepped
<1> HIDE DEF t5
<1>9. MaxParams \in Nat /\ MaxParams > 1 BY ConstantsAssumption
<1>10. t3.params = <<"?">>
  <2>1. Len(<<>>) = 0 /\ Append(<<>>, "?") = <<"?">> OBVIOUS
  <2> QED BY <1>6, <1>9, <2>1 DEF Collected
<1>11. t4.params = <<"?", d>>
  <2>1. Len(<<"?">>) = 1 OBVIOUS
  <2>2. <<"?", d>> = Append(<<"?">>, d) BY <1>1, Pairs
  <2>3. Collected(<<"?">>, d) = Append(<<"?">>, d)
    <3> DEFINE q == <<"?">>
    <3>1. Len(q) = 1 BY <2>1
    <3> HIDE DEF q
    <3>2. Collected(q, d) = Append(q, d) BY <1>9, <3>1 DEF Collected
    <3> QED BY <3>2 DEF q
  <2> QED BY <1>7, <1>10, <2>2, <2>3
<1>12. Completed(t.modes, <<"?", d>>, b) = Apply(t.modes, <<d>>, SetBy(b))
  <2> DEFINE run == <<"?", d>>
  <2>1. Len(run) = 2 /\ Head(run) = "?" /\ run # <<>> OBVIOUS
  <2>2. Tail(run) = <<d>> OBVIOUS
  <2> HIDE DEF run
  <2>3. ~TooLong(run) BY <1>9, <2>1 DEF TooLong
  <2>4. Completed(t.modes, run, b) = ApplyAll(t.modes, <<d>>, SetBy(b))
    BY <2>1, <2>2, <2>3 DEF Completed, SetBy
  <2>5. Completed(t.modes, run, b) = Apply(t.modes, <<d>>, SetBy(b)) BY <2>4, ApplyAllOne
  <2> QED BY <2>5 DEF run
<1>13. Grounded(t5, Apply(t.modes, <<d>>, SetBy(b))) BY <1>8, <1>11, <1>12 DEF Grounded
<1> QED BY <1>3, <1>13

\* DECKPAM and DECKPNM.
LEMMA KeypadSequence ==
  ASSUME NEW t \in Terminals, NEW k \in {"=", ">"}
  PROVE  /\ <<"ESC", k>> \in Seq(Byte)
         /\ Grounded(TermWalk(t, <<"ESC", k>>), Keypad(t.modes, k))
<1>1. "ESC" \in Byte /\ k \in Byte /\ k # "ESC" /\ k # "[" BY DEF Byte, ParamByte
<1> DEFINE t1 == TermStep(t, "ESC")
           t2 == TermStep(t1, k)
<1>3. <<"ESC", k>> \in Seq(Byte) /\ TermWalk(t, <<"ESC", k>>) = t2
  <2>1. OneByOne(t, "ESC", k, k, k, k) BY <1>1, FiveBytes
  <2> QED BY <2>1 DEF OneByOne
<1>4. t1 \in Terminals /\ t1.st = "esc" /\ t1.modes = t.modes BY <1>1, TermSteps
<1> HIDE DEF t1
<1>5. t2 \in Terminals /\ t2.st = "ground" /\ t2.modes = Keypad(t.modes, k)
  BY <1>1, <1>4, TermSteps
<1> HIDE DEF t2
<1> QED BY <1>3, <1>5 DEF Grounded

\* Modes are what their fields are.
LEMMA ModesFields ==
  ASSUME NEW ms \in Modes
  PROVE  /\ ms.alt \in AltSpelling \cup {""} /\ ms.keypad \in BOOLEAN /\ ms.wrapOff \in BOOLEAN
         /\ ms = [alt |-> ms.alt, keypad |-> ms.keypad, wrapOff |-> ms.wrapOff]
  BY DEF Modes

\* The separator without its first sequence, taken apart.
LEMMA SeparatorTail ==
  <<"ESC", ">", "ESC", "[", "?", "7", "h", "x">>
  = <<"ESC", ">">> \o (<<"ESC", "[", "?", "7", "h">> \o <<"x">>)
  OBVIOUS

\* Whatever modes a terminal is in, the separator leaves it in those of a reset one.
LEMMA SeparatorWalk ==
  ASSUME NEW t \in Terminals, NEW inAlt \in BOOLEAN, ~inAlt => t.modes.alt = ""
  PROVE  /\ RestoreSeparator(inAlt) \in Seq(Byte)
         /\ TermWalk(t, RestoreSeparator(inAlt)).modes = Reset
<1> DEFINE A == IF inAlt THEN <<"ESC", "[", "?", "1049", "l">> ELSE <<>>
           K == <<"ESC", ">">>
           W == <<"ESC", "[", "?", "7", "h">>
           X == <<"x">>
           tail == <<"ESC", ">", "ESC", "[", "?", "7", "h", "x">>
<1>1. tail = K \o (W \o X) BY SeparatorTail
<1>2. RestoreSeparator(inAlt) = A \o tail BY DEF RestoreSeparator
<1>3. "1049" \in Digits /\ "7" \in Digits /\ "1049" \in AltSpelling /\ "7" \notin AltSpelling
      /\ "x" \in Byte /\ "x" # "ESC"
  BY DEF Digits, AltSpelling, Byte, FinalByte
<1>4. t.modes \in Modes BY DEF Terminals
<1>5. W \in Seq(Byte) /\ K \in Seq(Byte) BY <1>3, SwitchSequence, KeypadSequence
<1>6. X \in Seq(Byte) BY <1>3, OneByte
<1>7. \A v \in Terminals : v.st = "ground" => TermWalk(v, X) = TermStep(v, "x")
  <2> TAKE v \in Terminals
  <2> HAVE v.st = "ground"
  <2>1. OneByOne(v, "x", "x", "x", "x", "x") BY <1>3, FiveBytes
  <2> QED BY <2>1 DEF OneByOne
<1>8. A \in Seq(Byte) /\ TermWalk(t, A) \in Terminals /\ TermWalk(t, A).modes.alt = ""
  <2>1. CASE inAlt
    <3> DEFINE seq == <<"ESC", "[", "?", "1049", "l">>
               r == TermWalk(t, seq)
    <3>1. seq \in Seq(Byte) /\ Grounded(r, Apply(t.modes, <<"1049">>, SetBy("l")))
      BY <1>3, SwitchSequence
    <3>2. Apply(t.modes, <<"1049">>, SetBy("l")).alt = ""
      <4>1. Len(<<"1049">>) = 1 /\ <<"1049">>[1] = "1049" OBVIOUS
      <4>2. Apply(t.modes, <<"1049">>, SetBy("l")) = [t.modes EXCEPT !.alt = ""]
        BY <1>3, <4>1 DEF Apply, SetBy
      <4> QED BY <1>4, <4>2 DEF Modes
    <3>3. A = seq BY <2>1
    <3> HIDE DEF seq, r, A
    <3> QED BY <3>1, <3>2, <3>3 DEF Grounded, r
  <2>2. CASE ~inAlt
    <3>1. A = <<>> /\ <<>> \in Seq(Byte) BY <2>2, EmptySeq
    <3>2. TermWalk(t, <<>>) = t BY TermByte
    <3> HIDE DEF A
    <3> QED BY <2>2, <3>1, <3>2
  <2> QED BY <2>1, <2>2
<1> DEFINE t1 == TermWalk(t, A)
           t2 == TermWalk(t1, K)
           t3 == TermWalk(t2, W)
           t4 == TermWalk(t3, X)
<1> HIDE DEF A, K, W, X, tail
<1>9. t1 \in Terminals /\ t1.modes.alt = "" BY <1>8
<1>10. Grounded(t2, Keypad(t1.modes, ">")) BY <1>9, KeypadSequence DEF K
<1> HIDE DEF t1
<1>11. t2 \in Terminals /\ t2.modes = Keypad(t1.modes, ">") BY <1>10 DEF Grounded
<1>12. Grounded(t3, Apply(t2.modes, <<"7">>, SetBy("h"))) BY <1>3, <1>11, SwitchSequence DEF W
<1> HIDE DEF t2
<1>13. t3 \in Terminals /\ t3.st = "ground" /\ t3.modes = Apply(t2.modes, <<"7">>, SetBy("h"))
  BY <1>12 DEF Grounded
<1> HIDE DEF t3
<1>14. t4.modes = t3.modes
  <2>1. t4 = TermStep(t3, "x") BY <1>7, <1>13
  <2>2. TermStepped(TermStep(t3, "x"), t3, "x") BY <1>3, <1>13, TermStepsTo
  <2> QED BY <1>3, <1>13, <2>1, <2>2 DEF TermStepped
<1> HIDE DEF t4
<1>15. t2.modes.alt = "" /\ t2.modes.keypad = FALSE /\ t2.modes \in Modes
  <2>1. t1.modes \in Modes BY <1>9 DEF Terminals
  <2>2. t2.modes = [t1.modes EXCEPT !.keypad = FALSE] BY <1>11 DEF Keypad
  <2> QED BY <1>9, <2>1, <2>2 DEF Modes
<1>16. t3.modes = Reset
  <2>1. Len(<<"7">>) = 1 /\ <<"7">>[1] = "7" OBVIOUS
  <2>2. t3.modes = [t2.modes EXCEPT !.wrapOff = FALSE] BY <1>3, <1>13, <2>1 DEF Apply, SetBy
  <2>3. t3.modes = [alt |-> "", keypad |-> FALSE, wrapOff |-> FALSE]
    BY <1>15, <2>2, ModesFields
  <2> QED BY <2>3 DEF Reset
<1>17. W \o X \in Seq(Byte) /\ tail \in Seq(Byte) /\ A \o tail \in Seq(Byte)
  BY <1>1, <1>5, <1>6, <1>8, ConcatProperties
<1>18. TermWalk(t, A \o tail) = TermWalk(t1, tail) BY <1>8, <1>17, TermWalkOn DEF t1
<1>19. TermWalk(t1, tail) = TermWalk(t2, W \o X)
  <2>1. TermWalk(t1, K \o (W \o X)) = TermWalk(t2, W \o X) BY <1>5, <1>17, TermWalkOn DEF t2
  <2> QED BY <1>1, <2>1
<1>20. TermWalk(t2, W \o X) = t4 BY <1>5, <1>6, TermWalkOn DEF t3, t4
<1> QED BY <1>2, <1>14, <1>16, <1>17, <1>18, <1>19, <1>20

\* The preamble puts a reset terminal into the modes it is made of.
LEMMA PreambleWalk ==
  ASSUME NEW ms \in Modes
  PROVE  Preamble(ms) \in Seq(Byte) /\ Grounded(TermWalk(NewModeScanner, Preamble(ms)), ms)
<1> DEFINE A == IF ms.alt = "" THEN <<>> ELSE <<"ESC", "[", "?", ms.alt, "h">>
           K == IF ms.keypad THEN <<"ESC", "=">> ELSE <<>>
           W == IF ms.wrapOff THEN <<"ESC", "[", "?", "7", "l">> ELSE <<>>
           t0 == NewModeScanner
           t1 == TermWalk(t0, A)
           t2 == TermWalk(t1, K)
           t3 == TermWalk(t2, W)
<1>0. /\ ms.alt \in AltSpelling \cup {""} /\ ms.keypad \in BOOLEAN /\ ms.wrapOff \in BOOLEAN
      /\ ms = [alt |-> ms.alt, keypad |-> ms.keypad, wrapOff |-> ms.wrapOff]
  BY ModesFields
<1>1. <<>> \in Seq(Byte) /\ \A t : TermWalk(t, <<>>) = t BY EmptySeq, TermByte
<1>2. Preamble(ms) = (A \o K) \o W BY DEF Preamble
<1>3. t0 \in Terminals /\ t0.st = "ground" /\ t0.modes = Reset BY NewTerminal
<1>4. A \in Seq(Byte) /\ Grounded(t1, [alt |-> ms.alt, keypad |-> FALSE, wrapOff |-> FALSE])
  <2>1. CASE ms.alt = ""
    <3>1. A = <<>> BY <2>1
    <3>2. t1 = t0 BY <1>1, <3>1
    <3> HIDE DEF A, t1, t0
    <3> QED BY <1>1, <1>3, <2>1, <3>1, <3>2 DEF Grounded, Reset
  <2>2. CASE ms.alt # ""
    <3>1. ms.alt \in Digits /\ ms.alt \in AltSpelling BY <1>0, <2>2 DEF Digits
    <3> DEFINE seq == <<"ESC", "[", "?", ms.alt, "h">>
    <3>2. A = seq BY <2>2
    <3>3. seq \in Seq(Byte) /\ Grounded(TermWalk(t0, seq), Apply(t0.modes, <<ms.alt>>, SetBy("h")))
      BY <1>3, <3>1, SwitchSequence
    <3>4. Apply(t0.modes, <<ms.alt>>, SetBy("h")) = [alt |-> ms.alt, keypad |-> FALSE, wrapOff |-> FALSE]
      <4> DEFINE ps == <<ms.alt>>
      <4>1. Len(ps) = 1 /\ ps[1] = ms.alt OBVIOUS
      <4> HIDE DEF ps, t0
      <4>2. Apply(t0.modes, ps, SetBy("h")) = [Reset EXCEPT !.alt = ms.alt]
        BY <1>3, <3>1, <4>1 DEF Apply, SetBy
      <4>3. Apply(t0.modes, ps, SetBy("h")) = [alt |-> ms.alt, keypad |-> FALSE, wrapOff |-> FALSE]
        BY <4>2 DEF Reset
      <4> QED BY <4>3 DEF ps
    <3> HIDE DEF seq, t0, A
    <3> QED BY <3>2, <3>3, <3>4
  <2> QED BY <2>1, <2>2
<1> HIDE DEF t0, t1, A
<1>5. t1 \in Terminals /\ t1.st = "ground"
      /\ t1.modes = [alt |-> ms.alt, keypad |-> FALSE, wrapOff |-> FALSE]
  BY <1>4 DEF Grounded
<1>6. K \in Seq(Byte) /\ Grounded(t2, [alt |-> ms.alt, keypad |-> ms.keypad, wrapOff |-> FALSE])
  <2>1. CASE ~ms.keypad
    <3>1. K = <<>> /\ ms.keypad = FALSE BY <1>0, <2>1
    <3>2. t2 = t1 BY <1>1, <3>1
    <3> HIDE DEF K, t2
    <3> QED BY <1>1, <1>5, <3>1, <3>2 DEF Grounded
  <2>2. CASE ms.keypad
    <3>1. K = <<"ESC", "=">> /\ ms.keypad = TRUE BY <1>0, <2>2
    <3>2. <<"ESC", "=">> \in Seq(Byte) /\ Grounded(TermWalk(t1, <<"ESC", "=">>), Keypad(t1.modes, "="))
      BY <1>5, KeypadSequence
    <3>3. Keypad(t1.modes, "=") = [t1.modes EXCEPT !.keypad = TRUE] BY DEF Keypad
    <3>4. Keypad(t1.modes, "=") = [alt |-> ms.alt, keypad |-> TRUE, wrapOff |-> FALSE]
      <4>1. t1.modes \in Modes BY <1>5 DEF Terminals
      <4> DEFINE r == t1.modes
                 q == Keypad(t1.modes, "=")
      <4>2. r \in Modes /\ q = [r EXCEPT !.keypad = TRUE] BY <3>3, <4>1
      <4>3. r.alt = ms.alt /\ r.wrapOff = FALSE BY <1>5
      <4> HIDE DEF q, r
      <4>4. q \in Modes /\ q.alt = ms.alt /\ q.keypad = TRUE /\ q.wrapOff = FALSE
        BY <4>2, <4>3 DEF Modes
      <4>5. q = [alt |-> ms.alt, keypad |-> TRUE, wrapOff |-> FALSE] BY <4>4, ModesFields
      <4> QED BY <4>5 DEF q
    <3> HIDE DEF K
    <3> QED BY <3>1, <3>2, <3>4
  <2> QED BY <2>1, <2>2
<1> HIDE DEF t2, K
<1>7. t2 \in Terminals /\ t2.st = "ground"
      /\ t2.modes = [alt |-> ms.alt, keypad |-> ms.keypad, wrapOff |-> FALSE]
  BY <1>6 DEF Grounded
<1>8. W \in Seq(Byte) /\ Grounded(t3, [alt |-> ms.alt, keypad |-> ms.keypad, wrapOff |-> ms.wrapOff])
  <2>1. CASE ~ms.wrapOff
    <3>1. W = <<>> /\ ms.wrapOff = FALSE BY <1>0, <2>1
    <3>2. t3 = t2 BY <1>1, <3>1
    <3> HIDE DEF W, t3
    <3> QED BY <1>1, <1>7, <3>1, <3>2 DEF Grounded
  <2>2. CASE ms.wrapOff
    <3> DEFINE seq == <<"ESC", "[", "?", "7", "l">>
    <3>1. W = seq /\ ms.wrapOff = TRUE BY <1>0, <2>2
    <3>2. "7" \in Digits /\ "7" \notin AltSpelling BY DEF Digits, AltSpelling
    <3>3. seq \in Seq(Byte) /\ Grounded(TermWalk(t2, seq), Apply(t2.modes, <<"7">>, SetBy("l")))
      BY <1>7, <3>2, SwitchSequence
    <3>4. Apply(t2.modes, <<"7">>, SetBy("l")) = [t2.modes EXCEPT !.wrapOff = TRUE]
      <4>1. Len(<<"7">>) = 1 /\ <<"7">>[1] = "7" OBVIOUS
      <4> QED BY <3>2, <4>1 DEF Apply, SetBy
    <3>5. Apply(t2.modes, <<"7">>, SetBy("l")) = [alt |-> ms.alt, keypad |-> ms.keypad, wrapOff |-> TRUE]
      <4>1. t2.modes \in Modes BY <1>7 DEF Terminals
      <4> DEFINE r == t2.modes
                 q == Apply(t2.modes, <<"7">>, SetBy("l"))
      <4>2. r \in Modes /\ q = [r EXCEPT !.wrapOff = TRUE] BY <3>4, <4>1
      <4>3. r.alt = ms.alt /\ r.keypad = ms.keypad BY <1>7
      <4> HIDE DEF q, r
      <4>4. q \in Modes /\ q.alt = ms.alt /\ q.keypad = ms.keypad /\ q.wrapOff = TRUE
        BY <4>2, <4>3 DEF Modes
      <4>5. q = [alt |-> ms.alt, keypad |-> ms.keypad, wrapOff |-> TRUE] BY <4>4, ModesFields
      <4> QED BY <4>5 DEF q
    <3> HIDE DEF W, seq
    <3> QED BY <3>1, <3>3, <3>5
  <2> QED BY <2>1, <2>2
<1> HIDE DEF t3, W
<1>9. A \o K \in Seq(Byte) /\ (A \o K) \o W \in Seq(Byte) BY <1>4, <1>6, <1>8, ConcatProperties
<1>10. TermWalk(t0, A \o K) = t2 BY <1>4, <1>6, TermWalkOn DEF t1, t2
<1>11. TermWalk(t0, (A \o K) \o W) = t3 BY <1>8, <1>9, <1>10, TermWalkOn DEF t3
<1> QED BY <1>0, <1>2, <1>8, <1>9, <1>11 DEF t0

-----------------------------------------------------------------------------
(* What the ring holds                                                     *)

\* What a write leaves in the ring buffer is the end of the output still, and all of
\* it, or as much as the buffer holds.
EndOfOutput(whole, buf) ==
  /\ buf \in Seq(Byte)
  /\ \E lost \in Seq(Byte) : whole = lost \o buf /\ (lost # <<>> => Len(buf) = RingSize)

\* Write keeps it so.
LEMMA WrittenIs ==
  ASSUME NEW whole, NEW buf, EndOfOutput(whole, buf), NEW data \in Seq(Byte)
  PROVE  EndOfOutput(whole \o data, Written(buf, data))
<1> DEFINE all == buf \o data
           n == Len(all)
           r == Written(buf, data)
<1>0. RingSize \in Nat /\ RingSize # 0 BY ConstantsAssumption
<1>1. buf \in Seq(Byte) BY DEF EndOfOutput
<1>2. PICK lost \in Seq(Byte) : whole = lost \o buf /\ (lost # <<>> => Len(buf) = RingSize)
  BY DEF EndOfOutput
<1>3. all \in Seq(Byte) /\ n = Len(buf) + Len(data) /\ Len(buf) \in Nat /\ Len(data) \in Nat
  BY <1>1, ConcatProperties, LenProperties
<1>4. whole \o data = lost \o all BY <1>1, <1>2, ConcatAssociative
<1>5. r = SubSeq(all, IF n > RingSize THEN n - RingSize + 1 ELSE 1, n) BY DEF Written
<1>6. \A k \in 1..n : all[k] \in Byte BY <1>3, ElementOfSeq
<1> HIDE DEF all, r
<1>7. CASE n > RingSize
  <2> DEFINE k == n - RingSize
             a == SubSeq(all, 1, k)
  <2>1. k \in 0..n /\ k \in 1..n /\ k + 1 \in 1..n /\ n \in k..n BY <1>0, <1>3, <1>7
  <2>2. r = SubSeq(all, k + 1, n) BY <1>5, <1>7
  <2>3. a \o SubSeq(all, k + 1, n) = SubSeq(all, 1, n)
    <3>1. 1 \in 1..Len(all) + 1 /\ k \in 1 - 1..Len(all) /\ n \in k..Len(all) BY <1>3, <2>1
    <3> HIDE DEF k, n
    <3> QED BY <1>3, <3>1, ConcatAdjacentSubSeq
  <2>4. SubSeq(all, 1, n) = all BY <1>3, SubSeqFull
  <2>5. r \in Seq(Byte) /\ Len(r) = RingSize
    <3>1. k + 1 \in Int /\ n \in Int /\ \A i \in k + 1..n : i \in 1..n BY <1>0, <1>3, <2>1
    <3>2. \A i \in k + 1..n : all[i] \in Byte BY <1>6, <3>1
    <3>3. SubSeq(all, k + 1, n) \in Seq(Byte)
          /\ Len(SubSeq(all, k + 1, n)) = (IF k + 1 <= n THEN n - (k + 1) + 1 ELSE 0)
      BY <3>1, <3>2, SubSeqProperties
    <3>4. k + 1 <= n /\ n - (k + 1) + 1 = RingSize BY <1>0, <1>3, <2>1
    <3> QED BY <2>2, <3>3, <3>4
  <2>6. a \in Seq(Byte)
    <3>1. 1 \in Int /\ k \in Int /\ \A i \in 1..k : i \in 1..n BY <1>0, <1>3, <2>1
    <3>2. \A i \in 1..k : all[i] \in Byte BY <1>6, <3>1
    <3> QED BY <3>1, <3>2, SubSeqProperties
  <2> HIDE DEF a, k
  <2>7. whole \o data = (lost \o a) \o r
    <3>1. all = a \o r BY <2>2, <2>3, <2>4
    <3>2. (lost \o a) \o r = lost \o (a \o r) BY <1>2, <2>5, <2>6, ConcatAssociative
    <3> QED BY <1>4, <3>1, <3>2
  <2>8. lost \o a \in Seq(Byte) BY <1>2, <2>6, ConcatProperties
  <2>9. EndOfOutput(whole \o data, r) BY <2>5, <2>7, <2>8 DEF EndOfOutput
  <2> QED BY <2>9 DEF r
<1>8. CASE ~(n > RingSize)
  <2>1. r = all BY <1>3, <1>5, <1>8, SubSeqFull
  <2>2. lost # <<>> => Len(r) = RingSize BY <1>0, <1>2, <1>3, <1>8, <2>1
  <2>3. EndOfOutput(whole \o data, r) BY <1>2, <1>3, <1>4, <2>1, <2>2 DEF EndOfOutput
  <2> QED BY <2>3 DEF r
<1> QED BY <1>7, <1>8

\* What the session and its scanners keep of the output.
BufferInv ==
  /\ ModeInv
  /\ EndOfOutput(output, session.buffer)

LEMMA BufferSpec == ScannersSpec => []BufferInv
<1>1. ScannersInit => BufferInv
  <2> SUFFICES ASSUME ScannersInit PROVE BufferInv OBVIOUS
  <2>1. ModeInv BY ModeInit
  <2>2. output = <<>> /\ session.buffer = <<>> /\ unread = <<>> BY DEF ScannersInit
  <2>3. <<>> \in Seq(Byte) /\ <<>> \o <<>> = <<>> BY EmptySeq, ConcatEmptySeq
  <2>4. EndOfOutput(<<>>, <<>>) BY <2>3 DEF EndOfOutput
  <2> QED BY <2>1, <2>2, <2>4 DEF BufferInv
<1>2. BufferInv /\ [ScannersNext]_scannerVars => BufferInv'
  <2> SUFFICES ASSUME BufferInv, [ScannersNext]_scannerVars PROVE BufferInv' OBVIOUS
  <2>1. ModeInv' /\ ModeInv BY ModeNext DEF BufferInv
  <2>2. EndOfOutput(output, session.buffer) BY DEF BufferInv
  <2>3. PICK buf, ms, old : session = [buffer |-> buf, modes |-> ms, title |-> old]
    BY <2>1 DEF ModeInv
  <2>4. CASE Broadcast
    <3>1. PICK n \in 1..MaxRead : \E data \in Reads(n) :
            /\ output' = output \o data /\ unread' = data
            /\ session' = [session EXCEPT !.buffer = Written(@, data)]
      BY <2>4 DEF Broadcast
    <3>2. PICK data \in Reads(n) :
            /\ output' = output \o data /\ unread' = data
            /\ session' = [session EXCEPT !.buffer = Written(@, data)]
      BY <3>1
    <3>3. data \in Seq(Byte)
      <4>1. n \in Nat /\ n # 0 BY ConstantsAssumption
      <4> QED BY <4>1, ReadsAreBytes
    <3>4. session'.buffer = Written(session.buffer, data) BY <2>3, <3>2
    <3>5. EndOfOutput(output \o data, Written(session.buffer, data)) BY <2>2, <3>3, WrittenIs
    <3>6. EndOfOutput(output', session'.buffer) BY <3>2, <3>4, <3>5
    <3> QED BY <2>1, <3>6 DEF BufferInv
  <2>5. CASE Scan
    <3>1. unread' = <<>> /\ output' = output BY <2>5 DEF Scan
    <3>2. session'.buffer = session.buffer
      <4> DEFINE new == IF title'.title = {} THEN old ELSE CHOOSE t \in title'.title : TRUE
      <4>1. session' = [session EXCEPT !.modes = mode'.modes, !.title = new]
        BY <2>3, <2>5 DEF Scan
      <4> HIDE DEF new
      <4> QED BY <2>3, <4>1
    <3> QED BY <2>1, <2>2, <3>1, <3>2 DEF BufferInv
  <2>6. CASE UNCHANGED scannerVars
    BY <2>1, <2>2, <2>6 DEF BufferInv, scannerVars
  <2> QED BY <2>4, <2>5, <2>6 DEF ScannersNext
<1> QED BY <1>1, <1>2, PTL DEF ScannersSpec

\* The next shell starts on a terminal in its reset state, and the separator leaves
\* the alternate screen only of a terminal that is on it (endsInAltScreen,
\* restoreSeparator).
THEOREM TheSeparatorResets == ScannersSpec => []SeparatorResets
<1>1. BufferInv => SeparatorResets
  <2> SUFFICES ASSUME BufferInv, ~CutShort(session.buffer), ~Doubled(session.buffer)
               PROVE  /\ TerminalModes(Reseeded) = Reset
                      /\ EndsInAltScreen(session.buffer) <=> TerminalModes(session.buffer).alt # ""
    BY DEF SeparatorResets
  <2> DEFINE buf == session.buffer
             inAlt == EndsInAltScreen(buf)
             t == TermWalk(NewModeScanner, buf)
             sep == RestoreSeparator(inAlt)
  <2>1. buf \in Seq(Byte) BY DEF BufferInv, EndOfOutput
  <2>2. Plain(buf) BY <2>1, PlainOf
  <2>3. ModeWalk(NewModeScanner, buf).modes = TerminalModes(buf) BY <2>1, <2>2, ModesMirror
  <2>4. inAlt = (TerminalModes(buf).alt # "") BY <2>3 DEF EndsInAltScreen, ModeWalk
  <2>5. Follows(t, buf) BY <2>1, TerminalIs
  <2>6. t \in Terminals /\ t.modes = TerminalModes(buf) BY <2>5 DEF Follows
  <2> HIDE DEF t, inAlt
  <2>7. inAlt \in BOOLEAN /\ (~inAlt => t.modes.alt = "") BY <2>4, <2>6
  <2>8. sep \in Seq(Byte) /\ TermWalk(t, sep).modes = Reset BY <2>6, <2>7, SeparatorWalk
  <2>9. Reseeded = buf \o sep BY DEF Reseeded, inAlt
  <2> HIDE DEF buf, sep
  <2>10. TermWalk(NewModeScanner, buf \o sep).modes = Reset BY <2>1, <2>8, TermWalkOn DEF t
  <2>11. buf \o sep \in Seq(Byte) BY <2>1, <2>8, ConcatProperties
  <2>12. TerminalModes(buf \o sep) = Reset BY <2>10, <2>11, TerminalIs DEF Follows
  <2> QED BY <2>4, <2>9, <2>12 DEF buf, inAlt
<1> QED BY <1>1, BufferSpec, PTL

-----------------------------------------------------------------------------
(* Catching up                                                             *)

\* The first half of AttachRestores.
ModesFollow ==
  ~CutShort(output) /\ ~Doubled(output) /\ unread = <<>> => session.modes = TerminalModes(output)

\* The modes of the session are those of a terminal that was given all of the output.
LEMMA ModesDoFollow == ModeInv => ModesFollow
<1> SUFFICES ASSUME ModeInv, ~CutShort(output), ~Doubled(output), unread = <<>>
             PROVE  session.modes = TerminalModes(output)
  BY DEF ModesFollow
<1>1. PICK s \in Seq(Byte) : output = s \o unread /\ mode = ModeWalk(NewModeScanner, s)
  BY DEF ModeInv
<1>2. output = s BY <1>1, ConcatEmptySeq
<1>3. session.modes = mode.modes BY DEF ModeInv
<1> QED BY <1>1, <1>2, <1>3, PlainOf, ModesMirror

\* Each of the modes ms is as in ns, or as in M.
Mixed(ms, ns, M) ==
  /\ ms.alt = ns.alt \/ ms.alt = M.alt
  /\ ms.keypad = ns.keypad \/ ms.keypad = M.keypad
  /\ ms.wrapOff = ns.wrapOff \/ ms.wrapOff = M.wrapOff

\* What a sequence does to modes, it does to modes that are mixed.
LEMMA KeypadMixed ==
  ASSUME NEW ms \in Modes, NEW ns \in Modes, NEW M, Mixed(ms, ns, M), NEW b
  PROVE  Mixed(Keypad(ms, b), Keypad(ns, b), M)
<1>1. CASE b \in {"=", ">"}
  <2> DEFINE x == (b = "=")
             r == Keypad(ms, b)
             q == Keypad(ns, b)
  <2>1. r = [ms EXCEPT !.keypad = x] /\ q = [ns EXCEPT !.keypad = x] BY <1>1 DEF Keypad
  <2> HIDE DEF x, r, q
  <2>2. r.alt = ms.alt /\ r.wrapOff = ms.wrapOff /\ r.keypad = x BY <2>1 DEF Modes
  <2>3. q.alt = ns.alt /\ q.wrapOff = ns.wrapOff /\ q.keypad = x BY <2>1 DEF Modes
  <2>4. Mixed(r, q, M) BY <2>2, <2>3 DEF Mixed
  <2> QED BY <2>4 DEF r, q
<1>2. CASE b \notin {"=", ">"}
  BY <1>2 DEF Keypad
<1> QED BY <1>1, <1>2

\* What the same parameters do to both.
LEMMA DecidedMixed ==
  ASSUME NEW ms, NEW ns, NEW M, Mixed(ms, ns, M), NEW ps, NEW k \in Nat, DOMAIN ps = 1..k,
         NEW set \in BOOLEAN, NEW r, NEW q, Decided(r, ms, ps, set), Decided(q, ns, ps, set)
  PROVE  Mixed(r, q, M)
<1> DEFINE A == {n \in 1..k : SwitchesOne(ps, n, AltSpelling)}
<1>0. \A n : SwitchesOne(ps, n, AltSpelling) => n \in 1..k BY DEF SwitchesOne
<1>1. r.alt = q.alt \/ r.alt = M.alt
  <2>1. CASE A = {}
    <3>1. r.alt = ms.alt /\ q.alt = ns.alt BY <1>0, <2>1 DEF Decided
    <3> QED BY <3>1 DEF Mixed
  <2>2. CASE A # {}
    <3>1. PICK n \in A : \A m \in A : m <= n
      <4> DEFINE B == {k - n : n \in A}
      <4>1. B \in SUBSET Nat /\ B # {} BY <2>2
      <4>2. Least(B) \in B /\ \A y \in B : Least(B) <= y
        <5> HIDE DEF B
        <5> QED BY <4>1, LeastOf
      <4>3. PICK n \in A : Least(B) = k - n BY <4>2
      <4>4. \A m \in A : k - n <= k - m BY <4>2, <4>3
      <4>5. \A m \in A : m <= n BY <4>4
      <4> QED BY <4>5
    <3>2. SwitchesOne(ps, n, AltSpelling) /\ \A m : SwitchesOne(ps, m, AltSpelling) => m <= n
      BY <1>0, <3>1
    <3>3. r.alt = On(set, ps[n][1]) /\ q.alt = On(set, ps[n][1]) BY <3>2 DEF Decided
    <3> QED BY <3>3
  <2> QED BY <2>1, <2>2
<1>2. r.keypad = q.keypad \/ r.keypad = M.keypad BY DEF Decided, Mixed
<1>3. r.wrapOff = q.wrapOff \/ r.wrapOff = M.wrapOff
  <2>1. CASE \E n : SwitchesOne(ps, n, {"7"})
    <3>1. r.wrapOff \in BOOLEAN /\ r.wrapOff # set /\ q.wrapOff \in BOOLEAN /\ q.wrapOff # set
      BY <2>1 DEF Decided
    <3> QED BY <3>1
  <2>2. CASE \A n : ~SwitchesOne(ps, n, {"7"})
    <3>1. r.wrapOff = ms.wrapOff /\ q.wrapOff = ns.wrapOff BY <2>2 DEF Decided
    <3> QED BY <3>1 DEF Mixed
  <2> QED BY <2>1, <2>2
<1> QED BY <1>1, <1>2, <1>3 DEF Mixed

LEMMA CompletedMixed ==
  ASSUME NEW ms \in Modes, NEW ns \in Modes, NEW M, Mixed(ms, ns, M),
         NEW run \in Seq(Byte), NEW b \in Byte
  PROVE  Mixed(Completed(ms, run, b), Completed(ns, run, b), M)
<1> DEFINE ps == IF b \in {"h", "l"} /\ Len(run) \in 1..MaxParams /\ Head(run) = "?"
                 THEN SplitParams(Tail(run)) ELSE <<>>
           r == Completed(ms, run, b)
           q == Completed(ns, run, b)
<1>1. \E k \in Nat : DOMAIN ps = 1..k
  <2>1. CASE b \in {"h", "l"} /\ Len(run) \in 1..MaxParams /\ Head(run) = "?"
    <3>1. run # <<>> BY <2>1, EmptySeq
    <3>2. Tail(run) \in Seq(Byte) BY <3>1, HeadTailProperties
    <3>3. ps = SplitParams(Tail(run)) BY <2>1
    <3> HIDE DEF ps
    <3> QED BY <3>2, <3>3, SplitNumbered
  <2>2. CASE ~(b \in {"h", "l"} /\ Len(run) \in 1..MaxParams /\ Head(run) = "?")
    <3>1. ps = <<>> BY <2>2
    <3>2. DOMAIN <<>> = 1..0 BY EmptySeq
    <3> QED BY <3>1, <3>2
  <2> QED BY <2>1, <2>2
<1>2. ps = IF b \in {"h", "l"} /\ Len(run) \in 1..MaxParams /\ Head(run) = "?"
           THEN SplitParams(Tail(run)) ELSE <<>>
  OBVIOUS
<1>3. r = Completed(ms, run, b) /\ q = Completed(ns, run, b) OBVIOUS
<1> HIDE DEF ps, r, q
<1>4. Decided(r, ms, ps, SetBy(b)) BY <1>2, <1>3, CompletedIs
<1>5. Decided(q, ns, ps, SetBy(b)) BY <1>2, <1>3, CompletedIs
<1>6. SetBy(b) \in BOOLEAN BY DEF SetBy
<1>7. Mixed(r, q, M) BY <1>1, <1>4, <1>5, <1>6, DecidedMixed
<1> QED BY <1>3, <1>7

\* Two terminals are in the middle of the same, u with each mode as t has it or as in M.
\* The terminals t and u take the next byte for the same; u has been given M first.
Level(t, u, M) == t.st = u.st /\ t.params = u.params /\ Mixed(u.modes, t.modes, M)

\* u has seen n bytes that t takes for the parameters of a sequence begun before them.
Behind(t, u, M, n) ==
  /\ u.st = "ground" /\ u.modes = M
  /\ \/ t.st = "esc" /\ n = 0
     \/ t.st = "csi" /\ (TooLong(t.params) \/ Len(t.params) >= n - 1)

\* From now on t and u are in the same modes, though t may be in a sequence still
\* that has got too long to count.
Even(t, u, M) ==
  \/ t = u
  \/ /\ u.st = "ground" /\ u.modes = M
     /\ t.st = "csi" /\ TooLong(t.params) /\ t.modes = M

\* Terminals that are level stay level.
LEMMA LevelByte ==
  ASSUME NEW t \in Terminals, NEW u \in Terminals, NEW M, Level(t, u, M), NEW b \in Byte
  PROVE  Level(TermStep(t, b), TermStep(u, b), M)
<1> DEFINE tn == TermStep(t, b)
           un == TermStep(u, b)
<1> SUFFICES Level(tn, un, M) OBVIOUS
<1>1. TermStepped(tn, t, b) /\ TermStepped(un, u, b) BY TermStepsTo
<1>2. t.st = u.st /\ t.params = u.params /\ Mixed(u.modes, t.modes, M) BY DEF Level
<1>3. t.st \in {"ground", "esc", "csi"} /\ t.modes \in Modes /\ u.modes \in Modes /\ t.params \in Seq(Byte)
  BY DEF Terminals
<1> HIDE DEF tn, un
<1>4. CASE b = "ESC"
  BY <1>1, <1>2, <1>4 DEF TermStepped, Level
<1>5. CASE b # "ESC" /\ t.st = "esc"
  <2>1. Mixed(Keypad(u.modes, b), Keypad(t.modes, b), M) BY <1>2, <1>3, KeypadMixed
  <2> QED BY <1>1, <1>2, <1>5, <2>1 DEF TermStepped, Level
<1>6. CASE t.st = "csi" /\ b \in FinalByte
  <2>1. Mixed(Completed(u.modes, u.params, b), Completed(t.modes, t.params, b), M)
    BY <1>2, <1>3, CompletedMixed
  <2> QED BY <1>1, <1>2, <1>6, <2>1 DEF TermStepped, Level
<1>7. CASE t.st = "csi" /\ b \in ParamByte
  BY <1>1, <1>2, <1>7 DEF TermStepped, Level
<1>8. CASE b # "ESC" /\ (t.st = "ground" \/ (t.st = "csi" /\ b \notin FinalByte \cup ParamByte))
  BY <1>1, <1>2, <1>8 DEF TermStepped, Level
<1> QED BY <1>3, <1>4, <1>5, <1>6, <1>7, <1>8

\* As long as u is behind, it is in ground: what ends t's sequence brings t there.
LEMMA BehindByte ==
  ASSUME NEW t \in Terminals, NEW u \in Terminals, NEW M \in Modes, NEW n \in Nat,
         Behind(t, u, M, n), NEW b \in Byte
  PROVE  Level(TermStep(t, b), TermStep(u, b), M) \/ Behind(TermStep(t, b), TermStep(u, b), M, n + 1)
<1> DEFINE tn == TermStep(t, b)
           un == TermStep(u, b)
<1> SUFFICES Level(tn, un, M) \/ Behind(tn, un, M, n + 1) OBVIOUS
<1>1. TermStepped(tn, t, b) /\ TermStepped(un, u, b) BY TermStepsTo
<1>2. /\ u.st = "ground" /\ u.modes = M
      /\ \/ t.st = "esc" /\ n = 0
         \/ t.st = "csi" /\ (TooLong(t.params) \/ Len(t.params) >= n - 1)
  BY DEF Behind
<1>3. t.params \in Seq(Byte) /\ MaxParams \in Nat BY ConstantsAssumption DEF Terminals
<1> HIDE DEF tn, un
<1>4. \A ms : Mixed(M, ms, M) BY DEF Mixed
<1>5. CASE b = "ESC"
  BY <1>1, <1>2, <1>4, <1>5 DEF TermStepped, Level
<1>6. CASE b # "ESC"
  <2>1. un.st = "ground" /\ un.params = <<>> /\ un.modes = M BY <1>1, <1>2, <1>6 DEF TermStepped
  <2>2. CASE t.st = "esc" /\ n = 0
    <3>1. tn.st = (IF b = "[" THEN "csi" ELSE "ground") /\ tn.params = <<>>
      BY <1>1, <1>6, <2>2 DEF TermStepped
    <3>2. CASE b = "["
      <4>1. Len(<<>>) = 0 /\ Len(tn.params) >= (n + 1) - 1 BY <2>2, <3>1
      <4> QED BY <2>1, <3>1, <3>2, <4>1 DEF Behind
    <3>3. CASE b # "["
      BY <1>4, <2>1, <3>1, <3>3 DEF Level
    <3> QED BY <3>2, <3>3
  <2>3. CASE t.st = "csi" /\ (TooLong(t.params) \/ Len(t.params) >= n - 1)
    <3>1. CASE b \in ParamByte
      <4>1. tn.st = "csi" /\ tn.params = Collected(t.params, b) BY <1>1, <2>3, <3>1 DEF TermStepped
      <4>2. Len(Append(t.params, b)) = Len(t.params) + 1 /\ Len(t.params) \in Nat
        BY <1>3, LenProperties, AppendProperties
      <4>3. TooLong(tn.params) \/ Len(tn.params) >= (n + 1) - 1
        <5>1. CASE TooLong(t.params)
          BY <4>1, <5>1 DEF Collected, TooLong
        <5>2. CASE ~TooLong(t.params)
          <6>1. tn.params = Append(t.params, b) BY <4>1, <5>2 DEF Collected, TooLong
          <6> QED BY <2>3, <4>2, <5>2, <6>1
        <5> QED BY <5>1, <5>2
      <4> QED BY <2>1, <4>1, <4>3 DEF Behind
    <3>2. CASE b \in FinalByte
      <4>1. tn.st = "ground" /\ tn.params = <<>> BY <1>1, <2>3, <3>2 DEF TermStepped
      <4> QED BY <1>4, <2>1, <4>1 DEF Level
    <3>3. CASE b \notin FinalByte \cup ParamByte
      <4>1. tn.st = "ground" /\ tn.params = <<>> BY <1>1, <1>6, <2>3, <3>3 DEF TermStepped
      <4> QED BY <1>4, <2>1, <4>1 DEF Level
    <3> QED BY <3>1, <3>2, <3>3
  <2> QED BY <1>2, <2>2, <2>3
<1> QED BY <1>5, <1>6

\* A terminal is what its fields are.
LEMMA SameTerminal ==
  ASSUME NEW t \in Terminals, NEW u \in Terminals, t.st = u.st, t.params = u.params, t.modes = u.modes
  PROVE  t = u
  BY DEF Terminals

LEMMA EvenByte ==
  ASSUME NEW t \in Terminals, NEW u \in Terminals, NEW M, Even(t, u, M), NEW b \in Byte
  PROVE  Even(TermStep(t, b), TermStep(u, b), M)
<1> DEFINE tn == TermStep(t, b)
           un == TermStep(u, b)
<1> SUFFICES Even(tn, un, M) OBVIOUS
<1>1. TermStepped(tn, t, b) /\ TermStepped(un, u, b) BY TermStepsTo
<1>2. tn \in Terminals /\ un \in Terminals BY <1>1 DEF TermStepped
<1>3. t = u => tn = un OBVIOUS
<1> HIDE DEF tn, un
<1>4. CASE t # u
  <2>1. /\ u.st = "ground" /\ u.modes = M /\ t.st = "csi" /\ TooLong(t.params) /\ t.modes = M
    BY <1>4 DEF Even
  <2>2. CASE b = "ESC"
    BY <1>1, <1>2, <2>1, <2>2, SameTerminal DEF TermStepped, Even
  <2>3. CASE b # "ESC"
    <3>1. un.st = "ground" /\ un.params = <<>> /\ un.modes = M BY <1>1, <2>1, <2>3 DEF TermStepped
    <3>2. CASE b \in ParamByte
      <4>1. tn.st = "csi" /\ tn.params = t.params /\ tn.modes = M
        BY <1>1, <2>1, <3>2 DEF TermStepped, Collected, TooLong
      <4> QED BY <2>1, <3>1, <4>1 DEF Even
    <3>3. CASE b \in FinalByte
      <4>1. Completed(M, t.params, b) = M BY <2>1 DEF Completed
      <4>2. tn.st = "ground" /\ tn.params = <<>> /\ tn.modes = M
        BY <1>1, <2>1, <3>3, <4>1 DEF TermStepped
      <4> QED BY <1>2, <3>1, <4>2, SameTerminal DEF Even
    <3>4. CASE b \notin FinalByte \cup ParamByte
      <4>2. tn.st = "ground" /\ tn.params = <<>> /\ tn.modes = M
        BY <1>1, <2>1, <2>3, <3>4 DEF TermStepped
      <4> QED BY <1>2, <3>1, <4>2, SameTerminal DEF Even
    <3> QED BY <3>2, <3>3, <3>4
  <2> QED BY <2>2, <2>3
<1> QED BY <1>3, <1>4 DEF Even

\* A walk leaves a terminal.
LEMMA WalkIsTerminal ==
  ASSUME NEW t \in Terminals
  PROVE  \A s \in Seq(Byte) : TermWalk(t, s) \in Terminals
<1> DEFINE S == {s \in Seq(Byte) : TermWalk(t, s) \in Terminals}
<1>1. <<>> \in S BY EmptySeq, TermByte
<1>2. ASSUME NEW s \in Seq(Byte), NEW b \in Byte, s \in S PROVE Append(s, b) \in S
  <2>1. TermWalk(t, s) \in Terminals BY <1>2
  <2>2. TermStep(TermWalk(t, s), b) \in Terminals BY <2>1, TermStepsTo DEF TermStepped
  <2>3. TermWalk(t, Append(s, b)) = TermStep(TermWalk(t, s), b) BY TermByte
  <2> QED BY <2>2, <2>3, AppendProperties
<1> HIDE DEF S
<1>3. \A s \in Seq(Byte) : s \in S BY <1>1, <1>2, PrefixInduction
<1> QED BY <1>3 DEF S

\* What is the matter after s, for a terminal u that begins in the modes M.
\* A terminal given M and a terminal in any state get level over the bytes they are both
\* given, or one is in a sequence that the other has not seen the beginning of.
LEMMA Approach ==
  ASSUME NEW t \in Terminals, NEW u, NEW M \in Modes, Grounded(u, M)
  PROVE  \A s \in Seq(Byte) : \/ Level(TermWalk(t, s), TermWalk(u, s), M)
                              \/ Behind(TermWalk(t, s), TermWalk(u, s), M, Len(s))
<1> DEFINE OK(s) == \/ Level(TermWalk(t, s), TermWalk(u, s), M)
                    \/ Behind(TermWalk(t, s), TermWalk(u, s), M, Len(s))
           S == {s \in Seq(Byte) : OK(s)}
<1>0. u \in Terminals /\ u.st = "ground" /\ u.modes = M /\ u.params = <<>> BY DEF Grounded, Terminals
<1>1. <<>> \in S
  <2>1. TermWalk(t, <<>>) = t /\ TermWalk(u, <<>>) = u /\ <<>> \in Seq(Byte) BY TermByte, EmptySeq
  <2>2. Level(t, u, M) \/ Behind(t, u, M, 0)
    <3>1. t.params \in Seq(Byte) /\ t.st \in {"ground", "esc", "csi"} /\ (t.st # "csi" => t.params = <<>>)
      BY DEF Terminals
    <3>2. Len(t.params) >= 0 - 1 BY <3>1, LenProperties
    <3>3. Mixed(u.modes, t.modes, M) BY <1>0 DEF Mixed
    <3> QED BY <1>0, <3>1, <3>2, <3>3 DEF Level, Behind
  <2>3. Len(<<>>) = 0 BY EmptySeq
  <2>4. OK(<<>>) BY <2>1, <2>2, <2>3
  <2> QED BY <2>1, <2>4
<1>2. ASSUME NEW s \in Seq(Byte), NEW b \in Byte, s \in S PROVE Append(s, b) \in S
  <2> DEFINE a == TermWalk(t, s)
             c == TermWalk(u, s)
             n == Len(s)
  <2>1. a \in Terminals /\ c \in Terminals BY <1>0, WalkIsTerminal
  <2>2. Level(a, c, M) \/ Behind(a, c, M, n) BY <1>2
  <2>3. TermWalk(t, Append(s, b)) = TermStep(a, b) /\ TermWalk(u, Append(s, b)) = TermStep(c, b)
    BY TermByte
  <2>4. Append(s, b) \in Seq(Byte) /\ Len(Append(s, b)) = n + 1 /\ n \in Nat
    BY AppendProperties, LenProperties
  <2> HIDE DEF a, c, n
  <2>5. Level(TermStep(a, b), TermStep(c, b), M) \/ Behind(TermStep(a, b), TermStep(c, b), M, n + 1)
    BY <2>1, <2>2, <2>4, LevelByte, BehindByte
  <2>6. OK(Append(s, b)) BY <2>3, <2>4, <2>5
  <2> HIDE DEF OK
  <2> QED BY <2>4, <2>6
<1> HIDE DEF S
<1>3. \A s \in Seq(Byte) : s \in S BY <1>1, <1>2, PrefixInduction
<1> QED BY <1>3 DEF S

\* Terminals that are even stay even.
LEMMA EvenOn ==
  ASSUME NEW t \in Terminals, NEW u \in Terminals, NEW M, Even(t, u, M)
  PROVE  \A x \in Seq(Byte) : Even(TermWalk(t, x), TermWalk(u, x), M)
<1> DEFINE S == {s \in Seq(Byte) : Even(TermWalk(t, s), TermWalk(u, s), M)}
<1>1. <<>> \in S BY EmptySeq, TermByte
<1>2. ASSUME NEW s \in Seq(Byte), NEW b \in Byte, s \in S PROVE Append(s, b) \in S
  <2> DEFINE a == TermWalk(t, s)
             c == TermWalk(u, s)
  <2>1. a \in Terminals /\ c \in Terminals BY WalkIsTerminal
  <2>2. Even(a, c, M) BY <1>2
  <2>3. TermWalk(t, Append(s, b)) = TermStep(a, b) /\ TermWalk(u, Append(s, b)) = TermStep(c, b)
    BY TermByte
  <2>4. Append(s, b) \in Seq(Byte) BY AppendProperties
  <2> HIDE DEF a, c
  <2>5. Even(TermStep(a, b), TermStep(c, b), M) BY <2>1, <2>2, EvenByte
  <2> QED BY <2>3, <2>4, <2>5
<1> HIDE DEF S
<1>3. \A s \in Seq(Byte) : s \in S BY <1>1, <1>2, PrefixInduction
<1> QED BY <1>3 DEF S

\* A terminal u that is put into the modes M that t is in after s, and then given s,
\* is in t's modes ever after, if s is long enough, or t began as u did.
\* A terminal u that was built for a new client, put into the modes M that hold after s,
\* and given s again, is in the modes that t is in, from then on, whatever comes next.
LEMMA CatchUp ==
  ASSUME NEW t \in Terminals, NEW u, NEW M \in Modes, Grounded(u, M),
         NEW s \in Seq(Byte), TermWalk(t, s).modes = M,
         t.st = "ground" \/ Len(s) >= MaxParams + 2,
         NEW x \in Seq(Byte)
  PROVE  TermWalk(u, s \o x).modes = TermWalk(t, s \o x).modes
<1> DEFINE a == TermWalk(t, s)
           c == TermWalk(u, s)
           n == Len(s)
<1>0. MaxParams \in Nat /\ n \in Nat BY ConstantsAssumption, LenProperties
<1>1. u \in Terminals BY DEF Grounded
<1>2. a \in Terminals /\ c \in Terminals BY <1>1, WalkIsTerminal
<1>3. TermWalk(u, s \o x) = TermWalk(c, x) /\ TermWalk(t, s \o x) = TermWalk(a, x) BY TermWalkOn
<1>4. a.modes = M OBVIOUS
<1>5. Level(a, c, M) \/ Behind(a, c, M, n) BY Approach
<1>6. t.st = "ground" => Level(a, c, M)
  <2> SUFFICES ASSUME t.st = "ground" PROVE Level(a, c, M) OBVIOUS
  <2> DEFINE OK(p) == Level(TermWalk(t, p), TermWalk(u, p), M)
             S == {p \in Seq(Byte) : OK(p)}
  <2>1. <<>> \in S
    <3>1. t.params = <<>> /\ u.params = <<>> /\ u.st = "ground" /\ u.modes = M BY DEF Grounded, Terminals
    <3>2. Mixed(u.modes, t.modes, M) BY <3>1 DEF Mixed
    <3>3. Level(t, u, M) BY <3>1, <3>2 DEF Level
    <3>4. OK(<<>>) BY <3>3, TermByte
    <3> QED BY <3>4, EmptySeq
  <2>2. ASSUME NEW p \in Seq(Byte), NEW b \in Byte, p \in S PROVE Append(p, b) \in S
    <3>1. TermWalk(t, p) \in Terminals /\ TermWalk(u, p) \in Terminals BY <1>1, WalkIsTerminal
    <3>2. Level(TermWalk(t, p), TermWalk(u, p), M) BY <2>2
    <3>3. Level(TermStep(TermWalk(t, p), b), TermStep(TermWalk(u, p), b), M) BY <3>1, <3>2, LevelByte
    <3>4. OK(Append(p, b)) BY <3>3, TermByte
    <3> QED BY <3>4, AppendProperties
  <2> HIDE DEF S
  <2>3. \A p \in Seq(Byte) : p \in S BY <2>1, <2>2, PrefixInduction
  <2> QED BY <2>3 DEF S
<1> HIDE DEF a, c, n
<1>7. Even(a, c, M)
  <2>1. CASE Level(a, c, M)
    <3>1. a.st = c.st /\ a.params = c.params /\ Mixed(c.modes, M, M) BY <1>4, <2>1 DEF Level
    <3>2. c.modes \in Modes /\ M \in Modes BY <1>2 DEF Terminals
    <3>3. c.modes = M
      <4>1. c.modes.alt = M.alt /\ c.modes.keypad = M.keypad /\ c.modes.wrapOff = M.wrapOff
        BY <3>1 DEF Mixed
      <4> QED BY <3>2, <4>1, ModesFields
    <3>4. a = c BY <1>2, <1>4, <3>1, <3>3, SameTerminal
    <3> QED BY <3>4 DEF Even
  <2>2. CASE ~Level(a, c, M)
    <3>1. n >= MaxParams + 2 BY <1>6, <2>2 DEF n
    <3>2. Behind(a, c, M, n) BY <1>5, <2>2
    <3>3. a.st = "csi" /\ (TooLong(a.params) \/ Len(a.params) >= n - 1) /\ c.st = "ground" /\ c.modes = M
      BY <1>0, <3>1, <3>2 DEF Behind
    <3>4. Len(a.params) \in Nat BY <1>2, LenProperties DEF Terminals
    <3>5. TooLong(a.params) BY <1>0, <3>1, <3>3, <3>4 DEF TooLong
    <3> QED BY <1>4, <3>3, <3>5 DEF Even
  <2> QED BY <2>1, <2>2
<1>8. Even(TermWalk(a, x), TermWalk(c, x), M) BY <1>2, <1>7, EvenOn
<1>9. TermWalk(a, x).modes = TermWalk(c, x).modes BY <1>8 DEF Even
<1> QED BY <1>3, <1>9

-----------------------------------------------------------------------------
(* A screen's own walk                                                     *)

\* What has been asked, after a query or no query.
Asking(q, g) == IF q THEN "yes" ELSE g.asked

\* A terminal's own walk, as far as what it draws and whether it has been asked anything
\* go.  A sequence that is cut short hides what follows it, up to the next one.
ScreenStep(g, b) ==
  IF b = "ESC" THEN [g EXCEPT !.st = IF g.st = "string" THEN "stringEsc" ELSE "esc"]
  ELSE CASE g.st = "ground" -> [g EXCEPT !.drawn = Append(@, b)]
         [] g.st = "esc" \/ (g.st = "stringEsc" /\ b # "\\") ->
              [g EXCEPT !.st = Introduced(b), !.run = <<>>, !.intro = b]
         [] g.st = "csi" ->
              (CASE b \in FinalByte ->
                      [g EXCEPT !.st = "ground",
                                !.asked = Asking(~TooLong(g.run) /\ CsiIsQuery(g.run, b), g)]
                 [] b \in ParamByte -> [g EXCEPT !.run = Collected(@, b)]
                 [] OTHER -> [g EXCEPT !.st = "void"])
         [] g.st = "string" /\ b # "BEL" -> [g EXCEPT !.run = Collected(@, b)]
         [] (g.st = "string" /\ b = "BEL") \/ (g.st = "stringEsc" /\ b = "\\") ->
              [g EXCEPT !.st = "ground", !.asked = Asking(StringIsQuery(g.intro, g.run), g)]
         [] g.st = "void" -> g

\* A screen that has been given nothing, and what it can be in.
NewScreen == [st |-> "ground", run |-> <<>>, intro |-> "", drawn |-> <<>>, asked |-> "no"]

Screens == [st: {"ground", "esc", "csi", "string", "stringEsc", "void"}, run: Seq(Byte),
            intro: Byte \cup {""}, drawn: Seq(Byte), asked: {"yes", "no"}]

ScreenWalk(t, bytes) == Walk(ScreenStep, t, bytes)

AreScreens(at, t, data) ==
  /\ ScreenWalk(t, data) = at[Len(data)] /\ at[0] = t
  /\ \A i \in 1..Len(data) : at[i] = ScreenStep(at[i - 1], data[i])

LEMMA ScreenWalks ==
  ASSUME NEW t, NEW data \in Seq(Byte)
  PROVE  \E at : AreScreens(at, t, data)
<1> DEFINE L == Len(data)
           E(g, n) == g = [i \in 0..n |-> IF i = 0 THEN t ELSE ScreenStep(g[i - 1], data[i])]
           S == {n \in Nat : \E g : E(g, n)}
<1>0. L \in Nat BY LenProperties
<1>1. 0 \in S
  <2> DEFINE g == [i \in 0..0 |-> t]
  <2>1. g = [i \in 0..0 |-> IF i = 0 THEN t ELSE ScreenStep(g[i - 1], data[i])] OBVIOUS
  <2>2. E(g, 0) BY <2>1
  <2> QED BY <2>2
<1>2. ASSUME NEW n \in Nat, n \in S PROVE n + 1 \in S
  <2>1. PICK g : E(g, n) BY <1>2
  <2> DEFINE h == [i \in 0..n + 1 |-> IF i = 0 THEN t ELSE ScreenStep(g[i - 1], data[i])]
  <2>2. \A i \in 0..n : h[i] = g[i] BY <2>1
  <2>3. \A i \in 0..n + 1 : i # 0 => h[i - 1] = g[i - 1]
    <3> TAKE i \in 0..n + 1
    <3> HAVE i # 0
    <3>1. i - 1 \in 0..n OBVIOUS
    <3> QED BY <2>2, <3>1
  <2>4. h = [i \in 0..n + 1 |-> IF i = 0 THEN t ELSE ScreenStep(h[i - 1], data[i])] BY <2>3
  <2>5. E(h, n + 1) BY <2>4
  <2> HIDE DEF E, h
  <2> QED BY <2>5
<1>3. L \in S BY <1>0, <1>1, <1>2, SetInduction
<1>4. \E g : E(g, L) BY <1>3
<1> DEFINE at == CHOOSE g : E(g, L)
<1>5. ScreenWalk(t, data) = at[L] BY DEF ScreenWalk, Walk
<1>6. E(at, L) BY <1>4
<1>7. \A i \in 0..L : at[i] = IF i = 0 THEN t ELSE ScreenStep(at[i - 1], data[i]) BY <1>6
<1> HIDE DEF at
<1>8. AreScreens(at, t, data) BY <1>0, <1>5, <1>7 DEF AreScreens
<1> QED BY <1>8

LEMMA ScreenByte ==
  ASSUME NEW t
  PROVE  /\ ScreenWalk(t, <<>>) = t
         /\ \A s \in Seq(Byte) : \A b \in Byte :
              ScreenWalk(t, Append(s, b)) = ScreenStep(ScreenWalk(t, s), b)
<1>1. ScreenWalk(t, <<>>) = t
  <2>1. <<>> \in Seq(Byte) /\ Len(<<>>) = 0 BY EmptySeq
  <2>2. PICK at : AreScreens(at, t, <<>>) BY <2>1, ScreenWalks
  <2> QED BY <2>1, <2>2 DEF AreScreens
<1>2. ASSUME NEW s \in Seq(Byte), NEW b \in Byte
      PROVE  ScreenWalk(t, Append(s, b)) = ScreenStep(ScreenWalk(t, s), b)
  <2> DEFINE u == Append(s, b)
             K == Len(s)
  <2>0. /\ u \in Seq(Byte) /\ K \in Nat /\ Len(u) = K + 1 /\ u[K + 1] = b
        /\ \A k \in 1..K : u[k] = s[k]
    BY OneMore
  <2> HIDE DEF u
  <2>1. PICK a : AreScreens(a, t, s) BY ScreenWalks
  <2>2. PICK c : AreScreens(c, t, u) BY <2>0, ScreenWalks
  <2>3. /\ ScreenWalk(t, s) = a[K] /\ a[0] = t
        /\ \A i \in 1..K : a[i] = ScreenStep(a[i - 1], s[i])
    BY <2>1 DEF AreScreens
  <2>4. /\ ScreenWalk(t, u) = c[K + 1] /\ c[0] = t
        /\ \A i \in 1..K + 1 : c[i] = ScreenStep(c[i - 1], u[i])
    BY <2>0, <2>2 DEF AreScreens
  <2> HIDE DEF K
  <2> DEFINE S == {i \in Nat : i <= K => c[i] = a[i]}
  <2>5. 0 \in S BY <2>3, <2>4
  <2>6. ASSUME NEW i \in Nat, i \in S PROVE i + 1 \in S
    <3> SUFFICES ASSUME i + 1 <= K PROVE c[i + 1] = a[i + 1] OBVIOUS
    <3>1. i + 1 \in 1..K /\ i + 1 \in 1..K + 1 /\ (i + 1) - 1 = i /\ i <= K BY <2>0
    <3>2. c[i + 1] = ScreenStep(c[(i + 1) - 1], u[i + 1]) BY <2>4, <3>1, Zenon
    <3>3. a[i + 1] = ScreenStep(a[(i + 1) - 1], s[i + 1]) BY <2>3, <3>1, Zenon
    <3>4. c[i] = a[i] /\ u[i + 1] = s[i + 1] BY <2>0, <2>6, <3>1
    <3> QED BY <3>1, <3>2, <3>3, <3>4
  <2> HIDE DEF S
  <2>7. K \in S BY <2>0, <2>5, <2>6, SetInduction
  <2>8. c[K] = a[K] BY <2>0, <2>7 DEF S
  <2>9. K + 1 \in 1..K + 1 /\ (K + 1) - 1 = K BY <2>0
  <2>10. c[K + 1] = ScreenStep(c[(K + 1) - 1], u[K + 1]) BY <2>4, <2>9, Zenon
  <2> QED BY <2>0, <2>3, <2>4, <2>8, <2>9, <2>10 DEF u
<1> QED BY <1>1, <1>2

\* The replay filter's walk.
FilterWalk(t, bytes) == Walk(ReplayStep, t, bytes)

AreFilters(at, t, data) ==
  /\ FilterWalk(t, data) = at[Len(data)] /\ at[0] = t
  /\ \A i \in 1..Len(data) : at[i] = ReplayStep(at[i - 1], data[i])

LEMMA FilterWalks ==
  ASSUME NEW t, NEW data \in Seq(Byte)
  PROVE  \E at : AreFilters(at, t, data)
<1> DEFINE L == Len(data)
           E(g, n) == g = [i \in 0..n |-> IF i = 0 THEN t ELSE ReplayStep(g[i - 1], data[i])]
           S == {n \in Nat : \E g : E(g, n)}
<1>0. L \in Nat BY LenProperties
<1>1. 0 \in S
  <2> DEFINE g == [i \in 0..0 |-> t]
  <2>1. g = [i \in 0..0 |-> IF i = 0 THEN t ELSE ReplayStep(g[i - 1], data[i])] OBVIOUS
  <2>2. E(g, 0) BY <2>1
  <2> QED BY <2>2
<1>2. ASSUME NEW n \in Nat, n \in S PROVE n + 1 \in S
  <2>1. PICK g : E(g, n) BY <1>2
  <2> DEFINE h == [i \in 0..n + 1 |-> IF i = 0 THEN t ELSE ReplayStep(g[i - 1], data[i])]
  <2>2. \A i \in 0..n : h[i] = g[i] BY <2>1
  <2>3. \A i \in 0..n + 1 : i # 0 => h[i - 1] = g[i - 1]
    <3> TAKE i \in 0..n + 1
    <3> HAVE i # 0
    <3>1. i - 1 \in 0..n OBVIOUS
    <3> QED BY <2>2, <3>1
  <2>4. h = [i \in 0..n + 1 |-> IF i = 0 THEN t ELSE ReplayStep(h[i - 1], data[i])] BY <2>3
  <2>5. E(h, n + 1) BY <2>4
  <2> HIDE DEF E, h
  <2> QED BY <2>5
<1>3. L \in S BY <1>0, <1>1, <1>2, SetInduction
<1>4. \E g : E(g, L) BY <1>3
<1> DEFINE at == CHOOSE g : E(g, L)
<1>5. FilterWalk(t, data) = at[L] BY DEF FilterWalk, Walk
<1>6. E(at, L) BY <1>4
<1>7. \A i \in 0..L : at[i] = IF i = 0 THEN t ELSE ReplayStep(at[i - 1], data[i]) BY <1>6
<1> HIDE DEF at
<1>8. AreFilters(at, t, data) BY <1>0, <1>5, <1>7 DEF AreFilters
<1> QED BY <1>8

LEMMA FilterByte ==
  ASSUME NEW t
  PROVE  /\ FilterWalk(t, <<>>) = t
         /\ \A s \in Seq(Byte) : \A b \in Byte :
              FilterWalk(t, Append(s, b)) = ReplayStep(FilterWalk(t, s), b)
<1>1. FilterWalk(t, <<>>) = t
  <2>1. <<>> \in Seq(Byte) /\ Len(<<>>) = 0 BY EmptySeq
  <2>2. PICK at : AreFilters(at, t, <<>>) BY <2>1, FilterWalks
  <2> QED BY <2>1, <2>2 DEF AreFilters
<1>2. ASSUME NEW s \in Seq(Byte), NEW b \in Byte
      PROVE  FilterWalk(t, Append(s, b)) = ReplayStep(FilterWalk(t, s), b)
  <2> DEFINE u == Append(s, b)
             K == Len(s)
  <2>0. /\ u \in Seq(Byte) /\ K \in Nat /\ Len(u) = K + 1 /\ u[K + 1] = b
        /\ \A k \in 1..K : u[k] = s[k]
    BY OneMore
  <2> HIDE DEF u
  <2>1. PICK a : AreFilters(a, t, s) BY FilterWalks
  <2>2. PICK c : AreFilters(c, t, u) BY <2>0, FilterWalks
  <2>3. /\ FilterWalk(t, s) = a[K] /\ a[0] = t
        /\ \A i \in 1..K : a[i] = ReplayStep(a[i - 1], s[i])
    BY <2>1 DEF AreFilters
  <2>4. /\ FilterWalk(t, u) = c[K + 1] /\ c[0] = t
        /\ \A i \in 1..K + 1 : c[i] = ReplayStep(c[i - 1], u[i])
    BY <2>0, <2>2 DEF AreFilters
  <2> HIDE DEF K
  <2> DEFINE S == {i \in Nat : i <= K => c[i] = a[i]}
  <2>5. 0 \in S BY <2>3, <2>4
  <2>6. ASSUME NEW i \in Nat, i \in S PROVE i + 1 \in S
    <3> SUFFICES ASSUME i + 1 <= K PROVE c[i + 1] = a[i + 1] OBVIOUS
    <3>1. i + 1 \in 1..K /\ i + 1 \in 1..K + 1 /\ (i + 1) - 1 = i /\ i <= K BY <2>0
    <3>2. c[i + 1] = ReplayStep(c[(i + 1) - 1], u[i + 1]) BY <2>4, <3>1, Zenon
    <3>3. a[i + 1] = ReplayStep(a[(i + 1) - 1], s[i + 1]) BY <2>3, <3>1, Zenon
    <3>4. c[i] = a[i] /\ u[i + 1] = s[i + 1] BY <2>0, <2>6, <3>1
    <3> QED BY <3>1, <3>2, <3>3, <3>4
  <2> HIDE DEF S
  <2>7. K \in S BY <2>0, <2>5, <2>6, SetInduction
  <2>8. c[K] = a[K] BY <2>0, <2>7 DEF S
  <2>9. K + 1 \in 1..K + 1 /\ (K + 1) - 1 = K BY <2>0
  <2>10. c[K + 1] = ReplayStep(c[(K + 1) - 1], u[K + 1]) BY <2>4, <2>9, Zenon
  <2> QED BY <2>0, <2>3, <2>4, <2>8, <2>9, <2>10 DEF u
<1> QED BY <1>1, <1>2

\* Nothing is drawn or asked.
\* Nothing is drawn, nothing asked.
Quietly(n, g) == n.drawn = g.drawn /\ n.asked = g.asked

\* A byte ends a string.
EndsString(st, b) == (st = "string" /\ b = "BEL") \/ (st = "stringEsc" /\ b = "\\")

\* What one byte does to a screen, case by case.
ScreenStepped(n, g, b) ==
  /\ n \in Screens
  /\ b = "ESC" => /\ n.st = (IF g.st = "string" THEN "stringEsc" ELSE "esc")
                  /\ n.run = g.run /\ n.intro = g.intro /\ Quietly(n, g)
  /\ b # "ESC" /\ g.st = "ground" =>
       n.st = "ground" /\ n.drawn = Append(g.drawn, b) /\ n.asked = g.asked
  /\ b # "ESC" /\ (g.st = "esc" \/ (g.st = "stringEsc" /\ b # "\\")) =>
       n.st = Introduced(b) /\ n.run = <<>> /\ n.intro = b /\ Quietly(n, g)
  /\ g.st = "csi" /\ b \in FinalByte =>
       n.st = "ground" /\ n.drawn = g.drawn
       /\ n.asked = Asking(~TooLong(g.run) /\ CsiIsQuery(g.run, b), g)
  /\ g.st = "csi" /\ b \in ParamByte =>
       n.st = "csi" /\ n.run = Collected(g.run, b) /\ n.intro = g.intro /\ Quietly(n, g)
  /\ g.st = "csi" /\ b = "BEL" => n.st = "void" /\ Quietly(n, g)
  /\ g.st = "string" /\ b \notin Ending =>
       n.st = "string" /\ n.run = Collected(g.run, b) /\ n.intro = g.intro /\ Quietly(n, g)
  /\ EndsString(g.st, b) =>
       n.st = "ground" /\ n.drawn = g.drawn /\ n.asked = Asking(StringIsQuery(g.intro, g.run), g)
  /\ g.st = "void" /\ b # "ESC" => n.st = "void" /\ Quietly(n, g)

LEMMA IntroducedIs == \A b : Introduced(b) \in {"ground", "csi", "string"}
  BY DEF Introduced

LEMMA CollectedBytes ==
  ASSUME NEW run \in Seq(Byte), NEW b \in Byte
  PROVE  Collected(run, b) \in Seq(Byte)
  BY AppendProperties DEF Collected

LEMMA ScreenStepsTo ==
  ASSUME NEW g \in Screens, NEW b \in Byte
  PROVE  ScreenStepped(ScreenStep(g, b), g, b)
<1> DEFINE n == ScreenStep(g, b)
<1> SUFFICES ScreenStepped(n, g, b) OBVIOUS
<1>1. n = ScreenStep(g, b) OBVIOUS
<1> HIDE DEF n
<1>2. /\ g.st \in {"ground", "esc", "csi", "string", "stringEsc", "void"} /\ g.run \in Seq(Byte)
      /\ g.intro \in Byte \cup {""} /\ g.drawn \in Seq(Byte) /\ g.asked \in {"yes", "no"}
  BY DEF Screens
<1>3. \A q : Asking(q, g) \in {"yes", "no"} BY <1>2 DEF Asking
<1>4. Collected(g.run, b) \in Seq(Byte) /\ Append(g.drawn, b) \in Seq(Byte) /\ <<>> \in Seq(Byte)
  BY <1>2, CollectedBytes, AppendProperties, EmptySeq
<1>5. Introduced(b) \in {"ground", "csi", "string"} BY IntroducedIs
<1>6. b \in FinalByte => b # "ESC" /\ b # "BEL" /\ b \notin ParamByte BY Bytes
<1>7. b \in ParamByte => b # "ESC" /\ b # "BEL" /\ b \notin FinalByte BY Bytes
<1>8. b \in ParamByte \/ b \in FinalByte \/ b = "ESC" \/ b = "BEL" BY Bytes
<1>9. "BEL" # "ESC" /\ "\\" # "ESC" /\ "\\" # "BEL" OBVIOUS
<1>10. CASE b = "ESC"
  <2>1. n = [g EXCEPT !.st = IF g.st = "string" THEN "stringEsc" ELSE "esc"]
    BY <1>1, <1>10 DEF ScreenStep
  <2> DEFINE z == IF g.st = "string" THEN "stringEsc" ELSE "esc"
  <2>2. z \in {"esc", "stringEsc"} OBVIOUS
  <2>3. n = [g EXCEPT !.st = z] BY <2>1
  <2>4. n \in Screens /\ n.st = z /\ n.run = g.run /\ n.intro = g.intro /\ Quietly(n, g)
    <3> HIDE DEF z
    <3> QED BY <2>2, <2>3 DEF Screens, Quietly
  <2> QED BY <1>6, <1>7, <1>9, <1>10, <2>4 DEF ScreenStepped, Ending, EndsString
<1>11. CASE b # "ESC" /\ g.st = "ground"
  <2>1. n = [g EXCEPT !.drawn = Append(@, b)] BY <1>1, <1>11 DEF ScreenStep
  <2>2. n \in Screens /\ n.st = "ground" /\ n.drawn = Append(g.drawn, b) /\ n.asked = g.asked
    BY <1>4, <1>11, <2>1 DEF Screens
  <2> QED BY <1>11, <2>2 DEF ScreenStepped, EndsString
<1>12. CASE b # "ESC" /\ (g.st = "esc" \/ (g.st = "stringEsc" /\ b # "\\"))
  <2>1. n = [g EXCEPT !.st = Introduced(b), !.run = <<>>, !.intro = b] BY <1>1, <1>12 DEF ScreenStep
  <2>2. n \in Screens /\ n.st = Introduced(b) /\ n.run = <<>> /\ n.intro = b /\ Quietly(n, g)
    BY <1>4, <1>5, <2>1 DEF Screens, Quietly
  <2> QED BY <1>12, <2>2 DEF ScreenStepped, EndsString
<1>13. CASE g.st = "csi" /\ b \in FinalByte
  <2> DEFINE q == Asking(~TooLong(g.run) /\ CsiIsQuery(g.run, b), g)
  <2>1. n = [g EXCEPT !.st = "ground", !.asked = q] BY <1>1, <1>6, <1>13 DEF ScreenStep
  <2>2. q \in {"yes", "no"} BY <1>3
  <2>3. n \in Screens /\ n.st = "ground" /\ n.drawn = g.drawn /\ n.asked = q
    <3> HIDE DEF q
    <3> QED BY <2>1, <2>2 DEF Screens
  <2> QED BY <1>6, <1>13, <2>3 DEF ScreenStepped, EndsString
<1>14. CASE g.st = "csi" /\ b \in ParamByte
  <2>1. n = [g EXCEPT !.run = Collected(@, b)] BY <1>1, <1>7, <1>14 DEF ScreenStep
  <2>2. n \in Screens /\ n.st = "csi" /\ n.run = Collected(g.run, b) /\ n.intro = g.intro /\ Quietly(n, g)
    BY <1>4, <1>14, <2>1 DEF Screens, Quietly
  <2> QED BY <1>7, <1>14, <2>2 DEF ScreenStepped, EndsString
<1>15. CASE g.st = "csi" /\ b = "BEL"
  <2>1. n = [g EXCEPT !.st = "void"] BY <1>1, <1>6, <1>7, <1>9, <1>15 DEF ScreenStep
  <2>2. n \in Screens /\ n.st = "void" /\ Quietly(n, g) BY <2>1 DEF Screens, Quietly
  <2> QED BY <1>6, <1>7, <1>9, <1>15, <2>2 DEF ScreenStepped, EndsString
<1>16. CASE g.st = "string" /\ b \notin Ending
  <2>1. n = [g EXCEPT !.run = Collected(@, b)] BY <1>1, <1>16 DEF ScreenStep, Ending
  <2>2. n \in Screens /\ n.st = "string" /\ n.run = Collected(g.run, b) /\ n.intro = g.intro /\ Quietly(n, g)
    BY <1>4, <1>16, <2>1 DEF Screens, Quietly
  <2> QED BY <1>16, <2>2 DEF ScreenStepped, Ending, EndsString
<1>17. CASE EndsString(g.st, b)
  <2> DEFINE q == Asking(StringIsQuery(g.intro, g.run), g)
  <2>0. b # "ESC" BY <1>9, <1>17 DEF EndsString
  <2>1. n = [g EXCEPT !.st = "ground", !.asked = q]
    BY <1>1, <1>9, <1>17 DEF ScreenStep, EndsString
  <2>2. q \in {"yes", "no"} BY <1>3
  <2>3. n \in Screens /\ n.st = "ground" /\ n.drawn = g.drawn /\ n.asked = q
    <3> HIDE DEF q
    <3> QED BY <2>1, <2>2 DEF Screens
  <2> QED BY <2>0, <1>9, <1>17, <2>3 DEF ScreenStepped, EndsString, Ending
<1>18. CASE g.st = "void" /\ b # "ESC"
  <2>1. n = g BY <1>1, <1>18 DEF ScreenStep
  <2> QED BY <1>18, <2>1 DEF ScreenStepped, EndsString, Quietly
<1> QED BY <1>2, <1>8, <1>10, <1>11, <1>12, <1>13, <1>14, <1>15, <1>16, <1>17, <1>18
       DEF Ending, EndsString

-----------------------------------------------------------------------------
(* sanitizeReplay, byte by byte                                            *)

\* sanitizeReplay, byte by byte.
Filters == [st: {"ground", "esc", "csi", "string", "stringEsc"}, start: Nat, run: Seq(Byte),
            intro: Byte \cup {""}, out: Seq(Byte)]

\* The filter is in the state st, of a sequence that begins where it did before.
GoesOn(n, r, b, st, run, intro) ==
  /\ n \in Filters /\ n.st = st /\ n.run = run /\ n.intro = intro
  /\ n.start = r.start /\ n.out = Append(r.out, b)

\* A sequence has ended, and is dropped if it is a query.
Finishes(n, r, b, query) ==
  /\ n \in Filters /\ n.st = "ground"
  /\ n.out = IF query THEN SubSeq(Append(r.out, b), 1, r.start - 1) ELSE Append(r.out, b)

FilterStepped(n, r, b) ==
  /\ r.st = "ground" /\ b # "ESC" => Finishes(n, r, b, FALSE)
  /\ r.st = "ground" /\ b = "ESC" =>
       n \in Filters /\ n.st = "esc" /\ n.out = Append(r.out, b) /\ n.start = Len(r.out) + 1
  /\ r.st = "esc" /\ b # "ESC" => GoesOn(n, r, b, Introduced(b), <<>>, b)
  /\ r.st = "csi" /\ b \in FinalByte => Finishes(n, r, b, ~TooLong(r.run) /\ CsiIsQuery(r.run, b))
  /\ r.st = "csi" /\ b \in ParamByte => GoesOn(n, r, b, "csi", Collected(r.run, b), r.intro)
  /\ r.st = "string" /\ b = "ESC" => GoesOn(n, r, b, "stringEsc", r.run, r.intro)
  /\ r.st = "string" /\ b \notin Ending => GoesOn(n, r, b, "string", Collected(r.run, b), r.intro)
  /\ EndsString(r.st, b) => Finishes(n, r, b, StringIsQuery(r.intro, r.run))

LEMMA CutBack ==
  ASSUME NEW s \in Seq(Byte), NEW k \in Nat
  PROVE  k <= Len(s) + 1 => SubSeq(s, 1, k - 1) \in Seq(Byte)
<1> SUFFICES ASSUME k <= Len(s) + 1 PROVE SubSeq(s, 1, k - 1) \in Seq(Byte) OBVIOUS
<1>1. Len(s) \in Nat /\ \A i \in 1..Len(s) : s[i] \in Byte BY LenProperties, ElementOfSeq
<1>2. 1 \in Int /\ k - 1 \in Int /\ \A i \in 1..k - 1 : i \in 1..Len(s) BY <1>1
<1>3. \A i \in 1..k - 1 : s[i] \in Byte BY <1>1, <1>2
<1> QED BY <1>2, <1>3, SubSeqProperties

LEMMA FilterStepsTo ==
  ASSUME NEW r \in Filters, NEW b \in Byte, r.st = "ground" \/ r.start <= Len(r.out) + 1
  PROVE  FilterStepped(ReplayStep(r, b), r, b)
<1> DEFINE n == ReplayStep(r, b)
           out1 == Append(r.out, b)
           q == [r EXCEPT !.out = Append(@, b)]
<1> SUFFICES FilterStepped(n, r, b) OBVIOUS
<1>1. n = ReplayStep(r, b) OBVIOUS
<1>2. /\ r.st \in {"ground", "esc", "csi", "string", "stringEsc"} /\ r.start \in Nat
      /\ r.run \in Seq(Byte) /\ r.intro \in Byte \cup {""} /\ r.out \in Seq(Byte)
  BY DEF Filters
<1>3. out1 \in Seq(Byte) /\ Len(out1) = Len(r.out) + 1 /\ Len(r.out) \in Nat
  <2>1. r.out \in Seq(Byte) BY <1>2
  <2>2. out1 \in Seq(Byte) BY <2>1, AppendProperties, Zenon
  <2>3. Len(out1) = Len(r.out) + 1 BY <2>1, AppendProperties, Zenon
  <2>4. Len(r.out) \in Nat BY <2>1, LenProperties, Zenon
  <2> QED BY <2>2, <2>3, <2>4
<1>4. Collected(r.run, b) \in Seq(Byte) /\ <<>> \in Seq(Byte)
  BY <1>2, CollectedBytes, EmptySeq
<1>5. Introduced(b) \in {"ground", "csi", "string"} BY IntroducedIs
<1>6. b \in FinalByte => b # "ESC" /\ b # "BEL" /\ b \notin ParamByte BY Bytes
<1>7. b \in ParamByte => b # "ESC" /\ b # "BEL" /\ b \notin FinalByte BY Bytes
<1>8. "BEL" # "ESC" /\ "\\" # "ESC" /\ "\\" # "BEL" OBVIOUS
<1>9. q = [r EXCEPT !.out = out1] OBVIOUS
<1> HIDE DEF n, out1, q
<1>10. r.st # "ground" => SubSeq(out1, 1, r.start - 1) \in Seq(Byte)
  <2> SUFFICES ASSUME r.st # "ground" PROVE SubSeq(out1, 1, r.start - 1) \in Seq(Byte) OBVIOUS
  <2> DEFINE k == r.start
             m == Len(r.out)
  <2>0. k \in Nat /\ m \in Nat /\ k <= m + 1 /\ Len(out1) = m + 1 BY <1>2, <1>3
  <2> HIDE DEF k, m
  <2>1. k <= Len(out1) + 1 BY <2>0
  <2> QED BY <1>2, <1>3, <2>1, CutBack DEF k
<1>11. /\ q \in Filters /\ q.st = r.st /\ q.start = r.start /\ q.run = r.run /\ q.intro = r.intro
       /\ q.out = out1
  BY <1>3, <1>9 DEF Filters
<1>12. /\ [q EXCEPT !.st = "ground"] \in Filters
       /\ [q EXCEPT !.st = "ground"].st = "ground" /\ [q EXCEPT !.st = "ground"].out = out1
  BY <1>11 DEF Filters
<1>13. Finishes([q EXCEPT !.st = "ground"], r, b, FALSE) BY <1>12 DEF Finishes, out1
<1>14. r.st # "ground" => Finishes(Drop(q), r, b, TRUE)
  <2> SUFFICES ASSUME r.st # "ground" PROVE Finishes(Drop(q), r, b, TRUE) OBVIOUS
  <2>1. Drop(q) = [q EXCEPT !.st = "ground", !.out = SubSeq(out1, 1, r.start - 1)] BY <1>11 DEF Drop
  <2>2. Drop(q) \in Filters /\ Drop(q).st = "ground" /\ Drop(q).out = SubSeq(out1, 1, r.start - 1)
    BY <1>10, <1>11, <2>1 DEF Filters
  <2> QED BY <2>2 DEF Finishes, out1
<1>15. r.st = "ground" /\ b # "ESC" => Finishes(n, r, b, FALSE)
  <2> SUFFICES ASSUME r.st = "ground", b # "ESC" PROVE Finishes(n, r, b, FALSE) OBVIOUS
  <2>1. n = q BY <1>1, <1>9, <1>11 DEF ReplayStep, out1, q
  <2> QED BY <1>11, <2>1 DEF Finishes, out1
<1>16. r.st = "ground" /\ b = "ESC" =>
         n \in Filters /\ n.st = "esc" /\ n.out = out1 /\ n.start = Len(r.out) + 1
  <2> SUFFICES ASSUME r.st = "ground", b = "ESC"
               PROVE  n \in Filters /\ n.st = "esc" /\ n.out = out1 /\ n.start = Len(r.out) + 1
    OBVIOUS
  <2>1. n = [q EXCEPT !.st = "esc", !.start = Len(out1)] BY <1>1, <1>11 DEF ReplayStep, q
  <2>2. Len(out1) \in Nat BY <1>3
  <2> QED BY <1>3, <1>11, <2>1, <2>2 DEF Filters
<1>17. r.st = "esc" /\ b # "ESC" => GoesOn(n, r, b, Introduced(b), <<>>, b)
  <2> SUFFICES ASSUME r.st = "esc", b # "ESC" PROVE GoesOn(n, r, b, Introduced(b), <<>>, b) OBVIOUS
  <2>1. n = ReplayEsc(q, b) BY <1>1, <1>11 DEF ReplayStep, q
  <2>2. n = [q EXCEPT !.st = Introduced(b), !.run = <<>>, !.intro = b] BY <2>1 DEF ReplayEsc
  <2>3. n \in Filters /\ n.st = Introduced(b) /\ n.run = <<>> /\ n.intro = b
        /\ n.start = r.start /\ n.out = out1
    BY <1>4, <1>5, <1>11, <2>2 DEF Filters
  <2> QED BY <2>3 DEF GoesOn, out1
<1>18. r.st = "csi" /\ b \in FinalByte => Finishes(n, r, b, ~TooLong(r.run) /\ CsiIsQuery(r.run, b))
  <2> SUFFICES ASSUME r.st = "csi", b \in FinalByte
               PROVE  Finishes(n, r, b, ~TooLong(r.run) /\ CsiIsQuery(r.run, b))
    OBVIOUS
  <2>0. n = IF ~TooLong(q.run) /\ CsiIsQuery(q.run, b) THEN Drop(q) ELSE [q EXCEPT !.st = "ground"]
    <3>1. q.st = "csi" BY <1>11
    <3> QED BY <1>1, <1>6, <3>1 DEF ReplayStep, q
  <2>1. CASE ~TooLong(r.run) /\ CsiIsQuery(r.run, b)
    <3>1. n = Drop(q) BY <1>11, <2>0, <2>1
    <3>2. Finishes(n, r, b, TRUE) BY <1>14, <3>1
    <3> QED BY <2>1, <3>2 DEF Finishes
  <2>2. CASE ~(~TooLong(r.run) /\ CsiIsQuery(r.run, b))
    <3>1. n = [q EXCEPT !.st = "ground"] BY <1>11, <2>0, <2>2
    <3> QED BY <1>13, <2>2, <3>1 DEF Finishes
  <2> QED BY <2>1, <2>2
<1>19. r.st = "csi" /\ b \in ParamByte => GoesOn(n, r, b, "csi", Collected(r.run, b), r.intro)
  <2> SUFFICES ASSUME r.st = "csi", b \in ParamByte
               PROVE  GoesOn(n, r, b, "csi", Collected(r.run, b), r.intro)
    OBVIOUS
  <2>1. n = [q EXCEPT !.run = Collected(r.run, b)] BY <1>1, <1>7, <1>11 DEF ReplayStep, q
  <2>2. n \in Filters /\ n.st = "csi" /\ n.run = Collected(r.run, b) /\ n.intro = r.intro
        /\ n.start = r.start /\ n.out = out1
    BY <1>4, <1>11, <2>1 DEF Filters
  <2> QED BY <2>2 DEF GoesOn, out1
<1>20. r.st = "string" /\ b = "ESC" => GoesOn(n, r, b, "stringEsc", r.run, r.intro)
  <2> SUFFICES ASSUME r.st = "string", b = "ESC" PROVE GoesOn(n, r, b, "stringEsc", r.run, r.intro)
    OBVIOUS
  <2>1. n = [q EXCEPT !.st = "stringEsc"] BY <1>1, <1>8, <1>11 DEF ReplayStep, q
  <2>2. n \in Filters /\ n.st = "stringEsc" /\ n.run = r.run /\ n.intro = r.intro
        /\ n.start = r.start /\ n.out = out1
    BY <1>11, <2>1 DEF Filters
  <2> QED BY <2>2 DEF GoesOn, out1
<1>21. r.st = "string" /\ b \notin Ending => GoesOn(n, r, b, "string", Collected(r.run, b), r.intro)
  <2> SUFFICES ASSUME r.st = "string", b \notin Ending
               PROVE  GoesOn(n, r, b, "string", Collected(r.run, b), r.intro)
    OBVIOUS
  <2>1. n = [q EXCEPT !.run = Collected(r.run, b)] BY <1>1, <1>11 DEF ReplayStep, q, Ending
  <2>2. n \in Filters /\ n.st = "string" /\ n.run = Collected(r.run, b) /\ n.intro = r.intro
        /\ n.start = r.start /\ n.out = out1
    BY <1>4, <1>11, <2>1 DEF Filters
  <2> QED BY <2>2 DEF GoesOn, out1
<1>22. EndsString(r.st, b) => Finishes(n, r, b, StringIsQuery(r.intro, r.run))
  <2> SUFFICES ASSUME EndsString(r.st, b) PROVE Finishes(n, r, b, StringIsQuery(r.intro, r.run)) OBVIOUS
  <2>1. n = IF StringIsQuery(r.intro, r.run) THEN Drop(q) ELSE [q EXCEPT !.st = "ground"]
    BY <1>1, <1>8, <1>11 DEF ReplayStep, q, EndsString
  <2>2. r.st # "ground" BY DEF EndsString
  <2> QED BY <1>13, <1>14, <2>1, <2>2 DEF Finishes
<1> QED BY <1>15, <1>16, <1>17, <1>18, <1>19, <1>20, <1>21, <1>22 DEF FilterStepped, out1

-----------------------------------------------------------------------------
(* Where the last sequence stands                                          *)

\* An ESC in a string is the last byte.
Closing(p, e) == StringEnding(p, e) /\ EndsInEsc(p)

\* What b after p does to strings.
StringGrows(p, b, u) ==
  /\ \A e : InString(u, e) <=> \/ InString(p, e) /\ b \notin Ending
                               \/ e = Len(p) /\ EndsInEsc(p) /\ b \in {"]", "P"}
  /\ \A e : Closing(u, e) <=> InString(p, e) /\ b = "ESC"
  /\ \A e : Ends(u, e, Len(u)) /\ u[e + 1] \in {"]", "P"} <=>
              (InString(p, e) /\ b = "BEL") \/ (Closing(p, e) /\ b = "\\")
  /\ \A e : InString(p, e) \/ Closing(p, e) =>
              e \in 1..Len(p) - 1 /\ u[e] = p[e] /\ u[e + 1] = p[e + 1]
  /\ \A e : InString(p, e) => ~EndsInEsc(p)

\* One byte more ends, continues or introduces a string.
LEMMA StringBytes ==
  ASSUME NEW p \in Seq(Byte), NEW b \in Byte, NEW u, u = Append(p, b)
  PROVE  StringGrows(p, b, u)
<1> DEFINE L == Len(p)
<1>0. /\ u \in Seq(Byte) /\ L \in Nat /\ Len(u) = L + 1 /\ u[L + 1] = b
      /\ \A k \in 1..L : u[k] = p[k]
  BY OneMore
<1>1. EndsInEsc(p) <=> L # 0 /\ p[L] = "ESC" BY EmptySeq DEF EndsInEsc
<1>2. EndsInEsc(u) <=> b = "ESC"
  <2>1. u # <<>> BY AppendProperties
  <2> QED BY <1>0, <2>1 DEF EndsInEsc
<1>3. "ESC" # "BEL" /\ "\\" # "ESC" /\ "\\" # "BEL" /\ "]" # "ESC" /\ "P" # "ESC" OBVIOUS
<1>4. \A e : InString(p, e) <=> StringAt(p, e) /\ Quiet(p, e + 2, L) BY DEF InString
<1>5. \A e : Closing(p, e) <=>
        StringAt(p, e) /\ L \in e + 2..L /\ Quiet(p, e + 2, L - 1) /\ EndsInEsc(p)
  BY DEF Closing, StringEnding
<1>6. \A e : StringAt(p, e) <=> e \in 1..L - 1 /\ p[e] = "ESC" /\ p[e + 1] \in {"]", "P"}
  BY DEF StringAt
<1> HIDE DEF L
<1>7. \A e : StringAt(p, e) => e \in 1..L /\ e + 1 \in 1..L /\ e \in 1..L - 1 BY <1>0, <1>6
<1>8. \A e : StringAt(p, e) => u[e] = p[e] /\ u[e + 1] = p[e + 1] BY <1>0, <1>7
<1>9. \A e : StringAt(u, e) <=> StringAt(p, e) \/ (e = L /\ EndsInEsc(p) /\ b \in {"]", "P"})
  <2> TAKE e
  <2>1. StringAt(u, e) <=> e \in 1..L /\ u[e] = "ESC" /\ u[e + 1] \in {"]", "P"} BY <1>0 DEF StringAt
  <2>2. CASE e \in 1..L - 1
    <3>1. e \in 1..L /\ e + 1 \in 1..L /\ e # L BY <1>0, <2>2
    <3>2. u[e] = p[e] /\ u[e + 1] = p[e + 1] BY <1>0, <3>1
    <3> QED BY <1>6, <2>1, <2>2, <3>1, <3>2
  <2>3. CASE e \notin 1..L - 1
    <3>1. e \in 1..L <=> e = L /\ L # 0 BY <1>0, <2>3
    <3>2. L # 0 => u[L] = p[L] BY <1>0
    <3> QED BY <1>0, <1>1, <1>6, <2>1, <2>3, <3>1, <3>2
  <2> QED BY <2>2, <2>3
<1>10. \A e : StringAt(p, e) => (Quiet(u, e + 2, L) <=> Quiet(p, e + 2, L))
                                /\ (Quiet(u, e + 2, L - 1) <=> Quiet(p, e + 2, L - 1))
                                /\ (Quiet(u, e + 2, L + 1) <=> Quiet(p, e + 2, L) /\ b \notin Ending)
  <2> TAKE e
  <2> HAVE StringAt(p, e)
  <2>1. e \in 1..L - 1 BY <1>7
  <2>2. \A k \in e + 2..L : k \in 1..L BY <1>0, <2>1
  <2>3. \A k \in e + 2..L : u[k] = p[k] BY <1>0, <2>2
  <2>4. \A k \in e + 2..L - 1 : k \in e + 2..L BY <1>0, <2>1
  <2>5. \A k \in e + 2..L + 1 : k \in e + 2..L \/ k = L + 1 BY <1>0, <2>1
  <2>6. L + 1 \in e + 2..L + 1 /\ \A k \in e + 2..L : k \in e + 2..L + 1 BY <1>0, <2>1
  <2>7. Quiet(u, e + 2, L) <=> Quiet(p, e + 2, L) BY <2>3 DEF Quiet
  <2>8. Quiet(u, e + 2, L - 1) <=> Quiet(p, e + 2, L - 1) BY <2>3, <2>4 DEF Quiet
  <2>9. Quiet(u, e + 2, L + 1) => Quiet(p, e + 2, L) /\ b \notin Ending
    BY <1>0, <2>3, <2>6 DEF Quiet
  <2>10. Quiet(p, e + 2, L) /\ b \notin Ending => Quiet(u, e + 2, L + 1)
    BY <1>0, <2>3, <2>5 DEF Quiet
  <2> QED BY <2>7, <2>8, <2>9, <2>10
<1>11. \A e : e = L => Quiet(u, e + 2, L + 1) /\ Quiet(u, e + 2, L)
  BY <1>0 DEF Quiet
<1>12. \A e : InString(u, e) <=> StringAt(u, e) /\ Quiet(u, e + 2, L + 1) BY <1>0 DEF InString
<1>13. \A e : InString(u, e) <=> \/ InString(p, e) /\ b \notin Ending
                                 \/ e = L /\ EndsInEsc(p) /\ b \in {"]", "P"}
  BY <1>4, <1>9, <1>10, <1>11, <1>12
<1>14. \A e : Closing(u, e) <=> StringAt(u, e) /\ L + 1 \in e + 2..L + 1 /\ Quiet(u, e + 2, L) /\ b = "ESC"
  <2>1. (L + 1) - 1 = L BY <1>0
  <2> QED BY <1>0, <1>2, <2>1 DEF Closing, StringEnding
<1>15. \A e : Closing(u, e) <=> InString(p, e) /\ b = "ESC"
  <2> TAKE e
  <2>1. StringAt(p, e) => L + 1 \in e + 2..L + 1 BY <1>0, <1>7
  <2>2. ~(e = L /\ EndsInEsc(p) /\ b \in {"]", "P"} /\ b = "ESC") BY <1>3
  <2> QED BY <1>4, <1>9, <1>10, <1>14, <2>1, <2>2
<1>16. \A e : InString(p, e) => ~EndsInEsc(p)
  <2> SUFFICES ASSUME NEW e, InString(p, e), EndsInEsc(p) PROVE FALSE OBVIOUS
  <2>1. e \in 1..L - 1 /\ p[e + 1] \in {"]", "P"} /\ Quiet(p, e + 2, L) BY <1>4, <1>6
  <2>2. p[L] = "ESC" /\ L # 0 BY <1>1
  <2>3. CASE L = e + 1
    BY <1>3, <2>1, <2>2, <2>3
  <2>4. CASE L # e + 1
    <3>1. L \in e + 2..L BY <1>0, <2>1, <2>4
    <3> QED BY <2>1, <2>2, <3>1 DEF Quiet, Ending
  <2> QED BY <2>3, <2>4
<1>17. \A e : StringAt(u, e) =>
         (EndsAt(u, e, L + 1) <=>
            /\ L + 1 \in e + 2..L + 1
            /\ \/ b = "BEL" /\ Quiet(u, e + 2, L)
               \/ b = "\\" /\ L + 1 > e + 2 /\ u[L] = "ESC" /\ Quiet(u, e + 2, L - 1))
  <2>1. (L + 1) - 1 = L /\ (L + 1) - 2 = L - 1 BY <1>0
  <2> QED BY <1>0, <2>1 DEF EndsAt
<1>18. \A e : Ends(u, e, Len(u)) /\ u[e + 1] \in {"]", "P"} <=> StringAt(u, e) /\ EndsAt(u, e, L + 1)
  <2>1. "]" \notin {"ESC", "["} /\ "P" \notin {"ESC", "["} OBVIOUS
  <2> QED BY <1>0, <2>1 DEF Ends, StringAt
<1>19. \A e : Ends(u, e, Len(u)) /\ u[e + 1] \in {"]", "P"} <=>
                (InString(p, e) /\ b = "BEL") \/ (Closing(p, e) /\ b = "\\")
  <2> TAKE e
  <2>1. CASE StringAt(p, e)
    <3>1. e \in 1..L - 1 BY <1>7, <2>1
    <3>2. L + 1 \in e + 2..L + 1 /\ (L + 1 > e + 2 <=> L \in e + 2..L) /\ L # 0 /\ L \in 1..L
      BY <1>0, <3>1
    <3>3. u[L] = "ESC" <=> EndsInEsc(p) BY <1>0, <1>1, <3>2
    <3>4. StringAt(u, e) BY <1>9, <2>1
    <3>5. Quiet(u, e + 2, L) <=> Quiet(p, e + 2, L) BY <1>10, <2>1
    <3>6. Quiet(u, e + 2, L - 1) <=> Quiet(p, e + 2, L - 1) BY <1>10, <2>1
    <3>7. InString(p, e) <=> Quiet(p, e + 2, L) BY <1>4, <2>1
    <3>8. Closing(p, e) <=> L \in e + 2..L /\ Quiet(p, e + 2, L - 1) /\ EndsInEsc(p) BY <1>5, <2>1
    <3>9. EndsAt(u, e, L + 1) <=>
            \/ b = "BEL" /\ Quiet(u, e + 2, L)
            \/ b = "\\" /\ L \in e + 2..L /\ EndsInEsc(p) /\ Quiet(u, e + 2, L - 1)
      BY <1>17, <3>2, <3>3, <3>4
    <3> QED BY <1>18, <3>4, <3>5, <3>6, <3>7, <3>8, <3>9
  <2>2. CASE ~StringAt(p, e)
    <3>1. ~InString(p, e) /\ ~Closing(p, e) BY <1>4, <1>5, <2>2
    <3>2. ~(StringAt(u, e) /\ EndsAt(u, e, L + 1))
      <4> SUFFICES ASSUME StringAt(u, e), EndsAt(u, e, L + 1) PROVE FALSE OBVIOUS
      <4>1. e = L BY <1>9, <2>2
      <4>2. L + 1 \in e + 2..L + 1 BY <1>17
      <4> QED BY <1>0, <4>1, <4>2
    <3> QED BY <1>18, <3>1, <3>2
  <2> QED BY <2>1, <2>2
<1>20. \A e : InString(p, e) \/ Closing(p, e) => e \in 1..L - 1 /\ u[e] = p[e] /\ u[e + 1] = p[e + 1]
  BY <1>4, <1>5, <1>7, <1>8
<1> QED BY <1>13, <1>15, <1>16, <1>19, <1>20 DEF StringGrows, L

\* What b after p ends.
EndsGrow(p, b, u) ==
  /\ \A i : Ends(u, i, Len(u)) <=>
       \/ i = Len(p) /\ EndsInEsc(p) /\ b \notin {"ESC", "[", "]", "P"}
       \/ CsiOpen(p, i) /\ b \in FinalByte
       \/ InString(p, i) /\ b = "BEL"
       \/ Closing(p, i) /\ b = "\\"
  /\ \A i : \A j \in Int : j <= Len(p) => (Ends(u, i, j) <=> Ends(p, i, j))
  /\ \A i : \A j : Ends(p, i, j) => Ends(u, i, j)
  /\ \A i : \A j : Ends(u, i, j) => j = Len(u) \/ Ends(p, i, j)

\* The sequences that one byte more ends.
LEMMA EndsByte ==
  ASSUME NEW p \in Seq(Byte), NEW b \in Byte, NEW u, u = Append(p, b)
  PROVE  EndsGrow(p, b, u)
<1> DEFINE L == Len(p)
<1>0. /\ u \in Seq(Byte) /\ L \in Nat /\ Len(u) = L + 1 /\ u[L + 1] = b
      /\ u = p \o <<b>> /\ <<b>> \in Seq(Byte) /\ \A k \in 1..L : u[k] = p[k]
  BY OneMore, AppendIsConcat
<1>1. EndsInEsc(p) <=> L # 0 /\ p[L] = "ESC" BY EmptySeq DEF EndsInEsc
<1>2. CsiGrows(p, b, u) /\ StringGrows(p, b, u) BY CsiByte, StringBytes
<1>3. \A i : \A j \in Int : j <= L => (Ends(u, i, j) <=> Ends(p, i, j)) BY <1>0, EndsSplit
<1>4. \A i : \A j : Ends(p, i, j) => j \in Int /\ j <= L
  <2> TAKE i, j
  <2> HAVE Ends(p, i, j)
  <2>1. j \in 1..Len(p) BY EndsWithin
  <2> QED BY <1>0, <2>1
<1>5. \A i : \A j : Ends(u, i, j) => j \in Int /\ j <= L + 1
  <2> TAKE i, j
  <2> HAVE Ends(u, i, j)
  <2>1. j \in 1..Len(u) BY <1>0, EndsWithin
  <2> QED BY <1>0, <2>1
<1> HIDE DEF L
<1>6. \A i : \A j : Ends(p, i, j) => Ends(u, i, j) BY <1>3, <1>4
<1>7. \A i : \A j : Ends(u, i, j) => j = Len(u) \/ Ends(p, i, j)
  <2> TAKE i, j
  <2> HAVE Ends(u, i, j)
  <2>1. j \in Int /\ j <= L + 1 BY <1>5
  <2>2. j = L + 1 \/ j <= L BY <1>0, <2>1
  <2> QED BY <1>0, <1>3, <2>1, <2>2
<1>8. \A i : Ends(u, i, Len(u)) /\ u[i + 1] \notin {"[", "]", "P"} <=>
               i = L /\ EndsInEsc(p) /\ b \notin {"ESC", "[", "]", "P"}
  <2> TAKE i
  <2>1. Ends(u, i, Len(u)) /\ u[i + 1] \notin {"[", "]", "P"} <=>
          i \in 1..L /\ u[i] = "ESC" /\ u[i + 1] \notin {"ESC", "[", "]", "P"} /\ L + 1 = i + 1
    BY <1>0 DEF Ends
  <2>2. i \in 1..L /\ L + 1 = i + 1 <=> i = L /\ L # 0 BY <1>0
  <2>3. L # 0 => u[L] = p[L] BY <1>0
  <2> QED BY <1>0, <1>1, <2>1, <2>2, <2>3
<1>9. \A i : Ends(u, i, Len(u)) /\ u[i + 1] = "[" <=> CsiOpen(p, i) /\ b \in FinalByte
  BY <1>2 DEF CsiGrows
<1>10. \A i : Ends(u, i, Len(u)) /\ u[i + 1] \in {"]", "P"} <=>
                (InString(p, i) /\ b = "BEL") \/ (Closing(p, i) /\ b = "\\")
  BY <1>2 DEF StringGrows
<1>11. \A i : Ends(u, i, Len(u)) <=>
         \/ i = L /\ EndsInEsc(p) /\ b \notin {"ESC", "[", "]", "P"}
         \/ CsiOpen(p, i) /\ b \in FinalByte
         \/ InString(p, i) /\ b = "BEL"
         \/ Closing(p, i) /\ b = "\\"
  <2> TAKE i
  <2>1. u[i + 1] \notin {"[", "]", "P"} \/ u[i + 1] = "[" \/ u[i + 1] \in {"]", "P"} OBVIOUS
  <2> QED BY <1>8, <1>9, <1>10, <2>1
<1> QED BY <1>0, <1>3, <1>6, <1>7, <1>11 DEF EndsGrow, L

\* The last sequence that is introduced.
\* The last sequence begins at i.
IsLast(p, i) == i \in Escs(p) /\ \A j \in Escs(p) : j <= i

\* The last sequence has ended.
Resting(p) == \A i : IsLast(p, i) => \E j : Ends(p, i, j)

\* What is open is the last sequence.
LastOnes(p) ==
  /\ \A e : CsiOpen(p, e) \/ InString(p, e) => IsLast(p, e)
  /\ EndsInEsc(p) => IsLast(p, Len(p))
  /\ \A e : Closing(p, e) => e \in 1..Len(p) - 1 /\ \A k \in e + 1..Len(p) - 1 : p[k] # "ESC"
  /\ \A i : \A j : Ends(p, i, j) => i # Len(p)
  /\ \A i : \A j : IsLast(p, i) /\ IsLast(p, j) => i = j
  /\ (\A i : ~IsLast(p, i)) => Escs(p) = {}

LEMMA LastIs ==
  ASSUME NEW p \in Seq(Byte)
  PROVE  LastOnes(p)
<1> DEFINE L == Len(p)
<1>0. L \in Nat /\ DOMAIN p = 1..L BY LenProperties
<1>1. \A i : i \in Escs(p) <=> i \in 1..L /\ p[i] = "ESC" BY <1>0 DEF Escs
<1>2. ASSUME NEW e, CsiOpen(p, e) PROVE IsLast(p, e)
  <2>1. e \in 1..L - 1 /\ p[e] = "ESC" /\ p[e + 1] = "[" /\ \A k \in e + 2..L : p[k] \in ParamByte
    BY <1>2 DEF CsiOpen, ParamsTo
  <2>2. \A k \in e + 2..L : p[k] # "ESC" BY <2>1, Bytes
  <2>3. \A k \in 1..L : k <= e \/ k = e + 1 \/ k \in e + 2..L BY <1>0, <2>1
  <2>4. \A k \in 1..L : p[k] = "ESC" => k <= e BY <2>1, <2>2, <2>3
  <2>5. e \in 1..L BY <1>0, <2>1
  <2> QED BY <1>1, <2>1, <2>4, <2>5 DEF IsLast
<1>3. ASSUME NEW e, InString(p, e) PROVE IsLast(p, e)
  <2>1. e \in 1..L - 1 /\ p[e] = "ESC" /\ p[e + 1] \in {"]", "P"} /\ \A k \in e + 2..L : p[k] \notin Ending
    BY <1>3 DEF InString, StringAt, Quiet
  <2>2. \A k \in e + 2..L : p[k] # "ESC" BY <2>1 DEF Ending
  <2>3. \A k \in 1..L : k <= e \/ k = e + 1 \/ k \in e + 2..L BY <1>0, <2>1
  <2>4. \A k \in 1..L : p[k] = "ESC" => k <= e BY <2>1, <2>2, <2>3
  <2>5. e \in 1..L BY <1>0, <2>1
  <2> QED BY <1>1, <2>1, <2>4, <2>5 DEF IsLast
<1>4. EndsInEsc(p) => IsLast(p, L)
  <2> SUFFICES ASSUME EndsInEsc(p) PROVE IsLast(p, L) OBVIOUS
  <2>1. p[L] = "ESC" /\ L # 0 BY EmptySeq DEF EndsInEsc
  <2>2. L \in 1..L /\ \A j \in 1..L : j <= L BY <1>0, <2>1
  <2> QED BY <1>1, <2>1, <2>2 DEF IsLast
<1>5. ASSUME NEW e, Closing(p, e) PROVE e \in 1..L - 1 /\ \A k \in e + 1..L - 1 : p[k] # "ESC"
  <2>1. e \in 1..L - 1 /\ p[e + 1] \in {"]", "P"} /\ \A k \in e + 2..L - 1 : p[k] \notin Ending
    BY <1>5 DEF Closing, StringEnding, StringAt, Quiet
  <2>2. \A k \in e + 1..L - 1 : k = e + 1 \/ k \in e + 2..L - 1 BY <1>0, <2>1
  <2> QED BY <2>1, <2>2 DEF Ending
<1>6. \A i : \A j : Ends(p, i, j) => i # L
  <2> SUFFICES ASSUME NEW i, NEW j, Ends(p, i, j), i = L PROVE FALSE OBVIOUS
  <2>1. i \in 1..L - 1 BY DEF Ends
  <2> QED BY <1>0, <2>1
<1>7. \A i : \A j : IsLast(p, i) /\ IsLast(p, j) => i = j
  <2> SUFFICES ASSUME NEW i, NEW j, IsLast(p, i), IsLast(p, j) PROVE i = j OBVIOUS
  <2>1. i \in 1..L /\ j \in 1..L /\ i <= j /\ j <= i BY <1>1 DEF IsLast
  <2> QED BY <1>0, <2>1
<1>8. (\A i : ~IsLast(p, i)) => Escs(p) = {}
  <2> SUFFICES ASSUME Escs(p) # {} PROVE \E i : IsLast(p, i) OBVIOUS
  <2>1. Escs(p) \in SUBSET (1..L) BY <1>1
  <2>2. PICK x \in Escs(p) : \A y \in Escs(p) : y <= x BY <1>0, <2>1, LastOf
  <2> QED BY <2>2 DEF IsLast
<1> QED BY <1>2, <1>3, <1>4, <1>5, <1>6, <1>7, <1>8 DEF LastOnes

\* The last sequence with b after p.
EscsGrow(p, b, u) ==
  /\ \A i : i \in Escs(u) <=> i \in Escs(p) \/ (i = Len(u) /\ b = "ESC")
  /\ \A i : i \in Escs(p) => i \in 1..Len(p)
  /\ b # "ESC" => \A i : IsLast(u, i) <=> IsLast(p, i)
  /\ b = "ESC" => IsLast(u, Len(u))

LEMMA EscsByte ==
  ASSUME NEW p \in Seq(Byte), NEW b \in Byte, NEW u, u = Append(p, b)
  PROVE  EscsGrow(p, b, u)
<1> DEFINE L == Len(p)
<1>0. /\ u \in Seq(Byte) /\ L \in Nat /\ Len(u) = L + 1 /\ u[L + 1] = b
      /\ \A k \in 1..L : u[k] = p[k]
  BY OneMore
<1>1. DOMAIN p = 1..L /\ DOMAIN u = 1..L + 1 BY <1>0, LenProperties
<1>2. \A i : i \in Escs(p) <=> i \in 1..L /\ p[i] = "ESC" BY <1>1 DEF Escs
<1>3. \A i : i \in Escs(u) <=> i \in 1..L + 1 /\ u[i] = "ESC" BY <1>1 DEF Escs
<1> HIDE DEF L
<1>4. \A i : i \in 1..L + 1 <=> i \in 1..L \/ i = L + 1 BY <1>0
<1>5. \A i : i \in Escs(u) <=> i \in Escs(p) \/ (i = L + 1 /\ b = "ESC")
  BY <1>0, <1>2, <1>3, <1>4
<1>6. b # "ESC" => \A i : IsLast(u, i) <=> IsLast(p, i) BY <1>5 DEF IsLast
<1>7. b = "ESC" => IsLast(u, L + 1)
  <2>1. \A i \in 1..L : i <= L + 1 BY <1>0
  <2>2. L + 1 <= L + 1 BY <1>0
  <2> QED BY <1>2, <1>5, <2>1, <2>2 DEF IsLast
<1> QED BY <1>0, <1>2, <1>5, <1>6, <1>7 DEF EscsGrow, L

\* Where the last sequence has ended, one byte more.
LEMMA RestingByte ==
  ASSUME NEW p \in Seq(Byte), NEW b \in Byte, NEW u, u = Append(p, b)
  PROVE  Resting(u) <=> b # "ESC" /\ (Resting(p) \/ \E i : Ends(u, i, Len(u)))
<1>0. u \in Seq(Byte) BY OneMore
<1>1. EscsGrow(p, b, u) BY EscsByte
<1>2. EndsGrow(p, b, u) BY EndsByte
<1>3. LastOnes(p) /\ LastOnes(u) BY <1>0, LastIs
<1>4. b = "ESC" => ~Resting(u)
  <2> SUFFICES ASSUME b = "ESC", Resting(u) PROVE FALSE OBVIOUS
  <2>1. IsLast(u, Len(u)) BY <1>1 DEF EscsGrow
  <2>2. PICK j : Ends(u, Len(u), j) BY <2>1 DEF Resting
  <2> QED BY <1>3, <2>2 DEF LastOnes
<1>5. Resting(u) /\ b # "ESC" => Resting(p) \/ \E i : Ends(u, i, Len(u))
  <2> SUFFICES ASSUME Resting(u), b # "ESC", ~\E i : Ends(u, i, Len(u)) PROVE Resting(p) OBVIOUS
  <2> SUFFICES ASSUME NEW i, IsLast(p, i) PROVE \E j : Ends(p, i, j) BY DEF Resting
  <2>1. IsLast(u, i) BY <1>1 DEF EscsGrow
  <2>2. PICK j : Ends(u, i, j) BY <2>1 DEF Resting
  <2>3. j = Len(u) \/ Ends(p, i, j) BY <1>2, <2>2 DEF EndsGrow
  <2> QED BY <2>2, <2>3
<1>6. b # "ESC" /\ Resting(p) => Resting(u)
  <2> SUFFICES ASSUME b # "ESC", Resting(p), NEW i, IsLast(u, i) PROVE \E j : Ends(u, i, j)
    BY DEF Resting
  <2>1. IsLast(p, i) BY <1>1 DEF EscsGrow
  <2>2. PICK j : Ends(p, i, j) BY <2>1 DEF Resting
  <2> QED BY <1>2, <2>2 DEF EndsGrow
<1>7. ASSUME b # "ESC", NEW i, Ends(u, i, Len(u)) PROVE Resting(u)
  <2> SUFFICES ASSUME NEW l, IsLast(u, l) PROVE \E j : Ends(u, l, j) BY DEF Resting
  <2>1. IsLast(p, l) BY <1>1, <1>7 DEF EscsGrow
  <2>2. EndsInEsc(p) => l = Len(p) BY <1>3, <2>1 DEF LastOnes
  <2>3. \/ i = Len(p) /\ EndsInEsc(p)
        \/ CsiOpen(p, i) \/ InString(p, i)
        \/ Closing(p, i) /\ b = "\\"
    BY <1>2, <1>7 DEF EndsGrow
  <2>4. CASE i = Len(p) /\ EndsInEsc(p)
    BY <1>7, <2>2, <2>4
  <2>5. CASE CsiOpen(p, i) \/ InString(p, i)
    <3>1. l = i BY <1>3, <2>1, <2>5 DEF LastOnes
    <3> QED BY <1>7, <3>1
  <2>6. CASE Closing(p, i) /\ b = "\\"
    <3>1. EndsInEsc(p) BY <2>6 DEF Closing
    <3>2. b \notin {"ESC", "[", "]", "P"} BY <2>6
    <3>3. Ends(u, Len(p), Len(u)) BY <1>2, <3>1, <3>2 DEF EndsGrow
    <3> QED BY <2>2, <3>1, <3>3
  <2> QED BY <2>3, <2>4, <2>5, <2>6
<1> QED BY <1>4, <1>5, <1>6, <1>7

-----------------------------------------------------------------------------
(* What is drawn                                                           *)

\* Drawn: the byte at p is in a sequence.
Hidden(s, p) ==
  \E i \in Escs(s) :
    i <= p /\ p <= (IF EndOf(s, i) = 0 THEN NextEsc(s, i) - 1 ELSE EndOf(s, i))

\* How far a sequence hides.
Reach(s, i) == IF EndOf(s, i) = 0 THEN NextEsc(s, i) - 1 ELSE EndOf(s, i)

LEMMA HiddenBy == \A s : \A p : Hidden(s, p) <=> \E i \in Escs(s) : i <= p /\ p <= Reach(s, i)
  BY DEF Hidden, Reach

Reaches(s, i) ==
  /\ i \in 1..Len(s) /\ Reach(s, i) \in Int /\ i <= Reach(s, i) /\ Reach(s, i) <= Len(s)
  /\ \A j : Ends(s, i, j) => Reach(s, i) = j /\ j \in Int
  /\ (\A j : ~Ends(s, i, j)) =>
       /\ NextEsc(s, i) = Reach(s, i) + 1
       /\ \A k \in i + 1..Reach(s, i) : s[k] # "ESC"
       /\ Reach(s, i) < Len(s) => Reach(s, i) + 1 \in Escs(s)

LEMMA ReachIs ==
  ASSUME NEW s \in Seq(Byte), NEW i \in Escs(s)
  PROVE  Reaches(s, i)
<1> DEFINE N == NextEsc(s, i)
           R == Reach(s, i)
           L == Len(s)
<1>0. L \in Nat /\ DOMAIN s = 1..L BY LenProperties
<1>1. /\ i \in 1..L /\ N \in i + 1..L + 1 /\ (N <= L => s[N] = "ESC")
      /\ \A j \in i + 1..N - 1 : s[j] # "ESC"
  BY NextFacts
<1>2. \A j : Ends(s, i, j) => EndOf(s, i) = j BY EndOfIs
<1>3. EndOf(s, i) # 0 => Ends(s, i, EndOf(s, i)) BY EndOfIs
<1>4. \A j : Ends(s, i, j) => j \in i + 1..L /\ i < j
  <2> TAKE j
  <2> HAVE Ends(s, i, j)
  <2> QED BY EndsWithin
<1>5. R = IF EndOf(s, i) = 0 THEN N - 1 ELSE EndOf(s, i) BY DEF Reach
<1> HIDE DEF N, R, L
<1>6. \A j : Ends(s, i, j) => R = j /\ j \in Int /\ i <= j /\ j <= L
  <2> TAKE j
  <2> HAVE Ends(s, i, j)
  <2>1. EndOf(s, i) = j /\ j \in i + 1..L /\ i < j BY <1>2, <1>4
  <2>2. j # 0 BY <1>0, <1>1, <2>1
  <2> QED BY <1>0, <1>1, <1>5, <2>1, <2>2
<1>7. ASSUME \A j : ~Ends(s, i, j)
      PROVE  /\ N = R + 1 /\ R \in Int /\ i <= R /\ R <= L
             /\ \A k \in i + 1..R : s[k] # "ESC"
             /\ R < L => R + 1 \in Escs(s)
  <2>1. R = N - 1 BY <1>3, <1>5, <1>7
  <2>2. N = R + 1 /\ R \in Int /\ i <= R /\ R <= L BY <1>0, <1>1, <2>1
  <2>3. R < L => N \in 1..L /\ s[N] = "ESC" BY <1>0, <1>1, <2>2
  <2>4. R < L => N \in Escs(s) BY <1>0, <2>3 DEF Escs
  <2> QED BY <1>1, <2>1, <2>2, <2>4
<1>8. R \in Int /\ i <= R /\ R <= L BY <1>6, <1>7
<1> QED BY <1>1, <1>6, <1>7, <1>8 DEF Reaches, N, R, L

\* What is hidden stays hidden, and nothing else gets hidden.
LEMMA HiddenStays ==
  ASSUME NEW p \in Seq(Byte), NEW b \in Byte, NEW u, u = Append(p, b), NEW k \in 1..Len(p)
  PROVE  Hidden(u, k) <=> Hidden(p, k)
<1>0. /\ u \in Seq(Byte) /\ Len(p) \in Nat /\ Len(u) = Len(p) + 1
      /\ \A m \in 1..Len(p) : u[m] = p[m]
  BY OneMore
<1>1. EscsGrow(p, b, u) BY EscsByte
<1>2. EndsGrow(p, b, u) BY EndsByte
<1>3. LastOnes(p) BY LastIs
<1>4. \A i : i \in Escs(p) => i \in Escs(u) /\ i \in 1..Len(p) BY <1>1 DEF EscsGrow
<1>5. \A i : i \in Escs(u) /\ i <= k => i \in Escs(p)
  <2> TAKE i
  <2> HAVE i \in Escs(u) /\ i <= k
  <2>1. i # Len(u) BY <1>0
  <2> QED BY <1>1, <2>1 DEF EscsGrow
<1>6. ASSUME NEW i \in Escs(p), i <= k, k <= Reach(u, i) PROVE Hidden(p, k)
  <2>0. Reaches(p, i) /\ Reaches(u, i) BY <1>0, <1>4, ReachIs
  <2>1. CASE \E j : Ends(p, i, j)
    <3>1. PICK j : Ends(p, i, j) BY <2>1
    <3>2. Ends(u, i, j) BY <1>2, <3>1 DEF EndsGrow
    <3>3. Reach(u, i) = j /\ Reach(p, i) = j BY <2>0, <3>1, <3>2 DEF Reaches
    <3> QED BY <1>6, <3>3, HiddenBy
  <2>2. CASE \A j : ~Ends(p, i, j)
    <3> DEFINE R == Reach(p, i)
               N == R + 1
    <3>1. /\ i \in 1..Len(p) /\ R \in Int /\ i <= R /\ R <= Len(p)
          /\ R < Len(p) => N \in Escs(p)
      BY <2>0, <2>2 DEF Reaches
    <3>2. CASE k <= R
      BY <1>6, <3>2, HiddenBy
    <3>3. CASE ~(k <= R)
      <4>1. N \in Int /\ N <= k /\ R < Len(p) /\ N <= Len(p) /\ i < N BY <1>0, <3>1, <3>3
      <4>2. N \in Escs(p) BY <3>1, <4>1
      <4> HIDE DEF R, N
      <4>3. Reaches(p, N) BY <4>2, ReachIs
      <4>4. N <= Reach(p, N) /\ N \in 1..Len(p) BY <4>3 DEF Reaches
      <4>5. CASE k = N
        <5>1. N <= k /\ k <= Reach(p, N) BY <4>4, <4>5
        <5> QED BY <4>2, <5>1, HiddenBy
      <4>6. CASE k # N
        <5>1. k > N BY <4>1, <4>6
        <5>2. p[N] = "ESC" /\ u[N] = "ESC" BY <1>0, <4>2, <4>4 DEF Escs
        <5>3. CASE \A j : ~Ends(u, i, j)
          <6>1. \A m \in i + 1..Reach(u, i) : u[m] # "ESC" BY <2>0, <5>3 DEF Reaches
          <6>2. Reach(u, i) \in Int BY <2>0 DEF Reaches
          <6>3. N \in i + 1..Reach(u, i) BY <1>6, <3>1, <4>1, <5>1, <6>2
          <6> QED BY <5>2, <6>1, <6>3
        <5>4. CASE \E j : Ends(u, i, j)
          <6>1. Ends(u, i, Len(u)) BY <1>2, <2>2, <5>4 DEF EndsGrow
          <6>2. \/ i = Len(p) \/ CsiOpen(p, i) \/ InString(p, i) \/ Closing(p, i)
            BY <1>2, <6>1 DEF EndsGrow
          <6>3. i # Len(p) BY <1>0, <3>1, <4>1
          <6>4. ~IsLast(p, i) BY <3>1, <4>1, <4>2 DEF IsLast
          <6>5. Closing(p, i) BY <1>3, <6>2, <6>3, <6>4 DEF LastOnes
          <6>6. \A m \in i + 1..Len(p) - 1 : p[m] # "ESC" BY <1>3, <6>5 DEF LastOnes
          <6>7. N \in i + 1..Len(p) - 1 BY <1>0, <3>1, <4>1, <5>1
          <6> QED BY <5>2, <6>6, <6>7
        <5> QED BY <5>3, <5>4
      <4> QED BY <4>5, <4>6
    <3> QED BY <3>2, <3>3
  <2> QED BY <2>1, <2>2
<1>7. ASSUME NEW i \in Escs(p), i <= k, k <= Reach(p, i) PROVE k <= Reach(u, i)
  <2>0. Reaches(p, i) /\ Reaches(u, i) BY <1>0, <1>4, ReachIs
  <2>1. CASE \E j : Ends(p, i, j)
    <3>1. PICK j : Ends(p, i, j) BY <2>1
    <3>2. Ends(u, i, j) BY <1>2, <3>1 DEF EndsGrow
    <3>3. Reach(u, i) = j /\ Reach(p, i) = j BY <2>0, <3>1, <3>2 DEF Reaches
    <3> QED BY <1>7, <3>3
  <2>2. CASE \A j : ~Ends(p, i, j)
    <3>1. /\ i \in 1..Len(p) /\ Reach(p, i) \in Int /\ \A m \in i + 1..Reach(p, i) : p[m] # "ESC"
      BY <2>0, <2>2 DEF Reaches
    <3>2. CASE \E j : Ends(u, i, j)
      <4>1. Ends(u, i, Len(u)) BY <1>2, <2>2, <3>2 DEF EndsGrow
      <4>2. Reach(u, i) = Len(u) BY <2>0, <4>1 DEF Reaches
      <4> QED BY <1>0, <4>2
    <3>3. CASE \A j : ~Ends(u, i, j)
      <4> DEFINE R == Reach(u, i)
                 N == R + 1
      <4>1. R \in Int /\ i <= R /\ (R < Len(u) => N \in Escs(u)) BY <2>0, <3>3 DEF Reaches
      <4> HIDE DEF R
      <4>2. SUFFICES ASSUME ~(k <= R) PROVE FALSE BY DEF R
      <4>3. R < Len(u) /\ N <= k /\ N \in i + 1..k BY <1>0, <3>1, <4>1, <4>2
      <4>4. N \in Escs(p) BY <1>5, <4>1, <4>3
      <4>5. N \in i + 1..Reach(p, i) BY <1>7, <3>1, <4>3
      <4> QED BY <3>1, <4>4, <4>5 DEF Escs
    <3> QED BY <3>2, <3>3
  <2> QED BY <2>1, <2>2
<1>8. Hidden(u, k) => Hidden(p, k)
  <2> SUFFICES ASSUME Hidden(u, k) PROVE Hidden(p, k) OBVIOUS
  <2>1. PICK i \in Escs(u) : i <= k /\ k <= Reach(u, i) BY HiddenBy
  <2> QED BY <1>5, <1>6, <2>1
<1>9. Hidden(p, k) => Hidden(u, k)
  <2> SUFFICES ASSUME Hidden(p, k) PROVE Hidden(u, k) OBVIOUS
  <2>1. PICK i \in Escs(p) : i <= k /\ k <= Reach(p, i) BY HiddenBy
  <2> QED BY <1>4, <1>7, <2>1, HiddenBy
<1> QED BY <1>8, <1>9

\* The byte itself is drawn if no sequence is open and it begins none.
LEMMA HiddenByte ==
  ASSUME NEW p \in Seq(Byte), NEW b \in Byte, NEW u, u = Append(p, b)
  PROVE  Hidden(u, Len(u)) <=> b = "ESC" \/ ~Resting(p)
<1>0. /\ u \in Seq(Byte) /\ Len(p) \in Nat /\ Len(u) = Len(p) + 1 BY OneMore
<1>1. EscsGrow(p, b, u) BY EscsByte
<1>2. EndsGrow(p, b, u) BY EndsByte
<1>3. LastOnes(p) BY LastIs
<1>4. ASSUME NEW i \in Escs(u) PROVE Reaches(u, i) BY <1>0, ReachIs
<1>5. b = "ESC" => Hidden(u, Len(u))
  <2> SUFFICES ASSUME b = "ESC" PROVE Hidden(u, Len(u)) OBVIOUS
  <2>1. Len(u) \in Escs(u) BY <1>1 DEF EscsGrow
  <2>2. Len(u) <= Reach(u, Len(u)) BY <1>4, <2>1 DEF Reaches
  <2>3. Len(u) <= Len(u) BY <1>0
  <2> QED BY <2>1, <2>2, <2>3, HiddenBy
<1>6. b # "ESC" /\ ~Resting(p) => Hidden(u, Len(u))
  <2> SUFFICES ASSUME b # "ESC", ~Resting(p) PROVE Hidden(u, Len(u)) OBVIOUS
  <2>1. PICK l : IsLast(p, l) /\ \A j : ~Ends(p, l, j) BY DEF Resting
  <2>2. IsLast(u, l) BY <1>1, <2>1 DEF EscsGrow
  <2>3. l \in Escs(u) /\ Reaches(u, l) BY <1>4, <2>2 DEF IsLast
  <2>4. Reach(u, l) \in Int /\ l \in 1..Len(u) BY <2>3 DEF Reaches
  <2>5. Len(u) <= Reach(u, l)
    <3>1. CASE \E j : Ends(u, l, j)
      <4>1. Ends(u, l, Len(u)) BY <1>2, <2>1, <3>1 DEF EndsGrow
      <4>2. Reach(u, l) = Len(u) BY <2>3, <4>1 DEF Reaches
      <4> QED BY <1>0, <4>2
    <3>2. CASE \A j : ~Ends(u, l, j)
      <4>1. Reach(u, l) < Len(u) => Reach(u, l) + 1 \in Escs(u) BY <2>3, <3>2 DEF Reaches
      <4>2. l <= Reach(u, l) BY <2>3 DEF Reaches
      <4>3. Reach(u, l) + 1 \in Escs(u) => Reach(u, l) + 1 <= l BY <2>2 DEF IsLast
      <4> QED BY <1>0, <2>4, <4>1, <4>2, <4>3
    <3> QED BY <3>1, <3>2
  <2>6. l <= Len(u) BY <1>0, <2>4
  <2> QED BY <2>3, <2>5, <2>6, HiddenBy
<1>7. ASSUME b # "ESC", Resting(p), Hidden(u, Len(u)) PROVE FALSE
  <2>1. PICK i \in Escs(u) : i <= Len(u) /\ Len(u) <= Reach(u, i) BY <1>7, HiddenBy
  <2>2. Reaches(u, i) BY <1>4
  <2>3. i \in Escs(p) BY <1>1, <1>7 DEF EscsGrow
  <2>4. \A l : IsLast(p, l) => \E j : Ends(p, l, j) BY <1>7 DEF Resting
  <2>5. EndsInEsc(p) => FALSE
    <3> SUFFICES ASSUME EndsInEsc(p) PROVE FALSE OBVIOUS
    <3>1. IsLast(p, Len(p)) BY <1>3 DEF LastOnes
    <3>2. PICK j : Ends(p, Len(p), j) BY <2>4, <3>1
    <3> QED BY <1>3, <3>2 DEF LastOnes
  <2>6. ASSUME IsLast(p, i) PROVE FALSE
    <3>1. PICK j : Ends(p, i, j) BY <2>4, <2>6
    <3>2. Ends(u, i, j) BY <1>2, <3>1 DEF EndsGrow
    <3>3. Reach(u, i) = j BY <2>2, <3>2 DEF Reaches
    <3>4. j \in 1..Len(p) BY <3>1, EndsWithin
    <3> QED BY <1>0, <2>1, <3>3, <3>4
  <2>7. CASE \E j : Ends(u, i, j)
    <3>1. PICK j : Ends(u, i, j) BY <2>7
    <3>2. Reach(u, i) = j /\ Reach(u, i) <= Len(u) /\ Reach(u, i) \in Int BY <2>2, <3>1 DEF Reaches
    <3>3. j = Len(u) BY <1>0, <2>1, <3>2
    <3>4. EndsInEsc(p) \/ CsiOpen(p, i) \/ InString(p, i) \/ Closing(p, i)
      BY <1>2, <3>1, <3>3 DEF EndsGrow
    <3>5. Closing(p, i) => EndsInEsc(p) BY DEF Closing
    <3>6. CsiOpen(p, i) \/ InString(p, i) => IsLast(p, i) BY <1>3 DEF LastOnes
    <3> QED BY <2>5, <2>6, <3>4, <3>5, <3>6
  <2>8. CASE \A j : ~Ends(u, i, j)
    <3>1. Reach(u, i) \in Int /\ i \in 1..Len(u) /\ \A k \in i + 1..Reach(u, i) : u[k] # "ESC"
      BY <2>2, <2>8 DEF Reaches
    <3>2. \A k \in Escs(u) : k <= i
      <4> SUFFICES ASSUME NEW k \in Escs(u), ~(k <= i) PROVE FALSE OBVIOUS
      <4>1. k \in 1..Len(u) BY <1>4 DEF Reaches
      <4>2. k \in i + 1..Reach(u, i) BY <1>0, <2>1, <3>1, <4>1
      <4>3. u[k] = "ESC" BY DEF Escs
      <4> QED BY <3>1, <4>2, <4>3
    <3>3. IsLast(u, i) BY <3>2 DEF IsLast
    <3>4. IsLast(p, i) BY <1>1, <1>7, <3>3 DEF EscsGrow
    <3> QED BY <2>6, <3>4
  <2> QED BY <2>7, <2>8
<1> QED BY <1>5, <1>6, <1>7

\* What is drawn of s, byte by byte.
AreDrawn(at, s) ==
  /\ Drawn(s) = at[Len(s)] /\ at[0] = <<>>
  /\ \A i \in 1..Len(s) : at[i] = IF Hidden(s, i) THEN at[i - 1] ELSE Append(at[i - 1], s[i])

LEMMA DrawnWalk ==
  ASSUME NEW s \in Seq(Byte)
  PROVE  \E at : AreDrawn(at, s)
<1> DEFINE L == Len(s)
           nums == [p \in 1..L |-> p]
           Nx(x, i) == IF Hidden(s, nums[i]) THEN x ELSE Append(x, s[nums[i]])
           E(g, n) == g = [i \in 0..n |-> IF i = 0 THEN <<>> ELSE Nx(g[i - 1], i)]
           S == {n \in Nat : \E g : E(g, n)}
<1>0. L \in Nat BY LenProperties
<1>a. Len(nums) = L /\ \A i \in 1..L : nums[i] = i
  <2>1. nums \in Seq(Nat) /\ DOMAIN nums = 1..L BY <1>0
  <2> HIDE DEF nums
  <2>2. Len(nums) \in Nat /\ DOMAIN nums = 1..Len(nums) BY <2>1, LenProperties
  <2>3. 1..Len(nums) = 1..L BY <2>1, <2>2
  <2>4. Len(nums) = L
    <3> DEFINE m == Len(nums)
    <3>1. m \in Nat /\ L \in Nat /\ 1..m = 1..L BY <1>0, <2>2, <2>3
    <3> HIDE DEF m, L
    <3>2. m \in 1..m \/ m = 0 BY <3>1
    <3>3. L \in 1..L \/ L = 0 BY <3>1
    <3>4. m <= L BY <3>1, <3>2
    <3>5. L <= m BY <3>1, <3>3
    <3>6. m = L BY <3>1, <3>4, <3>5
    <3> QED BY <3>6 DEF m
  <2> QED BY <2>4 DEF nums
<1>b. Drawn(s) = (CHOOSE g : E(g, Len(nums)))[Len(nums)] BY DEF Drawn, Walk, Hidden
<1>c. Drawn(s) = (CHOOSE g : E(g, L))[L]
  <2> HIDE DEF E, nums
  <2> QED BY <1>a, <1>b
<1>d. \A x : \A i \in 1..L : Nx(x, i) = IF Hidden(s, i) THEN x ELSE Append(x, s[i]) BY <1>a
<1> HIDE DEF Nx, nums
<1>1. 0 \in S
  <2> DEFINE g == [i \in 0..0 |-> <<>>]
  <2>1. g = [i \in 0..0 |-> IF i = 0 THEN <<>> ELSE Nx(g[i - 1], i)] OBVIOUS
  <2>2. E(g, 0) BY <2>1
  <2> QED BY <2>2
<1>2. ASSUME NEW n \in Nat, n \in S PROVE n + 1 \in S
  <2>1. PICK g : E(g, n) BY <1>2
  <2> DEFINE h == [i \in 0..n + 1 |-> IF i = 0 THEN <<>> ELSE Nx(g[i - 1], i)]
  <2>2. \A i \in 0..n : h[i] = g[i] BY <2>1
  <2>3. \A i \in 0..n + 1 : i # 0 => h[i - 1] = g[i - 1]
    <3> TAKE i \in 0..n + 1
    <3> HAVE i # 0
    <3>1. i - 1 \in 0..n OBVIOUS
    <3> QED BY <2>2, <3>1
  <2>4. h = [i \in 0..n + 1 |-> IF i = 0 THEN <<>> ELSE Nx(h[i - 1], i)] BY <2>3
  <2>5. E(h, n + 1) BY <2>4
  <2> HIDE DEF E, h
  <2> QED BY <2>5
<1>3. L \in S BY <1>0, <1>1, <1>2, SetInduction
<1>4. \E g : E(g, L) BY <1>3
<1> DEFINE at == CHOOSE g : E(g, L)
<1>5. Drawn(s) = at[L] BY <1>c
<1>6. E(at, L) BY <1>4
<1>7. \A i \in 0..L : at[i] = IF i = 0 THEN <<>> ELSE Nx(at[i - 1], i) BY <1>6
<1> HIDE DEF at
<1>8. \A i \in 1..L : at[i] = IF Hidden(s, i) THEN at[i - 1] ELSE Append(at[i - 1], s[i])
  <2> TAKE i \in 1..L
  <2>1. i \in 0..L /\ i # 0 BY <1>0
  <2>2. at[i] = Nx(at[i - 1], i) BY <1>7, <2>1
  <2> QED BY <1>d, <2>2
<1>9. at[0] = <<>> BY <1>0, <1>7
<1>10. AreDrawn(at, s) BY <1>5, <1>8, <1>9 DEF AreDrawn
<1> QED BY <1>10

LEMMA DrawnByte ==
  ASSUME NEW p \in Seq(Byte), NEW b \in Byte
  PROVE  Drawn(Append(p, b)) = IF b = "ESC" \/ ~Resting(p) THEN Drawn(p) ELSE Append(Drawn(p), b)
<1> DEFINE u == Append(p, b)
           K == Len(p)
<1>0. /\ u \in Seq(Byte) /\ K \in Nat /\ Len(u) = K + 1 /\ u[K + 1] = b
      /\ \A k \in 1..K : u[k] = p[k]
  BY OneMore
<1>1. \A k \in 1..K : Hidden(u, k) <=> Hidden(p, k) BY HiddenStays
<1>2. Hidden(u, K + 1) <=> b = "ESC" \/ ~Resting(p) BY <1>0, HiddenByte
<1>3. PICK a : AreDrawn(a, p) BY DrawnWalk
<1>4. PICK c : AreDrawn(c, u) BY <1>0, DrawnWalk
<1> HIDE DEF u
<1>5. /\ Drawn(p) = a[K] /\ a[0] = <<>>
      /\ \A i \in 1..K : a[i] = IF Hidden(p, i) THEN a[i - 1] ELSE Append(a[i - 1], p[i])
  BY <1>3 DEF AreDrawn
<1>6. /\ Drawn(u) = c[K + 1] /\ c[0] = <<>>
      /\ \A i \in 1..K + 1 : c[i] = IF Hidden(u, i) THEN c[i - 1] ELSE Append(c[i - 1], u[i])
  BY <1>0, <1>4 DEF AreDrawn
<1> HIDE DEF K
<1> DEFINE S == {i \in Nat : i <= K => c[i] = a[i]}
<1>7. 0 \in S BY <1>5, <1>6
<1>8. ASSUME NEW i \in Nat, i \in S PROVE i + 1 \in S
  <2> SUFFICES ASSUME i + 1 <= K PROVE c[i + 1] = a[i + 1] OBVIOUS
  <2>1. i + 1 \in 1..K /\ i + 1 \in 1..K + 1 /\ (i + 1) - 1 = i /\ i <= K BY <1>0
  <2>2. c[i + 1] = IF Hidden(u, i + 1) THEN c[(i + 1) - 1] ELSE Append(c[(i + 1) - 1], u[i + 1])
    BY <1>6, <2>1, Zenon
  <2>3. a[i + 1] = IF Hidden(p, i + 1) THEN a[(i + 1) - 1] ELSE Append(a[(i + 1) - 1], p[i + 1])
    BY <1>5, <2>1, Zenon
  <2>4. c[i] = a[i] /\ u[i + 1] = p[i + 1] BY <1>0, <1>8, <2>1
  <2>5. Hidden(u, i + 1) <=> Hidden(p, i + 1) BY <1>1, <2>1
  <2> QED BY <2>1, <2>2, <2>3, <2>4, <2>5
<1> HIDE DEF S
<1>9. K \in S BY <1>0, <1>7, <1>8, SetInduction
<1>10. c[K] = a[K] BY <1>0, <1>9 DEF S
<1>11. K + 1 \in 1..K + 1 /\ (K + 1) - 1 = K BY <1>0
<1>12. c[K + 1] = IF Hidden(u, K + 1) THEN c[(K + 1) - 1] ELSE Append(c[(K + 1) - 1], u[K + 1])
  BY <1>6, <1>11, Zenon
<1>13. Drawn(u) = IF Hidden(u, K + 1) THEN Drawn(p) ELSE Append(Drawn(p), b)
  BY <1>0, <1>5, <1>6, <1>10, <1>11, <1>12
<1>14. Drawn(u) = IF b = "ESC" \/ ~Resting(p) THEN Drawn(p) ELSE Append(Drawn(p), b)
  BY <1>2, <1>13
<1> QED BY <1>14 DEF u

-----------------------------------------------------------------------------
(* What is asked                                                           *)

\* A query begins at i and has ended.
Queried(s, i) ==
  /\ \E j : Ends(s, i, j)
  /\ \/ /\ s[i + 1] = "["
        /\ ~TooLong(Inside(s, i)) /\ CsiIsQuery(Inside(s, i), s[EndOf(s, i)])
     \/ s[i + 1] = "]" /\ StringIsQuery("]", Inside(s, i))

\* The reference's queries, one by one.
LEMMA QueriesAre ==
  ASSUME NEW s \in Seq(Byte)
  PROVE  \A i : i \in Queries(s) <=> Queried(s, i)
<1> TAKE i
<1>1. (\E j : Ends(s, i, j)) => i \in 1..Len(s) /\ \E j \in 1..Len(s) : Ends(s, i, j)
  <2> SUFFICES ASSUME NEW j, Ends(s, i, j) PROVE i \in 1..Len(s) /\ \E k \in 1..Len(s) : Ends(s, i, k)
    OBVIOUS
  <2>1. i \in 1..Len(s) /\ j \in 1..Len(s) BY EndsWithin
  <2> QED BY <2>1
<1>2. i \in Complete(s, "[") <=> s[i + 1] = "[" /\ \E j : Ends(s, i, j) BY <1>1, CompleteIs
<1>3. i \in Complete(s, "]") <=> s[i + 1] = "]" /\ \E j : Ends(s, i, j) BY <1>1, CompleteIs
<1>4. i \in Queries(s) <=>
        \/ i \in Complete(s, "[") /\ ~TooLong(Inside(s, i)) /\ CsiIsQuery(Inside(s, i), s[EndOf(s, i)])
        \/ i \in Complete(s, "]") /\ StringIsQuery("]", Inside(s, i))
  BY DEF Queries
<1> QED BY <1>2, <1>3, <1>4 DEF Queried

\* A byte more is asked something, or was before it, or is not.
LEMMA QueriesByte ==
  ASSUME NEW p \in Seq(Byte), NEW b \in Byte, NEW u, u = Append(p, b)
  PROVE  Queries(u) # {} <=> Queries(p) # {} \/ \E i : Ends(u, i, Len(u)) /\ Queried(u, i)
<1>0. /\ u \in Seq(Byte) /\ Len(p) \in Nat /\ Len(u) = Len(p) + 1
      /\ u = p \o <<b>> /\ <<b>> \in Seq(Byte)
  BY OneMore, AppendIsConcat
<1>1. EndsGrow(p, b, u) BY EndsByte
<1>2. ASSUME NEW i, NEW j, Ends(p, i, j) PROVE Queried(u, i) <=> Queried(p, i)
  <2>1. Stays(p, u, i, j) BY <1>0, <1>2, CompleteStays
  <2>2. /\ Ends(u, i, j) /\ EndOf(p, i) = j /\ EndOf(u, i) = j
        /\ u[i + 1] = p[i + 1] /\ u[j] = p[j] /\ Inside(u, i) = Inside(p, i)
    BY <2>1 DEF Stays
  <2>3. (\E k : Ends(u, i, k)) /\ (\E k : Ends(p, i, k)) BY <1>2, <2>2
  <2> QED BY <2>2, <2>3 DEF Queried
<1>3. \A i : Queried(p, i) => Queried(u, i)
  <2> TAKE i
  <2> HAVE Queried(p, i)
  <2>1. PICK j : Ends(p, i, j) BY DEF Queried
  <2> QED BY <1>2, <2>1
<1>4. \A i : Queried(u, i) => Queried(p, i) \/ Ends(u, i, Len(u))
  <2> TAKE i
  <2> HAVE Queried(u, i)
  <2>1. PICK j : Ends(u, i, j) BY DEF Queried
  <2>2. j = Len(u) \/ Ends(p, i, j) BY <1>1, <2>1 DEF EndsGrow
  <2> QED BY <1>2, <2>1, <2>2
<1>5. Queries(u) # {} <=> \E i : Queried(u, i)
  <2>1. \A i : i \in Queries(u) <=> Queried(u, i) BY <1>0, QueriesAre
  <2> QED BY <2>1
<1>6. Queries(p) # {} <=> \E i : Queried(p, i)
  <2>1. \A i : i \in Queries(p) <=> Queried(p, i) BY QueriesAre
  <2> QED BY <2>1
<1> QED BY <1>3, <1>4, <1>5, <1>6

\* A byte that ends a CSI sequence or a string: whether it was a query.
LEMMA CsiQueried ==
  ASSUME NEW p \in Seq(Byte), NEW b \in Byte, NEW u, u = Append(p, b), NEW e, CsiOpen(p, e),
         b \in FinalByte, NEW run, Collects(run, SubSeq(p, e + 2, Len(p)))
  PROVE  Ends(u, e, Len(u)) /\ (Queried(u, e) <=> ~TooLong(run) /\ CsiIsQuery(run, b))
<1> DEFINE rest == SubSeq(p, e + 2, Len(p))
           K == Len(p)
<1>0. /\ u \in Seq(Byte) /\ K \in Nat /\ Len(u) = K + 1 /\ u[K + 1] = b
      /\ \A k \in 1..K : u[k] = p[k]
  BY OneMore
<1>1. Ends(u, e, Len(u)) /\ u[e + 1] = "[" BY CsiByte DEF CsiGrows
<1>2. EndOf(u, e) = K + 1 /\ u[EndOf(u, e)] = b BY <1>0, <1>1, EndsWithin
<1>3. SubSeq(u, e + 2, K) = rest
  <2>1. RestGrows(p, b, u, e) BY RestOfCsi
  <2> QED BY <2>1 DEF RestGrows
<1> HIDE DEF rest, K
<1>4. Inside(u, e) = rest
  <2>1. Inside(u, e) = SubSeq(u, e + 2, EndOf(u, e) - 1) BY <1>1 DEF Inside
  <2>2. (K + 1) - 1 = K BY <1>0
  <2> QED BY <1>2, <1>3, <2>1, <2>2
<1>5. TooLong(run) <=> TooLong(rest) BY DEF Collects, rest
<1>6. ~TooLong(rest) => run = rest BY DEF Collects, rest
<1>7. Queried(u, e) <=> ~TooLong(rest) /\ CsiIsQuery(rest, b)
  <2>1. \E j : Ends(u, e, j) BY <1>1
  <2>2. "[" # "]" OBVIOUS
  <2> QED BY <1>1, <1>2, <1>4, <2>1, <2>2 DEF Queried
<1> QED BY <1>1, <1>5, <1>6, <1>7

\* What is in a string that ends: all that it collects, but for the ESC of its end.
LEMMA StringQueried ==
  ASSUME NEW p \in Seq(Byte), NEW b \in Byte, NEW u, u = Append(p, b), NEW e, NEW k \in Nat,
         \/ InString(p, e) /\ b = "BEL" /\ k = Len(p)
         \/ Closing(p, e) /\ b = "\\" /\ k = Len(p) - 1,
         NEW run, Collects(run, SubSeq(p, e + 2, k))
  PROVE  Ends(u, e, Len(u)) /\ (Queried(u, e) <=> StringIsQuery(p[e + 1], run))
<1> DEFINE rest == SubSeq(p, e + 2, k)
           K == Len(p)
<1>0. /\ u \in Seq(Byte) /\ K \in Nat /\ Len(u) = K + 1 /\ u[K + 1] = b
      /\ \A i \in 1..K : u[i] = p[i]
      /\ \A i \in 1..K, j \in Nat : j <= K => SubSeq(u, i, j) = SubSeq(p, i, j)
  BY OneMore
<1>1. Ends(u, e, Len(u)) /\ u[e + 1] \in {"]", "P"} /\ e \in 1..K - 1 /\ u[e + 1] = p[e + 1]
  <2>1. StringGrows(p, b, u) BY StringBytes
  <2>2. InString(p, e) \/ Closing(p, e) OBVIOUS
  <2>3. (InString(p, e) /\ b = "BEL") \/ (Closing(p, e) /\ b = "\\") OBVIOUS
  <2> QED BY <2>1, <2>2, <2>3 DEF StringGrows
<1>2. EndOf(u, e) = K + 1 /\ u[EndOf(u, e)] = b BY <1>0, <1>1, EndsWithin
<1>3. "BEL" # "\\" /\ "[" # "]" /\ "[" # "P" OBVIOUS
<1> HIDE DEF K
<1>4. Inside(u, e) = SubSeq(u, e + 2, k)
  <2>1. Inside(u, e) = SubSeq(u, e + 2, IF b = "\\" THEN EndOf(u, e) - 2 ELSE EndOf(u, e) - 1)
    BY <1>1, <1>2, <1>3 DEF Inside
  <2>2. (K + 1) - 1 = K /\ (K + 1) - 2 = K - 1 BY <1>0
  <2> QED BY <1>2, <1>3, <2>1, <2>2 DEF K
<1>5. SubSeq(u, e + 2, k) = rest
  <2>1. k <= K BY <1>0 DEF K
  <2>2. CASE e + 2 \in 1..K BY <1>0, <2>1, <2>2
  <2>3. CASE e + 2 \notin 1..K
    <3>1. k < e + 2 /\ e + 2 \in Int /\ k \in Int BY <1>0, <1>1, <2>1, <2>3
    <3> QED BY <3>1, SubSeqEmpty
  <2> QED BY <2>2, <2>3
<1> HIDE DEF rest
<1>6. TooLong(run) <=> TooLong(rest) BY DEF Collects, rest
<1>7. ~TooLong(rest) => run = rest BY DEF Collects, rest
<1>8. Queried(u, e) <=> p[e + 1] = "]" /\ StringIsQuery("]", rest)
  <2>1. \E j : Ends(u, e, j) BY <1>1
  <2> QED BY <1>1, <1>3, <1>4, <1>5, <2>1 DEF Queried
<1>9. StringIsQuery("]", rest) <=> StringIsQuery("]", run)
  <2>1. CASE TooLong(rest) BY <1>6, <2>1 DEF StringIsQuery
  <2>2. CASE ~TooLong(rest) BY <1>7, <2>2
  <2> QED BY <2>1, <2>2
<1>10. StringIsQuery(p[e + 1], run) => p[e + 1] = "]" BY DEF StringIsQuery
<1> QED BY <1>1, <1>8, <1>9, <1>10

\* Some sequence is open: a CSI sequence, a string, a string with an ESC at its end.
InCsi(p) == \E e : CsiOpen(p, e)
InAString(p) == \E e : InString(p, e)
InClosing(p) == \E e : Closing(p, e)

\* Where the walk of a screen is after p.
Stands(st, p) ==
  /\ st \in {"ground", "esc", "csi", "string", "stringEsc", "void"}
  /\ st = "ground" <=> Resting(p)
  /\ st \in {"esc", "stringEsc"} <=> EndsInEsc(p)
  /\ st = "csi" <=> InCsi(p)
  /\ st = "string" <=> InAString(p)
  /\ st = "stringEsc" <=> InClosing(p)

\* What it has collected of the sequence that is open.
Gathers(run, intro, p) ==
  /\ \A e : CsiOpen(p, e) => Collects(run, SubSeq(p, e + 2, Len(p)))
  /\ \A e : InString(p, e) => intro = p[e + 1] /\ Collects(run, SubSeq(p, e + 2, Len(p)))
  /\ \A e : Closing(p, e) => intro = p[e + 1] /\ Collects(run, SubSeq(p, e + 2, Len(p) - 1))

\* What is open with b after p.
Grown(p, b, u) ==
  /\ InCsi(u) <=> (InCsi(p) /\ b \in ParamByte) \/ (EndsInEsc(p) /\ b = "[")
  /\ InAString(u) <=> (InAString(p) /\ b \notin Ending) \/ (EndsInEsc(p) /\ b \in {"]", "P"})
  /\ InClosing(u) <=> InAString(p) /\ b = "ESC"
  /\ EndsInEsc(u) <=> b = "ESC"
  /\ Resting(u) <=> /\ b # "ESC"
                    /\ \/ Resting(p)
                       \/ EndsInEsc(p) /\ b \notin {"[", "]", "P"}
                       \/ InCsi(p) /\ b \in FinalByte
                       \/ InAString(p) /\ b = "BEL"
                       \/ InClosing(p) /\ b = "\\"

LEMMA GrownByte ==
  ASSUME NEW p \in Seq(Byte), NEW b \in Byte, NEW u, u = Append(p, b)
  PROVE  Grown(p, b, u)
<1>1. CsiGrows(p, b, u) BY CsiByte
<1>2. StringGrows(p, b, u) BY StringBytes
<1>3. EndsGrow(p, b, u) BY EndsByte
<1>4. InCsi(u) <=> (InCsi(p) /\ b \in ParamByte) \/ (EndsInEsc(p) /\ b = "[")
  BY <1>1 DEF CsiGrows, InCsi
<1>5. InAString(u) <=> (InAString(p) /\ b \notin Ending) \/ (EndsInEsc(p) /\ b \in {"]", "P"})
  BY <1>2 DEF StringGrows, InAString
<1>6. InClosing(u) <=> InAString(p) /\ b = "ESC" BY <1>2 DEF StringGrows, InAString, InClosing
<1>7. EndsInEsc(u) <=> b = "ESC" BY <1>1 DEF CsiGrows
<1>8. Resting(u) <=> b # "ESC" /\ (Resting(p) \/ \E i : Ends(u, i, Len(u))) BY RestingByte
<1>9. (\E i : Ends(u, i, Len(u))) <=>
        \/ EndsInEsc(p) /\ b \notin {"ESC", "[", "]", "P"}
        \/ InCsi(p) /\ b \in FinalByte
        \/ InAString(p) /\ b = "BEL"
        \/ InClosing(p) /\ b = "\\"
  BY <1>3 DEF EndsGrow, InCsi, InAString, InClosing
<1> QED BY <1>4, <1>5, <1>6, <1>7, <1>8, <1>9 DEF Grown

LEMMA StandsByte ==
  ASSUME NEW p \in Seq(Byte), NEW b \in Byte, NEW u, u = Append(p, b),
         NEW g \in Screens, Stands(g.st, p), NEW n, ScreenStepped(n, g, b)
  PROVE  Stands(n.st, u)
<1> DEFINE st == g.st
           new == n.st
<1>1. Grown(p, b, u) BY GrownByte
<1>2. /\ b \in FinalByte => b # "ESC" /\ b # "BEL" /\ b \notin ParamByte
      /\ b \in ParamByte => b # "ESC" /\ b # "BEL" /\ b \notin FinalByte
      /\ b \in ParamByte \/ b \in FinalByte \/ b = "ESC" \/ b = "BEL"
  BY Bytes
<1>3. {"[", "]", "P", "\\"} \subseteq FinalByte BY DEF FinalByte
<1>4. new \in {"ground", "esc", "csi", "string", "stringEsc", "void"} BY DEF ScreenStepped, Screens
<1>5. /\ b = "ESC" => new = (IF st = "string" THEN "stringEsc" ELSE "esc")
      /\ b # "ESC" /\ st = "ground" => new = "ground"
      /\ b # "ESC" /\ (st = "esc" \/ (st = "stringEsc" /\ b # "\\")) => new = Introduced(b)
      /\ st = "csi" /\ b \in FinalByte => new = "ground"
      /\ st = "csi" /\ b \in ParamByte => new = "csi"
      /\ st = "csi" /\ b = "BEL" => new = "void"
      /\ st = "string" /\ b \notin Ending => new = "string"
      /\ EndsString(st, b) => new = "ground"
      /\ st = "void" /\ b # "ESC" => new = "void"
  BY DEF ScreenStepped
<1> HIDE DEF st, new
<1>6. Stands(st, p) BY DEF st
<1>7. CASE b = "ESC"
  BY <1>1, <1>2, <1>3, <1>4, <1>5, <1>6, <1>7 DEF Grown, Stands, Ending, new
<1>8. CASE b # "ESC" /\ st = "ground"
  BY <1>1, <1>2, <1>3, <1>4, <1>5, <1>6, <1>8 DEF Grown, Stands, new
<1>9. CASE b # "ESC" /\ (st = "esc" \/ (st = "stringEsc" /\ b # "\\"))
  <2>1. new = Introduced(b) BY <1>5, <1>9
  <2>2. EndsInEsc(p) /\ ~InCsi(p) /\ ~InAString(p) /\ ~Resting(p) /\ (b = "\\" => ~InClosing(p))
    BY <1>6, <1>9 DEF Stands
  <2>3. /\ InCsi(u) <=> b = "["
        /\ InAString(u) <=> b \in {"]", "P"}
        /\ ~InClosing(u) /\ ~EndsInEsc(u)
        /\ Resting(u) <=> b \notin {"[", "]", "P"}
    BY <1>1, <1>2, <1>9, <2>2 DEF Grown
  <2> QED BY <2>1, <2>3 DEF Stands, new, Introduced
<1>10. CASE st = "csi" /\ b # "ESC"
  BY <1>1, <1>2, <1>3, <1>4, <1>5, <1>6, <1>10 DEF Grown, Stands, new
<1>11. CASE st = "string" /\ b # "ESC"
  BY <1>1, <1>2, <1>3, <1>4, <1>5, <1>6, <1>11 DEF Grown, Stands, Ending, EndsString, new
<1>12. CASE st = "stringEsc" /\ b = "\\"
  BY <1>1, <1>2, <1>3, <1>4, <1>5, <1>6, <1>12 DEF Grown, Stands, EndsString, new
<1>13. CASE st = "void" /\ b # "ESC"
  BY <1>1, <1>2, <1>3, <1>4, <1>5, <1>6, <1>13 DEF Grown, Stands, new
<1> QED BY <1>6, <1>7, <1>8, <1>9, <1>10, <1>11, <1>12, <1>13 DEF Stands

LEMMA NothingCollected == Collects(<<>>, <<>>)
<1>1. <<>> \in Seq(Byte) /\ Len(<<>>) = 0 /\ MaxParams \in Nat BY EmptySeq, ConstantsAssumption
<1>2. ~TooLong(<<>>) BY <1>1 DEF TooLong
<1> QED BY <1>1, <1>2 DEF Collects

LEMMA GathersByte ==
  ASSUME NEW p \in Seq(Byte), NEW b \in Byte, NEW u, u = Append(p, b),
         NEW g \in Screens, Stands(g.st, p), Gathers(g.run, g.intro, p),
         NEW n, ScreenStepped(n, g, b)
  PROVE  Gathers(n.run, n.intro, u)
<1> DEFINE K == Len(p)
<1>0. /\ u \in Seq(Byte) /\ K \in Nat /\ Len(u) = K + 1 /\ u[K + 1] = b
  BY OneMore
<1>1. CsiGrows(p, b, u) BY CsiByte
<1>2. StringGrows(p, b, u) BY StringBytes
<1>3. \A e \in 1..K - 1 : RestGrows(p, b, u, e) BY RestOf
<1>4. /\ b \in ParamByte => b # "ESC" /\ b # "BEL" /\ b \notin FinalByte /\ b \notin {"[", "]", "P"}
      /\ {"[", "]", "P"} \subseteq FinalByte /\ "ESC" \notin {"[", "]", "P"}
  BY Bytes DEF FinalByte
<1>5. K + 2 \in Int /\ Len(u) \in Int /\ Len(u) < K + 2 /\ (K + 1) - 1 = K BY <1>0
<1>6. SubSeq(u, K + 2, Len(u)) = <<>> BY <1>5, SubSeqEmpty
<1> HIDE DEF K
<1>7. ASSUME NEW e, CsiOpen(u, e) PROVE Collects(n.run, SubSeq(u, e + 2, Len(u)))
  <2>1. (CsiOpen(p, e) /\ b \in ParamByte) \/ (e = K /\ EndsInEsc(p) /\ b = "[")
    BY <1>1, <1>7 DEF CsiGrows, K
  <2>2. CASE CsiOpen(p, e) /\ b \in ParamByte
    <3>1. g.st = "csi" BY <2>2 DEF Stands, InCsi
    <3>2. n.run = Collected(g.run, b) BY <2>2, <3>1 DEF ScreenStepped
    <3>3. e \in 1..K - 1 BY <2>2 DEF CsiOpen, K
    <3>4. RestGrows(p, b, u, e) BY <1>3, <3>3
    <3>5. /\ SubSeq(p, e + 2, K) \in Seq(Byte)
          /\ SubSeq(u, e + 2, Len(u)) = Append(SubSeq(p, e + 2, K), b)
      BY <3>4 DEF RestGrows, K
    <3>6. Collects(g.run, SubSeq(p, e + 2, K)) BY <2>2 DEF Gathers, K
    <3>7. CollectsOn(g.run, SubSeq(p, e + 2, K), b) BY <3>5, <3>6, CollectsMore
    <3>8. Collects(Collected(g.run, b), Append(SubSeq(p, e + 2, K), b)) BY <3>7 DEF CollectsOn
    <3> QED BY <3>2, <3>5, <3>8
  <2>3. CASE e = K /\ EndsInEsc(p) /\ b = "["
    <3>1. g.st \in {"esc", "stringEsc"} /\ b # "ESC" /\ b # "\\" BY <2>3 DEF Stands
    <3>2. n.run = <<>> BY <3>1 DEF ScreenStepped
    <3> QED BY <1>6, <2>3, <3>2, NothingCollected
  <2> QED BY <2>1, <2>2, <2>3
<1>8. ASSUME NEW e, InString(u, e)
      PROVE  n.intro = u[e + 1] /\ Collects(n.run, SubSeq(u, e + 2, Len(u)))
  <2>1. (InString(p, e) /\ b \notin Ending) \/ (e = K /\ EndsInEsc(p) /\ b \in {"]", "P"})
    BY <1>2, <1>8 DEF StringGrows, K
  <2>2. CASE InString(p, e) /\ b \notin Ending
    <3>1. g.st = "string" BY <2>2 DEF Stands, InAString
    <3>2. n.run = Collected(g.run, b) /\ n.intro = g.intro BY <2>2, <3>1 DEF ScreenStepped
    <3>3. e \in 1..K - 1 /\ u[e + 1] = p[e + 1] BY <1>2, <2>2 DEF StringGrows, K
    <3>4. RestGrows(p, b, u, e) BY <1>3, <3>3
    <3>5. /\ SubSeq(p, e + 2, K) \in Seq(Byte)
          /\ SubSeq(u, e + 2, Len(u)) = Append(SubSeq(p, e + 2, K), b)
      BY <3>4 DEF RestGrows, K
    <3>6. g.intro = p[e + 1] /\ Collects(g.run, SubSeq(p, e + 2, K)) BY <2>2 DEF Gathers, K
    <3>7. CollectsOn(g.run, SubSeq(p, e + 2, K), b) BY <3>5, <3>6, CollectsMore
    <3>8. Collects(Collected(g.run, b), Append(SubSeq(p, e + 2, K), b)) BY <3>7 DEF CollectsOn
    <3> QED BY <3>2, <3>3, <3>5, <3>6, <3>8
  <2>3. CASE e = K /\ EndsInEsc(p) /\ b \in {"]", "P"}
    <3>1. g.st \in {"esc", "stringEsc"} /\ b # "ESC" /\ b # "\\" BY <2>3 DEF Stands
    <3>2. n.run = <<>> /\ n.intro = b BY <3>1 DEF ScreenStepped
    <3> QED BY <1>0, <1>6, <2>3, <3>2, NothingCollected
  <2> QED BY <2>1, <2>2, <2>3
<1>9. ASSUME NEW e, Closing(u, e)
      PROVE  n.intro = u[e + 1] /\ Collects(n.run, SubSeq(u, e + 2, Len(u) - 1))
  <2>1. InString(p, e) /\ b = "ESC" BY <1>2, <1>9 DEF StringGrows
  <2>2. n.run = g.run /\ n.intro = g.intro BY <2>1 DEF ScreenStepped
  <2>3. e \in 1..K - 1 /\ u[e + 1] = p[e + 1] BY <1>2, <2>1 DEF StringGrows, K
  <2>4. RestGrows(p, b, u, e) BY <1>3, <2>3
  <2>5. SubSeq(u, e + 2, K) = SubSeq(p, e + 2, K) BY <2>4 DEF RestGrows, K
  <2>6. g.intro = p[e + 1] /\ Collects(g.run, SubSeq(p, e + 2, K)) BY <2>1 DEF Gathers, K
  <2>7. Len(u) - 1 = K BY <1>0, <1>5
  <2> QED BY <2>2, <2>3, <2>5, <2>6, <2>7
<1> QED BY <1>7, <1>8, <1>9 DEF Gathers

\* A byte more asks something: the sequence that it ends is a query.
LEMMA AskedByte ==
  ASSUME NEW p \in Seq(Byte), NEW b \in Byte, NEW u, u = Append(p, b),
         NEW g \in Screens, Stands(g.st, p), Gathers(g.run, g.intro, p),
         NEW n, ScreenStepped(n, g, b)
  PROVE  n.asked = "yes" <=> g.asked = "yes" \/ \E i : Ends(u, i, Len(u)) /\ Queried(u, i)
<1> DEFINE K == Len(p)
           asks == \E i : Ends(u, i, Len(u)) /\ Queried(u, i)
<1>0. /\ u \in Seq(Byte) /\ K \in Nat /\ Len(u) = K + 1 /\ u[K + 1] = b
  BY OneMore
<1>1. EndsGrow(p, b, u) BY EndsByte
<1>2. /\ b \in FinalByte => b # "ESC" /\ b # "BEL" /\ b \notin ParamByte
      /\ b \in ParamByte => b # "ESC" /\ b # "BEL" /\ b \notin FinalByte /\ b # "\\"
      /\ b \in ParamByte \/ b \in FinalByte \/ b = "ESC" \/ b = "BEL"
      /\ "\\" \in FinalByte
  BY Bytes DEF FinalByte
<1>3. \A i : Ends(u, i, Len(u)) =>
         \/ i = K /\ EndsInEsc(p) /\ b \notin {"ESC", "[", "]", "P"}
         \/ CsiOpen(p, i) /\ b \in FinalByte
         \/ InString(p, i) /\ b = "BEL"
         \/ Closing(p, i) /\ b = "\\"
  BY <1>1 DEF EndsGrow, K
<1>4. b \notin {"ESC", "[", "]", "P"} => ~Queried(u, K) BY <1>0 DEF Queried
<1>5. /\ g.st \in {"ground", "esc", "csi", "string", "stringEsc", "void"}
      /\ g.asked \in {"yes", "no"} /\ n.asked \in {"yes", "no"}
  BY DEF Screens, ScreenStepped
<1>6. /\ \A i : CsiOpen(p, i) => g.st = "csi"
      /\ \A i : InString(p, i) => g.st = "string"
      /\ \A i : Closing(p, i) => g.st = "stringEsc"
  BY DEF Stands, InCsi, InAString, InClosing
<1>7. ASSUME g.st = "csi", b \in FinalByte PROVE n.asked = "yes" <=> g.asked = "yes" \/ asks
  <2> DEFINE query == ~TooLong(g.run) /\ CsiIsQuery(g.run, b)
  <2>1. n.asked = Asking(query, g) BY <1>7 DEF ScreenStepped
  <2>2. \A i : Ends(u, i, Len(u)) => CsiOpen(p, i)
    <3>1. ~EndsInEsc(p) BY <1>7 DEF Stands
    <3> QED BY <1>2, <1>3, <1>6, <1>7, <3>1
  <2>3. \A i : CsiOpen(p, i) => Ends(u, i, Len(u)) /\ (Queried(u, i) <=> query)
    <3> TAKE i
    <3> HAVE CsiOpen(p, i)
    <3>1. Collects(g.run, SubSeq(p, i + 2, Len(p))) BY DEF Gathers
    <3> QED BY <1>7, <3>1, CsiQueried
  <2>4. \E i : CsiOpen(p, i) BY <1>7 DEF Stands, InCsi
  <2> HIDE DEF query
  <2>5. asks <=> query BY <2>2, <2>3, <2>4
  <2> QED BY <1>5, <2>1, <2>5 DEF Asking
<1>8. ASSUME EndsString(g.st, b) PROVE n.asked = "yes" <=> g.asked = "yes" \/ asks
  <2> DEFINE query == StringIsQuery(g.intro, g.run)
             OfIt(i) == \/ InString(p, i) /\ b = "BEL"
                        \/ Closing(p, i) /\ b = "\\"
  <2>1. n.asked = Asking(query, g) BY <1>8 DEF ScreenStepped
  <2>2. \A i : Ends(u, i, Len(u)) /\ Queried(u, i) => OfIt(i)
    <3>1. \A i : ~CsiOpen(p, i) BY <1>6, <1>8 DEF EndsString
    <3> QED BY <1>3, <1>4, <3>1
  <2>3. \A i : OfIt(i) => Ends(u, i, Len(u)) /\ (Queried(u, i) <=> query)
    <3> TAKE i
    <3> HAVE OfIt(i)
    <3>1. CASE InString(p, i) /\ b = "BEL"
      <4>1. g.intro = p[i + 1] /\ Collects(g.run, SubSeq(p, i + 2, Len(p))) BY <3>1 DEF Gathers
      <4>2. Len(p) \in Nat BY <1>0
      <4> QED BY <3>1, <4>1, <4>2, StringQueried
    <3>2. CASE Closing(p, i) /\ b = "\\"
      <4>1. g.intro = p[i + 1] /\ Collects(g.run, SubSeq(p, i + 2, Len(p) - 1)) BY <3>2 DEF Gathers
      <4>2. Len(p) - 1 \in Nat
        <5>1. EndsInEsc(p) BY <3>2 DEF Closing
        <5>2. Len(p) # 0 BY <5>1, EmptySeq DEF EndsInEsc
        <5> QED BY <1>0, <5>2
      <4>3. PICK k \in Nat : k = Len(p) - 1 BY <4>2
      <4>4. Collects(g.run, SubSeq(p, i + 2, k)) BY <4>1, <4>3
      <4>5. Ends(u, i, Len(u)) /\ (Queried(u, i) <=> StringIsQuery(p[i + 1], g.run))
        <5>1. \/ InString(p, i) /\ b = "BEL" /\ k = Len(p)
              \/ Closing(p, i) /\ b = "\\" /\ k = Len(p) - 1
          BY <3>2, <4>3
        <5> HIDE DEF OfIt
        <5> QED BY <4>4, <5>1, StringQueried
      <4> QED BY <4>1, <4>5
    <3> QED BY <3>1, <3>2
  <2>4. \E i : OfIt(i) BY <1>8 DEF Stands, InAString, InClosing, EndsString
  <2> HIDE DEF query, OfIt
  <2>5. asks <=> query BY <2>2, <2>3, <2>4
  <2> QED BY <1>5, <2>1, <2>5 DEF Asking
<1>9. ASSUME ~(g.st = "csi" /\ b \in FinalByte), ~EndsString(g.st, b)
      PROVE  n.asked = "yes" <=> g.asked = "yes" \/ asks
  <2>1. ~asks
    <3>1. \A i : ~(CsiOpen(p, i) /\ b \in FinalByte) BY <1>6, <1>9
    <3>2. \A i : ~(InString(p, i) /\ b = "BEL") /\ ~(Closing(p, i) /\ b = "\\")
      BY <1>6, <1>9 DEF EndsString
    <3> QED BY <1>3, <1>4, <3>1, <3>2
  <2>2. n.asked = g.asked
    BY <1>2, <1>5, <1>9 DEF ScreenStepped, Quietly, EndsString, Ending
  <2> QED BY <2>1, <2>2
<1> QED BY <1>7, <1>8, <1>9

\* The walk of a screen tells what the reference says of p.
\* The walk of a screen agrees with the reading of all bytes at once.
Renders(g, p) ==
  /\ g \in Screens /\ Stands(g.st, p) /\ Gathers(g.run, g.intro, p)
  /\ g.drawn = Drawn(p)
  /\ g.asked = "yes" <=> Queries(p) # {}

\* One byte more, and they still agree.
LEMMA RendersByte ==
  ASSUME NEW p \in Seq(Byte), NEW b \in Byte, NEW g, Renders(g, p)
  PROVE  Renders(ScreenStep(g, b), Append(p, b))
<1> DEFINE u == Append(p, b)
           n == ScreenStep(g, b)
<1> SUFFICES Renders(n, u) OBVIOUS
<1>0. u = Append(p, b) OBVIOUS
<1>1. /\ g \in Screens /\ Stands(g.st, p) /\ Gathers(g.run, g.intro, p) /\ g.drawn = Drawn(p)
      /\ g.asked = "yes" <=> Queries(p) # {}
  BY DEF Renders
<1>2. ScreenStepped(n, g, b) BY <1>1, ScreenStepsTo
<1>3. Drawn(u) = IF b = "ESC" \/ ~Resting(p) THEN Drawn(p) ELSE Append(Drawn(p), b) BY DrawnByte
<1> HIDE DEF u, n
<1>4. n \in Screens BY <1>2 DEF ScreenStepped
<1>5. Stands(n.st, u) BY <1>0, <1>1, <1>2, StandsByte
<1>6. Gathers(n.run, n.intro, u) BY <1>0, <1>1, <1>2, GathersByte
<1>7. n.asked = "yes" <=> g.asked = "yes" \/ \E i : Ends(u, i, Len(u)) /\ Queried(u, i)
  BY <1>0, <1>1, <1>2, AskedByte
<1>8. Queries(u) # {} <=> Queries(p) # {} \/ \E i : Ends(u, i, Len(u)) /\ Queried(u, i)
  BY <1>0, QueriesByte
<1>9. n.drawn = Drawn(u)
  <2>1. g.st = "ground" <=> Resting(p) BY <1>1 DEF Stands
  <2>2. CASE b # "ESC" /\ g.st = "ground"
    <3>1. n.drawn = Append(g.drawn, b) BY <1>2, <2>2 DEF ScreenStepped
    <3> QED BY <1>1, <1>3, <2>1, <2>2, <3>1
  <2>3. CASE b = "ESC" \/ g.st # "ground"
    <3>1. Drawn(u) = Drawn(p) BY <1>3, <2>1, <2>3
    <3>2. /\ b \in ParamByte \/ b \in FinalByte \/ b = "ESC" \/ b = "BEL"
      BY Bytes
    <3>3. g.st \in {"ground", "esc", "csi", "string", "stringEsc", "void"} BY <1>1 DEF Screens
    <3>4. n.drawn = g.drawn
      BY <1>2, <2>3, <3>2, <3>3 DEF ScreenStepped, Quietly, EndsString, Ending
    <3> QED BY <1>1, <3>1, <3>4
  <2> QED BY <1>1, <2>2, <2>3
<1>10. n.asked = "yes" <=> Queries(u) # {} BY <1>1, <1>7, <1>8
<1> QED BY <1>4, <1>5, <1>6, <1>9, <1>10 DEF Renders

LEMMA NewScreenRenders == Renders(NewScreen, <<>>)
<1> DEFINE e == <<>>
<1>0. e \in Seq(Byte) /\ Len(e) = 0 BY EmptySeq
<1>1. Escs(e) = {} BY <1>0, EmptySeq DEF Escs
<1>2. Resting(e) BY <1>1 DEF Resting, IsLast
<1>3. ~EndsInEsc(e) BY DEF EndsInEsc
<1>4. (\A i : ~CsiOpen(e, i)) /\ (\A i : ~InString(e, i)) /\ (\A i : ~Closing(e, i))
  BY <1>0, <1>3 DEF CsiOpen, InString, StringAt, Closing
<1>5. Queries(e) = {}
  <2>1. \A i, j : ~Ends(e, i, j) BY <1>0 DEF Ends
  <2>2. \A i : ~Queried(e, i) BY <2>1 DEF Queried
  <2> QED BY <1>0, <2>2, QueriesAre
<1>6. Drawn(e) = <<>>
  <2>1. PICK at : AreDrawn(at, e) BY <1>0, DrawnWalk
  <2> QED BY <1>0, <2>1 DEF AreDrawn
<1>7. NewScreen \in Screens BY EmptySeq DEF NewScreen, Screens
<1> HIDE DEF e
<1>8. Stands(NewScreen.st, e)
  BY <1>2, <1>3, <1>4 DEF Stands, NewScreen, InCsi, InAString, InClosing
<1>9. Gathers(NewScreen.run, NewScreen.intro, e) BY <1>4 DEF Gathers
<1>10. NewScreen.drawn = <<>> /\ NewScreen.asked = "no" BY DEF NewScreen
<1>11. Renders(NewScreen, e) BY <1>5, <1>6, <1>7, <1>8, <1>9, <1>10 DEF Renders
<1> QED BY <1>11 DEF e

\* What the reference draws and asks is what its walk does.
LEMMA ScreenIs ==
  ASSUME NEW s \in Seq(Byte)
  PROVE  Renders(ScreenWalk(NewScreen, s), s)
<1> DEFINE OK(p) == Renders(ScreenWalk(NewScreen, p), p)
           S == {p \in Seq(Byte) : OK(p)}
<1>1. <<>> \in S
  <2>1. OK(<<>>) BY NewScreenRenders, ScreenByte
  <2> QED BY <2>1, EmptySeq
<1>2. ASSUME NEW p \in Seq(Byte), NEW b \in Byte, p \in S PROVE Append(p, b) \in S
  <2>1. Renders(ScreenWalk(NewScreen, p), p) BY <1>2
  <2>2. Renders(ScreenStep(ScreenWalk(NewScreen, p), b), Append(p, b)) BY <2>1, RendersByte
  <2>3. OK(Append(p, b)) BY <2>2, ScreenByte
  <2> QED BY <2>3, AppendProperties
<1> HIDE DEF S
<1>3. \A p \in Seq(Byte) : p \in S BY <1>1, <1>2, PrefixInduction
<1> QED BY <1>3 DEF S

LEMMA AppendOn ==
  ASSUME NEW s \in Seq(Byte), NEW y \in Seq(Byte), NEW b \in Byte
  PROVE  /\ s \o y \in Seq(Byte) /\ Append(y, b) \in Seq(Byte)
         /\ s \o Append(y, b) = Append(s \o y, b)
<1>1. s \o y \in Seq(Byte) /\ Append(y, b) \in Seq(Byte) BY ConcatProperties, AppendProperties
<1>2. <<b>> \in Seq(Byte) OBVIOUS
<1>3. Append(y, b) = y \o <<b>> /\ Append(s \o y, b) = (s \o y) \o <<b>> BY <1>1, AppendIsConcat
<1>4. s \o (y \o <<b>>) = (s \o y) \o <<b>> BY <1>2, ConcatAssociative
<1> QED BY <1>1, <1>3, <1>4

LEMMA ScreenWalkOn ==
  ASSUME NEW g, NEW s \in Seq(Byte), NEW x \in Seq(Byte)
  PROVE  ScreenWalk(g, s \o x) = ScreenWalk(ScreenWalk(g, s), x)
<1> DEFINE k == ScreenWalk(g, s)
           S == {y \in Seq(Byte) : ScreenWalk(g, s \o y) = ScreenWalk(k, y)}
<1>1. <<>> \in S
  <2>1. s \o <<>> = s /\ <<>> \in Seq(Byte) BY EmptySeq, ConcatEmptySeq
  <2>2. ScreenWalk(k, <<>>) = k BY ScreenByte
  <2> QED BY <2>1, <2>2
<1>2. ASSUME NEW y \in Seq(Byte), NEW b \in Byte, y \in S PROVE Append(y, b) \in S
  <2>1. s \o y \in Seq(Byte) /\ Append(y, b) \in Seq(Byte) /\ s \o Append(y, b) = Append(s \o y, b)
    BY AppendOn
  <2>2. ScreenWalk(g, Append(s \o y, b)) = ScreenStep(ScreenWalk(g, s \o y), b) BY <2>1, ScreenByte
  <2>3. ScreenWalk(k, Append(y, b)) = ScreenStep(ScreenWalk(k, y), b) BY ScreenByte
  <2>4. ScreenWalk(g, s \o y) = ScreenWalk(k, y) BY <1>2
  <2> HIDE DEF k
  <2> QED BY <2>1, <2>2, <2>3, <2>4
<1> HIDE DEF S
<1>3. x \in S BY <1>1, <1>2, PrefixInduction
<1> QED BY <1>3 DEF S

-----------------------------------------------------------------------------
(* The replay is inert                                                     *)

\* A terminal, and a screen, that is in no sequence.
GroundTerms == {t \in Terminals : t.st = "ground"}
GroundScreens == {g \in Screens : g.st = "ground"}

\* What is left of a run of bytes does to a terminal what the run does, and draws what
\* it draws, but asks nothing.
Alike(c, o) ==
  /\ \A t \in GroundTerms : TermWalk(t, c) = TermWalk(t, o) /\ TermWalk(t, o) \in GroundTerms
  /\ \A g \in GroundScreens :
       /\ ScreenWalk(g, c) \in GroundScreens /\ ScreenWalk(g, o) \in GroundScreens
       /\ ScreenWalk(g, c).drawn = ScreenWalk(g, o).drawn
       /\ ScreenWalk(g, o).asked = g.asked

\* A sequence that may stay, and one that may be dropped.
Harmless(y) ==
  /\ \A t \in GroundTerms : TermWalk(t, y) \in GroundTerms
  /\ \A g \in GroundScreens : ScreenWalk(g, y) \in GroundScreens /\ Quietly(ScreenWalk(g, y), g)

Vanishes(y) ==
  /\ \A t \in GroundTerms : TermWalk(t, y) = t
  /\ \A g \in GroundScreens :
       ScreenWalk(g, y) \in GroundScreens /\ ScreenWalk(g, y).drawn = g.drawn

\* A sequence that is kept keeps what was filtered like what was read; so does one that
\* is dropped (AlikeDropped), and a byte that is drawn (AlikeDrawn).
LEMMA AlikeKept ==
  ASSUME NEW c \in Seq(Byte), NEW o \in Seq(Byte), NEW y \in Seq(Byte), Alike(c, o), Harmless(y)
  PROVE  Alike(c \o y, o \o y)
<1>1. ASSUME NEW t \in GroundTerms
      PROVE  TermWalk(t, c \o y) = TermWalk(t, o \o y) /\ TermWalk(t, o \o y) \in GroundTerms
  <2>1. TermWalk(t, c) = TermWalk(t, o) /\ TermWalk(t, o) \in GroundTerms BY DEF Alike
  <2>2. TermWalk(t, c \o y) = TermWalk(TermWalk(t, c), y) /\ TermWalk(t, o \o y) = TermWalk(TermWalk(t, o), y)
    BY TermWalkOn
  <2>3. TermWalk(TermWalk(t, o), y) \in GroundTerms BY <2>1 DEF Harmless
  <2> QED BY <2>1, <2>2, <2>3
<1>2. ASSUME NEW g \in GroundScreens
      PROVE  /\ ScreenWalk(g, c \o y) \in GroundScreens /\ ScreenWalk(g, o \o y) \in GroundScreens
             /\ ScreenWalk(g, c \o y).drawn = ScreenWalk(g, o \o y).drawn
             /\ ScreenWalk(g, o \o y).asked = g.asked
  <2> DEFINE k == ScreenWalk(g, c)
             l == ScreenWalk(g, o)
  <2>1. k \in GroundScreens /\ l \in GroundScreens /\ k.drawn = l.drawn /\ l.asked = g.asked
    BY DEF Alike
  <2>2. ScreenWalk(g, c \o y) = ScreenWalk(k, y) /\ ScreenWalk(g, o \o y) = ScreenWalk(l, y)
    BY ScreenWalkOn
  <2> HIDE DEF k, l
  <2>3. /\ ScreenWalk(k, y) \in GroundScreens /\ Quietly(ScreenWalk(k, y), k)
        /\ ScreenWalk(l, y) \in GroundScreens /\ Quietly(ScreenWalk(l, y), l)
    BY <2>1 DEF Harmless
  <2> QED BY <2>1, <2>2, <2>3 DEF Quietly
<1> QED BY <1>1, <1>2 DEF Alike

LEMMA AlikeDropped ==
  ASSUME NEW c \in Seq(Byte), NEW o \in Seq(Byte), NEW y \in Seq(Byte), Alike(c, o), Vanishes(y)
  PROVE  Alike(c \o y, o)
<1>1. ASSUME NEW t \in GroundTerms
      PROVE  TermWalk(t, c \o y) = TermWalk(t, o) /\ TermWalk(t, o) \in GroundTerms
  <2>1. TermWalk(t, c) = TermWalk(t, o) /\ TermWalk(t, o) \in GroundTerms BY DEF Alike
  <2>2. TermWalk(t, c \o y) = TermWalk(TermWalk(t, c), y) BY TermWalkOn
  <2>3. TermWalk(TermWalk(t, o), y) = TermWalk(t, o) BY <2>1 DEF Vanishes
  <2> QED BY <2>1, <2>2, <2>3
<1>2. ASSUME NEW g \in GroundScreens
      PROVE  /\ ScreenWalk(g, c \o y) \in GroundScreens /\ ScreenWalk(g, o) \in GroundScreens
             /\ ScreenWalk(g, c \o y).drawn = ScreenWalk(g, o).drawn
             /\ ScreenWalk(g, o).asked = g.asked
  <2> DEFINE k == ScreenWalk(g, c)
             l == ScreenWalk(g, o)
  <2>1. k \in GroundScreens /\ l \in GroundScreens /\ k.drawn = l.drawn /\ l.asked = g.asked
    BY DEF Alike
  <2>2. ScreenWalk(g, c \o y) = ScreenWalk(k, y) BY ScreenWalkOn
  <2> HIDE DEF k
  <2>3. ScreenWalk(k, y) \in GroundScreens /\ ScreenWalk(k, y).drawn = k.drawn
    BY <2>1 DEF Vanishes
  <2> QED BY <2>1, <2>2, <2>3
<1> QED BY <1>1, <1>2 DEF Alike

LEMMA AlikeDrawn ==
  ASSUME NEW c \in Seq(Byte), NEW o \in Seq(Byte), Alike(c, o), NEW b \in Byte, b # "ESC"
  PROVE  Alike(Append(c, b), Append(o, b))
<1>1. ASSUME NEW t \in GroundTerms
      PROVE  /\ TermWalk(t, Append(c, b)) = TermWalk(t, Append(o, b))
             /\ TermWalk(t, Append(o, b)) \in GroundTerms
  <2> DEFINE l == TermWalk(t, o)
  <2>1. TermWalk(t, c) = l /\ l \in GroundTerms BY DEF Alike
  <2>2. TermWalk(t, Append(c, b)) = TermStep(l, b) /\ TermWalk(t, Append(o, b)) = TermStep(l, b)
    <3>1. TermWalk(t, Append(c, b)) = TermStep(TermWalk(t, c), b) BY TermByte
    <3>2. TermWalk(t, Append(o, b)) = TermStep(TermWalk(t, o), b) BY TermByte
    <3> HIDE DEF l
    <3>3. TermWalk(t, o) = l BY DEF l
    <3> QED BY <2>1, <3>1, <3>2, <3>3
  <2> HIDE DEF l
  <2>3. TermStepped(TermStep(l, b), l, b) BY <2>1, TermStepsTo DEF GroundTerms
  <2>4. TermStep(l, b) \in Terminals /\ TermStep(l, b).st = "ground"
    BY <2>1, <2>3 DEF TermStepped, GroundTerms
  <2> QED BY <2>2, <2>4 DEF GroundTerms
<1>2. ASSUME NEW g \in GroundScreens
      PROVE  /\ ScreenWalk(g, Append(c, b)) \in GroundScreens
             /\ ScreenWalk(g, Append(o, b)) \in GroundScreens
             /\ ScreenWalk(g, Append(c, b)).drawn = ScreenWalk(g, Append(o, b)).drawn
             /\ ScreenWalk(g, Append(o, b)).asked = g.asked
  <2> DEFINE k == ScreenWalk(g, c)
             l == ScreenWalk(g, o)
  <2>1. k \in GroundScreens /\ l \in GroundScreens /\ k.drawn = l.drawn /\ l.asked = g.asked
    BY DEF Alike
  <2>2. ScreenWalk(g, Append(c, b)) = ScreenStep(k, b) /\ ScreenWalk(g, Append(o, b)) = ScreenStep(l, b)
    BY ScreenByte
  <2> HIDE DEF k, l
  <2>3. ScreenStepped(ScreenStep(k, b), k, b) /\ ScreenStepped(ScreenStep(l, b), l, b)
    BY <2>1, ScreenStepsTo DEF GroundScreens
  <2>4. /\ ScreenStep(k, b) \in Screens /\ ScreenStep(k, b).st = "ground"
        /\ ScreenStep(k, b).drawn = Append(k.drawn, b)
    BY <2>1, <2>3 DEF ScreenStepped, GroundScreens
  <2>5. /\ ScreenStep(l, b) \in Screens /\ ScreenStep(l, b).st = "ground"
        /\ ScreenStep(l, b).drawn = Append(l.drawn, b) /\ ScreenStep(l, b).asked = l.asked
    BY <2>1, <2>3 DEF ScreenStepped, GroundScreens
  <2> QED BY <2>1, <2>2, <2>4, <2>5 DEF GroundScreens
<1> QED BY <1>1, <1>2 DEF Alike

\* The sequence y that the filter is in, to a terminal and to a screen: where it takes
\* them, and that it has done nothing yet.
TermStands(t, st) ==
  IF st \in {"esc", "stringEsc"} THEN "esc" ELSE IF st = "csi" THEN "csi" ELSE "ground"

\* The terminal k, which was t before the sequence; the screen z, which was g.
BehavesTo(r, t, k) ==
  /\ k \in Terminals /\ k.modes = t.modes /\ k.st = TermStands(t, r.st)
  /\ r.st = "csi" => k.params = r.run

LooksTo(r, g, z) ==
  /\ z \in Screens /\ z.st = r.st /\ Quietly(z, g)
  /\ r.st \in {"csi", "string", "stringEsc"} => z.run = r.run /\ z.intro = r.intro

Behaves(r, y) ==
  /\ \A t \in GroundTerms : BehavesTo(r, t, TermWalk(t, y))
  /\ \A g \in GroundScreens : LooksTo(r, g, ScreenWalk(g, y))

\* The sequence goes on.
Begins(n, r, b) ==
  /\ r.st = "ground" /\ b = "ESC" /\ n.st = "esc"
GoesInto(n, r, b) ==
  \/ r.st = "esc" /\ b \in {"[", "]", "P"} /\ n.st = Introduced(b) /\ n.run = <<>> /\ n.intro = b
  \/ r.st = "csi" /\ b \in ParamByte /\ n.st = "csi" /\ n.run = Collected(r.run, b)
     /\ n.intro = r.intro
  \/ r.st = "string" /\ b = "ESC" /\ n.st = "stringEsc" /\ n.run = r.run /\ n.intro = r.intro
  \/ r.st = "string" /\ b \notin Ending /\ n.st = "string" /\ n.run = Collected(r.run, b)
     /\ n.intro = r.intro

\* Where the sequence goes on, it goes on for terminal and screen alike.
LEMMA BehavesOn ==
  ASSUME NEW r, NEW y \in Seq(Byte), Behaves(r, y), NEW b \in Byte, NEW n,
         Begins(n, r, b) \/ GoesInto(n, r, b)
  PROVE  Behaves(n, Append(y, b))
<1>0. /\ b \in FinalByte => b # "ESC" /\ b # "BEL" /\ b \notin ParamByte
      /\ b \in ParamByte => b # "ESC" /\ b # "BEL" /\ b \notin FinalByte
      /\ "ESC" \notin FinalByte /\ "ESC" \notin ParamByte
  BY Bytes
<1>1. ASSUME NEW t \in GroundTerms PROVE BehavesTo(n, t, TermWalk(t, Append(y, b)))
  <2> DEFINE k == TermWalk(t, y)
             l == TermStep(k, b)
  <2>1. TermWalk(t, Append(y, b)) = l BY TermByte
  <2>2. BehavesTo(r, t, k) BY DEF Behaves
  <2>3. TermStepped(l, k, b) BY <2>2, TermStepsTo DEF BehavesTo
  <2> HIDE DEF k, l
  <2>4. k.modes = t.modes /\ k.st = TermStands(t, r.st) /\ (r.st = "csi" => k.params = r.run)
    BY <2>2 DEF BehavesTo
  <2>5. l \in Terminals BY <2>3 DEF TermStepped
  <2>6. CASE b = "ESC"
    <3>1. n.st \in {"esc", "stringEsc"} BY <1>0, <2>6 DEF Begins, GoesInto, Ending
    <3>2. l.st = "esc" /\ l.modes = k.modes BY <2>3, <2>6 DEF TermStepped
    <3> QED BY <2>1, <2>4, <2>5, <3>1, <3>2 DEF BehavesTo, TermStands
  <2>7. CASE r.st = "esc" /\ b \in {"[", "]", "P"}
    <3>1. n.st = Introduced(b) /\ n.run = <<>> BY <2>7 DEF Begins, GoesInto
    <3>2. l.st = (IF b = "[" THEN "csi" ELSE "ground") /\ l.params = <<>> /\ l.modes = Keypad(k.modes, b)
      BY <2>3, <2>4, <2>7 DEF TermStepped, TermStands
    <3>3. Keypad(k.modes, b) = k.modes BY <2>7 DEF Keypad
    <3>4. n.st = (IF b = "[" THEN "csi" ELSE "string") BY <2>7, <3>1 DEF Introduced
    <3> QED BY <2>1, <2>4, <2>5, <2>7, <3>1, <3>2, <3>3, <3>4 DEF BehavesTo, TermStands
  <2>8. CASE r.st = "csi" /\ b \in ParamByte
    <3>1. n.st = "csi" /\ n.run = Collected(r.run, b) BY <1>0, <2>8 DEF Begins, GoesInto
    <3>2. k.st = "csi" /\ k.params = r.run BY <2>4, <2>8 DEF TermStands
    <3>3. l.st = "csi" /\ l.params = Collected(k.params, b) /\ l.modes = k.modes
      BY <2>3, <2>8, <3>2 DEF TermStepped
    <3> QED BY <2>1, <2>4, <2>5, <3>1, <3>2, <3>3 DEF BehavesTo, TermStands
  <2>9. CASE r.st = "string" /\ b \notin Ending
    <3>1. n.st = "string" BY <1>0, <2>9 DEF Begins, GoesInto, Ending
    <3>2. k.st = "ground" BY <2>4, <2>9 DEF TermStands
    <3>3. l.st = "ground" /\ l.modes = k.modes BY <2>3, <2>9, <3>2 DEF TermStepped, Ending
    <3> QED BY <2>1, <2>4, <2>5, <3>1, <3>3 DEF BehavesTo, TermStands
  <2> QED BY <2>6, <2>7, <2>8, <2>9 DEF Begins, GoesInto
<1>2. ASSUME NEW g \in GroundScreens PROVE LooksTo(n, g, ScreenWalk(g, Append(y, b)))
  <2> DEFINE z == ScreenWalk(g, y)
             w == ScreenStep(z, b)
  <2>1. ScreenWalk(g, Append(y, b)) = w BY ScreenByte
  <2>2. LooksTo(r, g, z) BY DEF Behaves
  <2>3. ScreenStepped(w, z, b) BY <2>2, ScreenStepsTo DEF LooksTo
  <2> HIDE DEF z, w
  <2>4. /\ z.st = r.st /\ Quietly(z, g)
        /\ r.st \in {"csi", "string", "stringEsc"} => z.run = r.run /\ z.intro = r.intro
    BY <2>2 DEF LooksTo
  <2>5. w \in Screens BY <2>3 DEF ScreenStepped
  <2>6. Quietly(w, z) => Quietly(w, g) BY <2>4 DEF Quietly
  <2>7. CASE r.st = "ground" /\ b = "ESC"
    <3>1. n.st = "esc" BY <2>7 DEF Begins, GoesInto
    <3>2. w.st = "esc" /\ Quietly(w, z) BY <2>3, <2>4, <2>7 DEF ScreenStepped
    <3> QED BY <2>1, <2>5, <2>6, <3>1, <3>2 DEF LooksTo
  <2>8. CASE r.st = "esc" /\ b \in {"[", "]", "P"}
    <3>1. n.st = Introduced(b) /\ n.run = <<>> /\ n.intro = b BY <2>8 DEF Begins, GoesInto
    <3>2. w.st = Introduced(b) /\ w.run = <<>> /\ w.intro = b /\ Quietly(w, z)
      BY <2>3, <2>4, <2>8 DEF ScreenStepped
    <3> QED BY <2>1, <2>5, <2>6, <3>1, <3>2 DEF LooksTo
  <2>9. CASE r.st = "csi" /\ b \in ParamByte
    <3>1. n.st = "csi" /\ n.run = Collected(r.run, b) /\ n.intro = r.intro
      BY <1>0, <2>9 DEF Begins, GoesInto
    <3>2. w.st = "csi" /\ w.run = Collected(z.run, b) /\ w.intro = z.intro /\ Quietly(w, z)
      BY <2>3, <2>4, <2>9 DEF ScreenStepped
    <3> QED BY <2>1, <2>4, <2>5, <2>6, <2>9, <3>1, <3>2 DEF LooksTo
  <2>10. CASE r.st = "string" /\ b = "ESC"
    <3>1. n.st = "stringEsc" /\ n.run = r.run /\ n.intro = r.intro
      BY <1>0, <2>10 DEF Begins, GoesInto, Ending
    <3>2. w.st = "stringEsc" /\ w.run = z.run /\ w.intro = z.intro /\ Quietly(w, z)
      BY <2>3, <2>4, <2>10 DEF ScreenStepped
    <3> QED BY <2>1, <2>4, <2>5, <2>6, <2>10, <3>1, <3>2 DEF LooksTo
  <2>11. CASE r.st = "string" /\ b \notin Ending
    <3>1. n.st = "string" /\ n.run = Collected(r.run, b) /\ n.intro = r.intro
      BY <1>0, <2>11 DEF Begins, GoesInto, Ending
    <3>2. w.st = "string" /\ w.run = Collected(z.run, b) /\ w.intro = z.intro /\ Quietly(w, z)
      BY <2>3, <2>4, <2>11 DEF ScreenStepped
    <3> QED BY <2>1, <2>4, <2>5, <2>6, <2>11, <3>1, <3>2 DEF LooksTo
  <2> QED BY <2>7, <2>8, <2>9, <2>10, <2>11 DEF Begins, GoesInto
<1> QED BY <1>1, <1>2 DEF Behaves

\* The sequence ends.
EndsIt(r, b) ==
  \/ r.st = "esc" /\ b \notin {"ESC", "[", "]", "P"}
  \/ r.st = "csi" /\ b \in FinalByte
  \/ EndsString(r.st, b)

\* It is one that the filter drops.
IsQuery(r, b) ==
  \/ r.st = "csi" /\ ~TooLong(r.run) /\ CsiIsQuery(r.run, b)
  \/ EndsString(r.st, b) /\ StringIsQuery(r.intro, r.run)

\* A sequence that ends may stay, if it is no query, or be dropped, if it is one.
LEMMA EndsHarmless ==
  ASSUME NEW r, NEW y \in Seq(Byte), Behaves(r, y), NEW b \in Byte, EndsIt(r, b)
  PROVE  IF IsQuery(r, b) THEN Vanishes(Append(y, b)) ELSE Harmless(Append(y, b))
<1> DEFINE q == IsQuery(r, b)
<1>0. /\ b \in FinalByte => b # "ESC" /\ b # "BEL" /\ b \notin ParamByte
      /\ "ESC" # "BEL" /\ "ESC" # "\\"
      /\ "BEL" \notin FinalByte \cup ParamByte
  BY Bytes
<1>1. ASSUME NEW t \in GroundTerms
      PROVE  /\ TermWalk(t, Append(y, b)) \in GroundTerms
             /\ q => TermWalk(t, Append(y, b)) = t
  <2> DEFINE k == TermWalk(t, y)
             l == TermStep(k, b)
  <2>1. TermWalk(t, Append(y, b)) = l BY TermByte
  <2>2. BehavesTo(r, t, k) BY DEF Behaves
  <2>3. TermStepped(l, k, b) BY <2>2, TermStepsTo DEF BehavesTo
  <2> HIDE DEF k, l
  <2>4. k.modes = t.modes /\ k.st = TermStands(t, r.st) /\ (r.st = "csi" => k.params = r.run)
    BY <2>2 DEF BehavesTo
  <2>5. l \in Terminals BY <2>3 DEF TermStepped
  <2>6. t \in Terminals /\ t.st = "ground" /\ t.params = <<>> BY DEF GroundTerms, Terminals
  <2>7. l.st = "ground" /\ (q => l.modes = t.modes)
    <3>1. CASE r.st = "esc" /\ b \notin {"ESC", "[", "]", "P"}
      <4>1. l.st = "ground" BY <2>3, <2>4, <3>1 DEF TermStepped, TermStands
      <4>2. ~q BY <3>1 DEF IsQuery, EndsString
      <4> QED BY <4>1, <4>2
    <3>2. CASE r.st = "csi" /\ b \in FinalByte
      <4>1. k.st = "csi" /\ k.params = r.run BY <2>4, <3>2 DEF TermStands
      <4>2. l.st = "ground" /\ l.modes = Completed(t.modes, r.run, b)
        BY <2>3, <2>4, <3>2, <4>1 DEF TermStepped
      <4>3. q => b \notin {"h", "l"} BY <3>2 DEF IsQuery, EndsString, CsiIsQuery
      <4>4. q => Completed(t.modes, r.run, b) = t.modes BY <4>3 DEF Completed
      <4> QED BY <4>2, <4>4
    <3>3. CASE r.st = "string" /\ b = "BEL"
      <4>1. k.st = "ground" BY <2>4, <3>3 DEF TermStands
      <4> QED BY <1>0, <2>3, <2>4, <3>3, <4>1 DEF TermStepped
    <3>4. CASE r.st = "stringEsc" /\ b = "\\"
      <4>1. k.st = "esc" BY <2>4, <3>4 DEF TermStands
      <4>2. l.st = "ground" /\ l.modes = Keypad(k.modes, b) BY <2>3, <3>4, <4>1 DEF TermStepped
      <4>3. Keypad(k.modes, b) = k.modes BY <3>4 DEF Keypad
      <4> QED BY <2>4, <4>2, <4>3
    <3> HIDE DEF q
    <3> QED BY <3>1, <3>2, <3>3, <3>4 DEF EndsIt, EndsString
  <2>8. l.params = <<>> BY <2>5, <2>7 DEF Terminals
  <2> HIDE DEF q
  <2>9. q => l = t BY <2>5, <2>6, <2>7, <2>8, SameTerminal
  <2> QED BY <2>1, <2>5, <2>7, <2>9 DEF GroundTerms
<1>2. ASSUME NEW g \in GroundScreens
      PROVE  /\ ScreenWalk(g, Append(y, b)) \in GroundScreens
             /\ ScreenWalk(g, Append(y, b)).drawn = g.drawn
             /\ ~q => Quietly(ScreenWalk(g, Append(y, b)), g)
  <2> DEFINE z == ScreenWalk(g, y)
             w == ScreenStep(z, b)
  <2>1. ScreenWalk(g, Append(y, b)) = w BY ScreenByte
  <2>2. LooksTo(r, g, z) BY DEF Behaves
  <2>3. ScreenStepped(w, z, b) BY <2>2, ScreenStepsTo DEF LooksTo
  <2> HIDE DEF z, w
  <2>4. /\ z.st = r.st /\ z.drawn = g.drawn /\ z.asked = g.asked
        /\ r.st \in {"csi", "string", "stringEsc"} => z.run = r.run /\ z.intro = r.intro
    BY <2>2 DEF LooksTo, Quietly
  <2>5. w \in Screens BY <2>3 DEF ScreenStepped
  <2>6. w.st = "ground" /\ w.drawn = z.drawn /\ (~q => w.asked = z.asked)
    <3>1. CASE r.st = "esc" /\ b \notin {"ESC", "[", "]", "P"}
      <4>1. Introduced(b) = "ground" BY <3>1 DEF Introduced
      <4> QED BY <2>3, <2>4, <3>1, <4>1 DEF ScreenStepped, Quietly
    <3>2. CASE r.st = "csi" /\ b \in FinalByte
      <4>1. q <=> ~TooLong(z.run) /\ CsiIsQuery(z.run, b) BY <2>4, <3>2 DEF IsQuery, EndsString
      <4>2. /\ w.st = "ground" /\ w.drawn = z.drawn
            /\ w.asked = Asking(~TooLong(z.run) /\ CsiIsQuery(z.run, b), z)
        BY <2>3, <2>4, <3>2 DEF ScreenStepped
      <4> HIDE DEF q
      <4> QED BY <4>1, <4>2 DEF Asking
    <3>3. CASE EndsString(r.st, b)
      <4>1. q <=> StringIsQuery(z.intro, z.run) BY <2>4, <3>3 DEF IsQuery, EndsString
      <4>2. /\ w.st = "ground" /\ w.drawn = z.drawn
            /\ w.asked = Asking(StringIsQuery(z.intro, z.run), z)
        BY <2>3, <2>4, <3>3 DEF ScreenStepped
      <4> HIDE DEF q
      <4> QED BY <4>1, <4>2 DEF Asking
    <3> HIDE DEF q
    <3> QED BY <3>1, <3>2, <3>3 DEF EndsIt
  <2> HIDE DEF q
  <2> QED BY <2>1, <2>4, <2>5, <2>6 DEF GroundScreens, Quietly
<1> HIDE DEF q
<1>3. q => Vanishes(Append(y, b)) BY <1>1, <1>2 DEF Vanishes
<1>4. ~q => Harmless(Append(y, b)) BY <1>1, <1>2 DEF Harmless
<1> QED BY <1>3, <1>4 DEF q

\* An ESC abandons a string, or an escape sequence that has only begun.
LeftAt(s, e, j) ==
  /\ StringAt(s, e) /\ j \in e + 2..Len(s) - 1 /\ Quiet(s, e + 2, j - 1)
  /\ s[j] = "ESC" /\ s[j + 1] # "\\"

\* Two ESC in a row.
TwiceAt(s, e) == e \in 1..Len(s) - 1 /\ s[e] = "ESC" /\ s[e + 1] = "ESC"

\* No sequence of s is cut short or abandoned.
Whole(s) == /\ \A e, j : ~CutAt(s, e, j) /\ ~LeftAt(s, e, j)
            /\ \A e : ~TwiceAt(s, e)

\* CutShort and Abandoned, byte by byte.
LEMMA WholeOf ==
  ASSUME NEW s \in Seq(Byte), ~CutShort(s), Abandoned(s) = {}
  PROVE  Whole(s)
<1> DEFINE L == Len(s)
<1>0. L \in Nat /\ DOMAIN s = 1..L BY LenProperties
<1>1. ASSUME NEW e, NEW j, LeftAt(s, e, j) PROVE FALSE
  <2>1. /\ StringAt(s, e) /\ e \in 1..L - 1 /\ s[e] = "ESC" /\ s[e + 1] \in {"]", "P"}
        /\ j \in e + 2..L - 1 /\ s[j] = "ESC" /\ s[j + 1] # "\\"
        /\ \A k \in e + 2..j - 1 : s[k] # "ESC" /\ s[k] # "BEL"
    BY <1>1 DEF LeftAt, StringAt, Quiet, Ending
  <2>2. e \in Escs(s) BY <1>0, <2>1 DEF Escs
  <2>3. NextEsc(s, e) = j
    <3> DEFINE k == NextEsc(s, e)
    <3>1. k \in e + 1..L + 1 /\ (k <= L => s[k] = "ESC") /\ \A i \in e + 1..k - 1 : s[i] # "ESC"
      BY <2>2, NextFacts
    <3> HIDE DEF k
    <3>2. ~(k > j)
      <4> SUFFICES ASSUME k > j PROVE FALSE OBVIOUS
      <4>1. j \in e + 1..k - 1 BY <1>0, <2>1, <3>1
      <4> QED BY <2>1, <3>1, <4>1
    <3>3. ~(k < j)
      <4> SUFFICES ASSUME k < j PROVE FALSE OBVIOUS
      <4>1. k <= L /\ (k = e + 1 \/ k \in e + 2..j - 1) BY <1>0, <2>1, <3>1
      <4> QED BY <2>1, <3>1, <4>1
    <3>4. k = j BY <1>0, <2>1, <3>1, <3>2, <3>3
    <3> QED BY <3>4 DEF k
  <2>4. EndOf(s, e) = 0
    <3> SUFFICES ASSUME EndOf(s, e) # 0 PROVE FALSE OBVIOUS
    <3> DEFINE k == EndOf(s, e)
    <3>1. EndsAt(s, e, k) BY <2>1, EndOfString
    <3> HIDE DEF k
    <3>2. k \in e + 2..L BY <3>1 DEF EndsAt
    <3>3. CASE s[k] = "BEL" /\ Quiet(s, e + 2, k - 1)
      <4>1. k # j /\ \A i \in e + 2..k - 1 : s[i] # "ESC" BY <2>1, <3>3 DEF Quiet, Ending
      <4>2. k < j
        <5> SUFFICES ASSUME ~(k < j) PROVE FALSE OBVIOUS
        <5>1. j \in e + 2..k - 1 BY <1>0, <2>1, <3>2, <4>1
        <5> QED BY <2>1, <4>1, <5>1
      <4>3. k \in e + 2..j - 1 BY <1>0, <2>1, <3>2, <4>2
      <4> QED BY <2>1, <3>3, <4>3
    <3>4. CASE s[k] = "\\" /\ k > e + 2 /\ s[k - 1] = "ESC" /\ Quiet(s, e + 2, k - 2)
      <4>1. \A i \in e + 2..k - 2 : s[i] # "ESC" BY <3>4 DEF Quiet, Ending
      <4>2. ~(k - 1 < j)
        <5> SUFFICES ASSUME k - 1 < j PROVE FALSE OBVIOUS
        <5>1. k - 1 \in e + 2..j - 1 BY <1>0, <2>1, <3>2, <3>4
        <5> QED BY <2>1, <3>4, <5>1
      <4>3. ~(k - 1 > j)
        <5> SUFFICES ASSUME k - 1 > j PROVE FALSE OBVIOUS
        <5>1. j \in e + 2..k - 2 BY <1>0, <2>1, <3>2, <3>4
        <5> QED BY <2>1, <4>1, <5>1
      <4>4. k = j + 1 BY <1>0, <2>1, <3>2, <3>4, <4>2, <4>3
      <4> QED BY <2>1, <3>4, <4>4
    <3> QED BY <2>1, <3>1, <3>3, <3>4 DEF EndsAt
  <2>5. NextEsc(s, e) <= Len(s) BY <1>0, <2>1, <2>3
  <2>6. e \in Abandoned(s) BY <2>2, <2>4, <2>5 DEF Abandoned
  <2> QED BY <2>6
<1>2. ASSUME NEW e, TwiceAt(s, e) PROVE FALSE
  <2>1. e \in 1..L - 1 /\ s[e] = "ESC" /\ s[e + 1] = "ESC" BY <1>2 DEF TwiceAt
  <2>2. e \in Escs(s) BY <1>0, <2>1 DEF Escs
  <2>3. NextEsc(s, e) <= L
    <3> DEFINE k == NextEsc(s, e)
    <3>1. k \in e + 1..L + 1 /\ \A i \in e + 1..k - 1 : s[i] # "ESC" BY <2>2, NextFacts
    <3> HIDE DEF k
    <3>2. k > L => e + 1 \in e + 1..k - 1 BY <1>0, <2>1, <3>1
    <3>3. k <= L BY <1>0, <2>1, <3>1, <3>2
    <3> QED BY <3>3 DEF k
  <2>4. EndOf(s, e) = 0
    <3> SUFFICES ASSUME EndOf(s, e) # 0 PROVE FALSE OBVIOUS
    <3> DEFINE k == EndOf(s, e)
    <3>1. Ends(s, e, k) BY <2>2, EndOfIs
    <3> HIDE DEF k
    <3> QED BY <2>1, <3>1 DEF Ends
  <2>5. e \in Abandoned(s) BY <2>2, <2>3, <2>4 DEF Abandoned
  <2> QED BY <2>5
<1>3. Doubled(s) => Abandoned(s) # {} BY DEF Doubled
<1>4. Plain(s) BY <1>3, PlainOf
<1> QED BY <1>1, <1>2, <1>4 DEF Whole, Plain

\* What is still whole of a byte more was whole before, and what the byte is then.
LEMMA WholeByte ==
  ASSUME NEW p \in Seq(Byte), NEW b \in Byte, Whole(Append(p, b))
  PROVE  /\ Whole(p)
         /\ EndsInEsc(p) => b # "ESC"
         /\ \A e : CsiOpen(p, e) => b \notin Ending
         /\ \A e : Closing(p, e) => b = "\\"
<1> DEFINE u == Append(p, b)
           L == Len(p)
<1>0. /\ L \in Nat /\ Len(u) = L + 1 /\ u[L + 1] = b /\ \A k \in 1..L : u[k] = p[k]
  BY OneMore
<1>1. Whole(u) OBVIOUS
<1> HIDE DEF u
<1>2. ASSUME NEW e, NEW j, CutAt(p, e, j) PROVE FALSE
  <2>1. /\ e \in 1..L - 1 /\ p[e] = "ESC" /\ p[e + 1] = "[" /\ j \in e + 2..L /\ p[j] \in Ending
        /\ \A k \in e + 2..j - 1 : p[k] \in ParamByte
    BY <1>2 DEF CutAt, ParamsTo
  <2>2. e \in 1..L /\ e + 1 \in 1..L /\ j \in 1..L /\ \A k \in e + 2..j - 1 : k \in 1..L
    BY <1>0, <2>1
  <2>3. /\ e \in 1..Len(u) - 1 /\ u[e] = "ESC" /\ u[e + 1] = "[" /\ j \in e + 2..Len(u)
        /\ u[j] \in Ending /\ \A k \in e + 2..j - 1 : u[k] \in ParamByte
    BY <1>0, <2>1, <2>2
  <2>4. CutAt(u, e, j) BY <2>3 DEF CutAt, ParamsTo
  <2> QED BY <1>1, <2>4 DEF Whole
<1>3. ASSUME NEW e, NEW j, LeftAt(p, e, j) PROVE FALSE
  <2>1. /\ e \in 1..L - 1 /\ p[e] = "ESC" /\ p[e + 1] \in {"]", "P"}
        /\ j \in e + 2..L - 1 /\ p[j] = "ESC" /\ p[j + 1] # "\\"
        /\ \A k \in e + 2..j - 1 : p[k] \notin Ending
    BY <1>3 DEF LeftAt, StringAt, Quiet
  <2>2. e \in 1..L /\ e + 1 \in 1..L /\ j \in 1..L /\ j + 1 \in 1..L
        /\ \A k \in e + 2..j - 1 : k \in 1..L
    BY <1>0, <2>1
  <2>3. /\ e \in 1..Len(u) - 1 /\ u[e] = "ESC" /\ u[e + 1] \in {"]", "P"}
        /\ j \in e + 2..Len(u) - 1 /\ u[j] = "ESC" /\ u[j + 1] # "\\"
        /\ \A k \in e + 2..j - 1 : u[k] \notin Ending
    BY <1>0, <2>1, <2>2
  <2>4. LeftAt(u, e, j) BY <2>3 DEF LeftAt, StringAt, Quiet
  <2> QED BY <1>1, <2>4 DEF Whole
<1>4. ASSUME NEW e, TwiceAt(p, e) PROVE FALSE
  <2>1. e \in 1..L - 1 /\ p[e] = "ESC" /\ p[e + 1] = "ESC" BY <1>4 DEF TwiceAt
  <2>2. e \in 1..L /\ e + 1 \in 1..L /\ e \in 1..Len(u) - 1 BY <1>0, <2>1
  <2>3. TwiceAt(u, e) BY <1>0, <2>1, <2>2 DEF TwiceAt
  <2> QED BY <1>1, <2>3 DEF Whole
<1>5. ASSUME EndsInEsc(p), b = "ESC" PROVE FALSE
  <2>1. L # 0 /\ p[L] = "ESC" BY <1>5, EmptySeq DEF EndsInEsc
  <2>2. L \in 1..L /\ L \in 1..Len(u) - 1 BY <1>0, <2>1
  <2>3. TwiceAt(u, L) BY <1>0, <1>5, <2>1, <2>2 DEF TwiceAt
  <2> QED BY <1>1, <2>3 DEF Whole
<1>6. ASSUME NEW e, CsiOpen(p, e), b \in Ending PROVE FALSE
  <2>1. e \in 1..L - 1 /\ p[e] = "ESC" /\ p[e + 1] = "[" /\ \A k \in e + 2..L : p[k] \in ParamByte
    BY <1>6 DEF CsiOpen, ParamsTo
  <2>2. e \in 1..L /\ e + 1 \in 1..L /\ \A k \in e + 2..L : k \in 1..L BY <1>0, <2>1
  <2>3. /\ e \in 1..Len(u) - 1 /\ u[e] = "ESC" /\ u[e + 1] = "[" /\ L + 1 \in e + 2..Len(u)
        /\ u[L + 1] \in Ending
    BY <1>0, <1>6, <2>1, <2>2
  <2>4. \A k \in e + 2..(L + 1) - 1 : u[k] \in ParamByte BY <1>0, <2>1, <2>2
  <2>5. CutAt(u, e, L + 1) BY <2>3, <2>4 DEF CutAt, ParamsTo
  <2> QED BY <1>1, <2>5 DEF Whole
<1>7. ASSUME NEW e, Closing(p, e), b # "\\" PROVE FALSE
  <2>1. /\ e \in 1..L - 1 /\ p[e] = "ESC" /\ p[e + 1] \in {"]", "P"} /\ L \in e + 2..L
        /\ p[L] = "ESC" /\ \A k \in e + 2..L - 1 : p[k] \notin Ending
    BY <1>7 DEF Closing, EndsInEsc, StringEnding, StringAt, Quiet
  <2>2. e \in 1..L /\ e + 1 \in 1..L /\ L \in 1..L /\ \A k \in e + 2..L - 1 : k \in 1..L
    BY <1>0, <2>1
  <2>3. /\ e \in 1..Len(u) - 1 /\ u[e] = "ESC" /\ u[e + 1] \in {"]", "P"}
        /\ L \in e + 2..Len(u) - 1 /\ u[L] = "ESC" /\ u[L + 1] # "\\"
        /\ \A k \in e + 2..L - 1 : u[k] \notin Ending
    BY <1>0, <1>7, <2>1, <2>2
  <2>4. LeftAt(u, e, L) BY <2>3 DEF LeftAt, StringAt, Quiet
  <2> QED BY <1>1, <2>4 DEF Whole
<1> QED BY <1>2, <1>3, <1>4, <1>5, <1>6, <1>7 DEF Whole

\* The first half of two.
LEMMA FirstPart ==
  ASSUME NEW o \in Seq(Byte), NEW y \in Seq(Byte)
  PROVE  SubSeq(o \o y, 1, Len(o)) = o
<1>0. Len(o) \in Nat /\ Len(o) \in Int /\ 1 \in Int BY LenProperties
<1>1. CASE Len(o) = 0
  <2>1. o = <<>> BY <1>1, EmptySeq
  <2>2. Len(o) < 1 BY <1>1
  <2> QED BY <1>0, <2>1, <2>2, SubSeqEmpty
<1>2. CASE Len(o) # 0
  <2>1. 1 \in 1..Len(o) /\ Len(o) \in 1..Len(o) BY <1>0, <1>2
  <2>2. SubSeq(o \o y, 1, Len(o)) = SubSeq(o, 1, Len(o)) BY <2>1, SubSeqOfConcat1
  <2> QED BY <2>2, SubSeqFull
<1> QED BY <1>1, <1>2

\* What the filter has read is c and the sequence y that it is in, and what it has
\* kept is o and that sequence.
Splits(r, p, c, o, y) ==
  /\ c \in Seq(Byte) /\ o \in Seq(Byte) /\ y \in Seq(Byte)
  /\ p = c \o y /\ r.out = o \o y
  /\ Alike(c, o) /\ Behaves(r, y)
  /\ r.st = "ground" => y = <<>>
  /\ r.st # "ground" => r.start = Len(o) + 1

\* The invariant of the filter's walk over p.
FilterInv(r, p) == r \in Filters /\ \E c, o, y : Splits(r, p, c, o, y)

LEMMA FilterStands ==
  ASSUME NEW r, NEW p \in Seq(Byte), FilterInv(r, p)
  PROVE  Stands(r.st, p)
<1>1. PICK c, o, y : Splits(r, p, c, o, y) BY DEF FilterInv
<1>2. c \in Seq(Byte) /\ y \in Seq(Byte) /\ p = c \o y /\ Alike(c, o) /\ Behaves(r, y)
  BY <1>1 DEF Splits
<1>3. NewScreen \in GroundScreens
  <2>1. NewScreen.st = "ground" BY DEF NewScreen
  <2>2. NewScreen \in Screens BY NewScreenRenders DEF Renders
  <2> QED BY <2>1, <2>2 DEF GroundScreens
<1> DEFINE k == ScreenWalk(NewScreen, c)
<1>4. k \in GroundScreens BY <1>2, <1>3 DEF Alike
<1>5. ScreenWalk(NewScreen, p) = ScreenWalk(k, y) BY <1>2, ScreenWalkOn
<1> HIDE DEF k
<1>6. ScreenWalk(k, y).st = r.st BY <1>2, <1>4 DEF Behaves, LooksTo
<1>7. Stands(ScreenWalk(NewScreen, p).st, p) BY ScreenIs DEF Renders
<1> QED BY <1>5, <1>6, <1>7

LEMMA BehavesNot ==
  ASSUME NEW n, n.st = "ground"
  PROVE  Behaves(n, <<>>)
<1>1. ASSUME NEW t \in GroundTerms PROVE BehavesTo(n, t, TermWalk(t, <<>>))
  <2>1. TermWalk(t, <<>>) = t BY TermByte
  <2>2. t \in Terminals /\ t.st = "ground" BY DEF GroundTerms
  <2> QED BY <2>1, <2>2 DEF BehavesTo, TermStands
<1>2. ASSUME NEW g \in GroundScreens PROVE LooksTo(n, g, ScreenWalk(g, <<>>))
  <2>1. ScreenWalk(g, <<>>) = g BY ScreenByte
  <2>2. g \in Screens /\ g.st = "ground" BY DEF GroundScreens
  <2> QED BY <2>1, <2>2 DEF LooksTo, Quietly
<1> QED BY <1>1, <1>2 DEF Behaves

\* Between sequences, o is all that is kept of p.
LEMMA FilterRests ==
  ASSUME NEW n \in Filters, n.st = "ground", NEW p \in Seq(Byte), n.out \in Seq(Byte),
         Alike(p, n.out)
  PROVE  FilterInv(n, p)
<1>1. <<>> \in Seq(Byte) /\ p \o <<>> = p /\ n.out \o <<>> = n.out BY EmptySeq, ConcatEmptySeq
<1>2. Behaves(n, <<>>) BY BehavesNot
<1>3. Splits(n, p, p, n.out, <<>>) BY <1>1, <1>2 DEF Splits
<1> QED BY <1>3 DEF FilterInv

\* One byte more, and the invariant still holds.
LEMMA FilterInvByte ==
  ASSUME NEW r, NEW p \in Seq(Byte), NEW b \in Byte, FilterInv(r, p), Whole(Append(p, b))
  PROVE  FilterInv(ReplayStep(r, b), Append(p, b))
<1> DEFINE u == Append(p, b)
           n == ReplayStep(r, b)
<1> SUFFICES FilterInv(n, u) OBVIOUS
<1>0. PICK c, o, y : Splits(r, p, c, o, y) BY DEF FilterInv
<1> DEFINE w == Append(y, b)
<1>1. /\ c \in Seq(Byte) /\ o \in Seq(Byte) /\ y \in Seq(Byte)
      /\ p = c \o y /\ r.out = o \o y
      /\ Alike(c, o) /\ Behaves(r, y)
      /\ r.st = "ground" => y = <<>>
      /\ r.st # "ground" => r.start = Len(o) + 1
  BY <1>0 DEF Splits
<1>2. /\ r \in Filters /\ r.st \in {"ground", "esc", "csi", "string", "stringEsc"}
  BY DEF FilterInv, Filters
<1>3. Stands(r.st, p) BY FilterStands
<1>4. u \in Seq(Byte) /\ w \in Seq(Byte) /\ u = c \o w /\ Append(r.out, b) = o \o w
  <2>1. w \in Seq(Byte) /\ o \o w = Append(o \o y, b) BY <1>1, AppendOn
  <2>2. c \o w = Append(c \o y, b) BY <1>1, AppendOn
  <2>3. u \in Seq(Byte) BY AppendProperties
  <2> HIDE DEF w
  <2> QED BY <1>1, <2>1, <2>2, <2>3
<1>5. FilterStepped(n, r, b)
  <2>1. r.st # "ground" => r.start <= Len(r.out) + 1
    <3>1. Len(o \o y) = Len(o) + Len(y) /\ Len(o) \in Nat /\ Len(y) \in Nat
      BY <1>1, ConcatProperties, LenProperties
    <3>2. \A i \in Nat : \A j \in Nat : i + 1 <= (i + j) + 1 OBVIOUS
    <3> QED BY <1>1, <3>1, <3>2
  <2> QED BY <1>2, <2>1, FilterStepsTo
<1>6. /\ EndsInEsc(p) => b # "ESC"
      /\ \A e : CsiOpen(p, e) => b \notin Ending
      /\ \A e : Closing(p, e) => b = "\\"
  BY WholeByte
<1>7. /\ r.st \in {"esc", "stringEsc"} => b # "ESC"
      /\ r.st = "csi" => b \notin Ending
      /\ r.st = "stringEsc" => b = "\\"
  BY <1>3, <1>6 DEF Stands, InCsi, InClosing
<1>8. b \in ParamByte \/ b \in FinalByte \/ b = "ESC" \/ b = "BEL" BY Bytes
<1> HIDE DEF u, n, w
<1>9. CASE r.st = "ground" /\ b # "ESC"
  <2>1. Finishes(n, r, b, FALSE) BY <1>5, <1>9 DEF FilterStepped
  <2>2. n \in Filters /\ n.st = "ground" /\ n.out = Append(r.out, b) BY <2>1 DEF Finishes
  <2>3. p = c /\ r.out = o BY <1>1, <1>9, ConcatEmptySeq
  <2>4. Alike(Append(c, b), Append(o, b)) BY <1>1, <1>9, AlikeDrawn
  <2>5. n.out \in Seq(Byte) BY <2>2 DEF Filters
  <2>6. Alike(u, n.out) BY <2>2, <2>3, <2>4 DEF u
  <2> QED BY <1>4, <2>2, <2>5, <2>6, FilterRests
<1>10. ASSUME n \in Filters, n.st # "ground", n.out = Append(r.out, b), n.start = Len(o) + 1,
              Begins(n, r, b) \/ GoesInto(n, r, b)
       PROVE  FilterInv(n, u)
  <2>1. Behaves(n, w) BY <1>1, <1>10, BehavesOn DEF w
  <2>2. Splits(n, u, c, o, w) BY <1>1, <1>4, <1>10, <2>1 DEF Splits
  <2> QED BY <1>10, <2>2 DEF FilterInv
<1>11. CASE r.st = "ground" /\ b = "ESC"
  <2>1. n \in Filters /\ n.st = "esc" /\ n.out = Append(r.out, b) /\ n.start = Len(r.out) + 1
    BY <1>5, <1>11 DEF FilterStepped
  <2>2. r.out = o BY <1>1, <1>11, ConcatEmptySeq
  <2>3. Begins(n, r, b) BY <1>11, <2>1 DEF Begins
  <2> QED BY <1>10, <2>1, <2>2, <2>3
<1>12. ASSUME r.st # "ground", NEW st, st # "ground", NEW run, NEW intro,
              GoesOn(n, r, b, st, run, intro)
       PROVE  /\ n \in Filters /\ n.st = st /\ n.run = run /\ n.intro = intro
              /\ n.st # "ground" /\ n.out = Append(r.out, b) /\ n.start = Len(o) + 1
  BY <1>1, <1>12 DEF GoesOn
<1>13. CASE r.st = "esc" /\ b \in {"[", "]", "P"}
  <2>1. GoesOn(n, r, b, Introduced(b), <<>>, b) BY <1>5, <1>7, <1>13 DEF FilterStepped
  <2>2. Introduced(b) # "ground" BY <1>13 DEF Introduced
  <2>3. /\ n \in Filters /\ n.st = Introduced(b) /\ n.run = <<>> /\ n.intro = b
        /\ n.st # "ground" /\ n.out = Append(r.out, b) /\ n.start = Len(o) + 1
    BY <1>12, <1>13, <2>1, <2>2
  <2>4. GoesInto(n, r, b) BY <1>13, <2>3 DEF GoesInto
  <2> QED BY <1>10, <2>3, <2>4
<1>14. CASE r.st = "csi" /\ b \in ParamByte
  <2>1. GoesOn(n, r, b, "csi", Collected(r.run, b), r.intro) BY <1>5, <1>14 DEF FilterStepped
  <2>2. /\ n \in Filters /\ n.st = "csi" /\ n.run = Collected(r.run, b) /\ n.intro = r.intro
        /\ n.st # "ground" /\ n.out = Append(r.out, b) /\ n.start = Len(o) + 1
    BY <1>12, <1>14, <2>1
  <2>3. GoesInto(n, r, b) BY <1>14, <2>2 DEF GoesInto
  <2> QED BY <1>10, <2>2, <2>3
<1>15. CASE r.st = "string" /\ b = "ESC"
  <2>1. GoesOn(n, r, b, "stringEsc", r.run, r.intro) BY <1>5, <1>15 DEF FilterStepped
  <2>2. /\ n \in Filters /\ n.st = "stringEsc" /\ n.run = r.run /\ n.intro = r.intro
        /\ n.st # "ground" /\ n.out = Append(r.out, b) /\ n.start = Len(o) + 1
    BY <1>12, <1>15, <2>1
  <2>3. GoesInto(n, r, b) BY <1>15, <2>2 DEF GoesInto
  <2> QED BY <1>10, <2>2, <2>3
<1>16. CASE r.st = "string" /\ b \notin Ending
  <2>1. GoesOn(n, r, b, "string", Collected(r.run, b), r.intro) BY <1>5, <1>16 DEF FilterStepped
  <2>2. /\ n \in Filters /\ n.st = "string" /\ n.run = Collected(r.run, b) /\ n.intro = r.intro
        /\ n.st # "ground" /\ n.out = Append(r.out, b) /\ n.start = Len(o) + 1
    BY <1>12, <1>16, <2>1
  <2>3. GoesInto(n, r, b) BY <1>16, <2>2 DEF GoesInto
  <2> QED BY <1>10, <2>2, <2>3
<1>17. CASE EndsIt(r, b)
  <2> DEFINE q == IsQuery(r, b)
  <2>1. n \in Filters /\ n.st = "ground"
        /\ n.out = IF q THEN SubSeq(Append(r.out, b), 1, r.start - 1) ELSE Append(r.out, b)
    <3>1. CASE r.st = "esc" /\ b \notin {"ESC", "[", "]", "P"}
      <4>1. GoesOn(n, r, b, Introduced(b), <<>>, b) BY <1>5, <3>1 DEF FilterStepped
      <4>2. Introduced(b) = "ground" BY <3>1 DEF Introduced
      <4>3. ~q BY <3>1 DEF IsQuery, EndsString
      <4> QED BY <4>1, <4>2, <4>3 DEF GoesOn
    <3>2. CASE r.st = "csi" /\ b \in FinalByte
      <4>1. Finishes(n, r, b, ~TooLong(r.run) /\ CsiIsQuery(r.run, b)) BY <1>5, <3>2 DEF FilterStepped
      <4>2. q = (~TooLong(r.run) /\ CsiIsQuery(r.run, b)) BY <3>2 DEF IsQuery, EndsString
      <4> HIDE DEF q
      <4> QED BY <4>1, <4>2 DEF Finishes
    <3>3. CASE EndsString(r.st, b)
      <4>1. Finishes(n, r, b, StringIsQuery(r.intro, r.run)) BY <1>5, <3>3 DEF FilterStepped
      <4>2. q = StringIsQuery(r.intro, r.run) BY <3>3 DEF IsQuery, EndsString, StringIsQuery
      <4> HIDE DEF q
      <4> QED BY <4>1, <4>2 DEF Finishes
    <3> QED BY <1>17, <3>1, <3>2, <3>3 DEF EndsIt
  <2>2. IF q THEN Vanishes(w) ELSE Harmless(w) BY <1>1, <1>17, EndsHarmless DEF w
  <2>3. r.start - 1 = Len(o)
    <3>1. r.start = Len(o) + 1 /\ Len(o) \in Nat
      BY <1>1, <1>17, LenProperties DEF EndsIt, EndsString
    <3>2. \A i \in Nat : (i + 1) - 1 = i OBVIOUS
    <3> QED BY <3>1, <3>2
  <2> HIDE DEF q
  <2>4. n.out \in Seq(Byte) BY <2>1 DEF Filters
  <2>5. CASE q
    <3>1. n.out = o BY <1>1, <1>4, <2>1, <2>3, <2>5, FirstPart
    <3>2. Alike(c \o w, o) BY <1>1, <1>4, <2>2, <2>5, AlikeDropped
    <3> QED BY <1>4, <2>1, <2>4, <3>1, <3>2, FilterRests
  <2>6. CASE ~q
    <3>1. n.out = o \o w BY <1>4, <2>1, <2>6
    <3>2. Alike(c \o w, o \o w) BY <1>1, <1>4, <2>2, <2>6, AlikeKept
    <3> QED BY <1>4, <2>1, <2>4, <3>1, <3>2, FilterRests
  <2> QED BY <2>5, <2>6
<1> QED BY <1>2, <1>7, <1>8, <1>9, <1>11, <1>13, <1>14, <1>15, <1>16, <1>17
       DEF EndsIt, EndsString, Ending

\* The filter before its first byte.
NewFilter == [st |-> "ground", start |-> 0, run |-> <<>>, intro |-> "", out |-> <<>>]

LEMMA NewFilterInv == FilterInv(NewFilter, <<>>)
<1>1. <<>> \in Seq(Byte) BY EmptySeq
<1>2. NewFilter \in Filters /\ NewFilter.st = "ground" /\ NewFilter.out = <<>>
  BY <1>1 DEF NewFilter, Filters
<1>3. ASSUME NEW t \in GroundTerms
      PROVE  TermWalk(t, <<>>) = TermWalk(t, <<>>) /\ TermWalk(t, <<>>) \in GroundTerms
  BY TermByte
<1>4. ASSUME NEW g \in GroundScreens
      PROVE  ScreenWalk(g, <<>>) \in GroundScreens /\ ScreenWalk(g, <<>>).asked = g.asked
  BY ScreenByte
<1>5. Alike(<<>>, <<>>) BY <1>3, <1>4 DEF Alike
<1> QED BY <1>1, <1>2, <1>5, FilterRests

\* The invariant holds of every walk over bytes with no sequence that is cut short or
\* abandoned.
LEMMA FilterIs ==
  ASSUME NEW s \in Seq(Byte), Whole(s)
  PROVE  FilterInv(FilterWalk(NewFilter, s), s)
<1> DEFINE OK(p) == Whole(p) => FilterInv(FilterWalk(NewFilter, p), p)
           S == {p \in Seq(Byte) : OK(p)}
<1>1. <<>> \in S
  <2>1. OK(<<>>) BY NewFilterInv, FilterByte
  <2> QED BY <2>1, EmptySeq
<1>2. ASSUME NEW p \in Seq(Byte), NEW b \in Byte, p \in S PROVE Append(p, b) \in S
  <2>1. ASSUME Whole(Append(p, b)) PROVE FilterInv(FilterWalk(NewFilter, Append(p, b)), Append(p, b))
    <3>1. Whole(p) BY <2>1, WholeByte
    <3>2. FilterInv(FilterWalk(NewFilter, p), p) BY <1>2, <3>1
    <3>3. FilterInv(ReplayStep(FilterWalk(NewFilter, p), b), Append(p, b))
      BY <2>1, <3>2, FilterInvByte
    <3> QED BY <3>3, FilterByte
  <2>2. OK(Append(p, b)) BY <2>1
  <2> QED BY <2>2, AppendProperties
<1> HIDE DEF S
<1>3. s \in S BY <1>1, <1>2, PrefixInduction
<1> QED BY <1>3 DEF S

\* What sanitizeReplay leaves does to a terminal what its input does, draws what it
\* draws, and asks nothing.
SameButAsked(d, s) ==
  /\ d \in Seq(Byte)
  /\ \A t \in GroundTerms : TermWalk(t, d) = TermWalk(t, s)
  /\ Drawn(d) = Drawn(s)
  /\ Queries(d) = {}

\* The filter as it is used.
LEMMA Sanitized ==
  ASSUME NEW s \in Seq(Byte), ~CutShort(s), Abandoned(s) = {}
  PROVE  SameButAsked(SanitizeReplay(s), s)
<1> DEFINE r == FilterWalk(NewFilter, s)
           d == SanitizeReplay(s)
<1>1. d = r.out BY DEF SanitizeReplay, FilterWalk, NewFilter
<1>2. FilterInv(r, s) BY WholeOf, FilterIs
<1> HIDE DEF r, d
<1>3. PICK c, o, y : Splits(r, s, c, o, y) BY <1>2 DEF FilterInv
<1>4. /\ c \in Seq(Byte) /\ o \in Seq(Byte) /\ y \in Seq(Byte)
      /\ s = c \o y /\ d = o \o y /\ Alike(c, o) /\ Behaves(r, y)
  BY <1>1, <1>3 DEF Splits
<1>5. d \in Seq(Byte) BY <1>4, ConcatProperties
<1>6. ASSUME NEW t \in GroundTerms PROVE TermWalk(t, d) = TermWalk(t, s)
  <2>1. TermWalk(t, d) = TermWalk(TermWalk(t, o), y) BY <1>4, TermWalkOn
  <2>2. TermWalk(t, s) = TermWalk(TermWalk(t, c), y) BY <1>4, TermWalkOn
  <2>3. TermWalk(t, c) = TermWalk(t, o) BY <1>4 DEF Alike
  <2> QED BY <2>1, <2>2, <2>3
<1>7. NewScreen \in GroundScreens
  <2>1. NewScreen.st = "ground" BY DEF NewScreen
  <2>2. NewScreen \in Screens BY NewScreenRenders DEF Renders
  <2> QED BY <2>1, <2>2 DEF GroundScreens
<1> DEFINE k == ScreenWalk(NewScreen, c)
           l == ScreenWalk(NewScreen, o)
<1>8. /\ k \in GroundScreens /\ l \in GroundScreens /\ k.drawn = l.drawn
      /\ l.asked = NewScreen.asked
  BY <1>4, <1>7 DEF Alike
<1>9. ScreenWalk(NewScreen, s) = ScreenWalk(k, y) BY <1>4, ScreenWalkOn
<1>10. ScreenWalk(NewScreen, d) = ScreenWalk(l, y) BY <1>4, ScreenWalkOn
<1> HIDE DEF k, l
<1>11. Quietly(ScreenWalk(k, y), k) /\ Quietly(ScreenWalk(l, y), l)
  BY <1>4, <1>8 DEF Behaves, LooksTo
<1>12. Renders(ScreenWalk(l, y), d) /\ Renders(ScreenWalk(k, y), s)
  BY <1>5, <1>9, <1>10, ScreenIs
<1>13. ScreenWalk(l, y).asked = "no" BY <1>8, <1>11 DEF Quietly, NewScreen
<1>14. Queries(d) = {} BY <1>12, <1>13 DEF Renders
<1>15. Drawn(d) = Drawn(s) BY <1>8, <1>11, <1>12 DEF Renders, Quietly
<1> QED BY <1>5, <1>6, <1>14, <1>15 DEF SameButAsked, d

\* The filtered replay asks nothing, and draws what the buffer draws, where the buffer
\* holds no sequence that is cut short or abandoned (sanitizeReplay).
THEOREM TheReplayIsInert == ScannersSpec => []ReplayIsInert
<1>1. BufferInv => ReplayIsInert
  <2> SUFFICES ASSUME BufferInv, ~CutShort(session.buffer), Abandoned(session.buffer) = {}
               PROVE  /\ Queries(SanitizeReplay(session.buffer)) = {}
                      /\ Drawn(SanitizeReplay(session.buffer)) = Drawn(session.buffer)
    BY DEF ReplayIsInert
  <2>1. session.buffer \in Seq(Byte) BY DEF BufferInv, EndOfOutput
  <2>2. SameButAsked(SanitizeReplay(session.buffer), session.buffer) BY <2>1, Sanitized
  <2> QED BY <2>2 DEF SameButAsked
<1> QED BY <1>1, BufferSpec, PTL

-----------------------------------------------------------------------------
(* What a new client is restored to                                        *)

\* A terminal that has been built in the modes that another is in now, and given what
\* the other has been given last, is in its modes.
LEMMA CatchUpNow ==
  ASSUME NEW t \in Terminals, NEW u, NEW M \in Modes, Grounded(u, M),
         NEW s \in Seq(Byte), TermWalk(t, s).modes = M
  PROVE  TermWalk(u, s).modes = M
<1> DEFINE a == TermWalk(t, s)
           c == TermWalk(u, s)
<1>1. c \in Terminals BY WalkIsTerminal DEF Grounded
<1>2. Level(a, c, M) \/ Behind(a, c, M, Len(s)) BY Approach
<1>3. a.modes = M OBVIOUS
<1> HIDE DEF a, c
<1>4. CASE Level(a, c, M)
  <2>1. Mixed(c.modes, M, M) BY <1>3, <1>4 DEF Level
  <2>2. c.modes \in Modes BY <1>1 DEF Terminals
  <2>3. c.modes.alt = M.alt /\ c.modes.keypad = M.keypad /\ c.modes.wrapOff = M.wrapOff
    BY <2>1 DEF Mixed
  <2>4. c.modes = M BY <2>2, <2>3, ModesFields
  <2> QED BY <2>4 DEF c
<1>5. CASE Behind(a, c, M, Len(s)) BY <1>5 DEF Behind, c
<1> QED BY <1>2, <1>4, <1>5

LEMMA PlainPrefix ==
  ASSUME NEW s \in Seq(Byte), NEW x \in Seq(Byte), Plain(s \o x)
  PROVE  Plain(s)
<1> DEFINE S == {y \in Seq(Byte) : Plain(s \o y) => Plain(s)}
<1>1. <<>> \in S BY EmptySeq, ConcatEmptySeq
<1>2. ASSUME NEW y \in Seq(Byte), NEW b \in Byte, y \in S PROVE Append(y, b) \in S
  <2>1. s \o y \in Seq(Byte) /\ Append(y, b) \in Seq(Byte) /\ s \o Append(y, b) = Append(s \o y, b)
    BY AppendOn
  <2>2. Plain(Append(s \o y, b)) => Plain(s \o y) BY <2>1, PlainBefore
  <2> QED BY <1>2, <2>1, <2>2
<1> HIDE DEF S
<1>3. x \in S BY <1>1, <1>2, PrefixInduction
<1> QED BY <1>3 DEF S

\* What is cut short in the end of the output is cut short in all of it.
LEMMA CutShortSuffix ==
  ASSUME NEW s \in Seq(Byte), NEW x \in Seq(Byte), CutShort(x)
  PROVE  CutShort(s \o x)
<1> DEFINE u == s \o x
           L == Len(s)
<1>0. /\ u \in Seq(Byte) /\ L \in Nat /\ Len(x) \in Nat /\ Len(u) = L + Len(x)
      /\ DOMAIN u = 1..Len(u) /\ DOMAIN x = 1..Len(x)
      /\ \A k \in 1..Len(x) : u[L + k] = x[k]
  BY Halves
<1>1. \A i \in 1..Len(x) : \A j \in Int : Ends(u, L + i, L + j) <=> Ends(x, i, j) BY EndsSplit
<1>2. PICK i \in Escs(x) : /\ i < Len(x) /\ x[i + 1] = "[" /\ EndOf(x, i) = 0
                           /\ \E j \in i + 2..Len(x) : x[j] \in {"ESC", "BEL"}
  BY DEF CutShort
<1>3. PICK j \in i + 2..Len(x) : x[j] \in {"ESC", "BEL"} BY <1>2
<1> HIDE DEF u, L
<1>4. i \in 1..Len(x) /\ x[i] = "ESC" BY <1>0 DEF Escs
<1>5. i + 1 \in 1..Len(x) /\ j \in 1..Len(x) /\ L + (i + 1) = (L + i) + 1 BY <1>0, <1>2, <1>3, <1>4
<1>6. /\ L + i \in 1..Len(u) /\ L + i < Len(u) /\ L + j \in (L + i) + 2..Len(u)
  BY <1>0, <1>2, <1>3, <1>4
<1>7. u[L + i] = "ESC" /\ u[(L + i) + 1] = "[" /\ u[L + j] \in {"ESC", "BEL"}
  BY <1>0, <1>2, <1>3, <1>4, <1>5
<1>8. L + i \in Escs(u) BY <1>0, <1>6, <1>7 DEF Escs
<1>9. EndOf(u, L + i) = 0
  <2> SUFFICES ASSUME EndOf(u, L + i) # 0 PROVE FALSE OBVIOUS
  <2> DEFINE e == EndOf(u, L + i)
             k == e - L
  <2>1. Ends(u, L + i, e) BY <1>0, <1>8, EndOfIs
  <2>2. e \in L + i + 1..Len(u) BY <1>0, <2>1, EndsWithin
  <2> HIDE DEF e
  <2>3. k \in Int /\ k # 0 /\ L + k = e BY <1>0, <1>4, <2>2
  <2> HIDE DEF k
  <2>4. Ends(x, i, k) BY <1>1, <1>4, <2>1, <2>3
  <2>5. EndOf(x, i) = k BY <2>4, EndsWithin
  <2> QED BY <1>2, <2>3, <2>5
<1>10. CutShort(u) BY <1>6, <1>7, <1>8, <1>9 DEF CutShort
<1> QED BY <1>10 DEF u

\* Three in a row.
LEMMA Regrouped ==
  \A a \in Seq(Byte) : \A b \in Seq(Byte) : \A c \in Seq(Byte) : (a \o b) \o c = a \o (b \o c)
  BY ConcatAssociative

\* The end x of the output is the end of what the buffer holds.
HoldsEnd(s, x, lost, buf) ==
  \E y \in Seq(Byte) : buf = y \o x /\ s = lost \o y /\ Len(buf) = Len(y) + Len(x)

\* What two halvings of the same bytes have in common.
LEMMA CommonEnd ==
  ASSUME NEW s \in Seq(Byte), NEW x \in Seq(Byte), NEW lost \in Seq(Byte), NEW buf \in Seq(Byte),
         s \o x = lost \o buf, Len(x) <= Len(buf)
  PROVE  HoldsEnd(s, x, lost, buf)
<1> DEFINE n == Len(buf)
           m == n - Len(x)
           y == SubSeq(buf, 1, m)
           z == SubSeq(buf, m + 1, n)
<1>0. n \in Nat /\ Len(x) \in Nat /\ m \in Nat /\ m <= n /\ Len(s) \in Nat /\ Len(lost) \in Nat
  BY LenProperties
<1>1. \A k \in 1..n : buf[k] \in Byte BY ElementOfSeq
<1>2. y \in Seq(Byte) /\ Len(y) = m
  <2>1. 1 \in Int /\ m \in Int /\ \A k \in 1..m : k \in 1..n BY <1>0
  <2>2. \A k \in 1..m : buf[k] \in Byte BY <1>1, <2>1
  <2>3. y \in Seq(Byte) /\ Len(y) = (IF 1 <= m THEN m - 1 + 1 ELSE 0)
    <3> HIDE DEF m
    <3> QED BY <2>1, <2>2, SubSeqProperties
  <2> HIDE DEF m
  <2> QED BY <1>0, <2>3
<1>3. z \in Seq(Byte)
  <2>1. m + 1 \in Int /\ n \in Int /\ \A k \in m + 1..n : k \in 1..n BY <1>0
  <2>2. \A k \in m + 1..n : buf[k] \in Byte BY <1>1, <2>1
  <2> HIDE DEF m
  <2> QED BY <2>1, <2>2, SubSeqProperties
<1>4. buf = y \o z
  <2>1. 1 \in 1..Len(buf) + 1 /\ m \in 1 - 1..Len(buf) /\ n \in m..Len(buf) BY <1>0
  <2>2. SubSeq(buf, 1, n) = buf BY SubSeqFull
  <2> HIDE DEF m, n
  <2>3. y \o z = SubSeq(buf, 1, n) BY <2>1, ConcatAdjacentSubSeq
  <2> QED BY <2>2, <2>3
<1>5. Len(s) = Len(lost) + m
  <2>1. Len(s \o x) = Len(s) + Len(x) /\ Len(lost \o buf) = Len(lost) + n BY ConcatProperties
  <2>2. Len(s) + Len(x) = Len(lost) + n BY <2>1
  <2> QED BY <1>0, <2>2
<1> HIDE DEF y, z, m, n
<1>6. s \o x = (lost \o y) \o z
  <2>0. y \in Seq(Byte) /\ z \in Seq(Byte) BY <1>2, <1>3
  <2>1. (lost \o y) \o z = lost \o (y \o z) BY <2>0, Regrouped
  <2> QED BY <1>4, <2>1
<1>7. lost \o y \in Seq(Byte) /\ Len(lost \o y) = Len(s)
  <2>1. lost \o y \in Seq(Byte) /\ Len(lost \o y) = Len(lost) + Len(y) BY <1>2, ConcatProperties
  <2> QED BY <1>2, <1>5, <2>1
<1>8. s = lost \o y
  <2>1. SubSeq(s \o x, 1, Len(s)) = s BY FirstPart
  <2>2. SubSeq((lost \o y) \o z, 1, Len(lost \o y)) = lost \o y BY <1>3, <1>7, FirstPart
  <2> QED BY <1>6, <1>7, <2>1, <2>2
<1>9. x = z
  <2>1. s \o x = s \o z BY <1>6, <1>8
  <2> QED BY <1>3, <2>1, ConcatSimplifications
<1>10. n = Len(y) + Len(x) BY <1>0, <1>2 DEF m
<1> QED BY <1>2, <1>4, <1>8, <1>9, <1>10 DEF n, HoldsEnd

\* The session's modes are those of a terminal that was given all of the output,
\* abandoned strings included.  A terminal built for a new client, given the preamble
\* and the filtered replay, is in them too, wherever the buffer was cut, and between
\* the broadcast of a chunk and its scan as well if the ring holds the chunk and the
\* beginning of a sequence that it ends (modeScanner, preamble, attach).
THEOREM AnAttachRestores == ScannersSpec => []AttachRestores
<1>1. BufferInv => AttachRestores
  <2> SUFFICES ASSUME BufferInv, ~CutShort(output), ~Doubled(output),
                      Abandoned(session.buffer) = {}, UnreadIsHeld
               PROVE  TerminalModes(Replay) = TerminalModes(output)
    <3>1. BufferInv /\ ~CutShort(output) /\ ~Doubled(output) /\ unread = <<>>
          => session.modes = TerminalModes(output)
      BY ModesDoFollow DEF BufferInv, ModesFollow
    <3> QED BY <3>1 DEF AttachRestores
  <2> DEFINE buf == session.buffer
             M == session.modes
             x == unread
             u == TermWalk(NewModeScanner, Preamble(M))
             d == SanitizeReplay(buf)
  <2>1. /\ ModeInv /\ buf \in Seq(Byte) /\ output \in Seq(Byte) /\ x \in Seq(Byte)
        /\ x # <<>> => Len(x) + MaxParams + 2 <= RingSize
    BY DEF BufferInv, ModeInv, EndOfOutput, UnreadIsHeld
  <2>2. PICK lost \in Seq(Byte) : output = lost \o buf /\ (lost # <<>> => Len(buf) = RingSize)
    BY DEF BufferInv, EndOfOutput
  <2>3. PICK s \in Seq(Byte) : output = s \o x /\ mode = ModeWalk(NewModeScanner, s)
    BY <2>1 DEF ModeInv
  <2>4. M = mode.modes BY <2>1 DEF ModeInv
  <2> DEFINE now == TermWalk(NewModeScanner, s)
  <2>5. now.modes = M /\ M \in Modes
    <3>1. Plain(output) BY <2>1, PlainOf
    <3>2. Plain(s) BY <2>1, <2>3, <3>1, PlainPrefix
    <3>3. M = TerminalModes(s) BY <2>3, <2>4, <3>2, ModesMirror
    <3>4. Follows(now, s) BY TerminalIs
    <3>5. now.modes = TerminalModes(s) /\ now.modes \in Modes BY <3>4 DEF Follows, Terminals
    <3> QED BY <3>3, <3>5
  <2>6. Preamble(M) \in Seq(Byte) /\ Grounded(u, M) BY <2>5, PreambleWalk
  <2>7. ~CutShort(buf) BY <2>1, <2>2, CutShortSuffix
  <2>8. SameButAsked(d, buf) BY <2>1, <2>7, Sanitized
  <2> HIDE DEF d, u, now, buf, M
  <2>9. d \in Seq(Byte) /\ TermWalk(u, d) = TermWalk(u, buf)
    <3>1. u \in GroundTerms BY <2>6 DEF Grounded, GroundTerms
    <3> QED BY <2>8, <3>1 DEF SameButAsked
  <2>10. TerminalModes(Replay) = TermWalk(u, buf).modes
    <3>1. Replay = Preamble(M) \o d BY DEF Replay, M, d, buf
    <3>2. Replay \in Seq(Byte) BY <2>6, <2>9, <3>1, ConcatProperties
    <3>3. TermWalk(NewModeScanner, Preamble(M) \o d) = TermWalk(u, d)
      BY <2>6, <2>9, TermWalkOn DEF u
    <3>4. TermWalk(NewModeScanner, Replay).modes = TerminalModes(Replay)
      BY <3>2, TerminalIs DEF Follows
    <3> QED BY <2>9, <3>1, <3>3, <3>4
  <2>11. TerminalModes(output) = TermWalk(NewModeScanner, output).modes
    BY <2>1, TerminalIs DEF Follows
  <2>12. NewModeScanner \in Terminals /\ NewModeScanner.st = "ground" BY NewTerminal
  <2>13. TermWalk(u, buf).modes = TermWalk(NewModeScanner, output).modes
    <3>1. CASE lost = <<>>
      <4>1. buf = s \o x /\ output = s \o x BY <2>1, <2>2, <2>3, <3>1, ConcatEmptySeq
      <4>2. TermWalk(NewModeScanner, s).modes = M BY <2>5 DEF now
      <4>3. TermWalk(u, s \o x).modes = TermWalk(NewModeScanner, s \o x).modes
        BY <2>1, <2>5, <2>6, <2>12, <4>2, CatchUp
      <4> QED BY <4>1, <4>3
    <3>2. CASE lost # <<>> /\ x # <<>>
      <4>1. /\ Len(buf) = RingSize /\ Len(x) + MaxParams + 2 <= RingSize
            /\ RingSize \in Nat /\ MaxParams \in Nat /\ Len(x) \in Nat
        BY <2>1, <2>2, <3>2, ConstantsAssumption, LenProperties
      <4>2. Len(x) <= Len(buf) /\ s \o x = lost \o buf BY <2>2, <2>3, <4>1
      <4>3. PICK y \in Seq(Byte) : buf = y \o x /\ s = lost \o y /\ Len(buf) = Len(y) + Len(x)
        <5> HIDE DEF x
        <5>1. HoldsEnd(s, x, lost, buf) BY <2>1, <4>2, CommonEnd
        <5> QED BY <5>1 DEF HoldsEnd
      <4>4. Len(y) >= MaxParams + 2 BY <4>1, <4>3, LenProperties
      <4> DEFINE t == TermWalk(NewModeScanner, lost)
      <4>5. t \in Terminals BY <2>12, WalkIsTerminal
      <4>6. TermWalk(NewModeScanner, lost \o y) = TermWalk(t, y) BY TermWalkOn
      <4>7. TermWalk(NewModeScanner, lost \o buf) = TermWalk(t, buf) BY <2>1, TermWalkOn
      <4> HIDE DEF t
      <4>8. TermWalk(t, y).modes = M BY <2>5, <4>3, <4>6 DEF now
      <4>9. TermWalk(u, y \o x).modes = TermWalk(t, y \o x).modes
        BY <2>1, <2>5, <2>6, <4>4, <4>5, <4>8, CatchUp
      <4> QED BY <2>2, <4>3, <4>7, <4>9
    <3>3. CASE lost # <<>> /\ x = <<>>
      <4>1. s = output BY <2>3, <3>3, ConcatEmptySeq
      <4> DEFINE t == TermWalk(NewModeScanner, lost)
      <4>2. t \in Terminals BY <2>12, WalkIsTerminal
      <4>3. TermWalk(NewModeScanner, lost \o buf) = TermWalk(t, buf) BY <2>1, TermWalkOn
      <4> HIDE DEF t
      <4>4. TermWalk(t, buf).modes = M BY <2>2, <2>5, <4>1, <4>3 DEF now
      <4>5. TermWalk(u, buf).modes = M BY <2>1, <2>5, <2>6, <4>2, <4>4, CatchUpNow
      <4> QED BY <2>2, <4>3, <4>4, <4>5
    <3> QED BY <3>1, <3>2, <3>3
  <2> QED BY <2>10, <2>11, <2>13
<1> QED BY <1>1, BufferSpec, PTL

=============================================================================
