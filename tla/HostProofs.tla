----------------------------- MODULE HostProofs -----------------------------
(***************************************************************************)
(* Proofs about what runs on a session's host: its terminal (SshTerminal)  *)
(* and the operations on its files (HostFiles).                            *)
(*                                                                         *)
(* SshTerminal implements the safety part of Backend, for any amount of    *)
(* output, size of the pipe and number of lookups.  The argument needs     *)
(* three facts that the code never states in one place: end-of-file is     *)
(* seen only after session.Wait has returned, because only that closes     *)
(* stdoutW (EofAfterWait, WriterOpen); when it has, nothing is on the wire *)
(* any more (WaitIsLast); and a killed session's command is no longer      *)
(* running for this side (KilledIsCut).  A failed start leaves nothing     *)
(* open because each step finds open at most what its error path closes    *)
(* (May, Held).  No lookup reads a file that is gone because the mutex     *)
(* lets one read at a time, and only while none has had an answer, which   *)
(* is what a removal waits for (OneLookup).                                *)
(*                                                                         *)
(* HostFiles is about any tree, any number of requests and all three kinds *)
(* of target.  No upload is seen in part because nobody but the upload     *)
(* writes to its stub, and it is renamed only when it is whole             *)
(* (StubsAreOwn); a copy of a file is as good as the file                  *)
(* (CopiesAreClean).  The destination goes only on request or to a commit  *)
(* over SFTP that knows that its stub was there, because what a deletion   *)
(* comes to is under the path it was given (Answered), whatever is made or *)
(* removed in between: a walk goes no deeper than the tree, and a link     *)
(* leads it to the destination only from above (WalkFromAbove).            *)
(***************************************************************************)
EXTENDS SshTerminal, HostFiles, WellFoundedInduction, FiniteSetTheorems, TLAPS

-----------------------------------------------------------------------------
(* SshTerminal                                                             *)


Typed ==
  /\ got \in Nat /\ pipe \in Nat /\ wire \in Nat
  /\ owner \in {"loop", "discard"} /\ kept \in BOOLEAN
  /\ start \in {"dial", "handshake", "sftp", "dir", "session", "pty", "stdin",
                "stdout", "exec", "up", "failed"}
  /\ shell \in {"none", "running", "exited", "detached"}
  /\ waiter \in {"none", "waiting", "done"}
  /\ loop \in {"none", "reading", "killing", "waiting", "ended"}
  /\ kill \in {"no", "asked", "killed"}

\* The command and its waiter exist once the start is through.
ShellIsUp ==
  /\ start = "up" <=> shell # "none"
  /\ start = "up" <=> waiter # "none"
  /\ loop # "none" => start = "up"

\* Only the read loop reads and is terminated, only discard kills.
OneReaper ==
  /\ loop = "reading" => owner = "loop"
  /\ loop = "killing" => owner = "discard"
  /\ kill # "no" \/ kept => owner = "loop" /\ loop # "none"

WaitIsLast == waiter = "done" => shell \in {"exited", "detached"} /\ wire = 0

WriterOpen == start \in {"exec", "up"} /\ waiter # "done" => "stdoutW" \in open

EofAfterWait == owner = "loop" /\ loop \in {"waiting", "ended"} => waiter = "done"

KilledIsCut == kill = "killed" => cut /\ shell # "running"

Inv ==
  /\ Typed /\ ShellIsUp /\ OneReaper /\ WaitIsLast /\ WriterOpen
  /\ EofAfterWait /\ KilledIsCut

-----------------------------------------------------------------------------
LEMMA InvInit == Init => Inv
<1> SUFFICES ASSUME Init PROVE Inv OBVIOUS
<1>1. Typed BY DEF Init, Typed
<1>2. ShellIsUp /\ OneReaper BY DEF Init, ShellIsUp, OneReaper
<1>3. WaitIsLast /\ WriterOpen /\ EofAfterWait /\ KilledIsCut
  BY DEF Init, WaitIsLast, WriterOpen, EofAfterWait, KilledIsCut
<1> QED BY <1>1, <1>2, <1>3 DEF Inv

LEMMA InvNext == Inv /\ [Next]_vars => Inv'
<1> SUFFICES ASSUME Inv, [Next]_vars PROVE Inv' OBVIOUS
<1> USE DEF Inv, Typed, ShellIsUp, OneReaper, WaitIsLast, WriterOpen,
            EofAfterWait, KilledIsCut, shellVars, endVars, pidVars
<1>1. CASE StartRefused BY <1>1 DEF StartRefused
<1>2. CASE StartSkips BY <1>2 DEF StartSkips, Skips, Order
<1>3. CASE StartStep
  <2>1. /\ start \in DOMAIN Order /\ start' = Order[start]
        /\ open' = (IF start = "dir" THEN open \ {"sftp"} ELSE open \cup Opens(start))
        /\ IF start = "exec"
             THEN shell' = "running" /\ waiter' = "waiting"
             ELSE UNCHANGED <<shell, waiter>>
        /\ UNCHANGED <<owner, kept, cut, wire, pipe, got, loop, kill>>
    BY <1>3 DEF StartStep
  <2>2. /\ start \in {"dial", "handshake", "sftp", "dir", "session", "pty", "stdin",
                      "stdout", "exec"}
        /\ start' = "exec" <=> start = "stdout"
        /\ start' = "up" <=> start = "exec"
        /\ start' \in {"handshake", "sftp", "dir", "session", "pty", "stdin",
                       "stdout", "exec", "up"}
    BY <2>1 DEF Order
  <2>3. start = "stdout" => "stdoutW" \in open' BY <2>1 DEF Opens
  <2>4. start = "exec" => open \subseteq open' BY <2>1 DEF Opens
  <2> QED BY <2>1, <2>2, <2>3, <2>4
<1>4. CASE StartFails BY <1>4 DEF StartFails, Order
<1>5. CASE SftpGivenUp BY <1>5 DEF SftpGivenUp
<1>6. CASE Register BY <1>6 DEF Register
<1>7. CASE ShellWrites BY <1>7 DEF ShellWrites
<1>8. CASE ShellExits BY <1>8 DEF ShellExits
<1>9. CASE ConnectionLost BY <1>9 DEF ConnectionLost, ConnectionEnds
<1>10. CASE Copies BY <1>10 DEF Copies
<1>11. CASE WaitReturns BY <1>11 DEF WaitReturns, Copied
<1>12. CASE LoopReads BY <1>12 DEF LoopReads
<1>13. CASE LoopSeesEof BY <1>13 DEF LoopSeesEof
<1>14. CASE LoopCloses BY <1>14 DEF LoopCloses, ConnectionEnds
<1>15. CASE Discards BY <1>15 DEF Discards, SignalKill, ConnectionEnds
<1>16. CASE TerminateAsks BY <1>16 DEF TerminateAsks
<1>17. CASE TerminateKills
  BY <1>17 DEF TerminateKills, SignalKill, ConnectionEnds
<1>18. CASE StdinCollected BY <1>18 DEF StdinCollected
<1>22. CASE RestartReplaces BY <1>22 DEF RestartReplaces
<1>19. CASE WriteBegins \/ WriteEnds \/ ShellTakesInput
  BY <1>19 DEF WriteBegins, WriteEnds, ShellTakesInput
<1>20. CASE Lookup
  BY <1>20 DEF Lookup, PreambleRuns, BackoffEnds, Cleans, LookBegins, LookFinds,
               LookMisses
<1>21. CASE UNCHANGED vars BY <1>21 DEF vars
<1> QED BY <1>1, <1>2, <1>3, <1>4, <1>5, <1>6, <1>7, <1>8, <1>9, <1>10, <1>11,
           <1>12, <1>13, <1>14, <1>15, <1>16, <1>17, <1>18, <1>19, <1>20, <1>21, <1>22
        DEF Next

-----------------------------------------------------------------------------
(* The refinement                                                          *)

\* Steps that the read loop does not see.
Unseen == UNCHANGED <<got, Made, Phase>>

LEMMA UnseenStutters == Unseen => UNCHANGED Promised!vars
  BY DEF Unseen, Promised!vars

LEMMA Within ==
  ASSUME NEW a \in Nat, NEW b \in Nat, NEW c \in Nat, NEW d \in Nat, d <= c
  PROVE  a + b + d \in a..(a + b + c)
  OBVIOUS

\* Whatever ends the connection loses at most what is on the wire.
LEMMA EndsLoseLittle ==
  ASSUME Inv, owner = "loop", ConnectionEnds, UNCHANGED <<owner, pipe, got>>
  PROVE  Made' \in got..Made
<1>1. wire' \in Nat /\ wire' <= wire BY DEF ConnectionEnds, Inv, Typed
<1>2. Made = got + pipe + wire /\ Made' = got + pipe + wire' BY DEF Made
<1>3. got \in Nat /\ pipe \in Nat /\ wire \in Nat BY DEF Inv, Typed
<1> QED BY <1>1, <1>2, <1>3, Within

\* With discard as the reaper nothing is promised and nothing read.
LEMMA DiscardIsUnseen ==
  ASSUME Inv, [Next]_vars, owner = "discard"
  PROVE  Unseen
<1>1. owner' = owner /\ got' = got
  BY DEF Inv, OneReaper, Next, vars, shellVars, endVars, pidVars, StartRefused, StartSkips,
         StartStep, StartFails, SftpGivenUp, Register, ShellWrites, ShellExits,
         ConnectionLost, Copies, WaitReturns, LoopReads, LoopSeesEof, LoopCloses,
         Discards, TerminateAsks, TerminateKills, RestartReplaces, StdinCollected, WriteBegins,
         WriteEnds, ShellTakesInput, Lookup, PreambleRuns, BackoffEnds, Cleans,
         LookBegins, LookFinds, LookMisses
<1> QED BY <1>1 DEF Unseen, Made, Phase

LEMMA StepRefines ==
  ASSUME Inv, [Next]_vars, owner = "loop"
  PROVE  [Promised!Next]_(Promised!vars)
<1> USE DEF shellVars, endVars, pidVars, Promised!Next, Promised!vars
<1>0. Typed /\ Inv BY DEF Inv
<1>1. CASE StartRefused \/ StartSkips \/ StartFails \/ SftpGivenUp \/ Register
  <2>1. UNCHANGED <<owner, got, pipe, wire, kill, shell>>
        /\ loop' \in {loop, "reading"} /\ (loop' # loop => loop = "none")
    BY <1>1 DEF StartRefused, StartSkips, StartFails, SftpGivenUp, Register
  <2> QED BY <2>1, UnseenStutters DEF Unseen, Made, Phase
<1>2. CASE StartStep
  <2>1. UNCHANGED <<owner, got, pipe, wire, kill, loop>>
        /\ (shell' = shell \/ (shell' = "running" /\ start = "exec"))
    BY <1>2 DEF StartStep
  <2>2. start = "exec" => shell = "none" BY <1>0 DEF Inv, ShellIsUp, Typed
  <2> QED BY <2>1, <2>2, UnseenStutters DEF Unseen, Made, Phase
<1>3. CASE ShellWrites
  <2>1. Promised!Produce
    BY <1>0, <1>3 DEF ShellWrites, Inv, Typed, ShellIsUp, WaitIsLast,
                      EofAfterWait, KilledIsCut, Made, Phase,
                      Promised!Produce
  <2> QED BY <2>1
<1>4. CASE ShellExits
  <2>1. Promised!Exit
    BY <1>0, <1>4 DEF ShellExits, Inv, Typed, WaitIsLast, EofAfterWait,
                      KilledIsCut, Made, Phase,
                      Promised!Exit
  <2> QED BY <2>1
<1>5. CASE ConnectionLost
  <2>1. Made' \in got..Made BY <1>5, EndsLoseLittle DEF ConnectionLost
  <2>2. CASE loop \in {"waiting", "ended"}
    <3>1. wire' = wire /\ shell' = shell
      BY <2>2, <1>5 DEF ConnectionLost, ConnectionEnds, Inv, Typed, WaitIsLast,
                        EofAfterWait
    <3> QED BY <3>1, <1>5, UnseenStutters DEF ConnectionLost, Unseen, Made, Phase
  <2>3. CASE loop \notin {"waiting", "ended"}
    <3>1. Promised!Cut
      BY <2>1, <2>3, <1>5 DEF ConnectionLost, ConnectionEnds, Inv, Typed,
                              KilledIsCut, Made, Phase, Promised!Cut
    <3> QED BY <3>1
  <2> QED BY <2>2, <2>3
<1>6. CASE Copies
  <2>1. got' + pipe' + wire' = got + pipe + wire
    BY <1>6, <1>0 DEF Copies, Typed
  <2> QED BY <2>1, <1>6, UnseenStutters DEF Copies, Unseen, Made, Phase
<1>7. CASE LoopReads
  <2>1. Promised!Read
    BY <1>7, <1>0 DEF LoopReads, Typed, Made, Phase,
                      Promised!Read
  <2> QED BY <2>1
<1>8. CASE LoopSeesEof
  <2>1. waiter = "done" BY <1>8 DEF LoopSeesEof, Inv, WriterOpen, ShellIsUp, Typed
  <2>2. /\ owner' = "loop" /\ loop = "reading" /\ loop' = "waiting" /\ pipe = 0 /\ wire = 0
        /\ shell \in {"exited", "detached"} /\ got \in Nat
        /\ UNCHANGED <<got, pipe, wire>>
    BY <2>1, <1>8 DEF LoopSeesEof, Inv, Typed, WaitIsLast
  <2>3. Made = got /\ UNCHANGED Made BY <2>2 DEF Made
  <2>4. Phase \in {"killed", "ended"} /\ Phase' = "eof" BY <2>2 DEF Phase
  <2>5. Promised!Eof BY <2>2, <2>3, <2>4 DEF Promised!Eof
  <2> QED BY <2>5
<1>9. CASE LoopCloses
  <2>1. wire' = wire
    BY <1>9 DEF LoopCloses, ConnectionEnds, Inv, Typed, WaitIsLast
  <2>2. /\ owner' = "loop" /\ loop = "waiting" /\ loop' = "ended"
        /\ UNCHANGED <<got, pipe, wire>>
    BY <2>1, <1>9 DEF LoopCloses
  <2>3. UNCHANGED <<Made, got>> /\ Phase = "eof" /\ Phase' = "closed"
    BY <2>2 DEF Made, Phase
  <2>4. Promised!Close BY <2>3 DEF Promised!Close
  <2> QED BY <2>4
<1>10. CASE TerminateKills
  <2>1. Made' \in got..Made
    BY <1>10, EndsLoseLittle DEF TerminateKills, SignalKill
  <2>2. CASE loop = "waiting"
    <3>1. wire' = wire
      BY <2>2, <1>10 DEF TerminateKills, SignalKill, ConnectionEnds, Inv, Typed,
                         WaitIsLast, EofAfterWait
    <3> QED BY <3>1, <2>2, <1>10, UnseenStutters
            DEF TerminateKills, Unseen, Made, Phase
  <2>3. CASE loop # "waiting"
    <3>1. /\ owner' = "loop" /\ kill = "asked" /\ kill' = "killed"
          /\ loop' = loop /\ loop \notin {"waiting", "ended"} /\ UNCHANGED got
      BY <2>3, <1>10 DEF TerminateKills
    <3>2. Phase \in {"running", "ended"} /\ Phase' = "killed" BY <3>1 DEF Phase
    <3>3. Promised!Kill BY <2>1, <3>1, <3>2 DEF Promised!Kill
    <3> QED BY <3>3
  <2> QED BY <2>2, <2>3
<1>11. CASE WaitReturns \/ TerminateAsks \/ RestartReplaces \/ StdinCollected
            \/ WriteBegins \/ WriteEnds \/ ShellTakesInput \/ Lookup \/ UNCHANGED vars
  <2>1. /\ UNCHANGED <<owner, got, pipe, wire, shell, loop>>
        /\ kill' = "killed" <=> kill = "killed"
    BY <1>11 DEF WaitReturns, TerminateAsks, RestartReplaces, StdinCollected, WriteBegins, WriteEnds,
                 ShellTakesInput, Lookup, PreambleRuns, BackoffEnds, Cleans,
                 LookBegins, LookFinds, LookMisses, vars
  <2> QED BY <2>1, UnseenStutters DEF Unseen, Made, Phase
<1>12. ~Discards BY DEF Discards, Inv, OneReaper
<1> QED BY <1>1, <1>2, <1>3, <1>4, <1>5, <1>6, <1>7, <1>8, <1>9, <1>10, <1>11, <1>12
        DEF Next

-----------------------------------------------------------------------------
\* Every start, read, kill and end of an SSH shell is one that session.Backend
\* allows: output in order and whole unless the connection was cut, end-of-file
\* after the last of it.  (That a killed one ends is IsABackend's liveness.)
THEOREM SshIsABackend == Spec => Promised!Safe
<1>1. Init => Promised!Init BY DEF Init, Made, Phase, Promised!Init
<1>2. Inv /\ [Next]_vars => [Promised!Next]_(Promised!vars)
  <2> SUFFICES ASSUME Inv, [Next]_vars PROVE [Promised!Next]_(Promised!vars) OBVIOUS
  <2>1. CASE owner = "loop" BY <2>1, StepRefines
  <2>2. CASE owner = "discard" BY <2>2, DiscardIsUnseen, UnseenStutters
  <2> QED BY <2>1, <2>2 DEF Inv, Typed
<1> QED BY <1>1, <1>2, InvInit, InvNext, PTL DEF Spec, Promised!Safe

-----------------------------------------------------------------------------
(* What a start holds, and the lookup of the shell's PID                   *)

\* What may be open when a step of startPTY is to run.
May(s) ==
  CASE s \in {"dial", "failed"} -> {}
    [] s \in {"handshake", "sftp", "session"} -> {"conn"}
    [] s = "dir" -> {"conn", "sftp"}
    [] s \in {"pty", "stdin"} -> {"conn", "session"}
    [] s = "stdout" -> {"conn", "session", "stdinR", "stdinW"}
    [] s \in {"exec", "up"} ->
         {"conn", "session", "stdinR", "stdinW", "stdoutR", "stdoutW"}

\* No step has more open than its error path closes, and the SFTP client is
\* open only where a start directory or a .env is wanted.
Held ==
  /\ open \subseteq May(start)
  /\ start = "dir" /\ Skips("dir") => "sftp" \notin open

\* rootPIDMu: one lookup reads at a time, and only while none has an answer.
\* The file is removed, or to be removed, only once one had it.
OneLookup ==
  /\ look \in [Caller -> {"idle", "reading"}]
  /\ root \in {"unknown", "found", "missed"}
  /\ \A c \in Caller : look[c] = "reading" =>
        root # "found" /\ \A d \in Caller : d # c => look[d] = "idle"
  /\ cleaning \/ pidfile = "removed" => root = "found"

LEMMA HeldInit == Init => Held /\ OneLookup
  BY DEF Init, Held, OneLookup, May

LEMMA OnlySftpLeadsToDir == \A s \in DOMAIN Order : Order[s] = "dir" => s = "sftp"
<1> SUFFICES ASSUME NEW s \in DOMAIN Order, Order[s] = "dir" PROVE s = "sftp" OBVIOUS
<1>1. s \in {"dial", "handshake", "sftp", "dir", "session", "pty", "stdin", "stdout", "exec"}
  BY DEF Order
<1>2. ASSUME s # "sftp" PROVE Order[s] # "dir" BY <1>1, <1>2 DEF Order
<1> QED BY <1>2

\* A step of the start: what it leaves open is what the next may have.
LEMMA StartHolds ==
  ASSUME Inv, Held, StartRefused \/ StartSkips \/ StartStep \/ StartFails \/ SftpGivenUp
  PROVE  Held'
<1> USE DEF Held, Skips
<1>1. CASE StartRefused BY <1>1 DEF StartRefused, May
<1>2. CASE StartSkips BY <1>2 DEF StartSkips, May, Order
<1>3. CASE StartStep
  <2>1. /\ start \in DOMAIN Order /\ start' = Order[start] /\ ~Skips(start)
        /\ open' = (IF start = "dir" THEN open \ {"sftp"} ELSE open \cup Opens(start))
        /\ want' = want
    BY <1>3 DEF StartStep
  <2>2. May(start) \cup Opens(start) \subseteq May(Order[start]) \/ start = "dir"
    BY <2>1 DEF May, Opens, Order
  <2>3. start = "dir" => start' = "session" BY <2>1 DEF Order
  <2>4. start' = "dir" => start = "sftp" BY <2>1, OnlySftpLeadsToDir
  <2>5. CASE start = "dir" BY <2>1, <2>3, <2>5 DEF May
  <2>6. CASE start # "dir"
    <3>1. open' \subseteq May(start') BY <2>1, <2>2, <2>6
    <3>2. start' = "dir" => ~Skips("dir")' BY <2>1, <2>4
    <3> QED BY <3>1, <3>2
  <2> QED BY <2>5, <2>6
<1>4. CASE StartFails
  <2>1. /\ start \in DOMAIN Order /\ start' = "failed" /\ open' = open \ Closes(start)
        /\ ~Skips(start)
    BY <1>4 DEF StartFails
  <2>2. May(start) \subseteq Closes(start) BY <2>1 DEF May, Closes, Order
  <2> QED BY <2>1, <2>2 DEF May
<1>5. CASE SftpGivenUp BY <1>5 DEF SftpGivenUp, May
<1> QED BY <1>1, <1>2, <1>3, <1>4, <1>5

LEMMA HeldNext == Inv /\ Held /\ [Next]_vars => Held'
<1> SUFFICES ASSUME Inv, Held, [Next]_vars PROVE Held' OBVIOUS
<1> USE DEF shellVars, endVars, pidVars
<1>1. CASE StartRefused \/ StartSkips \/ StartStep \/ StartFails \/ SftpGivenUp
  BY <1>1, StartHolds
<1>2. CASE open' \subseteq open /\ UNCHANGED <<want, start>>
  BY <1>2 DEF Held, Skips
<1>3. CASE Register \/ ShellWrites \/ ShellExits \/ ConnectionLost \/ Copies \/ LoopReads
           \/ LoopSeesEof \/ TerminateAsks \/ RestartReplaces \/ WriteBegins \/ WriteEnds
           \/ ShellTakesInput
  BY <1>2, <1>3 DEF Register, ShellWrites, ShellExits, ConnectionLost, Copies,
                    LoopReads, LoopSeesEof, TerminateAsks, RestartReplaces, WriteBegins, WriteEnds,
                    ShellTakesInput
<1>4. CASE WaitReturns \/ LoopCloses \/ Discards \/ TerminateKills \/ StdinCollected
  BY <1>2, <1>4 DEF WaitReturns, LoopCloses, Discards, TerminateKills, SignalKill,
                    StdinCollected
<1>5. CASE Lookup \/ UNCHANGED vars
  BY <1>2, <1>5 DEF Lookup, PreambleRuns, BackoffEnds, Cleans, LookBegins, LookFinds,
                    LookMisses, vars
<1> QED BY <1>1, <1>3, <1>4, <1>5 DEF Next

LEMMA LookupNext == Inv /\ OneLookup /\ [Next]_vars => OneLookup'
<1> SUFFICES ASSUME Inv, OneLookup, [Next]_vars PROVE OneLookup' OBVIOUS
<1> USE DEF shellVars, endVars, pidVars, OneLookup
<1>1. CASE UNCHANGED pidVars BY <1>1
<1>2. CASE \/ StartRefused \/ StartSkips \/ StartFails \/ SftpGivenUp \/ Register
           \/ ShellWrites \/ ShellExits \/ ConnectionLost \/ Copies \/ WaitReturns
           \/ LoopReads \/ LoopSeesEof \/ LoopCloses \/ Discards
           \/ TerminateAsks \/ TerminateKills \/ RestartReplaces \/ StdinCollected
           \/ WriteBegins \/ WriteEnds \/ ShellTakesInput \/ UNCHANGED vars
  BY <1>1, <1>2 DEF StartRefused, StartSkips, StartFails, SftpGivenUp, Register,
         ShellWrites, ShellExits, ConnectionLost, Copies, WaitReturns, LoopReads,
         LoopSeesEof, LoopCloses, Discards, TerminateAsks, TerminateKills,
         RestartReplaces, StdinCollected, WriteBegins, WriteEnds, ShellTakesInput, vars
<1>3. CASE StartStep
  <2>1. UNCHANGED <<look, root, cleaning>> /\ (pidfile' = "removed" => pidfile = "removed")
    BY <1>3 DEF StartStep
  <2> QED BY <2>1
<1>4. CASE PreambleRuns BY <1>4 DEF PreambleRuns
<1>5. CASE BackoffEnds BY <1>5 DEF BackoffEnds
<1>6. CASE Cleans BY <1>6 DEF Cleans
<1>7. ASSUME NEW c \in Caller, LookBegins(c) PROVE OneLookup'
  BY <1>7 DEF LookBegins, MutexFree
<1>8. ASSUME NEW c \in Caller, LookFinds(c) PROVE OneLookup'
  BY <1>8 DEF LookFinds
<1>9. ASSUME NEW c \in Caller, LookMisses(c) PROVE OneLookup'
  BY <1>9 DEF LookMisses
<1> QED BY <1>2, <1>3, <1>4, <1>5, <1>6, <1>7, <1>8, <1>9 DEF Next, Lookup

\* Whichever step of startPTY fails, in whatever combination of a start
\* directory, a .env and the kind of target, what the start had opened is
\* closed; and a shell that is up has no SFTP client left.
THEOREM FailedStartIsClean == Spec => []FailedStartHoldsNothing
<1>1. Init => Inv /\ Held BY InvInit, HeldInit
<1>2. Inv /\ Held /\ [Next]_vars => Inv' /\ Held' BY InvNext, HeldNext
<1>3. Held => FailedStartHoldsNothing BY DEF Held, May, FailedStartHoldsNothing
<1> QED BY <1>1, <1>2, <1>3, PTL DEF Spec

\* However many requests look up the shell's PID at once, none reads a file that
\* cleanupPIDFile has removed.
THEOREM LookupsDoNotRace == Spec => []NoneReadsARemovedFile
<1>1. Init => Inv /\ OneLookup BY InvInit, HeldInit
<1>2. Inv /\ OneLookup /\ [Next]_vars => Inv' /\ OneLookup' BY InvNext, LookupNext
<1>3. OneLookup => NoneReadsARemovedFile BY DEF OneLookup, NoneReadsARemovedFile
<1> QED BY <1>1, <1>2, <1>3, PTL DEF Spec
-----------------------------------------------------------------------------
(* HostFiles: what a walk comes to                                         *)

\* The order of the numbers, which is well founded: what holds of 0, and of n + 1
\* when it holds of n, holds of every number.
Before == {ss \in Nat \X Nat : ss[1] < ss[2]}

LEMMA SetInduction ==
  ASSUME NEW S, 0 \in S, \A n \in Nat : n \in S => n + 1 \in S
  PROVE  Nat \subseteq S
<1> DEFINE T == Nat \ S
<1> SUFFICES ASSUME T # {} PROVE FALSE OBVIOUS
<1>1. IsWellFoundedOn(Before, Nat) BY NatLessThanWellFounded DEF OpToRel, Before
<1>2. PICK x \in T : \A y \in T : ~(<<y, x>> \in Before) BY <1>1, WFMin
<1>3. \A y \in Nat : <<y, x>> \in Before <=> y < x BY <1>2 DEF Before
<1>4. x \in Nat /\ x # 0 /\ x \notin S BY <1>2
<1>5. x - 1 \in Nat /\ x - 1 < x /\ x - 1 + 1 = x BY <1>4
<1>6. x - 1 \in S BY <1>2, <1>3, <1>5
<1> QED BY <1>4, <1>5, <1>6

\* A walk begins with its path and lists what it has come to, step by step.
LEMMA ReachSteps ==
  ASSUME NEW p, NEW links
  PROVE  /\ Reach(p, links)[0] = {p}
         /\ \A n \in 0..Depth - 1 :
              Reach(p, links)[n + 1] = Listed(Reach(p, links)[n], links)
<1> DEFINE E(g, m) == g = [n \in 0..m |-> IF n = 0 THEN {p} ELSE Listed(g[n - 1], links)]
           S == {m \in Nat : \E g : E(g, m)}
<1>1. 0 \in S
  <2> DEFINE g == [n \in 0..0 |-> {p}]
  <2>1. g = [n \in 0..0 |-> IF n = 0 THEN {p} ELSE Listed(g[n - 1], links)] OBVIOUS
  <2>2. E(g, 0) BY <2>1
  <2> QED BY <2>2
<1>2. ASSUME NEW m \in Nat, m \in S PROVE m + 1 \in S
  <2>1. PICK g : E(g, m) BY <1>2
  <2> DEFINE h == [n \in 0..m + 1 |-> IF n = 0 THEN {p} ELSE Listed(g[n - 1], links)]
  <2>2. \A n \in 0..m : h[n] = IF n = 0 THEN {p} ELSE Listed(g[n - 1], links) OBVIOUS
  <2>3. \A n \in 0..m : h[n] = g[n] BY <2>1, <2>2
  <2>4. \A n \in 0..m + 1 : n # 0 => h[n - 1] = g[n - 1]
    <3> TAKE n \in 0..m + 1
    <3> HAVE n # 0
    <3>1. n - 1 \in 0..m OBVIOUS
    <3> QED BY <2>3, <3>1
  <2>5. h = [n \in 0..m + 1 |-> IF n = 0 THEN {p} ELSE Listed(h[n - 1], links)] BY <2>4
  <2>6. E(h, m + 1) BY <2>5
  <2> HIDE DEF E, h
  <2> QED BY <2>6
<1>3. Depth \in S BY <1>1, <1>2, SetInduction, HostFilesAssumption
<1>4. \E g : E(g, Depth) BY <1>3
<1>5. Reach(p, links) = CHOOSE g : E(g, Depth) BY DEF Reach
<1>6. E(Reach(p, links), Depth) BY <1>4, <1>5
<1> HIDE DEF E
<1>7. \A n \in 0..Depth :
        Reach(p, links)[n] = IF n = 0 THEN {p} ELSE Listed(Reach(p, links)[n - 1], links)
  BY <1>6 DEF E
<1>8. 0 \in 0..Depth BY HostFilesAssumption
<1>9. \A n \in 0..Depth - 1 : n + 1 \in 0..Depth /\ n + 1 # 0 /\ n + 1 - 1 = n
  BY HostFilesAssumption
<1> QED BY <1>7, <1>8, <1>9

\* It only comes to more.
LEMMA ReachGrows ==
  ASSUME NEW p, NEW links, NEW n \in Nat, NEW m \in n..Depth
  PROVE  Reach(p, links)[n] \subseteq Reach(p, links)[m]
<1> DEFINE S == {k \in Nat : n + k <= Depth => Reach(p, links)[n] \subseteq Reach(p, links)[n + k]}
<1>1. 0 \in S OBVIOUS
<1>2. ASSUME NEW k \in Nat, k \in S PROVE k + 1 \in S
  <2> SUFFICES ASSUME n + (k + 1) <= Depth
               PROVE  Reach(p, links)[n] \subseteq Reach(p, links)[n + (k + 1)]
    OBVIOUS
  <2>1. n + k \in 0..Depth - 1 /\ n + (k + 1) = n + k + 1 BY HostFilesAssumption
  <2>2. Reach(p, links)[n + k + 1] = Listed(Reach(p, links)[n + k], links) BY <2>1, ReachSteps
  <2>3. Reach(p, links)[n] \subseteq Reach(p, links)[n + k] BY <1>2, <2>1, HostFilesAssumption
  <2> QED BY <2>1, <2>2, <2>3 DEF Listed
<1>3. m - n \in Nat /\ n + (m - n) = m /\ m <= Depth BY HostFilesAssumption
<1>4. m - n \in S BY <1>1, <1>2, <1>3, SetInduction
<1> QED BY <1>3, <1>4

\* Some level for each path, one more than that of its directory.
Levels(level) ==
  /\ level \in [Paths -> 0..Depth]
  /\ \A p \in Paths \ {Root} : level[p] = level[Parent[p]] + 1

\* A path is under itself.
LEMMA UnderItself == ASSUME NEW p PROVE p \in Under(p)
<1>1. Depth \in 0..Depth /\ 0 \in Nat BY HostFilesAssumption
<1> QED BY <1>1, ReachGrows, ReachSteps DEF Under

\* A walk that follows no links comes to a path after as many steps as the path
\* is further down.
LEMMA ReachAtItsLevel ==
  ASSUME NEW level, Levels(level), NEW p \in Paths, NEW a \in Under(p)
  PROVE  /\ a \in Paths /\ level[p] <= level[a]
         /\ a \in Reach(p, {})[level[a] - level[p]]
<1> DEFINE R == Reach(p, {})
           Fits(b) == /\ b \in Paths /\ level[p] <= level[b]
                      /\ b \in R[level[b] - level[p]]
           S == {n \in Nat : n <= Depth => \A b \in R[n] : Fits(b)}
<1>0. /\ Depth \in Nat /\ \A b \in Paths : level[b] \in 0..Depth /\ Parent[b] \in Paths
      /\ R[0] = {p} /\ \A n \in 0..Depth - 1 : R[n + 1] = Listed(R[n], {})
  BY HostFilesAssumption, ReachSteps DEF Levels
<1> HIDE DEF R
<1>1. 0 \in S BY <1>0
<1>2. ASSUME NEW n \in Nat, n \in S PROVE n + 1 \in S
  <2> SUFFICES ASSUME n + 1 <= Depth, NEW b \in R[n + 1] PROVE Fits(b) OBVIOUS
  <2>1. n \in 0..Depth - 1 /\ n <= Depth BY <1>0
  <2>2. \A c \in R[n] : Fits(c) BY <1>2, <2>1
  <2>3. CASE b \in R[n] BY <2>2, <2>3
  <2>4. CASE b \in Paths \ {Root} /\ Parent[b] \in R[n]
    <3>1. Fits(Parent[b]) BY <2>2, <2>4
    <3>2. level[b] = level[Parent[b]] + 1 BY <2>4 DEF Levels
    <3> DEFINE k == level[Parent[b]] - level[p]
    <3>3. /\ k \in 0..Depth - 1 /\ level[b] - level[p] = k + 1 /\ level[p] <= level[b]
      BY <1>0, <2>4, <3>1, <3>2
    <3>4. b \in Listed(R[k], {}) BY <2>4, <3>1 DEF Listed
    <3>5. R[k + 1] = Listed(R[k], {}) BY <1>0, <3>3
    <3> QED BY <2>4, <3>3, <3>4, <3>5
  <2>5. b \in Listed(R[n], {}) BY <1>0, <2>1
  <2> QED BY <2>3, <2>4, <2>5 DEF Listed
<1>3. Depth \in S BY <1>0, <1>1, <1>2, SetInduction
<1>4. a \in R[Depth] BY DEF Under, R
<1> QED BY <1>0, <1>3, <1>4 DEF R

\* What it comes to in n steps, a walk from the directory comes to in one more.
LEMMA ReachOfADirectory ==
  ASSUME NEW q \in Paths \ {Root}, NEW n \in 0..Depth - 1
  PROVE  Reach(q, {})[n] \subseteq Reach(Parent[q], {})[n + 1]
<1> DEFINE R == Reach(q, {})
           D == Reach(Parent[q], {})
           S == {k \in Nat : k < Depth => R[k] \subseteq D[k + 1]}
<1>0. /\ Depth \in Nat /\ R[0] = {q} /\ D[0] = {Parent[q]}
      /\ \A k \in 0..Depth - 1 : R[k + 1] = Listed(R[k], {}) /\ D[k + 1] = Listed(D[k], {})
  BY HostFilesAssumption, ReachSteps
<1> HIDE DEF R, D
<1>1. 0 \in S
  <2> SUFFICES ASSUME 0 < Depth PROVE R[0] \subseteq D[0 + 1] OBVIOUS
  <2>1. D[0 + 1] = Listed({Parent[q]}, {}) BY <1>0
  <2> QED BY <1>0, <2>1 DEF Listed
<1>2. ASSUME NEW k \in Nat, k \in S PROVE k + 1 \in S
  <2> SUFFICES ASSUME k + 1 < Depth PROVE R[k + 1] \subseteq D[k + 1 + 1] OBVIOUS
  <2>1. k \in 0..Depth - 1 /\ k + 1 \in 0..Depth - 1 /\ k < Depth BY <1>0
  <2>2. R[k] \subseteq D[k + 1] BY <1>2, <2>1
  <2>3. R[k + 1] = Listed(R[k], {}) /\ D[k + 1 + 1] = Listed(D[k + 1], {}) BY <1>0, <2>1
  <2> QED BY <2>2, <2>3 DEF Listed
<1>3. n \in Nat /\ n < Depth BY <1>0
<1>4. n \in S BY <1>1, <1>2, <1>3, SetInduction
<1> QED BY <1>3, <1>4 DEF R, D

\* What is under a path is under the directory the path is in, as the tree is
\* no deeper than a walk goes.
LEMMA UnderTheDirectory ==
  ASSUME NEW q \in Paths \ {Root}, NEW a \in Under(q)
  PROVE  a \in Under(Parent[q]) /\ a # Parent[q]
<1>1. PICK level : Levels(level) BY HostFilesAssumption DEF Levels
<1>2. /\ a \in Paths /\ level[q] <= level[a] /\ a \in Reach(q, {})[level[a] - level[q]]
  BY <1>1, ReachAtItsLevel
<1>3. level[q] = level[Parent[q]] + 1 /\ Parent[q] \in Paths BY <1>1, HostFilesAssumption DEF Levels
<1>4. level[a] \in 0..Depth /\ level[q] \in 0..Depth /\ level[Parent[q]] \in 0..Depth /\ Depth \in Nat
  BY <1>1, <1>2, <1>3, HostFilesAssumption DEF Levels
<1> DEFINE k == level[a] - level[q]
<1>5. k \in 0..Depth - 1 /\ k + 1 \in Nat /\ Depth \in k + 1..Depth BY <1>2, <1>3, <1>4
<1>6. a \in Reach(Parent[q], {})[k + 1] BY <1>2, <1>5, ReachOfADirectory
<1>7. a \in Under(Parent[q]) BY <1>5, <1>6, ReachGrows DEF Under
<1>8. a # Parent[q] BY <1>2, <1>3, <1>4
<1> QED BY <1>7, <1>8

\* If links lead nowhere above the destination (NoWayAround), a walk that follows
\* them comes to the destination only from above it.
LEMMA WalkFromAbove ==
  ASSUME NoWayAround, NEW links \in SUBSET DOMAIN Target, NEW p \in Paths,
         Dest \in Reach(p, links)[Depth]
  PROVE  Dest \in Under(p)
<1> DEFINE R == Reach(p, links)
           S == {n \in Nat : n <= Depth => \A a \in R[n] : Dest \in Under(a) => Dest \in Under(p)}
<1>0. /\ Depth \in Nat /\ R[0] = {p}
      /\ \A n \in 0..Depth - 1 : R[n + 1] = Listed(R[n], links)
  BY HostFilesAssumption, ReachSteps
<1> HIDE DEF R
<1>1. 0 \in S BY <1>0
<1>2. ASSUME NEW n \in Nat, n \in S PROVE n + 1 \in S
  <2> SUFFICES ASSUME n + 1 <= Depth, NEW a \in R[n + 1], Dest \in Under(a)
               PROVE  Dest \in Under(p)
    OBVIOUS
  <2>1. n \in 0..Depth - 1 /\ n <= Depth BY <1>0
  <2>2. \A c \in R[n] : Dest \in Under(c) => Dest \in Under(p) BY <1>2, <2>1
  <2>3. CASE a \in R[n] BY <2>2, <2>3
  <2>4. ASSUME a \in Paths \ {Root}, Parent[a] \in R[n] PROVE Dest \in Under(p)
    BY <2>2, <2>4, UnderTheDirectory
  <2>5. ASSUME a \in Paths \ {Root}, NEW l \in links, Parent[a] = Target[l] PROVE FALSE
    BY <2>5, UnderTheDirectory DEF NoWayAround
  <2>6. a \in Listed(R[n], links) BY <1>0, <2>1
  <2> QED BY <2>3, <2>4, <2>5, <2>6 DEF Listed
<1>3. Depth \in S BY <1>0, <1>1, <1>2, SetInduction
<1> QED BY <1>0, <1>3, UnderItself DEF R

-----------------------------------------------------------------------------
(* HostFiles: who writes what                                              *)

Stubs == {Stub[r] : r \in Requests}

Nodes == {None, Dir, Link} \cup [is: {"file"}, by: SUBSET Requests, whole: BOOLEAN]

\* Not half an upload, nor a mixture of two.
Clean(node) ==
  node.is = "file" /\ node.by # {} => node.whole /\ Cardinality(node.by) = 1

\* The stub of r is r's alone.
Own(r) == {None} \cup [is: {"file"}, by: {{r}}, whole: BOOLEAN]

Steps ==
  [at: {"new", "stream", "cleanup", "commit", "stat", "done"}]
  \cup [at: {"clear", "replace", "cleanup", "done"}, saw: BOOLEAN]
  \cup [at: {"copy", "write", "done"}, data: Nodes, src: Movable, dst: Movable]
  \cup [at: {"remove", "done"}, on: Paths, left: SUBSET Paths]

FilesTyped ==
  /\ kind \in Kinds
  /\ fs \in [Paths -> Nodes]
  /\ req \in [Requests -> Steps]
  /\ gone \in BOOLEAN /\ lost \in BOOLEAN

\* Nobody but the upload writes to its stub, and it is committed only whole.
StubsAreOwn ==
  \A r \in Requests :
    /\ fs[Stub[r]] \in Own(r)
    /\ req[r].at \in {"commit", "stat", "clear", "replace"} /\ fs[Stub[r]] # None =>
         fs[Stub[r]].whole

CopiesAreClean ==
  /\ \A p \in Paths \ Stubs : Clean(fs[p])
  /\ \A r \in Requests : req[r].at \in {"copy", "write"} =>
       req[r].data.is = "file" /\ Clean(req[r].data)

\* No request makes a link.
LinksStay == \A p \in Paths : fs[p] = Link => p \in DOMAIN Target

FilesInv == FilesTyped /\ StubsAreOwn /\ CopiesAreClean /\ LinksStay

LEMMA NodesDiffer ==
  /\ None \in Nodes /\ Dir \in Nodes /\ Link \in Nodes
  /\ None # Dir /\ None # Link /\ Dir # Link
  /\ None.is = "none" /\ Dir.is = "dir" /\ Link.is = "link"
  /\ \A node \in Nodes : node.is = "file" <=> node \notin {None, Dir, Link}
  BY DEF None, Dir, Link, Nodes

LEMMA Files ==
  ASSUME NEW by \in SUBSET Requests, NEW whole \in BOOLEAN
  PROVE  /\ File(by, whole) \in Nodes
         /\ File(by, whole).is = "file" /\ File(by, whole).by = by
         /\ File(by, whole).whole = whole /\ File(by, whole) \notin {None, Link}
  BY DEF File, Nodes, None, Link

LEMMA CleanNodes ==
  /\ Clean(None) /\ Clean(Dir) /\ Clean(Link)
  /\ \A whole \in BOOLEAN : Clean(File({}, whole))
  /\ \A r \in Requests : Clean(File({r}, TRUE))
<1>1. \A r \in Requests : Cardinality({r}) = 1 BY FS_Singleton
<1>2. Clean(None) /\ Clean(Dir) /\ Clean(Link) BY DEF Clean, None, Dir, Link
<1>3. \A whole \in BOOLEAN : Clean(File({}, whole)) BY Files DEF Clean
<1>4. ASSUME NEW r \in Requests PROVE Clean(File({r}, TRUE))
  <2>1. File({r}, TRUE).by = {r} /\ File({r}, TRUE).whole = TRUE BY Files
  <2> QED BY <1>1, <2>1 DEF Clean
<1> QED BY <1>2, <1>3, <1>4

LEMMA StubFacts ==
  /\ \A r \in Requests : Stub[r] \in Paths /\ Stub[r] \in Stubs /\ Stub[r] # Dest
  /\ \A p \in Movable : p \in Paths \ Stubs
  /\ Dest \in Paths \ Stubs
  /\ \A r, q \in Requests : r # q => Stub[r] # Stub[q]
  BY HostFilesAssumption DEF Stubs

LEMMA FilesInvInit == FilesInit => FilesInv
<1> SUFFICES ASSUME FilesInit PROVE FilesInv OBVIOUS
<1>1. \A p \in Paths : fs[p] \in {None, Dir, Link, File({}, TRUE)} BY DEF FilesInit
<1>2. \A r \in Requests : fs[Stub[r]] = None BY StubFacts DEF FilesInit, Stubs
<1>3. fs \in [Paths -> Nodes]
  <2>0. File({}, TRUE) \in Nodes BY Files
  <2>1. {None, Dir, Link, File({}, TRUE)} \subseteq Nodes BY NodesDiffer, <2>0
  <2> QED BY <1>1, <2>1 DEF FilesInit
<1>4. \A r \in Requests : req[r].at = "new" /\ req[r] \in Steps BY DEF FilesInit, Steps
<1>5. FilesTyped BY <1>3, <1>4 DEF FilesInit, FilesTyped
<1>6. StubsAreOwn BY <1>2, <1>4 DEF StubsAreOwn, Own
<1>7. CopiesAreClean BY <1>1, <1>4, CleanNodes DEF CopiesAreClean
<1>8. LinksStay BY NodesDiffer, Files DEF LinksStay, FilesInit
<1> QED BY <1>5, <1>6, <1>7, <1>8 DEF FilesInv

\* The next step of a request keeps what it knows.
LEMMA GoingOn ==
  ASSUME NEW r \in Requests, NEW step, Goto(r, step), req \in [Requests -> Steps]
  PROVE  /\ DOMAIN req' = Requests /\ req'[r].at = step
         /\ req'[r] = [req[r] EXCEPT !.at = step]
         /\ \A q \in Requests \ {r} : req'[q] = req[q]
         /\ \A f \in DOMAIN req[r] \ {"at"} : req'[r][f] = req[r][f]
<1>1. "at" \in DOMAIN req[r] BY DEF Steps
<1> QED BY <1>1 DEF Goto

\* What is to be shown of a step of r that changes its own stub, files that are no
\* stubs, and its own progress.
LEMMA OneMoves ==
  ASSUME FilesInv, NEW r \in Requests, kind' = kind, gone' \in BOOLEAN, lost' \in BOOLEAN,
         fs' \in [Paths -> Nodes], req' \in [Requests -> Steps],
         \A q \in Requests \ {r} : req'[q] = req[q],
         \A p \in Paths \ Stubs : Clean(fs'[p]),
         \A p \in Paths : fs'[p] = fs[p] \/ fs'[p] # Link,
         \A q \in Requests \ {r} : fs'[Stub[q]] \in {fs[Stub[q]], None},
         fs'[Stub[r]] \in Own(r),
         req'[r].at \in {"commit", "stat", "clear", "replace"} /\ fs'[Stub[r]] # None =>
           fs'[Stub[r]].whole,
         req'[r].at \in {"copy", "write"} =>
           req'[r].data.is = "file" /\ Clean(req'[r].data)
  PROVE  FilesInv'
<1>1. FilesTyped' BY DEF FilesInv, FilesTyped
<1>2. StubsAreOwn'
  <2> SUFFICES ASSUME NEW q \in Requests
               PROVE  /\ fs'[Stub[q]] \in Own(q)
                      /\ req'[q].at \in {"commit", "stat", "clear", "replace"} /\ fs'[Stub[q]] # None =>
                           fs'[Stub[q]].whole
    BY DEF StubsAreOwn
  <2>1. CASE q = r BY <2>1
  <2>2. CASE q # r
    <3>1. req'[q] = req[q] /\ fs'[Stub[q]] \in {fs[Stub[q]], None} BY <2>2
    <3>2. /\ fs[Stub[q]] \in Own(q)
          /\ req[q].at \in {"commit", "stat", "clear", "replace"} /\ fs[Stub[q]] # None =>
               fs[Stub[q]].whole
      BY DEF FilesInv, StubsAreOwn
    <3>3. None \in Own(q) BY DEF Own
    <3> QED BY <3>1, <3>2, <3>3
  <2> QED BY <2>1, <2>2
<1>3. CopiesAreClean'
  <2> SUFFICES ASSUME NEW q \in Requests, req'[q].at \in {"copy", "write"}
               PROVE  req'[q].data.is = "file" /\ Clean(req'[q].data)
    BY DEF CopiesAreClean, Clean
  <2>1. CASE q = r BY <2>1
  <2>2. CASE q # r BY <2>2 DEF FilesInv, CopiesAreClean
  <2> QED BY <2>1, <2>2
<1>4. LinksStay' BY DEF FilesInv, LinksStay
<1> QED BY <1>1, <1>2, <1>3, <1>4 DEF FilesInv

\* A request that goes on without touching the tree, or only takes from it.
LEMMA OneGoesOn ==
  ASSUME FilesInv, NEW r \in Requests, kind' = kind, gone' \in BOOLEAN, lost' \in BOOLEAN,
         fs' \in [Paths -> Nodes], req' \in [Requests -> Steps],
         \A q \in Requests \ {r} : req'[q] = req[q],
         \A p \in Paths : fs'[p] = fs[p] \/ fs'[p] = None,
         req'[r].at \in {"commit", "stat", "clear", "replace"} =>
           req[r].at \in {"commit", "stat", "clear", "replace"},
         req'[r].at \in {"copy", "write"} =>
           req'[r].data.is = "file" /\ Clean(req'[r].data)
  PROVE  FilesInv'
<1>1. \A p \in Paths \ Stubs : Clean(fs'[p]) BY CleanNodes DEF FilesInv, CopiesAreClean
<1>2. \A q \in Requests : fs'[Stub[q]] \in {fs[Stub[q]], None} BY StubFacts
<1>3. fs'[Stub[r]] \in Own(r) BY <1>2 DEF FilesInv, StubsAreOwn, Own
<1>4. req'[r].at \in {"commit", "stat", "clear", "replace"} /\ fs'[Stub[r]] # None =>
        fs'[Stub[r]].whole
  BY <1>2 DEF FilesInv, StubsAreOwn
<1> QED BY <1>1, <1>2, <1>3, <1>4, NodesDiffer, OneMoves

LEMMA Putting ==
  ASSUME FilesTyped, NEW p \in Paths, NEW node \in Nodes, Put(p, node)
  PROVE  /\ fs' \in [Paths -> Nodes] /\ fs'[p] = node
         /\ \A q \in Paths \ {p} : fs'[q] = fs[q]
  BY DEF Put, FilesTyped

LEMMA Renaming ==
  ASSUME FilesTyped, NEW p \in Paths, NEW q \in Paths, p # q, Rename(p, q)
  PROVE  /\ fs' \in [Paths -> Nodes] /\ fs'[p] = None /\ fs'[q] = fs[p]
         /\ \A x \in Paths \ {p, q} : fs'[x] = fs[x]
  BY NodesDiffer DEF Rename, FilesTyped

LEMMA UploadKeeps == ASSUME FilesInv, NEW r \in Requests, Upload(r) PROVE FilesInv'
<1>t. FilesTyped /\ req \in [Requests -> Steps] /\ gone' \in BOOLEAN /\ lost' \in BOOLEAN /\ kind' = kind
  BY DEF FilesInv, FilesTyped, Upload
<1>1. CASE Done(r) /\ UNCHANGED fs
  <2>1. /\ req'[r].at = "done" /\ \A q \in Requests \ {r} : req'[q] = req[q]
    BY <1>1, <1>t, GoingOn DEF Done
  <2>2. req' \in [Requests -> Steps]
    BY <1>1, <1>t DEF Done, Goto, Steps, Upload
  <2> QED BY <1>1, <1>t, <2>1, <2>2, OneGoesOn DEF FilesTyped
<1>2. CASE Put(Stub[r], File({r}, FALSE)) /\ req' = [req EXCEPT ![r] = [at |-> "stream"]]
  <2>1. File({r}, FALSE) \in Nodes /\ File({r}, FALSE) \in Own(r) BY Files DEF File, Own
  <2>2. Stub[r] \in Paths BY StubFacts
  <2>3. /\ fs' \in [Paths -> Nodes] /\ fs'[Stub[r]] = File({r}, FALSE)
        /\ \A q \in Paths \ {Stub[r]} : fs'[q] = fs[q]
    BY <1>2, <1>t, <2>1, <2>2, Putting
  <2>4. [at |-> "stream"] \in Steps BY DEF Steps
  <2>5. /\ req' \in [Requests -> Steps] /\ req'[r].at = "stream"
        /\ \A q \in Requests \ {r} : req'[q] = req[q]
    BY <1>2, <1>t, <2>4
  <2>6. \A p \in Paths \ Stubs : Clean(fs'[p]) BY <2>3, StubFacts DEF FilesInv, CopiesAreClean
  <2>7. \A q \in Requests \ {r} : fs'[Stub[q]] = fs[Stub[q]] BY <2>3, StubFacts
  <2>8. \A p \in Paths : fs'[p] = fs[p] \/ fs'[p] # Link BY <2>3, Files
  <2> QED BY <2>8, <1>t, <2>1, <2>3, <2>5, <2>6, <2>7, OneMoves
<1> QED BY <1>1, <1>2 DEF Upload, StubPath

LEMMA StreamEndsKeeps == ASSUME FilesInv, NEW r \in Requests, StreamEnds(r) PROVE FilesInv'
<1>t. /\ FilesTyped /\ req \in [Requests -> Steps] /\ gone' \in BOOLEAN /\ lost' \in BOOLEAN /\ kind' = kind
      /\ Goto(r, "commit") /\ req[r].at = "stream"
  BY DEF FilesInv, FilesTyped, StreamEnds
<1>r. req' \in [Requests -> Steps] BY <1>t DEF Goto, Steps
<1>s. Stub[r] \in Paths /\ fs[Stub[r]] \in Own(r) BY StubFacts DEF FilesInv, StubsAreOwn
<1>1. PICK node \in {File({r}, TRUE), None} : Put(Stub[r], node)
  <2>1. CASE fs[Stub[r]] # None
    <3>1. fs[Stub[r]].by \cup {r} = {r} BY <2>1, <1>s DEF Own
    <3> QED BY <2>1, <3>1 DEF StreamEnds, StubPath, Exists
  <2>2. CASE fs[Stub[r]] = None
    <3>1. UNCHANGED fs BY <2>2 DEF StreamEnds, StubPath, Exists
    <3>2. Put(Stub[r], None) BY <2>2, <1>s, <1>t, <3>1 DEF Put, FilesTyped
    <3> QED BY <3>2
  <2> QED BY <2>1, <2>2
<1>2. File({r}, TRUE) \in Nodes /\ File({r}, TRUE) \in Own(r) /\ None \in Own(r) /\ None \in Nodes
  BY Files, NodesDiffer DEF File, Own
<1>3. /\ fs' \in [Paths -> Nodes] /\ fs'[Stub[r]] = node
      /\ \A q \in Paths \ {Stub[r]} : fs'[q] = fs[q]
  BY <1>1, <1>2, <1>s, <1>t, Putting
<1>4. req'[r].at = "commit" /\ \A q \in Requests \ {r} : req'[q] = req[q] BY <1>t, GoingOn
<1>5. \A p \in Paths \ Stubs : Clean(fs'[p]) BY <1>3, StubFacts DEF FilesInv, CopiesAreClean
<1>6. \A q \in Requests \ {r} : fs'[Stub[q]] = fs[Stub[q]] BY <1>3, StubFacts
<1>7. node # None => node.whole BY <1>1, Files
<1>8. \A p \in Paths : fs'[p] = fs[p] \/ fs'[p] # Link
  <2>1. {r} \in SUBSET Requests OBVIOUS
  <2>2. File({r}, TRUE) # Link /\ None # Link BY <2>1, Files, NodesDiffer
  <2> QED BY <1>1, <1>3, <2>2
<1> QED BY <1>8, <1>t, <1>r, <1>1, <1>2, <1>3, <1>4, <1>5, <1>6, <1>7, OneMoves

\* The steps of an upload that leave the tree alone or take from it.
LEMMA UploadTakes ==
  ASSUME FilesInv, NEW r \in Requests, StreamFails(r) \/ Cleanup(r) \/ CommitStat(r) \/ CommitClears(r)
  PROVE  FilesInv'
<1>t. /\ FilesTyped /\ req \in [Requests -> Steps] /\ gone' \in BOOLEAN /\ lost' \in BOOLEAN /\ kind' = kind
      /\ req[r].at \in {"stream", "cleanup", "stat", "clear"}
  BY DEF FilesInv, FilesTyped, StreamFails, Cleanup, CommitStat, CommitClears
<1>p. Stub[r] \in Paths /\ Dest \in Paths /\ None \in Nodes BY StubFacts, NodesDiffer
<1>1. fs' \in [Paths -> Nodes] /\ \A p \in Paths : fs'[p] = fs[p] \/ fs'[p] = None
  <2>1. CASE UNCHANGED fs BY <1>t, <2>1 DEF FilesTyped
  <2>2. ASSUME NEW p \in Paths, Put(p, None)
        PROVE fs' \in [Paths -> Nodes] /\ \A q \in Paths : fs'[q] = fs[q] \/ fs'[q] = None
    BY <1>t, <1>p, <2>2, Putting
  <2> QED BY <1>p, <2>1, <2>2 DEF StreamFails, Cleanup, CommitStat, CommitClears, StubPath
<1>2. /\ req' \in [Requests -> Steps]
      /\ \A q \in Requests \ {r} : req'[q] = req[q]
      /\ \/ req'[r].at \in {"cleanup", "done"}
         \/ req[r].at \in {"stat", "clear"} /\ req'[r].at \in {"clear", "replace"}
  <2>1. ASSUME NEW step \in {"cleanup", "done"}, Goto(r, step)
        PROVE  /\ req' \in [Requests -> Steps] /\ req'[r].at \in {"cleanup", "done"}
               /\ \A q \in Requests \ {r} : req'[q] = req[q]
    <3>1. req' \in [Requests -> Steps] BY <1>t, <2>1 DEF Goto, Steps
    <3> QED BY <1>t, <2>1, <3>1, GoingOn
  <2>2. CASE StreamFails(r) BY <2>1, <2>2 DEF StreamFails
  <2>3. CASE Cleanup(r) BY <2>1, <2>3 DEF Cleanup, Done
  <2>4. CASE CommitStat(r)
    <3>1. CASE Goto(r, "cleanup") BY <2>1, <3>1
    <3>2. CASE req' = [req EXCEPT ![r] = [at |-> "clear", saw |-> Exists(StubPath(r))]]
      <4>1. [at |-> "clear", saw |-> Exists(StubPath(r))] \in Steps BY DEF Steps, Exists
      <4>2. req'[r].at = "clear" /\ req[r].at = "stat" BY <1>t, <2>4, <3>2 DEF CommitStat
      <4> QED BY <1>t, <3>2, <4>1, <4>2
    <3> QED BY <2>4, <3>1, <3>2 DEF CommitStat
  <2>5. CASE CommitClears(r)
    <3>1. CASE Goto(r, "cleanup") BY <2>1, <3>1
    <3>2. CASE Goto(r, "replace")
      <4>1. req[r].at = "clear" BY <2>5 DEF CommitClears
      <4>2. req' \in [Requests -> Steps] BY <1>t, <3>2, <4>1 DEF Goto, Steps
      <4> QED BY <1>t, <3>2, <4>1, <4>2, GoingOn
    <3> QED BY <2>5, <3>1, <3>2 DEF CommitClears
  <2> QED BY <2>2, <2>3, <2>4, <2>5
<1> QED BY <1>t, <1>1, <1>2, OneGoesOn

\* The two renames that may put an upload in place.
LEMMA UploadCommits ==
  ASSUME FilesInv, NEW r \in Requests, Commit(r) \/ CommitReplaces(r)
  PROVE  FilesInv'
<1>t. /\ FilesTyped /\ req \in [Requests -> Steps] /\ gone' \in BOOLEAN /\ lost' \in BOOLEAN /\ kind' = kind
      /\ req[r].at \in {"commit", "replace"}
  BY DEF FilesInv, FilesTyped, Commit, CommitReplaces
<1>p. Stub[r] \in Paths /\ Dest \in Paths /\ Stub[r] # Dest BY StubFacts
<1>g. ASSUME NEW step \in {"cleanup", "done", "stat"}, Goto(r, step),
             step = "stat" => req[r].at = "commit"
      PROVE  req' \in [Requests -> Steps]
  BY <1>t, <1>g DEF Goto, Steps
<1>1. ASSUME Exists(Stub[r]), Rename(Stub[r], Dest), Goto(r, "done") PROVE FilesInv'
  <2>1. /\ fs' \in [Paths -> Nodes] /\ fs'[Stub[r]] = None /\ fs'[Dest] = fs[Stub[r]]
        /\ \A x \in Paths \ {Stub[r], Dest} : fs'[x] = fs[x]
    BY <1>1, <1>p, <1>t, Renaming
  <2>2. req'[r].at = "done" /\ \A q \in Requests \ {r} : req'[q] = req[q]
    BY <1>1, <1>t, GoingOn
  <2>3. Clean(fs[Stub[r]])
    <3>1. fs[Stub[r]] \in Own(r) /\ fs[Stub[r]].whole /\ fs[Stub[r]] # None
      BY <1>1, <1>t DEF FilesInv, StubsAreOwn, Exists
    <3>2. fs[Stub[r]].by = {r} BY <3>1 DEF Own
    <3> QED BY <3>1, <3>2, FS_Singleton DEF Clean
  <2>4. \A p \in Paths \ Stubs : Clean(fs'[p])
    BY <2>1, <2>3, StubFacts DEF FilesInv, CopiesAreClean
  <2>5. \A q \in Requests \ {r} : fs'[Stub[q]] = fs[Stub[q]] BY <2>1, StubFacts
  <2>6. None \in Own(r) BY DEF Own
  <2>7. None # Link /\ fs[Stub[r]] # Link
    BY NodesDiffer DEF FilesInv, StubsAreOwn, Own, Link
  <2>8. \A p \in Paths : fs'[p] = fs[p] \/ fs'[p] # Link BY <2>1, <2>7
  <2> QED BY <2>8, <1>1, <1>g, <1>t, <2>1, <2>2, <2>4, <2>5, <2>6, OneMoves
<1>2. ASSUME UNCHANGED fs, NEW step \in {"cleanup", "stat"}, Goto(r, step),
             step = "stat" => req[r].at = "commit"
      PROVE  FilesInv'
  <2>1. req'[r].at = step /\ \A q \in Requests \ {r} : req'[q] = req[q]
    BY <1>2, <1>t, GoingOn
  <2>2. fs' \in [Paths -> Nodes] /\ \A p \in Paths : fs'[p] = fs[p] BY <1>2, <1>t DEF FilesTyped
  <2> QED BY <1>2, <1>g, <1>t, <2>1, <2>2, OneGoesOn
<1> QED BY <1>1, <1>2 DEF Commit, CommitReplaces, StubPath, Done

LEMMA MoveKeeps == ASSUME FilesInv, NEW r \in Requests, Move(r) PROVE FilesInv'
<1>t. /\ FilesTyped /\ req \in [Requests -> Steps] /\ kind' = kind /\ gone' \in BOOLEAN /\ lost' \in BOOLEAN
      /\ Goto(r, "done") /\ req[r].at = "new"
  BY DEF FilesInv, FilesTyped, Move, Done
<1>r. req' \in [Requests -> Steps] BY <1>t DEF Goto, Steps
<1>1. PICK src \in Movable, dst \in Movable : src # dst /\ Rename(src, dst) /\ fs[src].is = "file"
  BY DEF Move
<1>2. src \in Paths \ Stubs /\ dst \in Paths \ Stubs BY StubFacts
<1>3. /\ fs' \in [Paths -> Nodes] /\ fs'[src] = None /\ fs'[dst] = fs[src]
      /\ \A x \in Paths \ {src, dst} : fs'[x] = fs[x]
  BY <1>1, <1>2, <1>t, Renaming
<1>4. req'[r].at = "done" /\ \A q \in Requests \ {r} : req'[q] = req[q] BY <1>t, GoingOn
<1>5. \A p \in Paths \ Stubs : Clean(fs'[p])
  BY <1>2, <1>3, CleanNodes DEF FilesInv, CopiesAreClean
<1>6. \A q \in Requests : fs'[Stub[q]] = fs[Stub[q]] BY <1>2, <1>3, StubFacts
<1>7. fs[Stub[r]] \in Own(r) BY DEF FilesInv, StubsAreOwn
<1>8. \A p \in Paths : fs'[p] = fs[p] \/ fs'[p] # Link BY <1>1, <1>3, NodesDiffer
<1> QED BY <1>8, <1>t, <1>r, <1>3, <1>4, <1>5, <1>6, <1>7, OneMoves

LEMMA CopyKeeps ==
  ASSUME FilesInv, NEW r \in Requests, CopyReads(r) \/ CopyOpens(r) \/ CopyWrites(r)
  PROVE  FilesInv'
<1>t. /\ FilesTyped /\ req \in [Requests -> Steps] /\ fs \in [Paths -> Nodes] /\ kind' = kind
      /\ gone' \in BOOLEAN /\ lost' \in BOOLEAN /\ fs[Stub[r]] \in Own(r)
  BY DEF FilesInv, FilesTyped, StubsAreOwn, CopyReads, CopyOpens, CopyWrites
\* Only a path that may be copied to is written, and with what may be copied.
<1>w. ASSUME NEW p \in Movable, NEW node \in Nodes, node.is = "file", Clean(node), Put(p, node)
      PROVE  /\ fs' \in [Paths -> Nodes] /\ \A x \in Paths \ Stubs : Clean(fs'[x])
             /\ \A x \in Paths : fs'[x] = fs[x] \/ fs'[x] # Link
             /\ \A q \in Requests : fs'[Stub[q]] = fs[Stub[q]]
  <2>1. p \in Paths \ Stubs BY StubFacts
  <2>2. /\ fs' \in [Paths -> Nodes] /\ fs'[p] = node /\ \A x \in Paths \ {p} : fs'[x] = fs[x]
    BY <1>t, <1>w, <2>1, Putting
  <2>3. node # Link BY <1>w, NodesDiffer
  <2> QED BY <1>w, <2>1, <2>2, <2>3, StubFacts DEF FilesInv, CopiesAreClean
<1>u. ASSUME UNCHANGED fs
      PROVE  /\ fs' \in [Paths -> Nodes] /\ \A x \in Paths \ Stubs : Clean(fs'[x])
             /\ \A x \in Paths : fs'[x] = fs[x] \/ fs'[x] # Link
             /\ \A q \in Requests : fs'[Stub[q]] = fs[Stub[q]]
  BY <1>t, <1>u DEF FilesInv, CopiesAreClean
<1>1. CASE CopyReads(r)
  <2>1. PICK src \in Movable, dst \in Movable :
          fs[src].is = "file" /\ req' = [req EXCEPT ![r] = [at |-> "copy", data |-> fs[src], src |-> src, dst |-> dst]]
    BY <1>1 DEF CopyReads
  <2>2. fs[src] \in Nodes /\ Clean(fs[src]) BY <1>t, StubFacts DEF FilesInv, CopiesAreClean
  <2> DEFINE s == [at |-> "copy", data |-> fs[src], src |-> src, dst |-> dst]
  <2>3. s \in Steps BY <2>2 DEF Steps
  <2>4. s.at = "copy" /\ s.data = fs[src] OBVIOUS
  <2> HIDE DEF s
  <2>5. /\ req' \in [Requests -> Steps] /\ req'[r] = s /\ \A q \in Requests \ {r} : req'[q] = req[q]
    BY <1>t, <2>1, <2>3 DEF s
  <2>6. UNCHANGED fs BY <1>1 DEF CopyReads
  <2> QED BY <1>t, <1>u, <2>1, <2>2, <2>4, <2>5, <2>6, OneMoves
<1>2. CASE CopyOpens(r)
  <2>1. req[r].at = "copy" /\ req[r].dst \in Movable /\ {"data", "at"} \subseteq DOMAIN req[r]
    BY <1>2, <1>t DEF CopyOpens, Steps
  <2>2. req[r].data.is = "file" /\ Clean(req[r].data) BY <2>1 DEF FilesInv, CopiesAreClean
  <2>3. CASE Done(r) /\ UNCHANGED fs
    <3>1. req' \in [Requests -> Steps] BY <1>t, <2>1, <2>3 DEF Done, Goto, Steps
    <3>2. req'[r].at = "done" /\ \A q \in Requests \ {r} : req'[q] = req[q]
      BY <1>t, <2>3, GoingOn DEF Done
    <3> QED BY <1>t, <1>u, <2>3, <3>1, <3>2, OneMoves
  <2>4. ASSUME Put(req[r].dst, File({}, FALSE)),
               req' = [req EXCEPT ![r].at = "write", ![r].data = CopyFinds(r)]
        PROVE  FilesInv'
    <3>3. File({}, FALSE) \in Nodes /\ Clean(File({}, FALSE)) /\ File({}, FALSE).is = "file"
      BY Files, CleanNodes
    <3>4. req[r].data \in Nodes BY <1>t, <2>1 DEF Steps
    <3>5. CopyFinds(r) \in Nodes /\ CopyFinds(r).is = "file" /\ Clean(CopyFinds(r))
      BY <2>2, <3>3, <3>4 DEF CopyFinds
    <3> HIDE DEF CopyFinds
    <3>1. req' \in [Requests -> Steps] BY <1>t, <2>1, <2>4, <3>5 DEF Steps
    <3>2. /\ req'[r].at = "write" /\ req'[r].data = CopyFinds(r)
          /\ \A q \in Requests \ {r} : req'[q] = req[q]
      BY <1>t, <2>1, <2>4
    <3> QED BY <1>t, <1>w, <2>1, <2>4, <3>1, <3>2, <3>3, <3>5, OneMoves
  <2> QED BY <1>2, <2>3, <2>4 DEF CopyOpens
<1>3. CASE CopyWrites(r)
  <2>1. /\ req[r].at = "write" /\ req[r].dst \in Movable /\ req[r].src \in Movable
        /\ req[r].data \in Nodes
    BY <1>3, <1>t DEF CopyWrites, Steps
  <2>2. Clean(req[r].data) /\ req[r].data.is = "file" BY <2>1 DEF FilesInv, CopiesAreClean
  <2>3. Goto(r, "done") BY <1>3 DEF CopyWrites, Done
  <2>4. req' \in [Requests -> Steps] BY <1>t, <2>1, <2>3 DEF Goto, Steps
  <2>5. req'[r].at = "done" /\ \A q \in Requests \ {r} : req'[q] = req[q] BY <1>t, <2>3, GoingOn
  <2>6. \/ UNCHANGED fs \/ Put(req[r].dst, req[r].data)
        \/ fs[req[r].src].is = "file" /\ Put(req[r].dst, fs[req[r].src])
    BY <1>3 DEF CopyWrites
  <2>7. fs[req[r].src] \in Nodes /\ Clean(fs[req[r].src])
    BY <1>t, <2>1, StubFacts DEF FilesInv, CopiesAreClean
  <2>8. /\ fs' \in [Paths -> Nodes] /\ \A x \in Paths \ Stubs : Clean(fs'[x])
        /\ \A x \in Paths : fs'[x] = fs[x] \/ fs'[x] # Link
        /\ \A q \in Requests : fs'[Stub[q]] = fs[Stub[q]]
    BY <1>u, <1>w, <2>1, <2>2, <2>6, <2>7
  <2> QED BY <1>t, <2>4, <2>5, <2>8, OneMoves
<1> QED BY <1>1, <1>2, <1>3


LEMMA Resolves == ASSUME FilesInv, NEW p \in Paths PROVE Resolved(p) \in Paths
  BY HostFilesAssumption DEF FilesInv, LinksStay, Resolved

LEMMA DeleteKeeps ==
  ASSUME FilesInv, NEW r \in Requests, Delete(r) \/ DeleteStep(r)
  PROVE  FilesInv'
<1>t. /\ FilesTyped /\ req \in [Requests -> Steps] /\ fs \in [Paths -> Nodes] /\ kind' = kind
      /\ gone' \in BOOLEAN /\ lost' \in BOOLEAN
  BY DEF FilesInv, FilesTyped, Delete, DeleteStep
<1>1. CASE Delete(r)
  <2>1. PICK on \in Paths : req' = [req EXCEPT ![r] = [at |-> "remove", on |-> on, left |-> Entries(on)]]
    BY <1>1, Resolves DEF Delete
  <2> DEFINE s == [at |-> "remove", on |-> on, left |-> Entries(on)]
  <2>2. s \in Steps BY DEF Steps, Entries
  <2>3. s.at = "remove" OBVIOUS
  <2> HIDE DEF s
  <2>4. /\ req' \in [Requests -> Steps] /\ req'[r] = s /\ \A q \in Requests \ {r} : req'[q] = req[q]
    BY <1>t, <2>1, <2>2 DEF s
  <2>5. UNCHANGED fs BY <1>1 DEF Delete
  <2> QED BY <1>t, <2>3, <2>4, <2>5, OneGoesOn
<1>2. CASE DeleteStep(r)
  <2>1. req[r].at = "remove" /\ req[r].left \in SUBSET Paths BY <1>2, <1>t DEF DeleteStep, Steps
  <2>2. fs' \in [Paths -> Nodes] /\ \A p \in Paths : fs'[p] = fs[p] \/ fs'[p] = None
    BY <1>2, <1>t, NodesDiffer DEF DeleteStep, RemoveSucceeds, RemoveFails
  <2>3. CASE Done(r)
    <3>1. req' \in [Requests -> Steps] BY <1>t, <2>1, <2>3 DEF Done, Goto, Steps
    <3>2. req'[r].at = "done" /\ \A q \in Requests \ {r} : req'[q] = req[q]
      BY <1>t, <2>3, GoingOn DEF Done
    <3> QED BY <1>t, <2>2, <3>1, <3>2, OneGoesOn
  <2>4. ASSUME NEW q \in req[r].left, req' = [req EXCEPT ![r].left = req[r].left \ {q}]
        PROVE  FilesInv'
    <3>1. req' \in [Requests -> Steps] BY <1>t, <2>1, <2>4 DEF Steps
    <3>2. req'[r].at = "remove" /\ \A x \in Requests \ {r} : req'[x] = req[x]
      BY <1>t, <2>1, <2>4
    <3> QED BY <1>t, <2>2, <3>1, <3>2, OneGoesOn
  <2> QED BY <1>2, <2>3, <2>4 DEF DeleteStep
<1> QED BY <1>1, <1>2

LEMMA FilesInvNext == FilesInv /\ [FilesNext]_filesVars => FilesInv'
<1> SUFFICES ASSUME FilesInv, [FilesNext]_filesVars PROVE FilesInv' OBVIOUS
<1>1. CASE UNCHANGED filesVars
  BY <1>1 DEF filesVars, FilesInv, FilesTyped, StubsAreOwn, CopiesAreClean, LinksStay, Clean
<1> QED
  BY <1>1, UploadKeeps, StreamEndsKeeps, UploadTakes, UploadCommits, MoveKeeps, CopyKeeps,
     DeleteKeeps
  DEF FilesNext

LEMMA FilesInvariance == FilesSpec => []FilesInv
  BY FilesInvInit, FilesInvNext, PTL DEF FilesSpec

\* What an upload leaves under any name but its stub's is all of its body and
\* nobody else's (uploadHostFile, Commit), however many requests work on the tree.
THEOREM NoUploadIsPartial == FilesSpec => []NoPartialUpload
<1>1. FilesInv => NoPartialUpload BY DEF FilesInv, CopiesAreClean, Clean, NoPartialUpload, Stubs
<1> QED BY <1>1, FilesInvariance, PTL

-----------------------------------------------------------------------------
(* HostFiles: what becomes of the destination                              *)

\* A commit that removes the destination has found its stub, only one over SFTP gets
\* there, and a deletion that can come to the destination was asked to.
Answered ==
  /\ \A r \in Requests : req[r].at \in {"stat", "clear", "replace"} => kind # "local"
  /\ \A r \in Requests : req[r].at \in {"clear", "replace"} => req[r].saw
  /\ \A r \in Requests : req[r].at = "remove" =>
       \A p \in {req[r].on} \cup req[r].left : Dest \in Under(p) => gone

\* What a removal of p takes with it is under p.
LEMMA RemovesFromAbove ==
  ASSUME FilesInv, Kinds \subseteq {"local"} \/ NoWayAround,
         NEW p \in Paths, Dest \in Removes(p)
  PROVE  Dest \in Under(p)
<1>1. {q \in Paths : fs[q] = Link} \in SUBSET DOMAIN Target BY DEF FilesInv, LinksStay
<1>2. CASE kind = "local" BY <1>2 DEF Removes
<1>3. CASE kind # "local" /\ NoWayAround BY <1>1, <1>3, WalkFromAbove DEF Removes, Walk
<1> QED BY <1>2, <1>3 DEF FilesInv, FilesTyped

\* What a request that deletes p takes on.
LEMMA DeletionAnswers ==
  ASSUME FilesInv, Kinds \subseteq {"local"} \/ NoWayAround,
         NEW r \in Requests, NEW p \in Paths, NEW on, on = Resolved(p), on # Root,
         gone' = (gone \/ (on # Root /\ Dest \in Under(on))),
         NEW q \in {on} \cup Entries(on), Dest \in Under(q)
  PROVE  gone'
<1>1. on \in Paths BY Resolves
<1>2. CASE q = on BY <1>2
<1>3. CASE q \in Entries(on) /\ fs[on] # Link
  <2>1. q \in Paths \ {Root} /\ Parent[q] = on BY <1>3 DEF Entries
  <2> QED BY <2>1, UnderTheDirectory
<1>4. CASE q \in Entries(on) /\ fs[on] = Link
  <2>1. q \in Paths \ {Root} /\ Parent[q] = Target[on] BY <1>4 DEF Entries
  <2>2. on \in DOMAIN Target BY <1>1, <1>4 DEF FilesInv, LinksStay
  <2>3. kind # "local"
    <3>1. ASSUME kind = "local" PROVE FALSE
      <4>1. CASE fs[p] = Link
        <5>1. p \in DOMAIN Target BY <4>1 DEF FilesInv, LinksStay
        <5>2. on = Target[p] BY <3>1, <4>1 DEF Resolved
        <5> QED BY <2>2, <5>1, <5>2, HostFilesAssumption
      <4>2. CASE fs[p] # Link BY <1>4, <4>2 DEF Resolved
      <4> QED BY <4>1, <4>2
    <3> QED BY <3>1
  <2>4. NoWayAround BY <2>3 DEF FilesInv, FilesTyped
  <2> QED BY <2>1, <2>2, <2>4, UnderTheDirectory DEF NoWayAround
<1> QED BY <1>2, <1>3, <1>4

\* The target stays what it is, and a loss is not forgotten.
LEMMA TargetStays == ASSUME [FilesNext]_filesVars PROVE kind' = kind /\ (lost => lost')
<1>1. CASE UNCHANGED filesVars BY <1>1 DEF filesVars
<1>2. ASSUME NEW r \in Requests,
             Upload(r) \/ StreamEnds(r) \/ StreamFails(r) \/ Cleanup(r) \/ Commit(r)
             \/ CommitStat(r) \/ CommitClears(r)
      PROVE  kind' = kind /\ lost' = lost
  BY <1>2 DEF Upload, StreamEnds, StreamFails, Cleanup, Commit, CommitStat, CommitClears
<1>3. ASSUME NEW r \in Requests,
             Move(r) \/ CopyReads(r) \/ CopyOpens(r) \/ CopyWrites(r) \/ Delete(r) \/ DeleteStep(r)
      PROVE  kind' = kind /\ lost' = lost
  BY <1>3 DEF Move, CopyReads, CopyOpens, CopyWrites, Delete, DeleteStep
<1>4. ASSUME NEW r \in Requests, CommitReplaces(r) PROVE kind' = kind /\ (lost => lost')
  <2>1. kind' = kind BY <1>4 DEF CommitReplaces
  <2>2. CASE UNCHANGED lost BY <2>1, <2>2
  <2>3. CASE lost' = (lost \/ req[r].saw) BY <2>1, <2>3
  <2> QED BY <1>4, <2>2, <2>3 DEF CommitReplaces
<1> QED BY <1>1, <1>2, <1>3, <1>4 DEF FilesNext

LEMMA AnsweredNext ==
  ASSUME FilesInv, Answered, Kinds \subseteq {"local"} \/ NoWayAround, [FilesNext]_filesVars
  PROVE  Answered'
<1>t. FilesTyped /\ req \in [Requests -> Steps] BY DEF FilesInv, FilesTyped
<1>k. kind' = kind BY TargetStays
\* One request moves, to a step about which nothing is claimed.
<1>g. ASSUME NEW r \in Requests, NEW step, Goto(r, step),
             step \in {"replace", "remove", "clear"} => step = "replace" /\ req[r].at = "clear",
             step = "stat" => kind # "local",
             gone => gone'
      PROVE  Answered'
  <2>1. /\ req'[r].at = step /\ \A q \in Requests \ {r} : req'[q] = req[q]
        /\ \A f \in DOMAIN req[r] \ {"at"} : req'[r][f] = req[r][f]
    BY <1>g, <1>t, GoingOn
  <2>2. req[r].at = "clear" => "saw" \in DOMAIN req[r] \ {"at"} BY <1>t DEF Steps
  <2>3. req[r].at = "clear" => req'[r].saw = req[r].saw BY <2>1, <2>2
  <2> QED BY <1>g, <1>k, <2>1, <2>3 DEF Answered
<1>h. ASSUME NEW r \in Requests, NEW step \in {"done", "cleanup", "commit", "write"},
             Goto(r, step), gone => gone'
      PROVE  Answered'
  BY <1>g, <1>h
<1>s. ASSUME NEW r \in Requests, NEW s \in Steps, req' = [req EXCEPT ![r] = s],
             s.at # "stat", s.at \in {"clear", "replace"} => s.saw /\ kind # "local",
             s.at = "remove" => \A p \in {s.on} \cup s.left : Dest \in Under(p) => gone',
             gone => gone'
      PROVE  Answered'
  <2>1. req'[r] = s /\ \A q \in Requests \ {r} : req'[q] = req[q] BY <1>s, <1>t
  <2> QED BY <1>s, <1>k, <2>1 DEF Answered
<1>1. ASSUME NEW r \in Requests, Upload(r) PROVE Answered'
  <2>1. [at |-> "stream"] \in Steps /\ [at |-> "stream"].at = "stream" BY DEF Steps
  <2>2. gone' = gone BY <1>1 DEF Upload
  <2>3. CASE Goto(r, "done") BY <1>h, <2>2, <2>3
  <2>4. CASE req' = [req EXCEPT ![r] = [at |-> "stream"]] BY <1>s, <2>1, <2>2, <2>4
  <2> QED BY <1>1, <2>3, <2>4 DEF Upload, Done
<1>2. ASSUME NEW r \in Requests, StreamEnds(r) \/ StreamFails(r) \/ Cleanup(r) PROVE Answered'
  <2>1. gone' = gone BY <1>2 DEF StreamEnds, StreamFails, Cleanup
  <2>2. Goto(r, "commit") \/ Goto(r, "cleanup") \/ Goto(r, "done")
    BY <1>2 DEF StreamEnds, StreamFails, Cleanup, Done
  <2> QED BY <1>h, <2>1, <2>2
<1>3. ASSUME NEW r \in Requests, Commit(r) \/ CommitClears(r) \/ CommitReplaces(r) PROVE Answered'
  <2>1. gone => gone' BY <1>3 DEF Commit, CommitClears, CommitReplaces
  <2>2. \/ Goto(r, "stat") /\ kind # "local"
        \/ Goto(r, "cleanup")
        \/ Goto(r, "done")
        \/ Goto(r, "replace") /\ req[r].at = "clear"
    BY <1>3 DEF Commit, CommitClears, CommitReplaces, Done
  <2>3. CASE Goto(r, "replace") /\ req[r].at = "clear" BY <1>g, <2>1, <2>3
  <2>4. CASE Goto(r, "stat") /\ kind # "local" BY <1>g, <2>1, <2>4
  <2> QED BY <1>h, <2>1, <2>2, <2>3, <2>4
<1>4. ASSUME NEW r \in Requests, CommitStat(r) PROVE Answered'
  <2>1. CASE Goto(r, "cleanup") BY <1>4, <1>g, <2>1 DEF CommitStat
  <2>2. CASE Exists(StubPath(r)) /\ req' = [req EXCEPT ![r] = [at |-> "clear", saw |-> Exists(StubPath(r))]]
    <3>1. [at |-> "clear", saw |-> TRUE] \in Steps /\ [at |-> "clear", saw |-> TRUE].saw
          /\ [at |-> "clear", saw |-> TRUE].at = "clear"
      BY DEF Steps
    <3>2. Exists(StubPath(r)) = TRUE BY <2>2 DEF Exists
    <3>3. req' = [req EXCEPT ![r] = [at |-> "clear", saw |-> TRUE]] BY <2>2, <3>2
    <3>4. gone' = gone /\ kind # "local" BY <1>4 DEF CommitStat, Answered
    <3> QED BY <1>s, <3>1, <3>3, <3>4
  <2> QED BY <1>4, <2>1, <2>2 DEF CommitStat, SourceThere
<1>5. ASSUME NEW r \in Requests, Move(r) \/ CopyOpens(r) \/ CopyWrites(r) PROVE Answered'
  <2>1. gone => gone' BY <1>5 DEF Move, CopyOpens, CopyWrites
  <2>2. CASE Goto(r, "done") BY <1>h, <2>1, <2>2
  <2>3. CASE CopyOpens(r) /\ req' = [req EXCEPT ![r].at = "write", ![r].data = CopyFinds(r)]
    <3>1. "at" \in DOMAIN req[r] BY <1>t DEF Steps
    <3>2. req'[r].at = "write" /\ \A q \in Requests \ {r} : req'[q] = req[q]
      BY <1>t, <2>3, <3>1
    <3> QED BY <1>k, <2>1, <3>2 DEF Answered
  <2> QED BY <1>5, <2>2, <2>3 DEF Move, CopyOpens, CopyWrites, Done
<1>6. ASSUME NEW r \in Requests, CopyReads(r) PROVE Answered'
  <2>1. PICK src \in Movable, dst \in Movable :
          req' = [req EXCEPT ![r] = [at |-> "copy", data |-> fs[src], src |-> src, dst |-> dst]]
    BY <1>6 DEF CopyReads
  <2>2. fs[src] \in Nodes BY <1>t, StubFacts DEF FilesTyped
  <2> DEFINE s == [at |-> "copy", data |-> fs[src], src |-> src, dst |-> dst]
  <2>3. s \in Steps /\ s.at = "copy" BY <2>2 DEF Steps
  <2>4. gone' = gone BY <1>6 DEF CopyReads
  <2> QED BY <1>s, <2>1, <2>3, <2>4
<1>7. ASSUME NEW r \in Requests, Delete(r) PROVE Answered'
  <2>1. PICK p \in Paths : LET on == Resolved(p) IN
          /\ on # Root
          /\ req' = [req EXCEPT ![r] = [at |-> "remove", on |-> on, left |-> Entries(on)]]
          /\ gone' = (gone \/ (on # Root /\ Dest \in Under(on)))
    BY <1>7 DEF Delete, Refuses
  <2> DEFINE on == Resolved(p)
             s == [at |-> "remove", on |-> on, left |-> Entries(on)]
  <2>2. on \in Paths BY Resolves
  <2>3. s \in Steps BY <2>2 DEF Steps, Entries
  <2>4. s.at = "remove" /\ s.on = on /\ s.left = Entries(on) OBVIOUS
  <2>5. \A q \in {on} \cup Entries(on) : Dest \in Under(q) => gone'
    BY <2>1, DeletionAnswers
  <2>6. req' = [req EXCEPT ![r] = s] /\ (gone => gone') BY <2>1
  <2> HIDE DEF s, on
  <2> QED BY <1>s, <2>3, <2>4, <2>5, <2>6
<1>8. ASSUME NEW r \in Requests, DeleteStep(r) PROVE Answered'
  <2>1. CASE Done(r) BY <1>8, <1>g, <2>1 DEF DeleteStep, Done
  <2>2. ASSUME NEW q \in req[r].left, req' = [req EXCEPT ![r].left = req[r].left \ {q}]
        PROVE  Answered'
    <3>1. req[r].at = "remove" /\ gone' = gone BY <1>8 DEF DeleteStep
    <3>2. /\ req'[r].at = "remove" /\ req'[r].on = req[r].on /\ req'[r].left \subseteq req[r].left
          /\ \A x \in Requests \ {r} : req'[x] = req[x]
      BY <1>t, <2>2, <3>1 DEF Steps
    <3> QED BY <1>k, <3>1, <3>2 DEF Answered
  <2> QED BY <1>8, <2>1, <2>2 DEF DeleteStep
<1>9. CASE UNCHANGED filesVars BY <1>9 DEF filesVars, Answered
<1> QED BY <1>1, <1>2, <1>3, <1>4, <1>5, <1>6, <1>7, <1>8, <1>9 DEF FilesNext

LEMMA DestinationKept ==
  ASSUME FilesInv, Answered, KeepsDestination, Kinds \subseteq {"local"} \/ NoWayAround,
         [FilesNext]_filesVars
  PROVE  KeepsDestination'
<1>t. FilesTyped /\ req \in [Requests -> Steps] BY DEF FilesInv, FilesTyped
<1>p. /\ Dest \in Paths /\ \A r \in Requests : Stub[r] \in Paths /\ Stub[r] # Dest
      /\ \A p \in Movable : p \in Paths
      /\ None \in Nodes
  BY StubFacts, NodesDiffer
<1>l. kind' = kind /\ (lost => lost') BY TargetStays
\* The destination stays, and a replacement under way goes on.
<1>k. ASSUME NEW r \in Requests, fs'[Dest] = fs[Dest] \/ fs'[Dest] # None, gone => gone',
             req[r].at # "replace", \A q \in Requests \ {r} : req'[q] = req[q]
      PROVE  KeepsDestination'
  <2>1. (\E q \in Requests : req[q].at = "replace" /\ req[q].saw) =>
          \E q \in Requests : req'[q].at = "replace" /\ req'[q].saw
    BY <1>k
  <2> QED BY <1>k, <1>l, <2>1 DEF KeepsDestination, Exists
<1>o. ASSUME NEW r \in Requests, NEW step, Goto(r, step)
      PROVE  req'[r].at = step /\ \A q \in Requests \ {r} : req'[q] = req[q]
  BY <1>o, <1>t, GoingOn
<1>s. ASSUME NEW r \in Requests, NEW node \in Nodes, Put(Stub[r], node) PROVE fs'[Dest] = fs[Dest]
  BY <1>s, <1>p, <1>t, Putting
<1>c. ASSUME NEW r \in Requests, Exists(Stub[r]), Rename(Stub[r], Dest) PROVE fs'[Dest] # None
  BY <1>c, <1>p, <1>t, Renaming DEF Exists
<1>1. ASSUME NEW r \in Requests, Upload(r) PROVE KeepsDestination'
  <2>1. File({r}, FALSE) \in Nodes BY Files
  <2>2. fs'[Dest] = fs[Dest] /\ gone' = gone /\ req[r].at = "new"
    BY <1>1, <1>s, <2>1 DEF Upload, StubPath
  <2>3. \A q \in Requests \ {r} : req'[q] = req[q] BY <1>1, <1>o, <1>t DEF Upload, Done
  <2> QED BY <1>k, <2>2, <2>3
<1>2. ASSUME NEW r \in Requests, StreamEnds(r) PROVE KeepsDestination'
  <2>1. fs'[Dest] = fs[Dest] /\ gone' = gone /\ req[r].at = "stream"
    <3>1. CASE UNCHANGED fs BY <1>2, <3>1 DEF StreamEnds
    <3>2. CASE Exists(Stub[r]) /\ Put(Stub[r], File(fs[Stub[r]].by \cup {r}, TRUE))
      <4>1. fs[Stub[r]].by \cup {r} = {r} BY <3>2 DEF FilesInv, StubsAreOwn, Own, Exists
      <4>2. File({r}, TRUE) \in Nodes BY Files
      <4> QED BY <1>2, <1>s, <3>2, <4>1, <4>2 DEF StreamEnds
    <3> QED BY <1>2, <3>1, <3>2 DEF StreamEnds, StubPath
  <2>2. \A q \in Requests \ {r} : req'[q] = req[q] BY <1>2, <1>o DEF StreamEnds
  <2> QED BY <1>k, <2>1, <2>2
<1>3. ASSUME NEW r \in Requests, StreamFails(r) \/ Cleanup(r) PROVE KeepsDestination'
  <2>1. fs'[Dest] = fs[Dest] /\ gone' = gone /\ req[r].at # "replace"
    BY <1>3, <1>s, <1>p DEF StreamFails, Cleanup, StubPath
  <2>2. \A q \in Requests \ {r} : req'[q] = req[q] BY <1>3, <1>o DEF StreamFails, Cleanup, Done
  <2> QED BY <1>k, <2>1, <2>2
<1>4. ASSUME NEW r \in Requests, Commit(r) PROVE KeepsDestination'
  <2>1. (fs'[Dest] = fs[Dest] \/ fs'[Dest] # None) /\ gone' = gone /\ req[r].at = "commit"
    BY <1>4, <1>c DEF Commit, StubPath
  <2>2. \A q \in Requests \ {r} : req'[q] = req[q] BY <1>4, <1>o DEF Commit, Done
  <2> QED BY <1>k, <2>1, <2>2
<1>5. ASSUME NEW r \in Requests, CommitStat(r) PROVE KeepsDestination'
  <2>1. fs' = fs /\ gone' = gone /\ req[r].at = "stat" BY <1>5 DEF CommitStat
  <2>2. \A q \in Requests \ {r} : req'[q] = req[q] BY <1>5, <1>o, <1>t DEF CommitStat
  <2> QED BY <1>k, <2>1, <2>2
<1>6. ASSUME NEW r \in Requests, CommitClears(r) PROVE KeepsDestination'
  <2>0. req[r].at = "clear" /\ req[r].saw /\ kind # "local"
    BY <1>6 DEF CommitClears, Answered
  <2>1. CASE Goto(r, "replace")
    <3>1. "saw" \in DOMAIN req[r] \ {"at"} BY <1>t, <2>0 DEF Steps
    <3>2. req'[r].at = "replace" /\ req'[r].saw BY <1>t, <2>0, <2>1, <3>1, GoingOn
    <3> QED BY <1>l, <2>0, <3>2 DEF KeepsDestination
  <2>2. CASE Goto(r, "cleanup") /\ UNCHANGED fs
    <3>1. gone' = gone /\ req[r].at = "clear" BY <1>6 DEF CommitClears
    <3> QED BY <1>k, <1>o, <2>2, <3>1
  <2> QED BY <1>6, <2>1, <2>2 DEF CommitClears
\* The rename that failed: lost says so, because the stub had been there.
<1>7. ASSUME NEW r \in Requests, CommitReplaces(r) PROVE KeepsDestination'
  <2>1. req[r].saw /\ kind # "local" BY <1>7 DEF Answered, CommitReplaces
  <2> QED BY <1>7, <1>c, <1>l, <2>1 DEF CommitReplaces, StubPath, KeepsDestination, Exists
<1>8. ASSUME NEW r \in Requests, Move(r) PROVE KeepsDestination'
  <2>1. PICK src \in Movable, dst \in Movable :
          src # dst /\ fs[src].is = "file" /\ Rename(src, dst) /\ gone' = (gone \/ src = Dest)
    BY <1>8 DEF Move
  <2>2. /\ fs'[src] = None /\ fs'[dst] = fs[src] /\ \A x \in Paths \ {src, dst} : fs'[x] = fs[x]
    BY <1>p, <1>t, <2>1, Renaming
  <2>3. fs[src] # None BY <2>1, NodesDiffer
  <2>4. CASE src = Dest BY <2>1, <2>4 DEF KeepsDestination
  <2>5. CASE src # Dest
    <3>1. fs'[Dest] = fs[Dest] \/ fs'[Dest] # None BY <1>p, <2>2, <2>3, <2>5
    <3>2. req[r].at = "new" /\ \A q \in Requests \ {r} : req'[q] = req[q]
      BY <1>8, <1>o DEF Move, Done
    <3> QED BY <1>k, <2>1, <3>1, <3>2
  <2> QED BY <2>4, <2>5
<1>9. ASSUME NEW r \in Requests, CopyReads(r) PROVE KeepsDestination'
  <2>1. fs' = fs /\ gone' = gone /\ req[r].at = "new" /\ \A q \in Requests \ {r} : req'[q] = req[q]
    BY <1>9, <1>t DEF CopyReads
  <2> QED BY <1>k, <2>1
<1>10. ASSUME NEW r \in Requests, CopyOpens(r) \/ CopyWrites(r) PROVE KeepsDestination'
  <2>1. /\ req[r].at \in {"copy", "write"} /\ req[r].dst \in Movable /\ req[r].data \in Nodes
        /\ req[r].src \in Movable /\ gone' = gone
    BY <1>10, <1>t DEF CopyOpens, CopyWrites, Steps
  <2>2. req[r].data.is = "file" BY <2>1 DEF FilesInv, CopiesAreClean
  <2>3. req[r].data # None /\ File({}, FALSE) # None /\ File({}, FALSE) \in Nodes
    BY <2>2, NodesDiffer, Files
  <2>4. ASSUME NEW node \in Nodes, node # None, Put(req[r].dst, node)
        PROVE  fs'[Dest] = fs[Dest] \/ fs'[Dest] # None
    BY <1>p, <1>t, <2>1, <2>4, Putting
  <2>7. /\ fs[req[r].src] \in Nodes
        /\ fs[req[r].src].is = "file" => fs[req[r].src] # None
    BY <1>p, <1>t, <2>1, NodesDiffer DEF FilesTyped
  <2>5. fs'[Dest] = fs[Dest] \/ fs'[Dest] # None
    BY <1>10, <2>1, <2>3, <2>4, <2>7 DEF CopyOpens, CopyWrites
  <2>6. \A q \in Requests \ {r} : req'[q] = req[q]
    BY <1>10, <1>o, <1>t DEF CopyOpens, CopyWrites, Done
  <2> QED BY <1>k, <2>1, <2>5, <2>6
<1>11. ASSUME NEW r \in Requests, Delete(r) PROVE KeepsDestination'
  <2>1. /\ fs' = fs /\ (gone => gone') /\ req[r].at = "new"
        /\ \A q \in Requests \ {r} : req'[q] = req[q]
    BY <1>11, <1>t DEF Delete
  <2> QED BY <1>k, <2>1
<1>12. ASSUME NEW r \in Requests, DeleteStep(r) PROVE KeepsDestination'
  <2>1. /\ req[r].at = "remove" /\ gone' = gone
        /\ req[r].on \in Paths /\ req[r].left \in SUBSET Paths
    BY <1>12, <1>t DEF DeleteStep, Steps
  <2>2. \A q \in Requests \ {r} : req'[q] = req[q] BY <1>12, <1>o, <1>t DEF DeleteStep, Done
  <2>3. ASSUME NEW p \in {req[r].on} \cup req[r].left, RemoveSucceeds(p) \/ RemoveFails(p)
        PROVE  KeepsDestination'
    <3>1. p \in Paths BY <2>1
    <3>2. CASE Dest \in Removes(p)
      <4>1. Dest \in Under(p) BY <3>1, <3>2, RemovesFromAbove
      <4> QED BY <2>1, <4>1 DEF Answered, KeepsDestination
    <3>3. CASE Dest \notin Removes(p)
      <4>1. fs'[Dest] = fs[Dest] BY <1>p, <2>3, <3>3 DEF RemoveSucceeds, RemoveFails
      <4> QED BY <1>k, <2>1, <2>2, <4>1
    <3> QED BY <3>2, <3>3
  <2> QED BY <1>12, <2>3 DEF DeleteStep
<1>13. CASE UNCHANGED filesVars BY <1>13 DEF filesVars, KeepsDestination, Exists
<1> QED
  BY <1>1, <1>2, <1>3, <1>4, <1>5, <1>6, <1>7, <1>8, <1>9, <1>10, <1>11, <1>12, <1>13
  DEF FilesNext

\* Nobody takes the destination of an upload away who was not asked to
\* (deleteHostFile, moveHostFile), except a commit over SFTP that found its stub and
\* then removes the destination to rename again (Commit): a local target keeps it
\* always.  Over SFTP no link may lead to a directory that it is in.
THEOREM TheDestinationIsKept ==
  ASSUME Kinds \subseteq {"local"} \/ NoWayAround
  PROVE  FilesSpec => []KeepsDestination
<1>1. FilesInit => Answered /\ KeepsDestination
  <2> SUFFICES ASSUME FilesInit PROVE Answered /\ KeepsDestination OBVIOUS
  <2>1. \A r \in Requests : req[r].at = "new" BY DEF FilesInit
  <2>2. fs[Dest] \in {Link, Dir, File({}, TRUE)} BY StubFacts DEF FilesInit, Stubs
  <2>3. File({}, TRUE) # None BY Files
  <2>4. fs[Dest] # None BY <2>2, <2>3, NodesDiffer
  <2> QED BY <2>1, <2>4 DEF Answered, KeepsDestination, Exists
<1>2. FilesInv /\ Answered /\ KeepsDestination /\ [FilesNext]_filesVars =>
        Answered' /\ KeepsDestination'
  BY AnsweredNext, DestinationKept
<1> QED BY <1>1, <1>2, FilesInvariance, PTL DEF FilesSpec
=============================================================================
