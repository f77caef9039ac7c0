----------------------------- MODULE SshTerminal -----------------------------
(***************************************************************************)
(* A session's shell on an SSH host (sshpty.PTY): startPTY with everything *)
(* it opens and closes again when a later step fails, the way of the       *)
(* output from the server through the copying goroutine of the SSH library *)
(* and a pipe to the read loop, input, Session.terminate and discard; and  *)
(* the lookup of the shell's PID over the same connection (sshTransport).  *)
(*                                                                         *)
(* Output is counted in chunks.  The server may ignore signals, read no    *)
(* input and drop the connection.                                          *)
(***************************************************************************)
EXTENDS Naturals

CONSTANTS
  Caller,     \* requests for the process tree and the foreground sampler
  MaxOutput,  \* bound: chunks of output
  PipeSize    \* chunks a pipe holds

ASSUME SizesAssumption == MaxOutput \in Nat /\ PipeSize \in Nat \ {0}

VARIABLES
  want,     \* StartOptions and the target: whether a start directory and a
            \* .env are wanted, whether the target is POSIX
  start,    \* the step of startPTY
  open,     \* what is open on this side
  owner,    \* who will reap the shell: the read loop, or discard if register fails
  kept,     \* the manager's map refers to the session, and so to its backend
  shell,    \* the remote command
  cut,      \* the connection is closed or lost
  wire,     \* chunks of output that have left the shell and are not in the pipe
  pipe,     \* chunks in the stdout pipe
  got,      \* chunks the read loop has read
  waiter,   \* the goroutine that waits for the remote command
  loop,     \* the read loop, or discard
  kill,     \* terminate
  writer,   \* a browser's input: "idle" or "writing", which holds writeMu
  stdin,    \* the stdin pipe is full
  pidfile,  \* the file the exec preamble records the PID in
  look,     \* the SessionRootPID calls: "idle", "reading" (holds rootPIDMu)
  root,     \* rootPID: "unknown", "found", or "missed" for rootPIDMissBackoff
  cleaning  \* cleanupPIDFile's goroutine is to run

shellVars == <<shell, cut, wire, pipe, got>>
endVars == <<waiter, loop, kill, writer, stdin>>
pidVars == <<pidfile, look, root, cleaning>>
vars == <<want, start, open, owner, kept, shellVars, endVars, pidVars>>

Init ==
  /\ want \in [dir: BOOLEAN, dotenv: BOOLEAN, posix: BOOLEAN]
  /\ start = "dial" /\ open = {} /\ owner \in {"loop", "discard"} /\ kept = FALSE
  /\ shell = "none" /\ cut = FALSE /\ wire = 0 /\ pipe = 0 /\ got = 0
  /\ waiter = "none" /\ loop = "none" /\ kill = "no" /\ writer = "idle" /\ stdin = FALSE
  /\ pidfile = "none" /\ look = [c \in Caller |-> "idle"] /\ root = "unknown"
  /\ cleaning = FALSE

-----------------------------------------------------------------------------
(* startPTY                                                                *)

Order == [dial |-> "handshake", handshake |-> "sftp", sftp |-> "dir", dir |-> "session",
          session |-> "pty", pty |-> "stdin", stdin |-> "stdout", stdout |-> "exec",
          exec |-> "up"]

\* What a step opens, beyond what is open.
Opens(s) ==
  CASE s = "dial" -> {"conn"}
    [] s = "sftp" -> {"sftp"}
    [] s = "session" -> {"session"}
    [] s = "stdin" -> {"stdinR", "stdinW"}
    [] s = "stdout" -> {"stdoutR", "stdoutW"}
    [] OTHER -> {}

\* Variant: the error path of the second pipe forgets the first.
ClosesForgetful(s) ==
  CASE s = "dial" -> {}
    [] s \in {"handshake", "sftp", "session"} -> {"conn"}
    [] s = "dir" -> {"sftp", "conn"}
    [] s \in {"pty", "stdin", "stdout"} -> {"session", "conn"}
    [] s = "exec" -> {"stdinR", "stdinW", "stdoutR", "stdoutW", "session", "conn"}

\* What the error path of a step closes.  exec stands for a command line that
\* is too large and for session.Start.
Closes(s) ==
  CASE s = "dial" -> {}
    [] s \in {"handshake", "sftp", "session"} -> {"conn"}
    [] s = "dir" -> {"sftp", "conn"}
    [] s \in {"pty", "stdin"} -> {"session", "conn"}
    [] s = "stdout" -> {"stdinR", "stdinW", "session", "conn"}
    [] s = "exec" -> {"stdinR", "stdinW", "stdoutR", "stdoutW", "session", "conn"}

Refused == (want.dir \/ want.dotenv) /\ ~want.posix

\* A step that is to be taken and not refused or skipped: SFTP is opened only
\* for a start directory or a .env.
Skips(s) == s \in {"sftp", "dir"} /\ ~want.dir /\ ~want.dotenv

StartRefused ==
  /\ start = "dial" /\ Refused
  /\ start' = "failed"
  /\ UNCHANGED <<want, open, owner, kept, shellVars, endVars, pidVars>>

StartSkips ==
  /\ Skips(start)
  /\ start' = Order[start]
  /\ UNCHANGED <<want, open, owner, kept, shellVars, endVars, pidVars>>

\* dir: the start directory is checked, the .env read, the SFTP client closed.
\* exec: the remote command runs and the waiting goroutine with it.
StartStep ==
  /\ start \in DOMAIN Order /\ ~(start = "dial" /\ Refused) /\ ~Skips(start)
  /\ start # "dial" => "conn" \in open
  /\ start = "dir" => "sftp" \in open
  /\ start' = Order[start]
  /\ open' = (IF start = "dir" THEN open \ {"sftp"} ELSE open \cup Opens(start))
  /\ IF start = "exec"
       THEN shell' = "running" /\ waiter' = "waiting"
            /\ pidfile' = (IF want.posix THEN "asked" ELSE "none")
       ELSE UNCHANGED <<shell, waiter, pidfile>>
  /\ UNCHANGED <<want, owner, kept, cut, wire, pipe, got, loop, kill, writer, stdin,
                 look, root, cleaning>>

\* A step fails.  Of SFTP, that ends the start only if a directory was wanted.
StartFails ==
  /\ start \in DOMAIN Order /\ ~(start = "dial" /\ Refused) /\ ~Skips(start)
  /\ start = "sftp" => want.dir
  /\ start = "dir" => want.dir /\ "sftp" \in open
  /\ start' = "failed"
  /\ open' = open \ Closes(start)
  /\ UNCHANGED <<want, owner, kept, shellVars, endVars, pidVars>>

\* SFTP is not available, or does not answer in time and openSFTP closes the
\* connection; the .env is done without.
SftpGivenUp ==
  /\ start = "sftp" /\ want.dotenv /\ ~want.dir
  /\ open' \in {open, open \ {"conn"}}
  /\ start' = "session"
  /\ UNCHANGED <<want, owner, kept, shellVars, endVars, pidVars>>

\* register publishes the session and starts its read loop, or refuses it.
Register ==
  /\ start = "up" /\ loop = "none"
  /\ loop' = IF owner = "loop" THEN "reading" ELSE "killing"
  /\ kept' = (owner = "loop")
  /\ UNCHANGED <<want, start, open, owner, shellVars, waiter, kill, writer, stdin, pidVars>>

-----------------------------------------------------------------------------
(* The remote command and its output                                       *)

ShellWrites ==
  /\ shell = "running" /\ ~cut /\ got + pipe + wire < MaxOutput
  /\ wire' = wire + 1
  /\ UNCHANGED <<want, start, open, owner, kept, shell, cut, pipe, got, endVars, pidVars>>

\* The command exits, of its own or because it honours a signal.
ShellExits ==
  /\ shell = "running" /\ ~cut
  /\ shell' = "exited"
  /\ UNCHANGED <<want, start, open, owner, kept, cut, wire, pipe, got, endVars, pidVars>>

\* The connection ends: what has not arrived is lost.
ConnectionEnds ==
  /\ cut' = TRUE
  /\ wire' \in 0..wire
  /\ shell' = IF shell = "running" THEN "detached" ELSE shell

ConnectionLost ==
  /\ shell # "none" /\ ~cut
  /\ ConnectionEnds
  /\ UNCHANGED <<want, start, open, owner, kept, pipe, got, endVars, pidVars>>

\* The SSH library's goroutine copies the channel into the stdout pipe.
Copies ==
  /\ waiter = "waiting" /\ wire > 0 /\ pipe < PipeSize
  /\ wire' = wire - 1 /\ pipe' = pipe + 1
  /\ UNCHANGED <<want, start, open, owner, kept, shell, cut, got, endVars, pidVars>>

\* Variant: the goroutine does not wait for the copying to end.
CopiedEarly == TRUE

\* session.Wait returns once the copying has ended.
Copied == wire = 0

\* session.Wait returns; stdoutW and done are closed.
WaitReturns ==
  /\ waiter = "waiting" /\ shell \in {"exited", "detached"} /\ Copied
  /\ waiter' = "done"
  /\ open' = open \ {"stdoutW"}
  /\ UNCHANGED <<want, start, owner, kept, shellVars, loop, kill, writer, stdin, pidVars>>

-----------------------------------------------------------------------------
(* The read loop, discard and terminate                                    *)

LoopReads ==
  /\ loop = "reading" /\ pipe > 0
  /\ pipe' = pipe - 1 /\ got' = got + 1
  /\ UNCHANGED <<want, start, open, owner, kept, shell, cut, wire, endVars, pidVars>>

\* Read reports end of file; then Wait.
LoopSeesEof ==
  /\ loop = "reading" /\ pipe = 0 /\ "stdoutW" \notin open
  /\ loop' = "waiting"
  /\ UNCHANGED <<want, start, open, owner, kept, shellVars, waiter, kill, writer, stdin, pidVars>>

\* Wait returns; CloseFile; exited is closed.
LoopCloses ==
  /\ loop = "waiting" /\ waiter = "done"
  /\ loop' = "ended"
  /\ open' = open \ {"stdoutR", "stdinW", "session", "conn"}
  /\ ConnectionEnds
  /\ UNCHANGED <<want, start, owner, kept, pipe, got, waiter, kill, writer, stdin, pidVars>>

\* Variant: SIGKILL is only forwarded, as every other signal.
SignalKillForwards ==
  /\ UNCHANGED <<open, shell, cut, wire>>

\* Signal(SIGKILL): the session and the client are closed.
SignalKill ==
  /\ open' = open \ {"session", "conn"}
  /\ ConnectionEnds

\* discard: SIGKILL, then Wait and CloseFile; nobody reads.
Discards ==
  /\ loop = "killing"
  /\ SignalKill
  /\ loop' = "waiting"
  /\ UNCHANGED <<want, start, owner, kept, pipe, got, waiter, kill, writer, stdin, pidVars>>

\* Delete or Shutdown takes the session out of the map and terminates it: SIGHUP
\* and SIGTERM, a grace, SIGKILL unless exited is closed.
TerminateAsks ==
  /\ kept /\ kill = "no"
  /\ kept' = FALSE
  /\ kill' = "asked"
  /\ UNCHANGED <<want, start, open, owner, shellVars, waiter, loop, writer, stdin, pidVars>>

TerminateKills ==
  /\ kill = "asked" /\ loop # "ended"
  /\ SignalKill
  /\ kill' = "killed"
  /\ UNCHANGED <<want, start, owner, kept, pipe, got, waiter, loop, writer, stdin, pidVars>>

\* A restart of the stopped session puts another in its place in the map.
RestartReplaces ==
  /\ kept /\ loop \in {"waiting", "ended"}
  /\ kept' = FALSE
  /\ UNCHANGED <<want, start, open, owner, shellVars, endVars, pidVars>>

\* CloseFile does not close stdinR.  Closing stdinW ends the goroutine that feeds
\* the server from it; then only the PTY refers to it, for as long as the map or
\* a call in it refers to the session.  The runtime closes it when it collects it.
StdinCollected ==
  /\ "stdinR" \in open /\ loop = "ended" /\ ~kept /\ writer = "idle"
  /\ open' = open \ {"stdinR"}
  /\ UNCHANGED <<want, start, owner, kept, shellVars, endVars, pidVars>>

-----------------------------------------------------------------------------
(* Input                                                                   *)

WriteBegins ==
  /\ loop \in {"reading", "waiting"} /\ owner = "loop" /\ writer = "idle"
  /\ writer' = "writing"
  /\ UNCHANGED <<want, start, open, owner, kept, shellVars, waiter, loop, kill, stdin, pidVars>>

\* The write fits into the pipe, or fails because stdinW is closed.
WriteEnds ==
  /\ writer = "writing" /\ (~stdin \/ "stdinW" \notin open)
  /\ writer' = "idle"
  /\ stdin' = ("stdinW" \in open)
  /\ UNCHANGED <<want, start, open, owner, kept, shellVars, waiter, loop, kill, pidVars>>

\* The remote command reads its input, if it does.
ShellTakesInput ==
  /\ stdin /\ ~cut /\ shell = "running"
  /\ stdin' = FALSE
  /\ UNCHANGED <<want, start, open, owner, kept, shellVars, waiter, loop, kill, writer, pidVars>>

-----------------------------------------------------------------------------
(* SessionRootPID                                                          *)

\* The exec preamble writes the file, if it can.
PreambleRuns ==
  /\ pidfile = "asked" /\ shell = "running"
  /\ pidfile' = "written"
  /\ UNCHANGED <<want, start, open, owner, kept, shellVars, endVars, look, root, cleaning>>

\* Variant: the lookup is not single-flight.
MutexFreeAlways == TRUE

\* rootPIDMu is free.
MutexFree == \A c \in Caller : look[c] = "idle"

\* A lookup that finds no answer and no recent miss asks the host.
LookBegins(c) ==
  /\ look[c] = "idle" /\ MutexFree /\ owner = "loop" /\ loop # "none" /\ root = "unknown"
  /\ look' = [look EXCEPT ![c] = "reading"]
  /\ UNCHANGED <<want, start, open, owner, kept, shellVars, endVars, pidfile, root, cleaning>>

\* readPIDFile reads it, or else ss shows the process behind the connection.
LookFinds(c) ==
  /\ look[c] = "reading" /\ ~cut
  /\ look' = [look EXCEPT ![c] = "idle"]
  /\ root' = "found"
  /\ cleaning' = (cleaning \/ pidfile # "none")
  /\ UNCHANGED <<want, start, open, owner, kept, shellVars, endVars, pidfile>>

\* No retry found the file and ss shows nothing, the connection is gone, or the
\* caller's context ended.
LookMisses(c) ==
  /\ look[c] = "reading"
  /\ look' = [look EXCEPT ![c] = "idle"]
  /\ root' = "missed"
  /\ UNCHANGED <<want, start, open, owner, kept, shellVars, endVars, pidfile, cleaning>>

BackoffEnds ==
  /\ root = "missed"
  /\ root' = "unknown"
  /\ UNCHANGED <<want, start, open, owner, kept, shellVars, endVars, pidfile, look, cleaning>>

\* cleanupPIDFile: rm, or nothing if that cannot be run.
Cleans ==
  /\ cleaning
  /\ cleaning' = FALSE
  /\ pidfile' = IF cut THEN pidfile ELSE "removed"
  /\ UNCHANGED <<want, start, open, owner, kept, shellVars, endVars, look, root>>

-----------------------------------------------------------------------------
Lookup ==
  \/ PreambleRuns \/ BackoffEnds \/ Cleans
  \/ \E c \in Caller : LookBegins(c) \/ LookFinds(c) \/ LookMisses(c)

Next ==
  \/ StartRefused \/ StartSkips \/ StartStep \/ StartFails \/ SftpGivenUp \/ Register
  \/ ShellWrites \/ ShellExits \/ ConnectionLost \/ Copies \/ WaitReturns
  \/ LoopReads \/ LoopSeesEof \/ LoopCloses \/ Discards
  \/ TerminateAsks \/ TerminateKills \/ RestartReplaces \/ StdinCollected
  \/ WriteBegins \/ WriteEnds \/ ShellTakesInput
  \/ Lookup

Spec == Init /\ [][Next]_vars

\* Goroutines that are able to run do; the server and the network owe nothing.
Fairness ==
  /\ WF_vars(Copies) /\ WF_vars(WaitReturns)
  /\ WF_vars(LoopReads) /\ WF_vars(LoopSeesEof) /\ WF_vars(LoopCloses)
  /\ WF_vars(Discards) /\ WF_vars(TerminateKills) /\ WF_vars(WriteEnds)
  /\ WF_vars(StdinCollected)

FairSpec == Spec /\ Fairness

-----------------------------------------------------------------------------
(* Properties                                                              *)

\* A start that fails has closed whatever it opened, at whichever step it was,
\* and a shell that is up has no SFTP client left (startPTY's error paths).
FailedStartHoldsNothing ==
  /\ start = "failed" => open = {}
  /\ start = "up" => "sftp" \notin open

\* A session that has ended holds at most stdinR, and that only for as long as it
\* is kept, stopped, in the map; and an input that was stuck in a server that does
\* not read comes back (CloseFile, Signal).
EndedGivesBack ==
  /\ [](loop = "ended" => open \subseteq {"stdinR"})
  /\ (loop = "ended" /\ ~kept) ~> (open = {})
  /\ (writer = "writing" /\ kill = "killed") ~> (writer = "idle")

\* No lookup reads a file that another one has had removed: once the PID was
\* found, every later call has it (SessionRootPID, cleanupPIDFile).
NoneReadsARemovedFile ==
  \A c \in Caller : look[c] = "reading" => pidfile # "removed" /\ root # "found"

\* A session that was refused is reaped: discard comes back (Session.discard).
DiscardReturns == (owner = "discard") ~> (loop = "ended")

\* For the read loop an SSH session is a Backend: what the shell has written
\* that will come out, and how far the session is.
Made == IF owner = "loop" THEN got + pipe + wire ELSE 0

Phase ==
  IF owner = "discard" THEN "running"
  ELSE IF loop = "ended" THEN "closed"
  ELSE IF loop = "waiting" THEN "eof"
  ELSE IF kill = "killed" THEN "killed"
  ELSE IF shell \in {"exited", "detached"} THEN "ended"
  ELSE "running"

Promised == INSTANCE Backend WITH made <- Made, state <- Phase

\* The output comes out in order and whole unless the connection was cut,
\* end-of-file follows it, and a killed session ends, although the server
\* ignores every signal (PTY.Read, PTY.Wait, PTY.Signal, Session.terminate).
IsABackend == Promised!Spec

=============================================================================
