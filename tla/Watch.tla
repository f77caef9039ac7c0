-------------------------------- MODULE Watch --------------------------------
(***************************************************************************)
(* What the browsers that watch a session are promised (the comments of    *)
(* Session.attach, broadcast and takeClients): each is shown, for one      *)
(* shell of the session after the other, what the shell has written,       *)
(* without a gap or a repetition, and its exit only after all of it.       *)
(*                                                                         *)
(* There are no queues, buffers, client sets or goroutines here: only what *)
(* a shell has written and the frame a browser was shown last.             *)
(***************************************************************************)
EXTENDS Naturals

CONSTANTS
  Client,    \* browsers
  MaxLife,   \* shells the session has, one after the other
  MaxChunk   \* chunks of output

VARIABLES
  state,   \* of each shell: "unborn", "running" or "stopped"
  made,    \* the last chunk of the output up to and with each shell
  shown,   \* the frame each browser was shown last
  missed   \* a frame for this browser was lost: nothing is promised to it

Life == 1..MaxLife
Run == [from: 1..MaxChunk + 1, to: 0..MaxChunk]
Frame == [kind: {"nothing", "attached", "bytes", "exit"}, life: 0..MaxLife, run: Run]
NoFrame == [kind |-> "nothing", life |-> 0, run |-> [from |-> 1, to |-> 0]]

Init ==
  /\ state = [l \in Life |-> IF l = 1 THEN "running" ELSE "unborn"]
  /\ made = [l \in Life |-> 0]
  /\ shown = [c \in Client |-> NoFrame]
  /\ missed = [c \in Client |-> FALSE]

\* A shell writes.
Write(l) ==
  /\ state[l] = "running"
  /\ made' = [made EXCEPT ![l] = @ + 1]
  /\ UNCHANGED <<state, shown, missed>>

\* Some browsers lose a frame.
Miss(C) == missed' = [c \in Client |-> missed[c] \/ c \in C]

Lose ==
  /\ \E C \in SUBSET Client : Miss(C)
  /\ UNCHANGED <<state, made, shown>>

\* A shell exits, which some browsers are not told.
Stop(l) ==
  /\ state[l] = "running"
  /\ state' = [state EXCEPT ![l] = "stopped"]
  /\ \E C \in SUBSET Client : Miss(C)
  /\ UNCHANGED <<made, shown>>

\* The next one starts with the output of the last, and a separator if there
\* is any.
Start(l) ==
  /\ l - 1 \in Life /\ state[l - 1] = "stopped" /\ state[l] = "unborn"
  /\ state' = [state EXCEPT ![l] = "running"]
  /\ made' = [made EXCEPT ![l] = IF made[l - 1] = 0 THEN 0 ELSE made[l - 1] + 1]
  /\ UNCHANGED <<shown, missed>>

\* g may be shown after f.  Output begins anywhere, for old output is not kept,
\* and goes on where it was.
MayFollow(f, g) ==
  /\ g.life \in Life /\ state[g.life] # "unborn"
  /\ \/ g.kind = "attached" /\ g.life > f.life /\ g.run.to = 0
     \/ /\ g.kind = "bytes" /\ g.life = f.life
        /\ g.run.from <= g.run.to /\ g.run.to <= made[g.life]
        /\ \/ f.kind = "attached"
           \/ f.kind = "bytes" /\ g.run.from = f.run.to + 1
     \/ /\ g.kind = "exit" /\ g.life = f.life /\ f.kind \in {"attached", "bytes"}
        /\ state[g.life] = "stopped" /\ f.run.to = made[g.life]

Show(c) ==
  /\ \E f \in Frame :
       /\ missed[c] \/ MayFollow(shown[c], f)
       /\ shown' = [shown EXCEPT ![c] = f]
  /\ UNCHANGED <<state, made, missed>>

Next ==
  \/ \E l \in Life : Write(l) \/ Stop(l) \/ Start(l)
  \/ \E c \in Client : Show(c)
  \/ Lose

Spec == Init /\ [][Next]_<<state, made, shown, missed>>
=============================================================================
