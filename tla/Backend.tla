------------------------------- MODULE Backend -------------------------------
(***************************************************************************)
(* What session.Backend promises the session's read loop: the bytes the    *)
(* shell wrote come out in order and whole, end-of-file follows the last   *)
(* of them, and a killed backend ends even if its shell does not.  Bytes   *)
(* are lost only when the backend is cut off from its shell.               *)
(***************************************************************************)
EXTENDS Naturals

CONSTANT MaxOutput   \* bound: chunks of output

VARIABLES
  made,    \* chunks the shell has written that will come out
  got,     \* chunks read
  state    \* "running", "killed", "ended", then "eof" and "closed" for the loop

vars == <<made, got, state>>

Init == made = 0 /\ got = 0 /\ state = "running"

Produce ==
  /\ state = "running" /\ made < MaxOutput
  /\ made' = made + 1
  /\ UNCHANGED <<got, state>>

Read ==
  /\ state # "closed" /\ got < made
  /\ got' = got + 1
  /\ UNCHANGED <<made, state>>

\* SIGKILL, which cuts the backend off.
Kill ==
  /\ state \in {"running", "ended"}
  /\ state' = "killed"
  /\ made' \in got..made
  /\ UNCHANGED got

\* The shell exits: what it wrote is still to be read.
Exit ==
  /\ state = "running"
  /\ state' = "ended"
  /\ UNCHANGED <<made, got>>

\* The backend is cut off: what has not arrived is lost.
Cut ==
  /\ state \in {"running", "ended"}
  /\ state' = "ended"
  /\ made' \in got..made
  /\ UNCHANGED got

Eof ==
  /\ state \in {"killed", "ended"} /\ got = made
  /\ state' = "eof"
  /\ UNCHANGED <<made, got>>

Close ==
  /\ state = "eof"
  /\ state' = "closed"
  /\ UNCHANGED <<made, got>>

Next == Produce \/ Read \/ Kill \/ Exit \/ Cut \/ Eof \/ Close

Safe == Init /\ [][Next]_vars

KilledEnds == (state = "killed") ~> (state = "closed")

Spec == Safe /\ KilledEnds

=============================================================================
