------------------------------ MODULE Lifecycle ------------------------------
(***************************************************************************)
(* What session.Manager shows of its sessions, whoever calls it at once.   *)
(* A session runs one shell at a time, that of no other session, and stops *)
(* once.  Only a stopped one is edited or gets a new shell, and the new    *)
(* shell has the environment of the last edit.  Once the manager is down   *)
(* no session comes up before the server starts again.                     *)
(***************************************************************************)
CONSTANTS Id, Shell, Env, Nothing

VARIABLES
  session,   \* per id its shell, whether it runs, its environment; or Nothing
  down       \* the manager has been shut down

vars == <<session, down>>

Init == session = [id \in Id |-> Nothing] /\ down = FALSE

Exists(id) == session[id] # Nothing
Stopped(id) == Exists(id) /\ ~session[id].running
Free(s) == \A id \in Id : Exists(id) => session[id].shell # s
Running(s, e) == [shell |-> s, running |-> TRUE, env |-> e]
Becomes(id, view) == session' = [session EXCEPT ![id] = view] /\ UNCHANGED down

\* A new session, or one that a delete or a restart of the server left only in
\* the store.
Open(id, s, e) == ~down /\ ~Exists(id) /\ Free(s) /\ Becomes(id, Running(s, e))

Replace(id, s) ==
  ~down /\ Stopped(id) /\ Free(s) /\ Becomes(id, Running(s, session[id].env))

Edit(id, e) == Stopped(id) /\ Becomes(id, [session[id] EXCEPT !.env = e])

Stop(id) ==
  Exists(id) /\ session[id].running /\ Becomes(id, [session[id] EXCEPT !.running = FALSE])

Close(id) == Exists(id) /\ Becomes(id, Nothing)

\* Shutdown, and a process that ends and comes back.
CloseAll == down' = TRUE /\ session' = [id \in Id |-> Nothing]
StartOver == Init'

Next ==
  \/ \E id \in Id :
       \/ \E s \in Shell : Replace(id, s) \/ \E e \in Env : Open(id, s, e)
       \/ Stop(id) \/ Close(id) \/ \E e \in Env : Edit(id, e)
  \/ CloseAll \/ StartOver

Spec == Init /\ [][Next]_vars

=============================================================================
