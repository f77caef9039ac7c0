------------------------------ MODULE HostBrowse ------------------------------
(***************************************************************************)
(* The directory browser for hosts: api.browseCache, the cache of SSH      *)
(* connections one user browses hosts over (acquire with its single-flight *)
(* dial, release, the idle timer, the cap, drop, closeAll), the requests   *)
(* of listHostDirectories that use it, and the handlers that change a host *)
(* record and drop its connection.                                         *)
(*                                                                         *)
(* One step is one critical section of browseCache.mu or of the host       *)
(* registry, or the end of something that runs outside both: a dial, a     *)
(* listing, a wait.  Of the fields of a host record only this is kept:     *)
(* whether they have changed since a request read them.                    *)
(***************************************************************************)
EXTENDS Naturals, FiniteSets

CONSTANTS
  Host,        \* ids of the user's hosts
  Req,         \* goroutines serving GET /api/hosts/:id/directories
  Editor,      \* goroutines serving a change of a host record
  Entry,       \* *browseEntry objects
  None,        \* nil
  MaxPerUser   \* browseMaxPerUser

ASSUME NoneAssumption == None \notin Host \cup Entry
ASSUME CapAssumption == MaxPerUser \in Nat \ {0}
ASSUME FiniteAssumption == IsFiniteSet(Host) /\ IsFiniteSet(Req)

VARIABLES
  hosts,    \* the registry: the hosts that have a record
  entries,  \* browseCache.entries, the user's part
  closed,   \* browseCache.closed
  entry,    \* the browseEntry objects, with their connection and timer
  req,      \* the requests in flight
  editor    \* the changes in flight

vars == <<hosts, entries, closed, entry, req, editor>>

-----------------------------------------------------------------------------
(* Data                                                                    *)

NoEntry == [host |-> None, stale |-> FALSE, conn |-> "none", cancelled |-> FALSE,
            err |-> "no", dropped |-> FALSE, waiters |-> 0, busy |-> 0]
Idle == [pc |-> "idle", host |-> None, stale |-> FALSE, entry |-> None, retried |-> FALSE]

TypeOK ==
  /\ hosts \subseteq Host
  /\ entries \in [Host -> Entry \cup {None}]
  /\ closed \in BOOLEAN
  /\ entry \in [Entry -> [host: Host \cup {None}, stale: BOOLEAN,
                          conn: {"none", "dialing", "open", "closed"},
                          cancelled: BOOLEAN, err: {"no", "failed", "canceled", "closed"},
                          dropped: BOOLEAN, waiters: 0..Cardinality(Req),
                          busy: 0..Cardinality(Req)]]
  /\ req \in [Req -> [pc: {"idle", "acquire", "wait", "use", "release"},
                      host: Host \cup {None}, stale: BOOLEAN,
                      entry: Entry \cup {None}, retried: BOOLEAN]]
  /\ editor \in [Editor -> Host \cup {None}]

Init ==
  /\ hosts = Host
  /\ entries = [h \in Host |-> None]
  /\ closed = FALSE
  /\ entry = [x \in Entry |-> NoEntry]
  /\ req = [r \in Req |-> Idle]
  /\ editor = [d \in Editor |-> None]

Registered == {h \in Host : entries[h] # None}

\* Variant: a failed dial does not close e.ready.
ReadyWhenOpen(x) == entry[x].conn = "open"

\* e.ready is closed: the dial has ended, well or not.
Ready(x) == entry[x].conn \notin {"none", "dialing"}

-----------------------------------------------------------------------------
(* browseCache                                                             *)

\* A closed entry no request holds on to is garbage; its name can be used again.
Collected(f) ==
  [x \in Entry |-> IF f[x].conn = "closed" /\ f[x].waiters = 0 /\ f[x].busy = 0
                   THEN NoEntry ELSE f[x]]

\* removeLocked of the entries in X: unregistered, and closed or, while still
\* dialing, cancelled.
Removed(X) ==
  Collected([x \in Entry |->
    IF x \notin X \/ entry[x].dropped THEN entry[x]
    ELSE IF entry[x].conn = "dialing"
         THEN [entry[x] EXCEPT !.dropped = TRUE, !.cancelled = TRUE]
         ELSE [entry[x] EXCEPT !.dropped = TRUE, !.conn = "closed"]])
Unregistered(X) ==
  [h \in Host |-> IF entries[h] \in X THEN None ELSE entries[h]]

\* Variant: the cap is not enforced.
EvictedNever == {{}}

\* startDialLocked makes room for one more: least recently used first, which
\* no property here depends on, so any choice will do.
Evicted ==
  {E \in SUBSET {entries[h] : h \in Registered} :
     /\ Cardinality(Registered) - Cardinality(E) < MaxPerUser
     /\ E # {} => Cardinality(Registered) - Cardinality(E) = MaxPerUser - 1}

Free(x) == entry[x] = NoEntry

\* acquireOnce up to its wait: refused when closed, joins the entry of the host,
\* or registers a new one and starts its dial.
AcquireRefused(r) ==
  /\ req[r].pc = "acquire" /\ closed
  /\ req' = [req EXCEPT ![r] = Idle]
  /\ UNCHANGED <<hosts, entries, closed, entry, editor>>

AcquireJoins(r) ==
  LET x == entries[req[r].host] IN
  /\ req[r].pc = "acquire" /\ ~closed /\ x # None
  /\ entry' = [entry EXCEPT ![x].waiters = @ + 1]
  /\ req' = [req EXCEPT ![r] = [@ EXCEPT !.pc = "wait", !.entry = x]]
  /\ UNCHANGED <<hosts, entries, closed, editor>>

AcquireDials(r) ==
  /\ req[r].pc = "acquire" /\ ~closed /\ entries[req[r].host] = None
  /\ \E x \in Entry, E \in Evicted :
       /\ Free(x)
       /\ entries' = [Unregistered(E) EXCEPT ![req[r].host] = x]
       /\ entry' = [Removed(E) EXCEPT ![x] =
            [NoEntry EXCEPT !.host = req[r].host, !.stale = req[r].stale,
                            !.conn = "dialing", !.waiters = 1]]
       /\ req' = [req EXCEPT ![r] = [@ EXCEPT !.pc = "wait", !.entry = x]]
  /\ UNCHANGED <<hosts, closed, editor>>

LeftBehindNever(x) == FALSE   \* variant: an abandoned dial goes on

\* The request is cancelled or runs out of time while it waits; the last one to
\* leave a dial cancels it.
LeftBehind(x) == entry[x].waiters = 1 /\ entry[x].conn = "dialing"

WaitCancelled(r) ==
  LET x == req[r].entry IN
  /\ req[r].pc = "wait"
  /\ entry' = Collected([entry EXCEPT ![x] =
       [entry[x] EXCEPT !.waiters = @ - 1, !.cancelled = @ \/ LeftBehind(x)]])
  /\ req' = [req EXCEPT ![r] = Idle]
  /\ UNCHANGED <<hosts, entries, closed, editor>>

\* The dial has ended and the connection can be used.
WaitSucceeds(r) ==
  LET x == req[r].entry IN
  /\ req[r].pc = "wait" /\ Ready(x)
  /\ entry[x].err = "no" /\ ~entry[x].dropped
  /\ entry' = [entry EXCEPT ![x] = [entry[x] EXCEPT !.waiters = @ - 1, !.busy = @ + 1]]
  /\ req' = [req EXCEPT ![r] = [@ EXCEPT !.pc = "use", !.stale = FALSE]]
  /\ UNCHANGED <<hosts, entries, closed, editor>>

\* It has failed, or the connection is gone already.  A dial cancelled by others
\* is tried once more, unless this request is cancelled as well.
WaitFails(r) ==
  LET x == req[r].entry
      again == [req[r] EXCEPT !.pc = "acquire", !.entry = None, !.retried = TRUE]
  IN
  /\ req[r].pc = "wait" /\ Ready(x)
  /\ entry[x].err # "no" \/ entry[x].dropped
  /\ entry' = Collected([entry EXCEPT ![x].waiters = @ - 1])
  /\ \E q \in {Idle, again} :
       /\ q = again => entry[x].err = "canceled" /\ ~req[r].retried
       /\ req' = [req EXCEPT ![r] = q]
  /\ UNCHANGED <<hosts, entries, closed, editor>>

ReleasedNever(x) == entry[x].busy   \* variant: release is forgotten

Released(x) == entry[x].busy - 1

\* The listing has ended; the deferred release.
Release(r) ==
  /\ req[r].pc \in {"use", "release"}
  /\ entry' = Collected([entry EXCEPT ![req[r].entry].busy = Released(req[r].entry)])
  /\ req' = [req EXCEPT ![r] = Idle]
  /\ UNCHANGED <<hosts, entries, closed, editor>>

\* The listing met a dead connection or the end of the request's time: dropEntry,
\* which spares a newer entry of the host.
UseDrops(r) ==
  /\ req[r].pc = "use"
  /\ entry' = Removed({req[r].entry})
  /\ entries' = Unregistered({req[r].entry})
  /\ req' = [req EXCEPT ![r].pc = "release"]
  /\ UNCHANGED <<hosts, closed, editor>>

\* runDial: the dial or the browser setup fails, maybe because it was cancelled.
DialFails(x) ==
  /\ entry[x].conn = "dialing"
  /\ \E e \in IF entry[x].cancelled THEN {"failed", "canceled"} ELSE {"failed"} :
       entry' = Collected([entry EXCEPT ![x] = [@ EXCEPT !.conn = "closed", !.err = e]])
  /\ entries' = Unregistered({x})
  /\ UNCHANGED <<hosts, closed, req, editor>>

UnwantedNever(x) == FALSE      \* variant: runDial does not look again

\* The entry was dropped, or the cache closed, while it was dialing.
Unwanted(x) == entry[x].dropped \/ closed

\* runDial: connected, if need be in spite of the cancellation.
DialSucceeds(x) ==
  /\ entry[x].conn = "dialing"
  /\ entry' = Collected([entry EXCEPT ![x] =
       IF Unwanted(x) THEN [@ EXCEPT !.conn = "closed", !.err = "closed"]
       ELSE [@ EXCEPT !.conn = "open"]])
  /\ UNCHANGED <<hosts, entries, closed, req, editor>>

\* The idle timer, when it does not give the connection more time: it is not
\* busy, and was not used for the whole period.
Expire(x) ==
  /\ entry[x].conn = "open" /\ ~entry[x].dropped /\ entry[x].busy = 0
  /\ entry' = Removed({x})
  /\ entries' = Unregistered({x})
  /\ UNCHANGED <<hosts, closed, req, editor>>

\* Server.Close at shutdown.
CloseAll ==
  /\ ~closed
  /\ closed' = TRUE
  /\ entry' = Removed({entries[h] : h \in Registered})
  /\ entries' = [h \in Host |-> None]
  /\ UNCHANGED <<hosts, req, editor>>

-----------------------------------------------------------------------------
(* Requests and changes                                                    *)

\* The record of h changes, or goes: what was read of it, and is still to be
\* dialed or handed out, is stale.
Changed(h) ==
  /\ entry' = [x \in Entry |-> [entry[x] EXCEPT !.stale = @ \/ (entry[x].host = h /\ ~entry[x].dropped)]]
  /\ req' = [r \in Req |-> [req[r] EXCEPT
       !.stale = @ \/ (req[r].pc \in {"acquire", "wait"} /\ req[r].host = h)]]

\* listHostDirectories reads the record; what it read is what acquire will dial.
ReqBegin(r, h) ==
  /\ req[r] = Idle /\ h \in hosts
  /\ req' = [req EXCEPT ![r] = [Idle EXCEPT !.pc = "acquire", !.host = h]]
  /\ UNCHANGED <<hosts, entries, closed, entry, editor>>

\* updateHost, trustHostKey and deleteHost write the record, then drop the
\* connection.
EditHost(d, h) ==
  /\ editor[d] = None /\ h \in hosts
  /\ hosts' \in {hosts, hosts \ {h}}
  /\ Changed(h)
  /\ editor' = [editor EXCEPT ![d] = h]
  /\ UNCHANGED <<entries, closed>>

Drop(h) ==
  /\ entry' = IF entries[h] = None THEN entry ELSE Removed({entries[h]})
  /\ entries' = [entries EXCEPT ![h] = None]

EditDrops(d) ==
  /\ editor[d] # None
  /\ Drop(editor[d])
  /\ editor' = [editor EXCEPT ![d] = None]
  /\ UNCHANGED <<hosts, closed, req>>

\* exchangeHostKeys writes new credentials and leaves the connection alone.
ExchangeKeys(h) ==
  /\ h \in hosts
  /\ Changed(h)
  /\ UNCHANGED <<hosts, entries, closed, editor>>

\* closeHostBrowse
CloseBrowse(h) ==
  /\ h \in hosts /\ entries[h] # None
  /\ Drop(h)
  /\ UNCHANGED <<hosts, closed, req, editor>>

-----------------------------------------------------------------------------

ReqStep(r) ==
  \/ AcquireRefused(r) \/ AcquireJoins(r) \/ AcquireDials(r)
  \/ WaitSucceeds(r) \/ WaitFails(r) \/ Release(r)

Next ==
  \/ \E r \in Req : ReqStep(r) \/ WaitCancelled(r) \/ UseDrops(r)
                    \/ \E h \in Host : ReqBegin(r, h)
  \/ \E x \in Entry : DialFails(x) \/ DialSucceeds(x) \/ Expire(x)
  \/ \E d \in Editor : EditDrops(d) \/ \E h \in Host : EditHost(d, h)
  \/ \E h \in Host : ExchangeKeys(h) \/ CloseBrowse(h)
  \/ CloseAll

Spec == Init /\ [][Next]_vars

\* A handler that can go on does (strongly: the mutex starves nobody, and a
\* name for a new entry is never really short), a dial comes to an end (sshpty.Dial has its
\* time limits) and so does a listing (its request has).
Fairness ==
  /\ \A r \in Req : SF_vars(ReqStep(r))
  /\ \A x \in Entry : WF_vars(DialFails(x) \/ DialSucceeds(x))

FairSpec == Spec /\ Fairness

-----------------------------------------------------------------------------
(* Properties                                                              *)

\* A connection that is open, or that is being dialed and still wanted, is the
\* registered one of its host: there is one per host at most, and the timer,
\* the cap, drop and closeAll can reach it.
NoLeakedConnection ==
  \A x \in Entry : entry[x].conn = "open" \/ (entry[x].conn = "dialing" /\ ~entry[x].dropped)
    => entries[entry[x].host] = x

\* One user never holds more than browseMaxPerUser connections.
WithinCap == Cardinality(Registered) <= MaxPerUser

\* The counts of waiters and of calls in flight are exact, whatever way a
\* request leaves: too low and a dial is cancelled, or a connection expires,
\* under a request that needs it; too high and it never does.
CountsExact ==
  \A x \in Entry :
    /\ entry[x].waiters = Cardinality({r \in Req : req[r].entry = x /\ req[r].pc = "wait"})
    /\ entry[x].busy = Cardinality({r \in Req : req[r].entry = x
                                                /\ req[r].pc \in {"use", "release"}})

\* A dial nobody waits for has been told to stop (acquire: "the dial is
\* cancelled only when no waiter is left").
AbandonedDialCancelled ==
  \A x \in Entry : entry[x].conn = "dialing" /\ entry[x].waiters = 0 => entry[x].cancelled

\* Once closed, the cache holds no connection and no dial will leave one.
ClosedHoldsNothing ==
  closed => Registered = {} /\ \A x \in Entry : entry[x].conn # "open"

\* With no change of the host in flight, its cached connection was dialed from
\* the record as it is (dropHostBrowse: "Called whenever the host's address,
\* credentials or pinned key may have changed, or the host is gone").
ConnectionIsCurrent ==
  \A x \in Entry : entry[x].conn = "open" /\ (\A d \in Editor : editor[d] # entry[x].host)
    => ~entry[x].stale

\* Every request is answered (under FairSpec).
RequestsReturn == \A r \in Req : req[r].pc # "idle" ~> req[r].pc = "idle"

=============================================================================
