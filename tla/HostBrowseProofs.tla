-------------------------- MODULE HostBrowseProofs --------------------------
(***************************************************************************)
(* Proofs about HostBrowse, for any number of hosts, requests, changes and *)
(* connections, and any cap.                                               *)
(*                                                                         *)
(* The connections a user holds are the registered entries, because each   *)
(* entry is in one of three places: registered, and then it is dialing or  *)
(* open; dropped, and then its connection is closed or its dial is going   *)
(* to be thrown away; or done with (OneEntryPerHost, NothingElseIsLive).   *)
(* Entries are shared by requests through two counts, and an entry may     *)
(* only be forgotten when both are zero, so the counts are part of the     *)
(* argument (CountsExact).                                                 *)
(***************************************************************************)
EXTENDS HostBrowse, FiniteSetTheorems, TLAPS

Pcs == {"idle", "acquire", "wait", "use", "release"}
Entries ==
  [host: Host \cup {None}, stale: BOOLEAN, conn: {"none", "dialing", "open", "closed"},
   cancelled: BOOLEAN, err: {"no", "failed", "canceled", "closed"}, dropped: BOOLEAN,
   waiters: Nat, busy: Nat]
Requests ==
  [pc: Pcs, host: Host \cup {None}, stale: BOOLEAN, entry: Entry \cup {None}, retried: BOOLEAN]

Typed ==
  /\ hosts \subseteq Host
  /\ entries \in [Host -> Entry \cup {None}]
  /\ closed \in BOOLEAN
  /\ entry \in [Entry -> Entries]
  /\ req \in [Req -> Requests]
  /\ editor \in [Editor -> Host \cup {None}]

\* A request holds an entry from its acquire to its release.
RequestsHoldEntries ==
  \A r \in Req :
    /\ req[r].entry # None <=> req[r].pc \in {"wait", "use", "release"}
    /\ req[r].pc # "idle" => req[r].host \in Host

\* What the map of the cache holds.
OneEntryPerHost ==
  \A h \in Host : entries[h] # None =>
    /\ entry[entries[h]].host = h
    /\ ~entry[entries[h]].dropped
    /\ entry[entries[h]].conn \in {"dialing", "open"}

\* What it does not hold is neither open nor a dial that is still wanted.
NothingElseIsLive ==
  \A x \in Entry :
    /\ entry[x].conn = "open" => ~entry[x].dropped
    /\ entry[x].conn \in {"dialing", "open"} => entry[x].host \in Host
    /\ entry[x].conn \in {"dialing", "open"} /\ ~entry[x].dropped =>
         entries[entry[x].host] = x

Shape ==
  /\ RequestsHoldEntries /\ OneEntryPerHost /\ NothingElseIsLive
  /\ AbandonedDialCancelled /\ ClosedHoldsNothing

Inv == Typed /\ Shape /\ CountsExact /\ WithinCap

-----------------------------------------------------------------------------
\* The requests that an entry's two counts are about.
Waiting(x) == {r \in Req : req[r].entry = x /\ req[r].pc = "wait"}
Using(x) == {r \in Req : req[r].entry = x /\ req[r].pc \in {"use", "release"}}

\* What is left of an entry e when the garbage has been collected.
Kept(e, f) == f = e \/ (f = NoEntry /\ e.conn = "closed" /\ e.waiters = 0 /\ e.busy = 0)

LEMMA EntryEdits ==
  ASSUME NEW e \in Entries, NEW n \in Nat, NEW m \in Nat, NEW b \in BOOLEAN,
         NEW i \in {"no", "failed", "canceled", "closed"}
  PROVE  /\ [e EXCEPT !.waiters = n] \in Entries
         /\ [e EXCEPT !.busy = m] \in Entries
         /\ [e EXCEPT !.waiters = n, !.busy = m] \in Entries
         /\ [e EXCEPT !.waiters = n, !.cancelled = b] \in Entries
         /\ [e EXCEPT !.stale = b] \in Entries
         /\ [e EXCEPT !.dropped = TRUE, !.cancelled = TRUE] \in Entries
         /\ [e EXCEPT !.dropped = TRUE, !.conn = "closed"] \in Entries
         /\ [e EXCEPT !.conn = "closed", !.err = i] \in Entries
         /\ [e EXCEPT !.conn = "open"] \in Entries
  BY DEF Entries

LEMMA NoEntryIsEntry == NoEntry \in Entries
  BY DEF NoEntry, Entries

LEMMA Collecting ==
  ASSUME NEW f \in [Entry -> Entries]
  PROVE  /\ Collected(f) \in [Entry -> Entries]
         /\ \A x \in Entry : Kept(f[x], Collected(f)[x])
  BY NoEntryIsEntry DEF Collected, Kept

\* A removed entry is dropped, and closed unless it is a dial that is cancelled.
LEMMA Removing ==
  ASSUME NEW X, entry \in [Entry -> Entries]
  PROVE  /\ Removed(X) \in [Entry -> Entries]
         /\ \A x \in Entry :
              IF x \notin X \/ entry[x].dropped THEN Kept(entry[x], Removed(X)[x])
              ELSE IF entry[x].conn = "dialing"
              THEN Kept([entry[x] EXCEPT !.dropped = TRUE, !.cancelled = TRUE], Removed(X)[x])
              ELSE Kept([entry[x] EXCEPT !.dropped = TRUE, !.conn = "closed"], Removed(X)[x])
<1> DEFINE g == [x \in Entry |->
      IF x \notin X \/ entry[x].dropped THEN entry[x]
      ELSE IF entry[x].conn = "dialing"
      THEN [entry[x] EXCEPT !.dropped = TRUE, !.cancelled = TRUE]
      ELSE [entry[x] EXCEPT !.dropped = TRUE, !.conn = "closed"]]
<1>1. \A x \in Entry : g[x] \in Entries
  <2> SUFFICES ASSUME NEW x \in Entry PROVE g[x] \in Entries OBVIOUS
  <2> QED BY EntryEdits
<1>2. g \in [Entry -> Entries] BY <1>1
<1>3. Removed(X) = Collected(g) BY DEF Removed
<1> HIDE DEF g
<1>4. \A x \in Entry : Kept(g[x], Removed(X)[x]) BY <1>2, <1>3, Collecting
<1>5. Removed(X) \in [Entry -> Entries] BY <1>2, <1>3, Collecting
<1> QED BY <1>4, <1>5 DEF g

LEMMA RequestEdits ==
  /\ Idle \in Requests
  /\ \A h \in Host : [Idle EXCEPT !.pc = "acquire", !.host = h] \in Requests
  /\ \A q \in Requests :
       /\ [q EXCEPT !.pc = "use", !.stale = FALSE] \in Requests
       /\ [q EXCEPT !.pc = "release"] \in Requests
       /\ [q EXCEPT !.pc = "acquire", !.entry = None, !.retried = TRUE] \in Requests
       /\ \A x \in Entry : [q EXCEPT !.pc = "wait", !.entry = x] \in Requests
  BY DEF Requests, Idle, Pcs

LEMMA UnregisteredType ==
  ASSUME NEW X, entries \in [Host -> Entry \cup {None}]
  PROVE  Unregistered(X) \in [Host -> Entry \cup {None}]
  BY DEF Unregistered

LEMMA SetsOfRequests ==
  ASSUME NEW S \in SUBSET Req, NEW r
  PROVE  /\ IsFiniteSet(S) /\ Cardinality(S) \in Nat
         /\ r \notin S => Cardinality(S \cup {r}) = Cardinality(S) + 1
         /\ r \in S => Cardinality(S \ {r}) = Cardinality(S) - 1 /\ Cardinality(S) >= 1
<1>1. IsFiniteSet(S) BY FiniteAssumption, FS_Subset
<1>2. Cardinality(S) \in Nat BY <1>1, FS_CardinalityType
<1>3. r \notin S => Cardinality(S \cup {r}) = Cardinality(S) + 1 BY <1>1, FS_AddElement
<1>4. ASSUME r \in S PROVE Cardinality(S \ {r}) = Cardinality(S) - 1 /\ Cardinality(S) >= 1
  <2>1. Cardinality(S \ {r}) = Cardinality(S) - 1 BY <1>1, <1>4, FS_RemoveElement
  <2>2. Cardinality(S) # 0 BY <1>1, <1>4, FS_EmptySet
  <2> QED BY <2>1, <2>2, <1>2
<1> QED BY <1>1, <1>2, <1>3, <1>4

\* A request that holds an entry is counted in it.
LEMMA HeldIsCounted ==
  ASSUME Typed, RequestsHoldEntries, CountsExact, NEW r \in Req
  PROVE  /\ req[r].pc \in {"wait", "use", "release"} => req[r].entry \in Entry
         /\ req[r].pc = "wait" => entry[req[r].entry].waiters >= 1
         /\ req[r].pc \in {"use", "release"} => entry[req[r].entry].busy >= 1
<1> DEFINE x == req[r].entry
<1>1. req[r].pc \in {"wait", "use", "release"} => x \in Entry
  BY DEF Typed, Requests, RequestsHoldEntries
<1>2. ASSUME req[r].pc = "wait" PROVE entry[x].waiters >= 1
  <2>1. x \in Entry /\ r \in Waiting(x) BY <1>1, <1>2 DEF Waiting
  <2>2. Waiting(x) \in SUBSET Req BY DEF Waiting
  <2>3. Cardinality(Waiting(x)) >= 1 BY <2>1, <2>2, SetsOfRequests
  <2>4. entry[x].waiters = Cardinality(Waiting(x)) BY <2>1 DEF CountsExact, Waiting
  <2> QED BY <2>3, <2>4
<1>3. ASSUME req[r].pc \in {"use", "release"} PROVE entry[x].busy >= 1
  <2>1. x \in Entry /\ r \in Using(x) BY <1>1, <1>3 DEF Using
  <2>2. Using(x) \in SUBSET Req BY DEF Using
  <2>3. Cardinality(Using(x)) >= 1 BY <2>1, <2>2, SetsOfRequests
  <2>4. entry[x].busy = Cardinality(Using(x)) BY <2>1 DEF CountsExact, Using
  <2> QED BY <2>3, <2>4
<1> QED BY <1>1, <1>2, <1>3

-----------------------------------------------------------------------------
\* One step replaces a function at one place.
LEMMA Replaced ==
  ASSUME NEW D, NEW R, NEW f \in [D -> R], NEW d \in D, NEW v \in R
  PROVE  [f EXCEPT ![d] = v] \in [D -> R]
  OBVIOUS

LEMMA TypedInit == Init => Typed
<1> SUFFICES ASSUME Init PROVE Typed OBVIOUS
<1>1. entry \in [Entry -> Entries] BY NoEntryIsEntry DEF Init
<1>2. req \in [Req -> Requests] BY RequestEdits DEF Init
<1> QED BY <1>1, <1>2 DEF Init, Typed

LEMMA TypedNext == Typed /\ RequestsHoldEntries /\ CountsExact /\ [Next]_vars => Typed'
<1> SUFFICES ASSUME Typed, RequestsHoldEntries, CountsExact, [Next]_vars PROVE Typed' OBVIOUS
<1>t. /\ hosts \subseteq Host /\ entries \in [Host -> Entry \cup {None}] /\ closed \in BOOLEAN
      /\ entry \in [Entry -> Entries] /\ req \in [Req -> Requests]
      /\ editor \in [Editor -> Host \cup {None}]
  BY DEF Typed
<1>h. /\ \A r \in Req : req[r].pc # "idle" => req[r].host \in Host
      /\ \A r \in Req : req[r].pc \in {"wait", "use", "release"} => req[r].entry \in Entry
      /\ \A r \in Req : req[r].pc = "wait" => entry[req[r].entry].waiters >= 1
      /\ \A r \in Req : req[r].pc \in {"use", "release"} => entry[req[r].entry].busy >= 1
  BY HeldIsCounted DEF RequestsHoldEntries
<1>n. \A x \in Entry : entry[x].waiters \in Nat /\ entry[x].busy \in Nat BY <1>t DEF Entries
<1>1. ASSUME NEW r \in Req, AcquireRefused(r) PROVE Typed'
  BY <1>1, <1>t, RequestEdits, Replaced DEF AcquireRefused, Typed
<1>2. ASSUME NEW r \in Req, AcquireJoins(r) PROVE Typed'
  <2> DEFINE x == entries[req[r].host]
  <2>1. x \in Entry /\ entry[x].waiters + 1 \in Nat BY <1>2, <1>t, <1>h, <1>n DEF AcquireJoins
  <2>2. [entry[x] EXCEPT !.waiters = entry[x].waiters + 1] \in Entries
    BY <1>t, <2>1, EntryEdits
  <2>3. entry' \in [Entry -> Entries] BY <1>2, <1>t, <2>1, <2>2, Replaced DEF AcquireJoins
  <2>4. req' \in [Req -> Requests]
    <3>1. req' = [req EXCEPT ![r] = [req[r] EXCEPT !.pc = "wait", !.entry = x]]
      BY <1>2 DEF AcquireJoins
    <3>2. [req[r] EXCEPT !.pc = "wait", !.entry = x] \in Requests
      BY <1>t, <2>1, RequestEdits
    <3> QED BY <1>t, <3>1, <3>2, Replaced
  <2> QED BY <1>2, <1>t, <2>3, <2>4 DEF AcquireJoins, Typed
<1>3. ASSUME NEW r \in Req, AcquireDials(r) PROVE Typed'
  <2>1. PICK x \in Entry, E \in Evicted :
          /\ entries' = [Unregistered(E) EXCEPT ![req[r].host] = x]
          /\ entry' = [Removed(E) EXCEPT ![x] =
               [NoEntry EXCEPT !.host = req[r].host, !.stale = req[r].stale,
                               !.conn = "dialing", !.waiters = 1]]
          /\ req' = [req EXCEPT ![r] = [req[r] EXCEPT !.pc = "wait", !.entry = x]]
    BY <1>3 DEF AcquireDials
  <2>2. req[r].host \in Host /\ req[r].stale \in BOOLEAN
    BY <1>3, <1>t, <1>h DEF AcquireDials, Requests
  <2>3. entries' \in [Host -> Entry \cup {None}]
    BY <1>t, <2>1, <2>2, UnregisteredType, Replaced
  <2>4. [NoEntry EXCEPT !.host = req[r].host, !.stale = req[r].stale,
                        !.conn = "dialing", !.waiters = 1] \in Entries
    BY <2>2 DEF NoEntry, Entries
  <2>5. entry' \in [Entry -> Entries] BY <1>t, <2>1, <2>4, Removing, Replaced
  <2>6. req' \in [Req -> Requests]
    <3>1. [req[r] EXCEPT !.pc = "wait", !.entry = x] \in Requests BY <1>t, RequestEdits
    <3> QED BY <1>t, <2>1, <3>1, Replaced
  <2> QED BY <1>3, <1>t, <2>3, <2>5, <2>6 DEF AcquireDials, Typed
<1>4. ASSUME NEW r \in Req, WaitCancelled(r) PROVE Typed'
  <2> DEFINE x == req[r].entry
             c == entry[x].cancelled \/ LeftBehind(x)
  <2>1. x \in Entry /\ entry[x].waiters - 1 \in Nat BY <1>4, <1>h, <1>n DEF WaitCancelled
  <2>2. c \in BOOLEAN BY <1>t, <2>1 DEF LeftBehind, Entries
  <2>3. [entry[x] EXCEPT !.waiters = entry[x].waiters - 1, !.cancelled = c] \in Entries
    BY <1>t, <2>1, <2>2, EntryEdits
  <2>4. entry' = Collected([entry EXCEPT ![x] =
                   [entry[x] EXCEPT !.waiters = entry[x].waiters - 1, !.cancelled = c]])
    BY <1>4 DEF WaitCancelled
  <2> HIDE DEF x, c
  <2>5. entry' \in [Entry -> Entries] BY <1>t, <2>1, <2>3, <2>4, Replaced, Collecting
  <2> QED BY <1>4, <1>t, <2>5, RequestEdits, Replaced DEF WaitCancelled, Typed
<1>5. ASSUME NEW r \in Req, WaitSucceeds(r) PROVE Typed'
  <2> DEFINE x == req[r].entry
  <2>1. x \in Entry /\ entry[x].waiters - 1 \in Nat /\ entry[x].busy + 1 \in Nat
    BY <1>5, <1>h, <1>n DEF WaitSucceeds
  <2>2. [entry[x] EXCEPT !.waiters = entry[x].waiters - 1, !.busy = entry[x].busy + 1] \in Entries
    BY <1>t, <2>1, EntryEdits
  <2>3. entry' = [entry EXCEPT ![x] =
          [entry[x] EXCEPT !.waiters = entry[x].waiters - 1, !.busy = entry[x].busy + 1]]
    BY <1>5 DEF WaitSucceeds
  <2>4. req' \in [Req -> Requests]
    <3>1. [req[r] EXCEPT !.pc = "use", !.stale = FALSE] \in Requests BY <1>t, RequestEdits
    <3> QED BY <1>5, <1>t, <3>1, Replaced DEF WaitSucceeds
  <2> HIDE DEF x
  <2>5. entry' \in [Entry -> Entries] BY <1>t, <2>1, <2>2, <2>3, Replaced
  <2> QED BY <1>5, <1>t, <2>4, <2>5 DEF WaitSucceeds, Typed
<1>6. ASSUME NEW r \in Req, WaitFails(r) PROVE Typed'
  <2> DEFINE x == req[r].entry
  <2>1. x \in Entry /\ entry[x].waiters - 1 \in Nat BY <1>6, <1>h, <1>n DEF WaitFails
  <2>2. [entry[x] EXCEPT !.waiters = entry[x].waiters - 1] \in Entries
    BY <1>t, <2>1, EntryEdits
  <2>3. entry' = Collected([entry EXCEPT ![x] =
                   [entry[x] EXCEPT !.waiters = entry[x].waiters - 1]])
    BY <1>6 DEF WaitFails
  <2>4. req' \in [Req -> Requests]
    <3>1. /\ Idle \in Requests
          /\ [req[r] EXCEPT !.pc = "acquire", !.entry = None, !.retried = TRUE] \in Requests
      BY <1>t, <1>6, <2>1, RequestEdits, <1>h DEF WaitFails
    <3> QED BY <1>6, <1>t, <3>1, Replaced DEF WaitFails
  <2> HIDE DEF x
  <2>5. entry' \in [Entry -> Entries] BY <1>t, <2>1, <2>2, <2>3, Replaced, Collecting
  <2> QED BY <1>6, <1>t, <2>4, <2>5 DEF WaitFails, Typed
<1>7. ASSUME NEW r \in Req, Release(r) PROVE Typed'
  <2> DEFINE x == req[r].entry
  <2>1. x \in Entry /\ entry[x].busy - 1 \in Nat BY <1>7, <1>h, <1>n DEF Release
  <2>2. [entry[x] EXCEPT !.busy = entry[x].busy - 1] \in Entries
    BY <1>t, <2>1, EntryEdits
  <2>3. entry' = Collected([entry EXCEPT ![x] = [entry[x] EXCEPT !.busy = entry[x].busy - 1]])
    BY <1>7 DEF Release, Released
  <2> HIDE DEF x
  <2>5. entry' \in [Entry -> Entries] BY <1>t, <2>1, <2>2, <2>3, Replaced, Collecting
  <2> QED BY <1>7, <1>t, <2>5, RequestEdits, Replaced DEF Release, Typed
<1>8. ASSUME NEW r \in Req, UseDrops(r) PROVE Typed'
  <2>1. req' \in [Req -> Requests]
    <3>1. [req[r] EXCEPT !.pc = "release"] \in Requests BY <1>t, RequestEdits
    <3> QED BY <1>8, <1>t, <3>1, Replaced DEF UseDrops
  <2> QED BY <1>8, <1>t, <2>1, Removing, UnregisteredType DEF UseDrops, Typed
<1>9. ASSUME NEW r \in Req, NEW h \in Host, ReqBegin(r, h) PROVE Typed'
  BY <1>9, <1>t, <1>h, RequestEdits, Replaced DEF ReqBegin, Typed
<1>10. ASSUME NEW x \in Entry, DialFails(x) PROVE Typed'
  <2>1. PICK e \in {"failed", "canceled"} :
          entry' = Collected([entry EXCEPT ![x] =
                     [entry[x] EXCEPT !.conn = "closed", !.err = e]])
    BY <1>10 DEF DialFails
  <2>2. [entry[x] EXCEPT !.conn = "closed", !.err = e] \in Entries BY <1>t, EntryEdits
  <2>3. entry' \in [Entry -> Entries] BY <1>t, <2>1, <2>2, Replaced, Collecting
  <2> QED BY <1>10, <1>t, <2>3, UnregisteredType DEF DialFails, Typed
<1>11. ASSUME NEW x \in Entry, DialSucceeds(x) PROVE Typed'
  <2>1. PICK o \in Entries : entry' = Collected([entry EXCEPT ![x] = o])
    BY <1>11, <1>t, EntryEdits DEF DialSucceeds
  <2>3. entry' \in [Entry -> Entries] BY <1>t, <2>1, Replaced, Collecting
  <2> QED BY <1>11, <1>t, <2>3 DEF DialSucceeds, Typed
<1>12. ASSUME NEW x \in Entry, Expire(x) PROVE Typed'
  BY <1>12, <1>t, Removing, UnregisteredType DEF Expire, Typed
<1>13. CASE CloseAll BY <1>13, <1>t, Removing DEF CloseAll, Typed
<1>d. ASSUME NEW h \in Host, Drop(h)
      PROVE entry' \in [Entry -> Entries] /\ entries' \in [Host -> Entry \cup {None}]
  BY <1>d, <1>t, Removing, Replaced DEF Drop
<1>c. ASSUME NEW h \in Host, Changed(h)
      PROVE entry' \in [Entry -> Entries] /\ req' \in [Req -> Requests]
  <2>1. \A x \in Entry : [entry[x] EXCEPT !.stale =
          entry[x].stale \/ (entry[x].host = h /\ ~entry[x].dropped)] \in Entries
    <3> SUFFICES ASSUME NEW x \in Entry
                 PROVE  [entry[x] EXCEPT !.stale =
                          entry[x].stale \/ (entry[x].host = h /\ ~entry[x].dropped)] \in Entries
      OBVIOUS
    <3> DEFINE b == entry[x].stale \/ (entry[x].host = h /\ ~entry[x].dropped)
    <3>1. b \in BOOLEAN BY <1>t DEF Entries
    <3>2. entry[x] \in Entries BY <1>t
    <3> HIDE DEF b
    <3>3. [entry[x] EXCEPT !.stale = b] \in Entries BY <3>1, <3>2, EntryEdits
    <3> QED BY <3>3 DEF b
  <2>2. \A r \in Req : [req[r] EXCEPT !.stale =
          req[r].stale \/ (req[r].pc \in {"acquire", "wait"} /\ req[r].host = h)] \in Requests
    BY <1>t DEF Requests
  <2> QED BY <1>c, <2>1, <2>2 DEF Changed
<1>14. ASSUME NEW d \in Editor, EditDrops(d) PROVE Typed'
  <2>1. editor[d] \in Host BY <1>14, <1>t DEF EditDrops
  <2> QED BY <1>14, <1>t, <1>d, <2>1 DEF EditDrops, Typed
<1>15. ASSUME NEW d \in Editor, NEW h \in Host, EditHost(d, h) PROVE Typed'
  BY <1>15, <1>t, <1>c DEF EditHost, Typed
<1>16. ASSUME NEW h \in Host, ExchangeKeys(h) PROVE Typed'
  BY <1>16, <1>t, <1>c DEF ExchangeKeys, Typed
<1>17. ASSUME NEW h \in Host, CloseBrowse(h) PROVE Typed'
  BY <1>17, <1>t, <1>d DEF CloseBrowse, Typed
<1>18. CASE UNCHANGED vars BY <1>18, <1>t DEF vars, Typed
<1> QED
  BY <1>1, <1>2, <1>3, <1>4, <1>5, <1>6, <1>7, <1>8, <1>9, <1>10, <1>11, <1>12, <1>13,
     <1>14, <1>15, <1>16, <1>17, <1>18 DEF Next, ReqStep

-----------------------------------------------------------------------------
\* The counts of an entry and the requests they are about, side by side.
Exact(x) ==
  /\ entry[x].waiters = Cardinality(Waiting(x))
  /\ entry[x].busy = Cardinality(Using(x))

LEMMA CountsExactIsExact == CountsExact <=> \A x \in Entry : Exact(x)
  BY DEF CountsExact, Exact, Waiting, Using

LEMMA KeptCounts ==
  ASSUME NEW e, NEW f, Kept(e, f)
  PROVE  f.waiters = e.waiters /\ f.busy = e.busy
  BY DEF Kept, NoEntry

\* Nothing an entry's counts are about has moved.
LEMMA ExactKept ==
  ASSUME NEW x \in Entry, Exact(x), Waiting(x)' = Waiting(x), Using(x)' = Using(x),
         entry'[x].waiters = entry[x].waiters, entry'[x].busy = entry[x].busy
  PROVE  Exact(x)'
  BY DEF Exact

LEMMA CountsNext == Typed /\ RequestsHoldEntries /\ CountsExact /\ [Next]_vars => CountsExact'
<1> SUFFICES ASSUME Typed, RequestsHoldEntries, CountsExact, [Next]_vars,
                    NEW x \in Entry
             PROVE  Exact(x)'
  BY DEF CountsExact, Exact, Waiting, Using
<1>t. /\ entry \in [Entry -> Entries] /\ req \in [Req -> Requests]
      /\ \A r \in Req : req[r].pc \in Pcs
  BY DEF Typed, Requests
<1>e. Exact(x) BY CountsExactIsExact
<1>h. \A r \in Req : /\ req[r].entry # None <=> req[r].pc \in {"wait", "use", "release"}
                     /\ req[r].pc \in {"wait", "use", "release"} => req[r].entry \in Entry
  BY HeldIsCounted DEF RequestsHoldEntries
<1>n. /\ Waiting(x) \in SUBSET Req /\ Using(x) \in SUBSET Req
      /\ Cardinality(Waiting(x)) \in Nat /\ Cardinality(Using(x)) \in Nat
  BY SetsOfRequests DEF Waiting, Using
<1>k. \A f \in [Entry -> Entries] : entry' = Collected(f) =>
        entry'[x].waiters = f[x].waiters /\ entry'[x].busy = f[x].busy
  BY Collecting, KeptCounts
<1>r. ASSUME NEW X
      PROVE  Removed(X)[x].waiters = entry[x].waiters /\ Removed(X)[x].busy = entry[x].busy
  <2> DEFINE g == IF x \notin X \/ entry[x].dropped THEN entry[x]
                  ELSE IF entry[x].conn = "dialing"
                  THEN [entry[x] EXCEPT !.dropped = TRUE, !.cancelled = TRUE]
                  ELSE [entry[x] EXCEPT !.dropped = TRUE, !.conn = "closed"]
  <2>1. Kept(g, Removed(X)[x]) BY <1>t, Removing
  <2>2. entry[x] \in Entries BY <1>t
  <2>3. g.waiters = entry[x].waiters /\ g.busy = entry[x].busy BY <2>2 DEF Entries
  <2> HIDE DEF g
  <2> QED BY <2>1, <2>3, KeptCounts
<1>1. ASSUME NEW r \in Req, AcquireRefused(r) PROVE Exact(x)'
  <2>1. Waiting(x)' = Waiting(x) /\ Using(x)' = Using(x)
    BY <1>1, <1>t DEF AcquireRefused, Waiting, Using, Idle
  <2> QED BY <1>1, <1>e, <2>1, ExactKept DEF AcquireRefused
<1>2. ASSUME NEW r \in Req, AcquireJoins(r) PROVE Exact(x)'
  <2>1. r \notin Waiting(x) BY <1>2 DEF AcquireJoins, Waiting
  <2>2. Using(x)' = Using(x) BY <1>2, <1>t DEF AcquireJoins, Using
  <2>3. CASE x = entries[req[r].host]
    <3>1. Waiting(x)' = Waiting(x) \cup {r} BY <1>2, <1>t, <2>3 DEF AcquireJoins, Waiting
    <3>2. Cardinality(Waiting(x)') = Cardinality(Waiting(x)) + 1
      BY <1>n, <2>1, <3>1, SetsOfRequests
    <3>3. entry'[x].waiters = entry[x].waiters + 1 /\ entry'[x].busy = entry[x].busy
      BY <1>2, <1>t, <2>3 DEF AcquireJoins, Entries
    <3> QED BY <1>e, <2>2, <3>2, <3>3 DEF Exact
  <2>4. CASE x # entries[req[r].host]
    <3>1. Waiting(x)' = Waiting(x) BY <1>2, <1>t, <1>h, <2>4 DEF AcquireJoins, Waiting
    <3>2. entry'[x] = entry[x] BY <1>2, <1>t, <2>4 DEF AcquireJoins
    <3> QED BY <1>e, <2>2, <3>1, <3>2, ExactKept
  <2> QED BY <2>3, <2>4
<1>3. ASSUME NEW r \in Req, AcquireDials(r) PROVE Exact(x)'
  <2>1. PICK y \in Entry, E \in Evicted :
          /\ Free(y)
          /\ entry' = [Removed(E) EXCEPT ![y] =
               [NoEntry EXCEPT !.host = req[r].host, !.stale = req[r].stale,
                               !.conn = "dialing", !.waiters = 1]]
          /\ req' = [req EXCEPT ![r] = [req[r] EXCEPT !.pc = "wait", !.entry = y]]
    BY <1>3 DEF AcquireDials
  <2>2. req[r].pc = "acquire" BY <1>3 DEF AcquireDials
  <2>3. r \notin Waiting(x) /\ r \notin Using(x) BY <2>2 DEF Waiting, Using
  <2>4. Using(x)' = Using(x) BY <1>t, <2>1, <2>2 DEF Using
  <2>5. Removed(E) \in [Entry -> Entries] BY <1>t, Removing
  <2>6. CASE x = y
    <3>1. Waiting(x)' = Waiting(x) \cup {r} BY <1>t, <2>1, <2>6 DEF Waiting
    <3>2. Cardinality(Waiting(x)') = Cardinality(Waiting(x)) + 1
      BY <1>n, <2>3, <3>1, SetsOfRequests
    <3>3. entry[x].waiters = 0 /\ entry[x].busy = 0 BY <2>1, <2>6 DEF Free, NoEntry
    <3>4. entry'[x].waiters = 1 /\ entry'[x].busy = 0 BY <2>1, <2>5, <2>6 DEF NoEntry
    <3> QED BY <1>e, <2>4, <3>2, <3>3, <3>4 DEF Exact
  <2>7. CASE x # y
    <3>1. Waiting(x)' = Waiting(x) BY <1>t, <2>1, <2>2, <2>7 DEF Waiting
    <3>2. entry'[x] = Removed(E)[x] BY <2>1, <2>5, <2>7
    <3> QED BY <1>e, <1>r, <2>4, <3>1, <3>2, ExactKept
  <2> QED BY <2>6, <2>7
\* The request leaves the entry it waits for.
<1>w. ASSUME NEW r \in Req, req[r].pc = "wait", NEW q \in Requests,
             q.pc \in {"idle", "acquire"},
             req' = [req EXCEPT ![r] = q], NEW f \in [Entry -> Entries],
             entry' = Collected(f),
             f[x].busy = entry[x].busy,
             f[x].waiters = IF x = req[r].entry THEN entry[x].waiters - 1 ELSE entry[x].waiters
      PROVE  Exact(x)'
  <2>1. entry'[x].waiters = f[x].waiters /\ entry'[x].busy = f[x].busy BY <1>w, <1>k
  <2>2. Using(x)' = Using(x) BY <1>t, <1>w DEF Using
  <2>3. CASE x = req[r].entry
    <3>1. Waiting(x)' = Waiting(x) \ {r} /\ r \in Waiting(x) BY <1>t, <1>w, <2>3 DEF Waiting
    <3>2. Cardinality(Waiting(x)') = Cardinality(Waiting(x)) - 1
      BY <1>n, <3>1, SetsOfRequests
    <3> QED BY <1>e, <1>w, <2>1, <2>2, <2>3, <3>2 DEF Exact
  <2>4. CASE x # req[r].entry
    <3>1. Waiting(x)' = Waiting(x) BY <1>t, <1>w, <2>4 DEF Waiting
    <3> QED BY <1>e, <1>w, <2>1, <2>2, <2>4, <3>1, ExactKept
  <2> QED BY <2>3, <2>4
<1>4. ASSUME NEW r \in Req, WaitCancelled(r) PROVE Exact(x)'
  <2> DEFINE y == req[r].entry
             c == entry[y].cancelled \/ LeftBehind(y)
             o == [entry[y] EXCEPT !.waiters = entry[y].waiters - 1, !.cancelled = c]
             f == [entry EXCEPT ![y] = o]
  <2>1. y \in Entry /\ entry[y].waiters >= 1 /\ entry[y].waiters - 1 \in Nat
    BY <1>4, <1>t, HeldIsCounted DEF WaitCancelled, Entries
  <2>2. o \in Entries
    <3>1. c \in BOOLEAN BY <1>t, <2>1 DEF Entries, LeftBehind
    <3> HIDE DEF c
    <3> QED BY <1>t, <2>1, <3>1, EntryEdits
  <2>3. f \in [Entry -> Entries] BY <1>t, <2>1, <2>2, Replaced
  <2>4. entry' = Collected(f) BY <1>4 DEF WaitCancelled
  <2>5. /\ f[x].busy = entry[x].busy
        /\ f[x].waiters = IF x = y THEN entry[x].waiters - 1 ELSE entry[x].waiters
    BY <1>t, <2>1 DEF Entries
  <2>6. Idle \in Requests /\ Idle.pc = "idle" BY RequestEdits DEF Idle
  <2>7. req[r].pc = "wait" /\ req' = [req EXCEPT ![r] = Idle] BY <1>4 DEF WaitCancelled
  <2> HIDE DEF f
  <2> QED BY <1>w, <2>3, <2>4, <2>5, <2>6, <2>7
<1>5. ASSUME NEW r \in Req, WaitSucceeds(r) PROVE Exact(x)'
  <2>1. req[r].pc = "wait" /\ req[r].entry \in Entry
    BY <1>5, <1>h DEF WaitSucceeds
  <2>2. CASE x = req[r].entry
    <3>1. /\ Waiting(x)' = Waiting(x) \ {r} /\ r \in Waiting(x)
          /\ Using(x)' = Using(x) \cup {r} /\ r \notin Using(x)
      BY <1>5, <1>t, <2>1, <2>2 DEF WaitSucceeds, Waiting, Using
    <3>2. /\ Cardinality(Waiting(x)') = Cardinality(Waiting(x)) - 1
          /\ Cardinality(Using(x)') = Cardinality(Using(x)) + 1
      BY <1>n, <3>1, SetsOfRequests
    <3>3. /\ entry'[x].waiters = entry[x].waiters - 1
          /\ entry'[x].busy = entry[x].busy + 1
      BY <1>5, <1>t, <2>2 DEF WaitSucceeds, Entries
    <3> QED BY <1>e, <3>2, <3>3 DEF Exact
  <2>3. CASE x # req[r].entry
    <3>1. Waiting(x)' = Waiting(x) /\ Using(x)' = Using(x)
      BY <1>5, <1>t, <2>1, <2>3 DEF WaitSucceeds, Waiting, Using
    <3>2. entry'[x] = entry[x] BY <1>5, <1>t, <2>3 DEF WaitSucceeds
    <3> QED BY <1>e, <3>1, <3>2, ExactKept
  <2> QED BY <2>2, <2>3
<1>6. ASSUME NEW r \in Req, WaitFails(r) PROVE Exact(x)'
  <2> DEFINE y == req[r].entry
             f == [entry EXCEPT ![y] = [entry[y] EXCEPT !.waiters = entry[y].waiters - 1]]
  <2>1. y \in Entry /\ entry[y].waiters >= 1 /\ entry[y].waiters - 1 \in Nat
    BY <1>6, <1>t, HeldIsCounted DEF WaitFails, Entries
  <2>2. [entry[y] EXCEPT !.waiters = entry[y].waiters - 1] \in Entries
    BY <1>t, <2>1 DEF Entries
  <2>3. f \in [Entry -> Entries] BY <1>t, <2>1, <2>2, Replaced
  <2>4. entry' = Collected(f) BY <1>6 DEF WaitFails
  <2>5. /\ f[x].busy = entry[x].busy
        /\ f[x].waiters = IF x = y THEN entry[x].waiters - 1 ELSE entry[x].waiters
    BY <1>t, <2>1 DEF Entries
  <2>6. PICK q \in {Idle, [req[r] EXCEPT !.pc = "acquire", !.entry = None, !.retried = TRUE]} :
          req' = [req EXCEPT ![r] = q]
    BY <1>6 DEF WaitFails
  <2>7. req[r].pc = "wait" BY <1>6 DEF WaitFails
  <2>8. q \in Requests /\ q.pc \in {"idle", "acquire"}
    <3>1. req[r] \in Requests BY <1>t
    <3>2. q \in Requests BY <3>1, RequestEdits
    <3>3. Idle.pc = "idle" BY DEF Idle
    <3>4. [req[r] EXCEPT !.pc = "acquire", !.entry = None, !.retried = TRUE].pc = "acquire"
      BY <3>1 DEF Requests
    <3> QED BY <3>2, <3>3, <3>4
  <2> HIDE DEF f
  <2> QED BY <1>w, <2>3, <2>4, <2>5, <2>6, <2>7, <2>8
<1>7. ASSUME NEW r \in Req, Release(r) PROVE Exact(x)'
  <2> DEFINE y == req[r].entry
             f == [entry EXCEPT ![y] = [entry[y] EXCEPT !.busy = entry[y].busy - 1]]
  <2>1. y \in Entry /\ entry[y].busy >= 1 /\ entry[y].busy - 1 \in Nat
    BY <1>7, <1>t, HeldIsCounted DEF Release, Entries
  <2>2. [entry[y] EXCEPT !.busy = entry[y].busy - 1] \in Entries
    BY <1>t, <2>1 DEF Entries
  <2>3. f \in [Entry -> Entries] BY <1>t, <2>1, <2>2, Replaced
  <2>4. entry' = Collected(f) BY <1>7 DEF Release, Released
  <2>5. /\ f[x].waiters = entry[x].waiters
        /\ f[x].busy = IF x = y THEN entry[x].busy - 1 ELSE entry[x].busy
    BY <1>t, <2>1 DEF Entries
  <2> HIDE DEF f
  <2>6. entry'[x].waiters = f[x].waiters /\ entry'[x].busy = f[x].busy BY <2>3, <2>4, <1>k
  <2>7. Waiting(x)' = Waiting(x) BY <1>7, <1>t DEF Release, Waiting, Idle
  <2>8. CASE x = y
    <3>1. Using(x)' = Using(x) \ {r} /\ r \in Using(x)
      BY <1>7, <1>t, <2>8 DEF Release, Using, Idle
    <3>2. Cardinality(Using(x)') = Cardinality(Using(x)) - 1
      BY <1>n, <3>1, SetsOfRequests
    <3> QED BY <1>e, <2>5, <2>6, <2>7, <2>8, <3>2 DEF Exact
  <2>9. CASE x # y
    <3>1. Using(x)' = Using(x) BY <1>7, <1>t, <2>9 DEF Release, Using, Idle
    <3> QED BY <1>e, <2>5, <2>6, <2>7, <2>9, <3>1, ExactKept
  <2> QED BY <2>8, <2>9
<1>8. ASSUME NEW r \in Req, UseDrops(r) PROVE Exact(x)'
  <2>1. Waiting(x)' = Waiting(x) /\ Using(x)' = Using(x)
    BY <1>8, <1>t DEF UseDrops, Waiting, Using, Requests
  <2> QED BY <1>8, <1>e, <1>r, <2>1, ExactKept DEF UseDrops
<1>9. ASSUME NEW r \in Req, NEW h \in Host, ReqBegin(r, h) PROVE Exact(x)'
  <2>1. Waiting(x)' = Waiting(x) /\ Using(x)' = Using(x)
    BY <1>9, <1>t DEF ReqBegin, Waiting, Using, Idle
  <2> QED BY <1>9, <1>e, <2>1, ExactKept DEF ReqBegin
\* No request moves.
<1>s. ASSUME UNCHANGED req, entry'[x].waiters = entry[x].waiters,
             entry'[x].busy = entry[x].busy
      PROVE  Exact(x)'
  BY <1>e, <1>s, ExactKept DEF Waiting, Using
<1>10. ASSUME NEW y \in Entry, DialFails(y) PROVE Exact(x)'
  <2>1. PICK i \in {"failed", "canceled"} :
          entry' = Collected([entry EXCEPT ![y] =
                     [entry[y] EXCEPT !.conn = "closed", !.err = i]])
    BY <1>10 DEF DialFails
  <2> DEFINE f == [entry EXCEPT ![y] = [entry[y] EXCEPT !.conn = "closed", !.err = i]]
  <2>2. [entry[y] EXCEPT !.conn = "closed", !.err = i] \in Entries BY <1>t, EntryEdits
  <2>3. f \in [Entry -> Entries] BY <1>t, <2>2, Replaced
  <2>4. f[x].waiters = entry[x].waiters /\ f[x].busy = entry[x].busy BY <1>t DEF Entries
  <2> HIDE DEF f
  <2>5. entry'[x].waiters = f[x].waiters /\ entry'[x].busy = f[x].busy BY <1>k, <2>1, <2>3 DEF f
  <2> QED BY <1>10, <1>s, <2>4, <2>5 DEF DialFails
<1>11. ASSUME NEW y \in Entry, DialSucceeds(y) PROVE Exact(x)'
  <2> DEFINE o == IF Unwanted(y) THEN [entry[y] EXCEPT !.conn = "closed", !.err = "closed"]
                  ELSE [entry[y] EXCEPT !.conn = "open"]
             f == [entry EXCEPT ![y] = o]
  <2>1. entry' = Collected(f) BY <1>11 DEF DialSucceeds
  <2>2. o \in Entries BY <1>t, EntryEdits
  <2>3. f \in [Entry -> Entries] BY <1>t, <2>2, Replaced
  <2>4. f[x].waiters = entry[x].waiters /\ f[x].busy = entry[x].busy BY <1>t DEF Entries
  <2> HIDE DEF f
  <2>5. entry'[x].waiters = f[x].waiters /\ entry'[x].busy = f[x].busy BY <1>k, <2>1, <2>3
  <2> QED BY <1>11, <1>s, <2>4, <2>5 DEF DialSucceeds
<1>12. ASSUME NEW y \in Entry, Expire(y) PROVE Exact(x)'
  BY <1>12, <1>r, <1>s DEF Expire
<1>13. CASE CloseAll BY <1>13, <1>r, <1>s DEF CloseAll
<1>14. ASSUME NEW d \in Editor, EditDrops(d) PROVE Exact(x)'
  BY <1>14, <1>r, <1>s DEF EditDrops, Drop
<1>c. ASSUME NEW h \in Host, Changed(h) PROVE Exact(x)'
  <2>1. entry'[x].waiters = entry[x].waiters /\ entry'[x].busy = entry[x].busy
    BY <1>c, <1>t DEF Changed, Entries
  <2>2. \A r \in Req : req'[r].pc = req[r].pc /\ req'[r].entry = req[r].entry
    BY <1>c, <1>t DEF Changed, Requests
  <2>3. Waiting(x)' = Waiting(x) /\ Using(x)' = Using(x) BY <2>2 DEF Waiting, Using
  <2> QED BY <1>e, <2>1, <2>3, ExactKept
<1>15. ASSUME NEW d \in Editor, NEW h \in Host, EditHost(d, h) PROVE Exact(x)'
  BY <1>15, <1>c DEF EditHost
<1>16. ASSUME NEW h \in Host, ExchangeKeys(h) PROVE Exact(x)' BY <1>16, <1>c DEF ExchangeKeys
<1>17. ASSUME NEW h \in Host, CloseBrowse(h) PROVE Exact(x)'
  BY <1>17, <1>r, <1>s DEF CloseBrowse, Drop
<1>18. CASE UNCHANGED vars BY <1>18, <1>s DEF vars
<1> QED
  BY <1>1, <1>2, <1>3, <1>4, <1>5, <1>6, <1>7, <1>8, <1>9, <1>10, <1>11, <1>12, <1>13,
     <1>14, <1>15, <1>16, <1>17, <1>18 DEF Next, ReqStep

-----------------------------------------------------------------------------
LEMMA KeptShape ==
  ASSUME NEW e, NEW f, Kept(e, f)
  PROVE  /\ f = e \/ f.conn = "none"
         /\ e.conn # "closed" => f = e
  BY DEF Kept, NoEntry

\* What removeLocked leaves of the entries it is given, and of the others.
LEMMA RemovedShape ==
  ASSUME Typed, NEW X, NEW x \in Entry
  PROVE  LET g == Removed(X)[x] IN
         /\ g = entry[x] \/ g.conn = "none" \/ x \in X
         /\ entry[x].conn # "closed" /\ x \notin X => g = entry[x]
         /\ x \in X /\ ~entry[x].dropped =>
              /\ g.conn \in {"none", "dialing", "closed"}
              /\ g.conn = "dialing" => /\ g.dropped /\ g.cancelled
                                       /\ g.host = entry[x].host
                                       /\ entry[x].conn = "dialing"
         /\ x \in X /\ entry[x].dropped => g = entry[x] \/ g.conn = "none"
<1>1. entry[x] \in Entries BY DEF Typed
<1>2. /\ x \notin X \/ entry[x].dropped => Kept(entry[x], Removed(X)[x])
      /\ x \in X /\ ~entry[x].dropped /\ entry[x].conn = "dialing" =>
           Kept([entry[x] EXCEPT !.dropped = TRUE, !.cancelled = TRUE], Removed(X)[x])
      /\ x \in X /\ ~entry[x].dropped /\ entry[x].conn # "dialing" =>
           Kept([entry[x] EXCEPT !.dropped = TRUE, !.conn = "closed"], Removed(X)[x])
  BY Removing DEF Typed
<1>3. CASE x \notin X \/ entry[x].dropped BY <1>2, <1>3, KeptShape
<1>4. CASE x \in X /\ ~entry[x].dropped /\ entry[x].conn = "dialing"
  <2> DEFINE e == [entry[x] EXCEPT !.dropped = TRUE, !.cancelled = TRUE]
  <2>1. Removed(X)[x] = e BY <1>1, <1>2, <1>4, KeptShape DEF Entries
  <2> QED BY <1>1, <1>4, <2>1 DEF Entries
<1>5. CASE x \in X /\ ~entry[x].dropped /\ entry[x].conn # "dialing"
  <2> DEFINE e == [entry[x] EXCEPT !.dropped = TRUE, !.conn = "closed"]
  <2>1. Removed(X)[x] = e \/ Removed(X)[x].conn = "none" BY <1>2, <1>5, KeptShape
  <2>2. e.conn = "closed" BY <1>1 DEF Entries
  <2>3. Removed(X)[x].conn \in {"none", "closed"} BY <2>1, <2>2
  <2> QED BY <1>5, <2>3
<1> QED BY <1>3, <1>4, <1>5

LEMMA ShapeInit == Init => Shape
  BY DEF Init, Shape, RequestsHoldEntries, OneEntryPerHost, NothingElseIsLive, Idle,
         AbandonedDialCancelled, ClosedHoldsNothing, Registered, NoEntry

LEMMA HoldNext == Typed /\ RequestsHoldEntries /\ [Next]_vars => RequestsHoldEntries'
<1> SUFFICES ASSUME Typed, RequestsHoldEntries, [Next]_vars PROVE RequestsHoldEntries'
  OBVIOUS
<1> USE NoneAssumption DEF Typed, RequestsHoldEntries, Requests, Pcs
<1>1. ASSUME NEW r \in Req, AcquireRefused(r) PROVE RequestsHoldEntries'
  BY <1>1 DEF AcquireRefused, Idle
<1>2. ASSUME NEW r \in Req, AcquireJoins(r) PROVE RequestsHoldEntries'
  BY <1>2 DEF AcquireJoins
<1>3. ASSUME NEW r \in Req, AcquireDials(r) PROVE RequestsHoldEntries'
  BY <1>3 DEF AcquireDials
<1>4. ASSUME NEW r \in Req, WaitCancelled(r) PROVE RequestsHoldEntries'
  BY <1>4 DEF WaitCancelled, Idle
<1>5. ASSUME NEW r \in Req, WaitSucceeds(r) PROVE RequestsHoldEntries'
  BY <1>5 DEF WaitSucceeds
<1>6. ASSUME NEW r \in Req, WaitFails(r) PROVE RequestsHoldEntries'
  <2>1. PICK q \in {Idle, [req[r] EXCEPT !.pc = "acquire", !.entry = None, !.retried = TRUE]} :
          req' = [req EXCEPT ![r] = q]
    BY <1>6 DEF WaitFails
  <2>2. /\ q.entry = None /\ q.pc \in {"idle", "acquire"}
        /\ q.pc # "idle" => q.host \in Host
    <3>1. CASE q = Idle BY <3>1 DEF Idle
    <3>2. CASE q # Idle
      <4>1. q = [req[r] EXCEPT !.pc = "acquire", !.entry = None, !.retried = TRUE]
        BY <2>1, <3>2
      <4>2. req[r] \in Requests /\ req[r].host \in Host BY <1>6 DEF WaitFails
      <4> QED BY <4>1, <4>2
    <3> QED BY <3>1, <3>2
  <2> QED BY <2>1, <2>2
<1>7. ASSUME NEW r \in Req, Release(r) PROVE RequestsHoldEntries'
  BY <1>7 DEF Release, Idle
<1>8. ASSUME NEW r \in Req, UseDrops(r) PROVE RequestsHoldEntries'
  BY <1>8 DEF UseDrops
<1>9. ASSUME NEW r \in Req, NEW h \in Host, ReqBegin(r, h) PROVE RequestsHoldEntries'
  BY <1>9 DEF ReqBegin, Idle
<1>10. ASSUME NEW h \in Host, Changed(h) PROVE RequestsHoldEntries'
  BY <1>10 DEF Changed
<1>11. ASSUME UNCHANGED req PROVE RequestsHoldEntries' BY <1>11
<1> QED
  BY <1>1, <1>2, <1>3, <1>4, <1>5, <1>6, <1>7, <1>8, <1>9, <1>10, <1>11
  DEF Next, ReqStep, DialFails, DialSucceeds, Expire, EditDrops, EditHost, ExchangeKeys,
      CloseBrowse, CloseAll, vars

Good == OneEntryPerHost /\ NothingElseIsLive /\ AbandonedDialCancelled /\ ClosedHoldsNothing

\* removeLocked, whichever entries it is for.
LEMMA RemovingIsGood ==
  ASSUME Typed, Good, NEW X, entry' = Removed(X), entries' = Unregistered(X)
  PROVE  OneEntryPerHost' /\ NothingElseIsLive' /\ AbandonedDialCancelled'
<1>1. \A x \in Entry : entry[x] \in Entries BY DEF Typed
<1>2. \A x \in Entry :
        /\ entry'[x] = entry[x] \/ entry'[x].conn = "none" \/ x \in X
        /\ entry[x].conn # "closed" /\ x \notin X => entry'[x] = entry[x]
        /\ x \in X /\ ~entry[x].dropped =>
             /\ entry'[x].conn \in {"none", "dialing", "closed"}
             /\ entry'[x].conn = "dialing" => /\ entry'[x].dropped /\ entry'[x].cancelled
                                              /\ entry'[x].host = entry[x].host
                                              /\ entry[x].conn = "dialing"
        /\ x \in X /\ entry[x].dropped => entry'[x] = entry[x] \/ entry'[x].conn = "none"
  BY RemovedShape
<1>3. \A h \in Host : entries'[h] = IF entries[h] \in X THEN None ELSE entries[h]
  BY DEF Unregistered
<1>4. OneEntryPerHost'
  BY <1>2, <1>3, NoneAssumption DEF Typed, Good, OneEntryPerHost
<1>5. NothingElseIsLive' BY <1>2, <1>3 DEF Good, NothingElseIsLive
<1>6. AbandonedDialCancelled' BY <1>2 DEF Good, AbandonedDialCancelled
<1> QED BY <1>4, <1>5, <1>6

LEMMA GoodNext ==
  Typed /\ RequestsHoldEntries /\ CountsExact /\ Good /\ Typed' /\ [Next]_vars => Good'
<1> SUFFICES ASSUME Typed, RequestsHoldEntries, CountsExact, Good, Typed', [Next]_vars
             PROVE  Good'
  OBVIOUS
<1>t. /\ entry \in [Entry -> Entries] /\ entries \in [Host -> Entry \cup {None}]
      /\ \A x \in Entry : entry[x] \in Entries
  BY DEF Typed
<1>h. /\ \A r \in Req : req[r].pc # "idle" => req[r].host \in Host
      /\ \A r \in Req : req[r].pc \in {"wait", "use", "release"} => req[r].entry \in Entry
      /\ \A r \in Req : req[r].pc = "wait" => entry[req[r].entry].waiters >= 1
  BY HeldIsCounted DEF RequestsHoldEntries
\* A step that leaves the map and what an entry is alone.
<1>s. ASSUME entries' = entries, closed' = closed,
             \A x \in Entry :
               \/ /\ entry'[x].conn = entry[x].conn
                  /\ entry'[x].dropped = entry[x].dropped
                  /\ entry'[x].host = entry[x].host
                  /\ entry[x].conn = "dialing" =>
                       \/ entry'[x].cancelled
                       \/ entry'[x].waiters # 0
                       \/ /\ entry'[x].waiters = entry[x].waiters
                          /\ entry'[x].cancelled = entry[x].cancelled
               \/ entry'[x].conn = "none" /\ entry[x].conn = "closed"
      PROVE  Good'
  <2>1. OneEntryPerHost'
    BY <1>t, <1>s, NoneAssumption DEF Good, OneEntryPerHost
  <2>2. NothingElseIsLive' BY <1>s DEF Good, NothingElseIsLive
  <2>3. AbandonedDialCancelled' BY <1>s DEF Good, AbandonedDialCancelled
  <2>4. ClosedHoldsNothing' BY <1>s DEF Good, ClosedHoldsNothing, Registered
  <2> QED BY <2>1, <2>2, <2>3, <2>4 DEF Good
\* A step that removes entries.
<1>r. ASSUME NEW X, entry' = Removed(X), entries' = Unregistered(X), UNCHANGED closed
      PROVE  Good'
  <2>1. OneEntryPerHost' /\ NothingElseIsLive' /\ AbandonedDialCancelled'
    BY <1>r, RemovingIsGood
  <2>2. ClosedHoldsNothing'
    BY <1>r, RemovedShape DEF Good, ClosedHoldsNothing, Registered, Unregistered
  <2> QED BY <2>1, <2>2 DEF Good
<1>1. ASSUME NEW r \in Req, AcquireRefused(r) PROVE Good'
  BY <1>1, <1>s DEF AcquireRefused
<1>2. ASSUME NEW r \in Req, AcquireJoins(r) PROVE Good'
  <2>1. \A x \in Entry :
          /\ entry'[x].conn = entry[x].conn /\ entry'[x].dropped = entry[x].dropped
          /\ entry'[x].host = entry[x].host /\ entry'[x].cancelled = entry[x].cancelled
          /\ entry'[x].waiters # 0 \/ entry'[x].waiters = entry[x].waiters
    BY <1>2, <1>t DEF AcquireJoins, Entries
  <2> QED BY <1>2, <1>s, <2>1 DEF AcquireJoins
<1>3. ASSUME NEW r \in Req, AcquireDials(r) PROVE Good'
  <2> DEFINE h == req[r].host
  <2>1. PICK y \in Entry, E \in Evicted :
          /\ Free(y)
          /\ entries' = [Unregistered(E) EXCEPT ![h] = y]
          /\ entry' = [Removed(E) EXCEPT ![y] =
               [NoEntry EXCEPT !.host = h, !.stale = req[r].stale,
                               !.conn = "dialing", !.waiters = 1]]
    BY <1>3 DEF AcquireDials
  <2>2. h \in Host /\ entries[h] = None /\ ~closed /\ closed' = closed
    BY <1>3, <1>h DEF AcquireDials
  <2>3. Removed(E) \in [Entry -> Entries] /\ Unregistered(E) \in [Host -> Entry \cup {None}]
    BY <1>t, Removing, UnregisteredType
  <2>4. /\ entry'[y].host = h /\ entry'[y].conn = "dialing" /\ ~entry'[y].dropped
        /\ entry'[y].waiters = 1
    BY <2>1, <2>3 DEF NoEntry
  <2>5. \A x \in Entry \ {y} : entry'[x] = Removed(E)[x] BY <2>1, <2>3
  <2>6. /\ entries'[h] = y
        /\ \A k \in Host \ {h} : entries'[k] = IF entries[k] \in E THEN None ELSE entries[k]
    BY <2>1, <2>2, <2>3 DEF Unregistered
  <2>7. entry[y].conn = "none" BY <2>1 DEF Free, NoEntry
  <2>8. \A x \in Entry \ {y} :
          /\ entry'[x] = entry[x] \/ entry'[x].conn = "none" \/ x \in E
          /\ entry[x].conn # "closed" /\ x \notin E => entry'[x] = entry[x]
          /\ x \in E /\ ~entry[x].dropped =>
               /\ entry'[x].conn \in {"none", "dialing", "closed"}
               /\ entry'[x].conn = "dialing" => /\ entry'[x].dropped /\ entry'[x].cancelled
                                                /\ entry'[x].host = entry[x].host
                                                /\ entry[x].conn = "dialing"
          /\ x \in E /\ entry[x].dropped => entry'[x] = entry[x] \/ entry'[x].conn = "none"
    BY <2>5, RemovedShape
  <2>9. \A k \in Host : entries[k] # y BY <2>7, NoneAssumption DEF Good, OneEntryPerHost
  <2> HIDE DEF h
  <2>10. OneEntryPerHost'
    BY <1>t, <2>2, <2>4, <2>6, <2>8, <2>9, NoneAssumption DEF Good, OneEntryPerHost
  <2>11. NothingElseIsLive'
    BY <1>t, <2>2, <2>4, <2>6, <2>8, NoneAssumption DEF Good, NothingElseIsLive
  <2>12. AbandonedDialCancelled' BY <2>4, <2>8 DEF Good, AbandonedDialCancelled
  <2>13. ClosedHoldsNothing' BY <2>2 DEF ClosedHoldsNothing
  <2> QED BY <2>10, <2>11, <2>12, <2>13 DEF Good
\* A step that is about one entry only, and may leave it as garbage.
<1>g. ASSUME NEW y \in Entry, NEW o \in Entries, UNCHANGED closed, entries' = entries,
             entry' = Collected([entry EXCEPT ![y] = o]),
             o.conn = entry[y].conn, o.dropped = entry[y].dropped, o.host = entry[y].host,
             o.conn = "dialing" =>
               \/ o.cancelled \/ o.waiters # 0
               \/ o.waiters = entry[y].waiters /\ o.cancelled = entry[y].cancelled
      PROVE  Good'
  <2> DEFINE f == [entry EXCEPT ![y] = o]
  <2>1. f \in [Entry -> Entries] BY <1>t, Replaced
  <2>2. \A x \in Entry : f[x] = IF x = y THEN o ELSE entry[x] BY <1>t
  <2>3. entry' = Collected(f) BY <1>g
  <2> HIDE DEF f
  <2>4. \A x \in Entry : entry'[x] = f[x] \/ (entry'[x].conn = "none" /\ f[x].conn = "closed")
    BY <2>1, <2>3, Collecting DEF Kept, NoEntry
  <2> QED BY <1>g, <1>s, <2>2, <2>4
<1>4. ASSUME NEW r \in Req, WaitCancelled(r) PROVE Good'
  <2> DEFINE y == req[r].entry
             c == entry[y].cancelled \/ LeftBehind(y)
             o == [entry[y] EXCEPT !.waiters = entry[y].waiters - 1, !.cancelled = c]
  <2>1. y \in Entry /\ entry[y].waiters >= 1 /\ entry[y].waiters - 1 \in Nat
    BY <1>4, <1>t, <1>h DEF WaitCancelled, Entries
  <2>2. c \in BOOLEAN BY <1>t, <2>1 DEF Entries, LeftBehind
  <2>3. entry[y].waiters = 1 /\ entry[y].conn = "dialing" => c BY DEF LeftBehind
  <2>4. entry' = Collected([entry EXCEPT ![y] = o]) BY <1>4 DEF WaitCancelled
  <2> HIDE DEF c
  <2>5. /\ o \in Entries /\ o.conn = entry[y].conn /\ o.dropped = entry[y].dropped
        /\ o.host = entry[y].host /\ o.cancelled = c /\ o.waiters = entry[y].waiters - 1
    BY <1>t, <2>1, <2>2 DEF Entries
  <2>6. entry[y].conn = "dialing" => c \/ entry[y].waiters - 1 # 0 BY <2>1, <2>3
  <2>7. entries' = entries /\ UNCHANGED closed BY <1>4 DEF WaitCancelled
  <2> HIDE DEF o
  <2> QED BY <1>g, <2>1, <2>4, <2>5, <2>6, <2>7
<1>5. ASSUME NEW r \in Req, WaitSucceeds(r) PROVE Good'
  <2>1. \A x \in Entry :
          /\ entry'[x].conn = entry[x].conn /\ entry'[x].dropped = entry[x].dropped
          /\ entry'[x].host = entry[x].host /\ entry'[x].cancelled = entry[x].cancelled
          /\ entry'[x].conn = "dialing" => entry'[x].waiters = entry[x].waiters
    BY <1>5, <1>t DEF WaitSucceeds, Entries, Ready
  <2> QED BY <1>5, <1>s, <2>1 DEF WaitSucceeds
<1>6. ASSUME NEW r \in Req, WaitFails(r) PROVE Good'
  <2> DEFINE y == req[r].entry
             o == [entry[y] EXCEPT !.waiters = entry[y].waiters - 1]
  <2>1. y \in Entry /\ entry[y].waiters - 1 \in Nat /\ entry[y].conn # "dialing"
    BY <1>6, <1>t, <1>h DEF WaitFails, Entries, Ready
  <2>2. entry' = Collected([entry EXCEPT ![y] = o]) BY <1>6 DEF WaitFails
  <2>3. /\ o \in Entries /\ o.conn = entry[y].conn /\ o.dropped = entry[y].dropped
        /\ o.host = entry[y].host
    BY <1>t, <2>1 DEF Entries
  <2>4. entries' = entries /\ UNCHANGED closed BY <1>6 DEF WaitFails
  <2> HIDE DEF o
  <2> QED BY <1>g, <2>1, <2>2, <2>3, <2>4
<1>7. ASSUME NEW r \in Req, Release(r) PROVE Good'
  <2> DEFINE y == req[r].entry
             o == [entry[y] EXCEPT !.busy = entry[y].busy - 1]
  <2>1. y \in Entry /\ entry[y].busy - 1 \in Nat
    BY <1>7, <1>t, HeldIsCounted DEF Release, Entries
  <2>2. entry' = Collected([entry EXCEPT ![y] = o]) BY <1>7 DEF Release, Released
  <2>3. /\ o \in Entries /\ o.conn = entry[y].conn /\ o.dropped = entry[y].dropped
        /\ o.host = entry[y].host /\ o.waiters = entry[y].waiters
        /\ o.cancelled = entry[y].cancelled
    BY <1>t, <2>1 DEF Entries
  <2>4. entries' = entries /\ UNCHANGED closed BY <1>7 DEF Release
  <2> HIDE DEF o
  <2> QED BY <1>g, <2>1, <2>2, <2>3, <2>4
<1>8. ASSUME NEW r \in Req, UseDrops(r) PROVE Good' BY <1>8, <1>r DEF UseDrops
<1>9. ASSUME NEW r \in Req, NEW h \in Host, ReqBegin(r, h) PROVE Good'
  BY <1>9, <1>s DEF ReqBegin
<1>10. ASSUME NEW y \in Entry, DialFails(y) PROVE Good'
  <2>1. PICK i \in {"failed", "canceled"} :
          entry' = Collected([entry EXCEPT ![y] =
                     [entry[y] EXCEPT !.conn = "closed", !.err = i]])
    BY <1>10 DEF DialFails
  <2> DEFINE o == [entry[y] EXCEPT !.conn = "closed", !.err = i]
             f == [entry EXCEPT ![y] = o]
  <2>2. o \in Entries /\ o.conn = "closed"
    <3>1. o \in Entries BY <1>t, EntryEdits
    <3>2. o.conn = "closed" BY <1>t DEF Entries
    <3> QED BY <3>1, <3>2
  <2>3. f \in [Entry -> Entries] BY <1>t, <2>2, Replaced
  <2>4. \A x \in Entry : f[x] = IF x = y THEN o ELSE entry[x] BY <1>t
  <2>5. entry' = Collected(f) BY <2>1
  <2> HIDE DEF f, o
  <2>6. \A x \in Entry : entry'[x] = f[x] \/ (entry'[x].conn = "none" /\ f[x].conn = "closed")
    BY <2>3, <2>5, Collecting DEF Kept, NoEntry
  <2>7. /\ entry'[y].conn \in {"none", "closed"}
        /\ \A x \in Entry \ {y} :
             entry'[x] = entry[x] \/ (entry'[x].conn = "none" /\ entry[x].conn = "closed")
    BY <2>2, <2>4, <2>6
  <2>8. /\ \A h \in Host : entries'[h] = IF entries[h] = y THEN None ELSE entries[h]
        /\ closed' = closed
    BY <1>10 DEF DialFails, Unregistered
  <2>9. OneEntryPerHost'
    BY <1>t, <2>7, <2>8, NoneAssumption DEF Good, OneEntryPerHost
  <2>10. NothingElseIsLive' BY <2>7, <2>8 DEF Good, NothingElseIsLive
  <2>11. AbandonedDialCancelled' BY <2>7 DEF Good, AbandonedDialCancelled
  <2>12. ClosedHoldsNothing' BY <2>7, <2>8 DEF Good, ClosedHoldsNothing, Registered
  <2> QED BY <2>9, <2>10, <2>11, <2>12 DEF Good
<1>11. ASSUME NEW y \in Entry, DialSucceeds(y) PROVE Good'
  <2> DEFINE o == IF Unwanted(y) THEN [entry[y] EXCEPT !.conn = "closed", !.err = "closed"]
                  ELSE [entry[y] EXCEPT !.conn = "open"]
             f == [entry EXCEPT ![y] = o]
  <2>1. entry' = Collected(f) BY <1>11 DEF DialSucceeds
  <2>2. /\ o \in Entries /\ o.host = entry[y].host /\ o.dropped = entry[y].dropped
        /\ o.conn = IF entry[y].dropped \/ closed THEN "closed" ELSE "open"
    <3>1. o \in Entries BY <1>t, EntryEdits
    <3> QED BY <1>t, <3>1 DEF Entries, Unwanted
  <2>3. f \in [Entry -> Entries] BY <1>t, <2>2, Replaced
  <2>4. \A x \in Entry : f[x] = IF x = y THEN o ELSE entry[x] BY <1>t
  <2> HIDE DEF f, o
  <2>5. \A x \in Entry : entry'[x] = f[x] \/ (entry'[x].conn = "none" /\ f[x].conn = "closed")
    BY <2>1, <2>3, Collecting DEF Kept, NoEntry
  <2>6. entries' = entries /\ closed' = closed /\ entry[y].conn = "dialing"
    BY <1>11 DEF DialSucceeds
  <2>7. /\ \A x \in Entry \ {y} :
             entry'[x] = entry[x] \/ (entry'[x].conn = "none" /\ entry[x].conn = "closed")
        /\ \/ /\ entry'[y].conn \in {"none", "closed"}
              /\ entry[y].dropped \/ closed
           \/ /\ entry'[y].conn = "open" /\ ~entry[y].dropped /\ ~closed
              /\ entry'[y].dropped = entry[y].dropped /\ entry'[y].host = entry[y].host
    BY <2>2, <2>4, <2>5
  <2>8. closed => entries[entry[y].host] # y \/ entry[y].dropped
    BY <1>t, <2>6, NoneAssumption DEF Good, ClosedHoldsNothing, Registered, NothingElseIsLive
  <2>9. OneEntryPerHost'
    BY <1>t, <2>6, <2>7, <2>8, NoneAssumption DEF Good, OneEntryPerHost
  <2>10. NothingElseIsLive' BY <2>6, <2>7 DEF Good, NothingElseIsLive
  <2>11. AbandonedDialCancelled' BY <2>7 DEF Good, AbandonedDialCancelled
  <2>12. ClosedHoldsNothing' BY <2>6, <2>7 DEF Good, ClosedHoldsNothing, Registered
  <2> QED BY <2>9, <2>10, <2>11, <2>12 DEF Good
<1>12. ASSUME NEW x \in Entry, Expire(x) PROVE Good' BY <1>12, <1>r DEF Expire
<1>13. CASE CloseAll
  <2> DEFINE X == {entries[h] : h \in Registered}
  <2>1. entries' = Unregistered(X) BY <1>13 DEF CloseAll, Unregistered, Registered
  <2>2. OneEntryPerHost' /\ NothingElseIsLive' /\ AbandonedDialCancelled'
    BY <1>13, <2>1, RemovingIsGood DEF CloseAll
  <2>3. ClosedHoldsNothing'
    BY <1>13, <2>2, NoneAssumption
    DEF CloseAll, ClosedHoldsNothing, Registered, NothingElseIsLive
  <2> QED BY <2>2, <2>3 DEF Good
<1>d. ASSUME NEW h \in Host, Drop(h), UNCHANGED closed PROVE Good'
  <2>1. CASE entries[h] = None
    <3>1. UNCHANGED <<entry, entries>> BY <1>d, <2>1, <1>t DEF Drop
    <3> QED BY <1>d, <3>1, <1>s
  <2>2. CASE entries[h] # None
    <3>1. entries' = Unregistered({entries[h]})
      BY <1>d, <2>2, <1>t DEF Drop, Unregistered, Good, OneEntryPerHost
    <3> QED BY <1>d, <1>r, <2>2, <3>1 DEF Drop
  <2> QED BY <2>1, <2>2
<1>c. ASSUME NEW h \in Host, Changed(h), UNCHANGED <<entries, closed>> PROVE Good'
  <2>1. \A x \in Entry :
          /\ entry'[x].conn = entry[x].conn /\ entry'[x].dropped = entry[x].dropped
          /\ entry'[x].host = entry[x].host /\ entry'[x].cancelled = entry[x].cancelled
          /\ entry'[x].waiters = entry[x].waiters
    BY <1>c, <1>t DEF Changed, Entries
  <2> QED BY <1>c, <1>s, <2>1
<1>14. ASSUME NEW d \in Editor, EditDrops(d) PROVE Good'
  <2>1. editor[d] \in Host BY <1>14 DEF EditDrops, Typed
  <2> QED BY <1>14, <1>d, <2>1 DEF EditDrops
<1>15. ASSUME NEW d \in Editor, NEW h \in Host, EditHost(d, h) PROVE Good'
  BY <1>15, <1>c DEF EditHost
<1>16. ASSUME NEW h \in Host, ExchangeKeys(h) PROVE Good' BY <1>16, <1>c DEF ExchangeKeys
<1>17. ASSUME NEW h \in Host, CloseBrowse(h) PROVE Good' BY <1>17, <1>d DEF CloseBrowse
<1>18. CASE UNCHANGED vars BY <1>18, <1>s DEF vars
<1> QED
  BY <1>1, <1>2, <1>3, <1>4, <1>5, <1>6, <1>7, <1>8, <1>9, <1>10, <1>11, <1>12, <1>13,
     <1>14, <1>15, <1>16, <1>17, <1>18 DEF Next, ReqStep

-----------------------------------------------------------------------------
\* The hosts whose entries are evicted are as many as the entries.
LEMMA Evicting ==
  ASSUME Typed, OneEntryPerHost, NEW E \in SUBSET {entries[h] : h \in Registered}
  PROVE  LET H == {h \in Registered : entries[h] \in E} IN
         /\ IsFiniteSet(H)
         /\ Cardinality(H) = Cardinality(E)
<1> DEFINE H == {h \in Registered : entries[h] \in E}
           f == [h \in H |-> entries[h]]
<1>1. IsFiniteSet(H)
  <2>1. H \in SUBSET Host BY DEF Registered
  <2> QED BY <2>1, FiniteAssumption, FS_Subset
<1>2. \A x \in E : \E h \in H : entries[h] = x OBVIOUS
<1>3. \A h, k \in H : entries[h] = entries[k] => h = k
  BY DEF OneEntryPerHost, Registered
<1>4. f \in Bijection(H, E)
  BY <1>2, <1>3 DEF Bijection, Injection, Surjection, IsInjective
<1>5. ExistsBijection(H, E) BY <1>4 DEF ExistsBijection
<1> QED BY <1>1, <1>5, FS_Bijection

LEMMA CapNext ==
  Typed /\ RequestsHoldEntries /\ OneEntryPerHost /\ WithinCap /\ [Next]_vars => WithinCap'
<1> SUFFICES ASSUME Typed, RequestsHoldEntries, OneEntryPerHost, WithinCap, [Next]_vars
             PROVE  WithinCap'
  OBVIOUS
<1>t. entries \in [Host -> Entry \cup {None}] BY DEF Typed
<1>f. IsFiniteSet(Registered) /\ Cardinality(Registered) \in Nat
  <2>1. Registered \in SUBSET Host BY DEF Registered
  <2>2. IsFiniteSet(Registered) BY <2>1, FiniteAssumption, FS_Subset
  <2> QED BY <2>2, FS_CardinalityType
<1>s. ASSUME Registered' \subseteq Registered PROVE WithinCap'
  <2>1. IsFiniteSet(Registered') /\ Cardinality(Registered') <= Cardinality(Registered)
    BY <1>f, <1>s, FS_Subset
  <2>2. Cardinality(Registered') \in Nat BY <2>1, FS_CardinalityType
  <2> QED BY <1>f, <2>1, <2>2, CapAssumption DEF WithinCap
<1>1. ASSUME NEW r \in Req, AcquireDials(r) PROVE WithinCap'
  <2> DEFINE h == req[r].host
  <2>1. PICK y \in Entry, E \in Evicted : entries' = [Unregistered(E) EXCEPT ![h] = y]
    BY <1>1 DEF AcquireDials
  <2>2. h \in Host /\ entries[h] = None BY <1>1 DEF AcquireDials, RequestsHoldEntries
  <2> DEFINE H == {k \in Registered : entries[k] \in E}
             R == Registered \ H
  <2>3. Unregistered(E) \in [Host -> Entry \cup {None}] BY <1>t, UnregisteredType
  <2>4. \A k \in Host : entries'[k] = IF k = h THEN y
                                      ELSE IF entries[k] \in E THEN None ELSE entries[k]
    BY <2>1, <2>2, <2>3 DEF Unregistered
  <2>5. E \in SUBSET {entries[k] : k \in Registered} BY DEF Evicted
  <2>6. Registered' = R \cup {h} /\ h \notin R
    BY <2>2, <2>4, NoneAssumption DEF Registered
  <2>7. IsFiniteSet(H) /\ Cardinality(H) = Cardinality(E) BY <2>5, Evicting
  <2>8. IsFiniteSet(R) /\ Cardinality(R) = Cardinality(Registered) - Cardinality(H)
    <3>1. H \subseteq Registered OBVIOUS
    <3> HIDE DEF H
    <3> QED BY <1>f, <2>7, <3>1, FS_Difference, FS_Intersection
  <2>9. Cardinality(Registered') = Cardinality(R) + 1 BY <2>6, <2>8, FS_AddElement
  <2>10. Cardinality(Registered) - Cardinality(E) < MaxPerUser BY DEF Evicted
  <2>11. Cardinality(R) \in Nat BY <2>8, FS_CardinalityType
  <2>12. Cardinality(R) < MaxPerUser BY <2>7, <2>8, <2>10
  <2> HIDE DEF R, H
  <2> QED BY <2>9, <2>11, <2>12, CapAssumption DEF WithinCap
<1>2. ASSUME NEW X, entries' = Unregistered(X) PROVE WithinCap'
  BY <1>2, <1>s DEF Registered, Unregistered
<1>3. ASSUME entries' = entries PROVE WithinCap' BY <1>3, <1>s DEF Registered
<1>4. ASSUME NEW h, Drop(h) PROVE WithinCap' BY <1>4, <1>s, <1>t DEF Registered, Drop
<1>5. CASE CloseAll BY <1>5, <1>s DEF Registered, CloseAll
<1> QED
  BY <1>1, <1>2, <1>3, <1>4, <1>5
  DEF Next, ReqStep, AcquireRefused, AcquireJoins, WaitCancelled, WaitSucceeds, WaitFails,
      Release, UseDrops, ReqBegin, DialFails, DialSucceeds, Expire, EditDrops, EditHost,
      ExchangeKeys, CloseBrowse, vars

-----------------------------------------------------------------------------
LEMMA CountsInit == Init => CountsExact
<1> SUFFICES ASSUME Init, NEW x \in Entry PROVE Exact(x)
  BY CountsExactIsExact
<1>1. Waiting(x) = {} /\ Using(x) = {} BY DEF Init, Waiting, Using, Idle
<1>2. entry[x].waiters = 0 /\ entry[x].busy = 0 BY DEF Init, NoEntry
<1> QED BY <1>1, <1>2, FS_EmptySet DEF Exact

LEMMA CapInit == Init => WithinCap
<1> SUFFICES ASSUME Init PROVE WithinCap OBVIOUS
<1>1. Registered = {} BY DEF Init, Registered
<1> QED BY <1>1, FS_EmptySet, CapAssumption DEF WithinCap

LEMMA Invariance == Spec => []Inv
<1>1. Init => Inv BY TypedInit, ShapeInit, CountsInit, CapInit DEF Inv
<1>2. Inv /\ [Next]_vars => Inv'
  <2> SUFFICES ASSUME Inv, [Next]_vars PROVE Inv' OBVIOUS
  <2>1. /\ Typed /\ RequestsHoldEntries /\ Good /\ CountsExact /\ WithinCap
        /\ OneEntryPerHost
    BY DEF Inv, Shape, Good
  <2>2. Typed' BY <2>1, TypedNext
  <2>3. RequestsHoldEntries' BY <2>1, HoldNext
  <2>4. CountsExact' BY <2>1, CountsNext
  <2>5. Good' BY <2>1, <2>2, GoodNext
  <2>6. WithinCap' BY <2>1, CapNext
  <2> QED BY <2>2, <2>3, <2>4, <2>5, <2>6 DEF Inv, Shape, Good
<1> QED BY <1>1, <1>2, PTL DEF Spec

\* Every connection that is open, or dialed and still wanted, is the registered
\* one of its host (startDialLocked, removeLocked, runDial).
THEOREM NothingLeaks == Spec => []NoLeakedConnection
<1>1. Inv => NoLeakedConnection
  BY DEF Inv, Shape, NothingElseIsLive, NoLeakedConnection
<1> QED BY <1>1, Invariance, PTL

\* One user holds at most browseMaxPerUser connections (startDialLocked).
THEOREM CapHolds == Spec => []WithinCap
<1>1. Inv => WithinCap BY DEF Inv
<1> QED BY <1>1, Invariance, PTL

\* The two counts of an entry are those of its requests, whatever way each of
\* them leaves (acquireOnce, release).
THEOREM CountsAreExact == Spec => []CountsExact
<1>1. Inv => CountsExact BY DEF Inv
<1> QED BY <1>1, Invariance, PTL

\* A dial that nobody waits for has been told to stop (acquireOnce).
THEOREM AbandonedIsCancelled == Spec => []AbandonedDialCancelled
<1>1. Inv => AbandonedDialCancelled BY DEF Inv, Shape
<1> QED BY <1>1, Invariance, PTL

\* A closed cache holds no connection, and no dial in flight will leave one
\* (closeAll, runDial).
THEOREM ClosedIsEmpty == Spec => []ClosedHoldsNothing
<1>1. Inv => ClosedHoldsNothing BY DEF Inv, Shape
<1> QED BY <1>1, Invariance, PTL
=============================================================================
