------------------------- MODULE HostRecordsProofs -------------------------
(***************************************************************************)
(* Proofs about HostRecords, for any addresses, accounts, keys and number  *)
(* of requests.                                                            *)
(*                                                                         *)
(* Neither property is inductive: a request writes back a copy that it     *)
(* took in another state.  The invariant therefore says of EVERY copy,     *)
(* the stored one and those the requests hold, what the property needs,    *)
(* and what it says (a key was confirmed, a pair was installed) stays      *)
(* true.  That is why a copy written late can do no harm.                  *)
(***************************************************************************)
EXTENDS HostRecords, TLAPS

\* A copy of the record, stored or held by a request, names no key that nobody
\* confirmed and no generated key that was not installed at its address, for an
\* account whose name trims to the one it has.
Sound(h, keys, pairs) ==
  /\ h \in Records
  /\ h.pin \in keys \cup {Unset}
  /\ h.origin = "exchanged" =>
       /\ h.method = "privateKey" /\ ~h.phrase
       /\ \E user \in Users : Trim[user] = h.user /\ <<h.address, user, h.key>> \in pairs

\* What a request holds: a sound copy, and with it the key the user confirmed
\* or the account to exchange keys for.
Holding(x, keys, pairs) ==
  \/ x = Idle
  \/ /\ x.at \in {"write", "probe", "exchange", "connect"}
     /\ Sound(x.host, keys, pairs)
     /\ x.at = "probe" => x.body \in keys
     /\ x.at = "exchange" => x.body \in Users

Inv ==
  /\ presents \in [Addresses -> HostKeys]
  /\ DOMAIN req = Requests
  /\ \A h \in record : Sound(h, confirmed, installed)
  /\ \A r \in Requests : Holding(req[r], confirmed, installed)
  /\ met \subseteq confirmed

-----------------------------------------------------------------------------
\* In this step every sound copy stays sound.
KeepsSound ==
  \A h : Sound(h, confirmed, installed) => Sound(h, confirmed', installed')

\* What was confirmed and installed stays so, hence a sound copy stays sound.
LEMMA SoundStays ==
  ASSUME confirmed \subseteq confirmed', installed \subseteq installed'
  PROVE  KeepsSound
  BY DEF Sound, KeepsSound

\* So does what a request holds.
LEMMA HoldingStays ==
  ASSUME confirmed \subseteq confirmed', installed \subseteq installed'
  PROVE  \A x : Holding(x, confirmed, installed) =>
                Holding(x, confirmed', installed')
  BY SoundStays DEF Holding, KeepsSound

\* A record that was created, and one that was edited, has no generated key.
LEMMA CreatedIsSound ==
  ASSUME NEW form \in Forms
  PROVE  Sound(Created(form), confirmed, installed)
  BY HostRecordsAssumption DEF Sound, Created, Records

LEMMA EditedIsSound ==
  ASSUME NEW form \in Forms, NEW h, Sound(h, confirmed, installed)
  PROVE  Sound(Edited(h, form), confirmed, installed)
  BY HostRecordsAssumption DEF Sound, Edited, Records

\* A step after which one request holds something else keeps the invariant if
\* what it now holds is sound, and so is the record.
LEMMA OneRequest ==
  ASSUME Inv, NEW r \in Requests, NEW x,
         confirmed \subseteq confirmed', installed \subseteq installed',
         presents' = presents, req' = [req EXCEPT ![r] = x],
         Holding(x, confirmed', installed'),
         \A h \in record' : Sound(h, confirmed', installed'),
         met' \subseteq confirmed'
  PROVE  Inv'
<1>1. \A q \in Requests : Holding(req'[q], confirmed', installed')
  BY HoldingStays DEF Inv
<1> QED BY <1>1 DEF Inv

-----------------------------------------------------------------------------
LEMMA InvInit == Init => Inv
<1> SUFFICES ASSUME Init PROVE Inv OBVIOUS
<1>1. \A h \in record : Sound(h, confirmed, installed) BY CreatedIsSound DEF Init
<1> QED BY <1>1 DEF Init, Inv, Holding

LEMMA InvNext == Inv /\ [Next]_vars => Inv'
<1> SUFFICES ASSUME Inv, [Next]_vars PROVE Inv' OBVIOUS
<1>0. \A h \in record : Sound(h, confirmed, installed) /\ h \in Records
  BY DEF Inv, Sound
<1>1. ASSUME NEW r \in Requests, TakeForEdit(r) PROVE Inv'
  <2>1. PICK host \in record, form \in Forms :
          req' = [req EXCEPT ![r] =
                    [at |-> "write", host |-> Edited(host, form),
                     body |-> Unset]]
    BY <1>1 DEF TakeForEdit
  <2>2. Sound(Edited(host, form), confirmed, installed) BY <1>0, EditedIsSound
  <2>3. UNCHANGED <<confirmed, installed, presents, record, met>>
    BY <1>1 DEF TakeForEdit, machines
  <2>4. KeepsSound BY <2>3, SoundStays
  <2>5. Holding([at |-> "write", host |-> Edited(host, form), body |-> Unset],
                confirmed', installed')
    BY <2>2, <2>4 DEF Holding, KeepsSound
  <2>6. met' \subseteq confirmed' BY <2>3 DEF Inv
  <2> QED BY <2>1, <2>3, <2>4, <2>5, <2>6, <1>0, OneRequest
<1>2. ASSUME NEW r \in Requests, TakeForTrust(r) PROVE Inv'
  <2>1. PICK f \in HostKeys : Take(r, "probe", f) /\ confirmed' = confirmed \cup {f}
    BY <1>2 DEF TakeForTrust
  <2>2. PICK host \in record :
          req' = [req EXCEPT ![r] =
                    [at |-> "probe", host |-> host, body |-> f]]
    BY <2>1 DEF Take
  <2>3. UNCHANGED <<installed, presents, record, met>>
    BY <1>2 DEF TakeForTrust, machines
  <2>4. KeepsSound BY <2>1, <2>3, SoundStays
  <2>5. Holding([at |-> "probe", host |-> host, body |-> f], confirmed', installed')
    BY <2>1, <2>4, <1>0 DEF Holding, KeepsSound
  <2>6. met' \subseteq confirmed' BY <2>1, <2>3 DEF Inv
  <2> QED BY <2>1, <2>2, <2>3, <2>4, <2>5, <2>6, <1>0, OneRequest DEF KeepsSound
<1>3. ASSUME NEW r \in Requests, TakeForExchange(r) PROVE Inv'
  <2>1. PICK user \in Users : Take(r, "exchange", user)
    BY <1>3 DEF TakeForExchange
  <2>2. PICK host \in record :
          req' = [req EXCEPT ![r] =
                    [at |-> "exchange", host |-> host, body |-> user]]
    BY <2>1 DEF Take
  <2>3. UNCHANGED <<confirmed, installed, presents, record, met>>
    BY <1>3 DEF TakeForExchange, machines, history
  <2>4. KeepsSound BY <2>3, SoundStays
  <2>5. Holding([at |-> "exchange", host |-> host, body |-> user],
                confirmed', installed')
    BY <2>4, <1>0 DEF Holding, KeepsSound
  <2>6. met' \subseteq confirmed' BY <2>3 DEF Inv
  <2> QED BY <2>2, <2>3, <2>4, <2>5, <2>6, <1>0, OneRequest
<1>4. ASSUME NEW r \in Requests, TakeForConnect(r) PROVE Inv'
  <2>1. PICK host \in record :
          req' = [req EXCEPT ![r] =
                    [at |-> "connect", host |-> host, body |-> Unset]]
    BY <1>4 DEF TakeForConnect, Take
  <2>3. UNCHANGED <<confirmed, installed, presents, record, met>>
    BY <1>4 DEF TakeForConnect, machines, history
  <2>4. KeepsSound BY <2>3, SoundStays
  <2>5. Holding([at |-> "connect", host |-> host, body |-> Unset],
                confirmed', installed')
    BY <2>4, <1>0 DEF Holding, KeepsSound
  <2>6. met' \subseteq confirmed' BY <2>3 DEF Inv
  <2> QED BY <2>1, <2>3, <2>4, <2>5, <2>6, <1>0, OneRequest
<1>5. ASSUME NEW r \in Requests, Probe(r) PROVE Inv'
  <2> DEFINE host == req[r].host
             pinned == [at |-> "write", body |-> Unset,
                        host |-> [host EXCEPT !.pin = presents[host.address]]]
  <2>1. /\ req[r].at = "probe"
        /\ \/ ProbeConfirms(req[r].body, presents[host.address])
              /\ req' = [req EXCEPT ![r] = pinned]
           \/ req' = [req EXCEPT ![r] = Idle]
    BY <1>5 DEF Probe, Finish
  <2>2. UNCHANGED <<confirmed, installed, presents, record, met>>
    BY <1>5 DEF Probe, machines, history
  <2>3. Sound(host, confirmed, installed) /\ req[r].body \in confirmed
    BY <2>1 DEF Inv, Holding, Idle
  <2>4. KeepsSound BY <2>2, SoundStays
  <2>5. ProbeConfirms(req[r].body, presents[host.address]) =>
               Holding(pinned, confirmed', installed')
    <3> SUFFICES ASSUME presents[host.address] = req[r].body
                 PROVE  Holding(pinned, confirmed', installed')
      BY DEF ProbeConfirms
    <3>1. host \in Records /\ presents[host.address] \in HostKeys
      BY <2>3 DEF Sound, Records, Inv
    <3>2. Sound(pinned.host, confirmed, installed)
      BY <2>3, <3>1 DEF Sound, Records
    <3> QED BY <3>2, <2>4 DEF Holding, KeepsSound
  <2>6. Holding(Idle, confirmed', installed') BY DEF Holding
  <2>7. met' \subseteq confirmed' BY <2>2 DEF Inv
  <2> HIDE DEF pinned, host
  <2> QED BY <2>1, <2>2, <2>4, <2>5, <2>6, <2>7, <1>0, OneRequest
<1>6. ASSUME NEW r \in Requests, Exchange(r) PROVE Inv'
  <2> DEFINE host == req[r].host
             there == presents[host.address]
             user == req[r].body
             holds(k) == [at |-> "write", body |-> user,
                          host |-> Exchanged(host, user, k)]
  <2>1. /\ req[r].at = "exchange"
        /\ \/ /\ KeyAccepted(host.pin, there)
              /\ met' = met \cup {there}
              /\ \E k \in Generated :
                   /\ installed' = installed \cup {<<host.address, user, k>>}
                   /\ \/ req' = [req EXCEPT ![r] = holds(k)]
                      \/ req' = [req EXCEPT ![r] = Idle]
           \/ req' = [req EXCEPT ![r] = Idle] /\ UNCHANGED <<installed, met>>
    BY <1>6 DEF Exchange, Finish
  <2>2. UNCHANGED <<confirmed, presents, record>>
    BY <1>6 DEF Exchange, machines
  <2>3. Sound(host, confirmed, installed) /\ user \in Users
    BY <2>1 DEF Inv, Holding, Idle
  <2>4. installed \subseteq installed' /\ confirmed \subseteq confirmed'
    BY <2>1, <2>2
  <2>5. KeepsSound BY <2>4, SoundStays
  <2>6. met' \subseteq confirmed'
    BY <2>1, <2>2, <2>3 DEF KeyAccepted, Sound, Inv
  <2>7. ASSUME NEW k \in Generated,
               installed' = installed \cup {<<host.address, user, k>>}
        PROVE  Holding(holds(k), confirmed', installed')
    <3> DEFINE copy == Exchanged(host, user, k)
    <3>1. host \in Records /\ host.pin \in confirmed' \cup {Unset} BY <2>2, <2>3 DEF Sound
    <3>2. Trim[user] \in Users BY <2>3, HostRecordsAssumption
    <3>3. /\ copy.address = host.address /\ copy.user = Trim[user] /\ copy.key = k
          /\ copy.method = "privateKey" /\ copy.phrase = FALSE /\ copy.pin = host.pin
      BY <3>1 DEF Exchanged, Records
    <3>4. copy \in Records BY <3>1, <3>2 DEF Exchanged, Records
    <3>5. <<copy.address, user, copy.key>> \in installed' BY <2>7, <3>3
    <3> HIDE DEF copy
    <3>6. Sound(copy, confirmed', installed') BY <2>3, <3>1, <3>3, <3>4, <3>5 DEF Sound
    <3> QED BY <3>6 DEF Holding, copy
  <2>8. Holding(Idle, confirmed', installed') BY DEF Holding
  <2> HIDE DEF host, there, user, holds
  <2>9. CASE req' = [req EXCEPT ![r] = Idle]
    BY <2>9, <2>2, <2>4, <2>5, <2>6, <2>8, <1>0, OneRequest DEF KeepsSound
  <2>10. CASE \E k \in Generated :
                /\ installed' = installed \cup {<<host.address, user, k>>}
                /\ req' = [req EXCEPT ![r] = holds(k)]
    <3> PICK k \in Generated :
                /\ installed' = installed \cup {<<host.address, user, k>>}
                /\ req' = [req EXCEPT ![r] = holds(k)]
      BY <2>10
    <3>1. Holding(holds(k), confirmed', installed') BY <2>7
    <3> QED BY <3>1, <2>2, <2>4, <2>5, <2>6, <1>0, OneRequest DEF KeepsSound
  <2> QED BY <2>1, <2>9, <2>10
<1>7. ASSUME NEW r \in Requests, Connect(r) PROVE Inv'
  <2>1. /\ req[r].at = "connect" /\ req' = [req EXCEPT ![r] = Idle]
        /\ met' = met \cup 
             (IF KeyAccepted(req[r].host.pin, presents[req[r].host.address])
              THEN {presents[req[r].host.address]} ELSE {})
    BY <1>7 DEF Connect, Finish
  <2>2. UNCHANGED <<confirmed, installed, presents, record>>
    BY <1>7 DEF Connect, machines
  <2>3. Sound(req[r].host, confirmed, installed) BY <2>1 DEF Inv, Holding, Idle
  <2>4. KeepsSound BY <2>2, SoundStays
  <2>5. met' \subseteq confirmed'
    BY <2>1, <2>2, <2>3 DEF KeyAccepted, Sound, Inv
  <2>6. Holding(Idle, confirmed', installed') BY DEF Holding
  <2> QED BY <2>1, <2>2, <2>4, <2>5, <2>6, <1>0, OneRequest
<1>8. ASSUME NEW r \in Requests, Write(r) PROVE Inv'
  <2>1. /\ req[r].at = "write" /\ req' = [req EXCEPT ![r] = Idle]
        /\ record' = {req[r].host} \/ record' = record
    BY <1>8 DEF Write, Finish
  <2>2. UNCHANGED <<confirmed, installed, presents, met>>
    BY <1>8 DEF Write, machines
  <2>3. Sound(req[r].host, confirmed, installed) BY <2>1 DEF Inv, Holding, Idle
  <2>4. KeepsSound BY <2>2, SoundStays
  <2>5. \A h \in record' : Sound(h, confirmed', installed')
    BY <2>1, <2>3, <2>4, <1>0 DEF KeepsSound
  <2>6. Holding(Idle, confirmed', installed') BY DEF Holding
  <2>7. met' \subseteq confirmed' BY <2>2 DEF Inv
  <2> QED BY <2>1, <2>2, <2>5, <2>6, <2>7, OneRequest
<1>9. CASE Delete \/ MachineChangesKey \/ UNCHANGED vars
  <2>1. /\ record' \subseteq record /\ UNCHANGED <<req, confirmed, met, installed>>
        /\ presents' \in [Addresses -> HostKeys]
    BY <1>9 DEF Delete, MachineChangesKey, vars, machines, history, Inv
  <2>2. KeepsSound BY <2>1, SoundStays
  <2>3. \A x : Holding(x, confirmed, installed) =>
               Holding(x, confirmed', installed')
    BY <2>1, HoldingStays
  <2> QED BY <2>1, <2>2, <2>3 DEF Inv
<1> QED BY <1>1, <1>2, <1>3, <1>4, <1>5, <1>6, <1>7, <1>8, <1>9 DEF Next

-----------------------------------------------------------------------------
LEMMA CopiesAreSound == Spec => []Inv
BY InvInit, InvNext, PTL DEF Spec

\* No credentials are sent to a machine whose key nobody confirmed: pins only
\* come from confirmed probes (trustHostKey) and survive every write as such.
THEOREM OnlyConfirmedKeysAreMet == Spec => []OnlyConfirmedKeys
<1>1. Inv => OnlyConfirmedKeys BY DEF Inv, OnlyConfirmedKeys
<1> QED BY <1>1, CopiesAreSound, PTL

\* A generated key is stored with the address it was installed at and, up to the
\* blanks that exchangeHostKeys trims, with the account it was installed for,
\* however late its copy is written.
THEOREM ExchangedKeysWork == Spec => []ExchangedKeyWorks
<1>1. Inv => ExchangedKeyWorks BY DEF Inv, Sound, ExchangedKeyWorks
<1> QED BY <1>1, CopiesAreSound, PTL
=============================================================================
