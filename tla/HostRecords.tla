----------------------------- MODULE HostRecords -----------------------------
(***************************************************************************)
(* One host of a user's hosts.yml and the requests that read, change and   *)
(* use it: editing it, deleting it, trusting the key it presents, having a *)
(* key pair exchanged for its password, and connecting to it (hosts.go,    *)
(* api/hosts.go, api/hostkeys.go, api/exchangekeys.go, sshpty/hostkey.go,  *)
(* sshpty/exchange.go).                                                    *)
(*                                                                         *)
(* Store's mutex covers one Get or one Update. A handler gets a copy of    *)
(* the record, dials a machine that may take seconds to answer, and writes *)
(* the WHOLE copy back: whatever changed in between is overwritten. What   *)
(* the module asks is which promises survive that (no connection to a      *)
(* machine whose key nobody confirmed, a generated key stored with the     *)
(* account it was installed for, but for the blanks around its name) and   *)
(* which do not (PasswordRetired, ExchangedAccount).                       *)
(***************************************************************************)
EXTENDS Naturals, FiniteSets

CONSTANTS
  Addresses,   \* where hosts may be found
  Users,       \* remote accounts, by the names dialogs may send: not only blanks
  Trim,        \* strings.TrimSpace of such a name
  Forms,       \* what the dialogs may send: address, user, method, and whether a
               \* secret is sent or omitted
  HostKeys,    \* host-key fingerprints machines may present
  Requests,    \* requests the server handles at once
  Generated,   \* key pairs ssh key exchanges may generate, one each
  MaxRekeys,   \* bound: how often a machine changes its host key
  Unset        \* "" in the record

ASSUME HostRecordsAssumption ==
  /\ MaxRekeys \in Nat
  /\ Trim \in [Users -> Users] /\ \A u \in Users : Trim[Trim[u]] = Trim[u]
  /\ Forms \subseteq [address : Addresses, user : Users,
                      method : {"password", "privateKey"}, secret : BOOLEAN]
  /\ Unset \notin HostKeys \cup Generated \cup {"own"}

VARIABLES
  record,     \* the host in the store, and in hosts.yml: {} or one record
  presents,   \* the host key the machine at an address presents now
  installed,  \* authorized_keys: <<address, user, generated key>>
  req,        \* what each request is doing
  rekeys,
  confirmed,  \* history: the fingerprints the user has confirmed
  met,        \* history: the fingerprints of machines credentials were sent to
  retired     \* history: an exchange succeeded and no edit has begun since

vars == <<record, presents, installed, req, rekeys, confirmed, met, retired>>
machines == <<presents, rekeys>>
history == <<confirmed, met, retired>>

Records ==
  [address : Addresses, user : Users, method : {"password", "privateKey"},
   password : BOOLEAN, key : Generated \cup {"own", Unset}, phrase : BOOLEAN,
   pin : HostKeys \cup {Unset}, origin : {"created", "edited", "exchanged"}]

Idle == [at |-> "idle"]
Finish(r) == req' = [req EXCEPT ![r] = Idle]

-----------------------------------------------------------------------------
(* What the handlers make of a record                                      *)

\* updateHost: an omitted secret stays, the other method's secret goes; the pin
\* stays, whatever the address.
Edited(old, form) ==
  [address |-> form.address, user |-> form.user, method |-> form.method,
   password |-> form.method = "password" /\ (form.secret \/ old.password),
   key |-> IF form.method = "password" THEN Unset
           ELSE IF form.secret THEN "own" ELSE old.key,
   phrase |-> form.method = "privateKey" /\ (form.secret \/ old.phrase),
   pin |-> old.pin, origin |-> "edited"]

\* Variant: the account the key was installed for is not stored with it.
ExchangedForOldUser(old, user, k) ==
  [old EXCEPT !.method = "privateKey", !.key = k, !.phrase = FALSE,
              !.password = FALSE, !.origin = "exchanged"]

\* exchangeHostKeys, once the key is installed for the name as it was sent.
Exchanged(old, user, k) ==
  [old EXCEPT !.user = Trim[user], !.method = "privateKey", !.key = k,
              !.phrase = FALSE, !.password = FALSE, !.origin = "exchanged"]

\* pinnedHostKeyCallback: the dial goes on to authenticate, or ends with
\* ErrHostKeyUnknown or ErrHostKeyChanged and a 409.
KeyAccepted(pin, presented) == pin # Unset /\ presented = pin

\* Variant: whatever key the probe finds is pinned.
AnyProbe(body, presented) == TRUE

\* trustHostKey re-probes, and pins only the key the user was shown.
ProbeConfirms(body, presented) == presented = body

-----------------------------------------------------------------------------
\* createHost: no pin yet, and only the secrets that were sent.
Created(form) ==
  [address |-> form.address, user |-> form.user, method |-> form.method,
   password |-> form.method = "password" /\ form.secret,
   key |-> IF form.method = "privateKey" /\ form.secret THEN "own" ELSE Unset,
   phrase |-> FALSE, pin |-> Unset, origin |-> "created"]

-----------------------------------------------------------------------------
Init ==
  /\ record \in {{Created(form)} : form \in Forms}
  /\ presents \in [Addresses -> HostKeys]
  /\ installed = {}
  /\ req = [r \in Requests |-> Idle]
  /\ rekeys = 0
  /\ confirmed = {} /\ met = {} /\ retired = FALSE

\* A request that finds the host takes a copy of it; the others get a 404.
Take(r, step, body) ==
  /\ req[r] = Idle
  /\ \E host \in record :
       req' = [req EXCEPT ![r] = [at |-> step, host |-> host, body |-> body]]

\* PUT /api/hosts/:id.
TakeForEdit(r) ==
  /\ req[r] = Idle
  /\ \E host \in record, form \in Forms :
       req' = [req EXCEPT ![r] = [at |-> "write", host |-> Edited(host, form),
                                  body |-> Unset]]
  /\ retired' = FALSE
  /\ UNCHANGED <<record, machines, installed, confirmed, met>>

\* POST host-key/trust with the fingerprint the user was shown and confirmed.
TakeForTrust(r) ==
  /\ \E f \in HostKeys : Take(r, "probe", f) /\ confirmed' = confirmed \cup {f}
  /\ UNCHANGED <<record, machines, installed, met, retired>>

\* ProbeHostKey answers with the key the machine presents, or fails.
Probe(r) ==
  /\ req[r].at = "probe"
  /\ LET host == req[r].host IN
     \/ /\ ProbeConfirms(req[r].body, presents[host.address])
        /\ req' = [req EXCEPT ![r] = [at |-> "write", body |-> Unset,
                     host |-> [host EXCEPT !.pin = presents[host.address]]]]
     \/ Finish(r)
  /\ UNCHANGED <<record, machines, installed, history>>

\* POST exchange-keys, for the account the user names.
TakeForExchange(r) ==
  /\ \E user \in Users : Take(r, "exchange", user)
  /\ UNCHANGED <<record, machines, installed, history>>

\* ExchangeKeys logs in as the user in the body, untrimmed, sends the password
\* once the host key is accepted, and appends a new public key, which may fail
\* after it has.
Exchange(r) ==
  /\ req[r].at = "exchange"
  /\ LET host == req[r].host
         there == presents[host.address] IN
     \/ /\ KeyAccepted(host.pin, there)
        /\ met' = met \cup {there}
        /\ \E k \in Generated \ {i[3] : i \in installed} :
             /\ installed' = installed \cup {<<host.address, req[r].body, k>>}
             /\ \/ req' = [req EXCEPT ![r] =
                       [at |-> "write", body |-> req[r].body,
                        host |-> Exchanged(host, req[r].body, k)]]
                \/ Finish(r)
     \/ Finish(r) /\ UNCHANGED <<installed, met>>
  /\ UNCHANGED <<record, machines, confirmed, retired>>

\* Creating or restarting an SSH session, and browsing the host: SSHTarget
\* copies what the dial needs.
TakeForConnect(r) ==
  /\ Take(r, "connect", Unset)
  /\ UNCHANGED <<record, machines, installed, history>>

Connect(r) ==
  /\ req[r].at = "connect"
  /\ LET there == presents[req[r].host.address] IN
     met' = met \cup (IF KeyAccepted(req[r].host.pin, there) THEN {there} ELSE {})
  /\ Finish(r)
  /\ UNCHANGED <<record, machines, installed, confirmed, retired>>

\* Store.Update replaces the record, unless the host is gone; hosts.yml is
\* renamed into place first, and if that fails nothing changes.
Write(r) ==
  /\ req[r].at = "write"
  /\ \/ /\ record # {}
        /\ record' = {req[r].host}
        /\ retired' = (retired \/ req[r].body \in Users)
     \/ UNCHANGED <<record, retired>>
  /\ Finish(r)
  /\ UNCHANGED <<machines, installed, confirmed, met>>

\* DELETE /api/hosts/:id.
Delete ==
  /\ record # {} /\ record' = {}
  /\ UNCHANGED <<machines, installed, req, history>>

\* A machine is reinstalled, or another one answers at its address.
MachineChangesKey ==
  /\ rekeys < MaxRekeys /\ rekeys' = rekeys + 1
  /\ \E a \in Addresses, f \in HostKeys : presents' = [presents EXCEPT ![a] = f]
  /\ UNCHANGED <<record, installed, req, history>>

Next ==
  \/ \E r \in Requests :
       \/ TakeForEdit(r) \/ TakeForTrust(r) \/ TakeForExchange(r) \/ TakeForConnect(r)
       \/ Probe(r) \/ Exchange(r) \/ Connect(r) \/ Write(r)
  \/ Delete \/ MachineChangesKey

Spec == Init /\ [][Next]_vars

-----------------------------------------------------------------------------
(* Properties                                                              *)

TypeOK ==
  /\ record \subseteq Records /\ Cardinality(record) <= 1
  /\ presents \in [Addresses -> HostKeys]
  /\ installed \subseteq Addresses \X Users \X Generated
  /\ rekeys \in 0..MaxRekeys
  /\ confirmed \subseteq HostKeys /\ met \subseteq HostKeys /\ retired \in BOOLEAN

\* Credentials are only ever sent to a machine that presents a key the user has
\* confirmed, whatever was edited, trusted or exchanged at the same time and
\* whenever machines change their keys (pinnedHostKeyCallback, trustHostKey).
OnlyConfirmedKeys == met \subseteq confirmed

\* Until a user edits the host, a generated key is stored with the address where
\* it was installed, without the passphrase of another key, and with the account
\* it was installed for up to the blanks around its name: a copy written back late
\* is as a whole what it once was.  Up to the blanks, because exchangeHostKeys
\* logs in with the name as it was sent and stores it trimmed: where both are
\* accounts, the record names the one that does not have the key, which its
\* comment on the line before wants to exclude.
ExchangedKeyWorks ==
  \A h \in record : h.origin = "exchanged" =>
    /\ h.method = "privateKey" /\ ~h.phrase
    /\ \E user \in Users : Trim[user] = h.user /\ <<h.address, user, h.key>> \in installed

\* The account of the record is the one the key was installed for (the comment at
\* exchangekeys.go:60).  It is not if the name was sent with a blank.
ExchangedAccount ==
  \A h \in record : h.origin = "exchanged" => <<h.address, h.user, h.key>> \in installed

\* Once an exchange has succeeded no password is stored until the user edits
\* the host again (README.md on "Exchange SSH keys").  A request that copied
\* the record earlier writes the password back.
PasswordRetired == retired => \A h \in record : ~h.password
=============================================================================
