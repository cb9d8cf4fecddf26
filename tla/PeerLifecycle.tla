--------------------------- MODULE PeerLifecycle ---------------------------
(***************************************************************************)
(* The life of the wg-family clients of one provider, as the API handlers   *)
(* of internal/api/api_peers.go and handlers_peers.go and the expiry worker *)
(* of expiry.go run it: several stores (the interface and its config file   *)
(* on the host, and the tables disabled_peers, peer_secrets, peer_expiry)   *)
(* changed by one call after another.  The category, mute and forward-rule  *)
(* rows of a client, written last and best effort, are left out.            *)
(*                                                                         *)
(* One action is one provider call or one SQL statement.  A provider call   *)
(* is atomic (WgProvider: its mutex serialises them), and when it fails it  *)
(* leaves what WgProvider shows it can leave, but for a write cut off in    *)
(* its middle, which drops other peers too.  "Abort" is a handler that      *)
(* makes no further call: its request's context was cancelled or the panel  *)
(* stopped.  A client stands for what its config entry holds besides the    *)
(* key (name, AllowedIPs, keepalive), so it survives a key rotation.        *)
(***************************************************************************)
EXTENDS Naturals

CONSTANTS
  Keys,      \* public keys
  Clients,   \* clients: name and settings
  Handlers,  \* HTTP requests being served at once
  Worker,    \* the expiry worker
  Kinds,     \* the operations that are requested
  Asked,     \* the expiries asked for: "none", "future" or both
  MaxFaults, \* bound on calls that fail
  MaxAborts, \* bound on handlers that stop half-way
  Absent,    \* no such entry
  Unnamed    \* an entry saved with an empty name

Procs == Handlers \cup {Worker}
AllKinds == {"create", "adopt", "delete", "disable", "enable", "rotate", "update"}

ASSUME PeersAssumption ==
  /\ Worker \notin Handlers
  /\ Kinds \subseteq AllKinds
  /\ Asked \subseteq {"none", "future"}
  /\ MaxFaults \in Nat /\ MaxAborts \in Nat
  /\ Absent \notin Clients /\ Unnamed \notin Clients /\ Absent # Unnamed

VARIABLES
  conf,      \* the config file: the client of each key
  live,      \* the keys in the kernel
  disabled,  \* protean.disabled_peers
  secret,    \* protean.peer_secrets
  expiry,    \* protean.peer_expiry, as what the clock makes of its rows
  pc, job,   \* next call of each handler, and what it works on
  todo,      \* the due keys of the sweep under way
  made,      \* keys used so far: GenerateKeyPair never repeats one
  faults, aborts,
  clients,   \* history: clients created and not deleted
  issued,    \* history: keys the panel holds the private half of for a client
  off,       \* history: "no" until the key's deletion or rotation succeeded, "yes"
             \* when that left no disabled_peers row, "again" if the key may come
             \* back: by that row, or configured anew by an admin
  term,      \* history: the expiry that was asked for the client of a key
  clash      \* history: two operations on one key have overlapped

stores == <<conf, live, disabled, secret, expiry>>
history == <<made, clients, issued, off, term, clash>>
vars == <<stores, pc, job, todo, faults, aborts, history>>

Entries == Clients \cup {Unnamed, Absent}

NoJob == [kind |-> "update", key |-> Absent, new |-> Absent,
          client |-> Absent, term |-> "none"]

Init ==
  /\ conf = [k \in Keys |-> Absent] /\ disabled = [k \in Keys |-> Absent]
  /\ live = {} /\ secret = {}
  /\ expiry = [k \in Keys |-> "none"] /\ term = [k \in Keys |-> "none"]
  /\ pc = [p \in Procs |-> "idle"] /\ job = [p \in Procs |-> NoJob]
  /\ todo = {} /\ made = {}
  /\ faults = 0 /\ aborts = 0
  /\ clients = {} /\ issued = {} /\ off = [k \in Keys |-> "no"] /\ clash = FALSE

-----------------------------------------------------------------------------
(* Calls *)

Goto(p, l) == pc' = [pc EXCEPT ![p] = l]
Finish(p) == /\ Goto(p, "idle")
             /\ job' = [job EXCEPT ![p] = NoJob]
Then(p, l) == Goto(p, l) /\ UNCHANGED job

Fault == faults < MaxFaults /\ faults' = faults + 1
NoFault == UNCHANGED faults

Begins(p, ks) ==
  clash' = (clash \/ \E q \in Procs \ {p} : pc[q] # "idle" /\ {job[q].key, job[q].new} \cap ks # {})

\* The entries of the clients that exist or are being created.
Taken == {conf[k] : k \in Keys} \cup {disabled[k] : k \in Keys}
           \cup {job[p].client : p \in Procs} \cup clients

FirstCall(kind) ==
  CASE kind \in {"create", "adopt"} -> "add"
    [] kind = "delete" -> "remove"
    [] kind = "disable" -> "find"
    [] kind = "enable" -> "get"
    [] OTHER -> kind

\* A request: apiCreatePeer with a generated key ("create") or the caller's own
\* ("adopt"), apiUpdatePeer, apiDeletePeer, apiDisablePeer, apiEnablePeer and
\* apiRotatePeer.  The page they come from lists the kernel's peers and the
\* disabled ones.
Request(h, kind, k, n, c, t) ==
  /\ pc[h] = "idle" /\ Begins(h, {k, n})
  /\ kind \in {"create", "adopt"} => c \notin Taken
  /\ kind = "create" => k \notin made
  /\ kind = "rotate" => n \notin made
  /\ Goto(h, FirstCall(kind))
  /\ job' = [job EXCEPT ![h] = [kind |-> kind, key |-> k, new |-> n, client |-> c,
                                term |-> t]]
  /\ made' = made \cup {k, n}
  /\ UNCHANGED <<stores, todo, faults, aborts, clients, issued, off, term>>

\* The parameters a kind does not have take one fixed value.
NewRequest(h) ==
  \E kind \in Kinds, k \in Keys, n \in Keys, c \in Clients \cup {Absent},
     t \in Asked \cup {"none"} :
    /\ kind # "rotate" => n = k
    /\ kind \in {"create", "adopt"} <=> c # Absent
    /\ IF kind \in {"create", "adopt"} THEN t \in Asked ELSE t = "none"
    /\ kind \notin {"create", "adopt"} => k \in live \/ disabled[k] # Absent
    /\ Request(h, kind, k, n, c, t)

\* AddPeer and AddConfiguredPeer: refused without a name or when the config has
\* the key already.  A client created on the key of a disabled one replaces it.
AddTo(p) ==
  LET k == job[p].key
      c == job[p].client
      refused == c = Unnamed \/ conf[k] # Absent
  IN /\ pc[p] = "add"
     /\ \/ /\ refused
           /\ Finish(p) /\ NoFault
           /\ UNCHANGED <<conf, live, clients, off>>
        \/ /\ ~refused
           /\ conf' = [conf EXCEPT ![k] = c]
           /\ live' = live \cup {k}
           /\ Then(p, CASE job[p].kind = "create" -> "seal"
                        [] job[p].kind = "adopt" -> "expiry"
                        [] OTHER -> "undisable")
           /\ clients' = IF job[p].kind = "adopt"
                        THEN (clients \ {disabled[k]}) \cup {c} ELSE clients
           /\ off' = IF job[p].kind = "adopt" /\ off[k] # "no"
                    THEN [off EXCEPT ![k] = "again"] ELSE off
           /\ NoFault
        \/ /\ ~refused /\ Fault
           /\ conf' \in {conf, [conf EXCEPT ![k] = c]}
           /\ live' \in {live, live \cup {k}}
           /\ Finish(p) /\ UNCHANGED <<clients, off>>
     /\ UNCHANGED <<disabled, secret, expiry, todo, aborts, made, issued, term, clash>>

\* Mutant: a failure to store the secret is only logged.
SealIgnored(p) ==
  /\ pc[p] = "seal"
  /\ \/ secret' = secret \cup {job[p].new} /\ NoFault
     \/ Fault /\ UNCHANGED secret
  /\ issued' = issued \cup {job[p].new}
  /\ Finish(p)
  /\ UNCHANGED <<conf, live, disabled, expiry, todo, aborts, made, clients, off, term, clash>>

\* Seal and SavePeerSecret for the key AddPeer or RotatePeerKey generated; when
\* it fails, that peer is removed again.
Seal(p) ==
  LET k == job[p].new
      present == {conf[k], disabled[k]} # {Absent} /\ off[k] = "no"  \* not deleted meanwhile
  IN /\ pc[p] = "seal"
     /\ \/ /\ secret' = secret \cup {k} /\ NoFault
           /\ clients' = IF job[p].kind = "create" /\ present
                        THEN clients \cup {job[p].client} ELSE clients
           /\ issued' = IF present THEN issued \cup {k} ELSE issued
           /\ Then(p, IF job[p].kind = "create" THEN "expiry" ELSE "unsecret")
        \/ /\ Fault /\ UNCHANGED <<secret, clients, issued>>
           /\ Then(p, "unadd")
     /\ UNCHANGED <<conf, live, disabled, expiry, todo, aborts, made, off, term, clash>>

\* The history of a deletion or rotation of k: a disabled_peers row of the key
\* stays, and can be enabled.
GoneOff(k) == [off EXCEPT ![k] = IF disabled[k] = Absent THEN "yes" ELSE "again"]

\* What a RemovePeer of k that reports an error can leave.
RemoveFails(k) ==
  \/ UNCHANGED <<conf, live>>
  \/ /\ conf' = [conf EXCEPT ![k] = Absent]
     /\ live' \in {live, live \ {k}}

Unadd(p) ==
  LET k == job[p].new
  IN /\ pc[p] = "unadd"
     /\ \/ conf[k] = Absent /\ NoFault /\ UNCHANGED <<conf, live>>
        \/ /\ conf[k] # Absent /\ NoFault
           /\ conf' = [conf EXCEPT ![k] = Absent]
           /\ live' = live \ {k}
        \/ conf[k] # Absent /\ Fault /\ RemoveFails(k)
     /\ Finish(p)
     /\ UNCHANGED <<disabled, secret, expiry, todo, aborts, history>>

\* SetPeerExpiry, when days were given; a failure is only logged.
SetExpiry(p) ==
  LET k == job[p].key
      t == job[p].term
  IN /\ pc[p] = "expiry"
     /\ term' = [term EXCEPT ![k] = t]
     /\ \/ NoFault /\ expiry' = IF t = "none" THEN expiry ELSE [expiry EXCEPT ![k] = t]
        \/ t # "none" /\ Fault /\ UNCHANGED expiry
     /\ Finish(p)
     /\ UNCHANGED <<conf, live, disabled, secret, todo, aborts, made, clients, issued, off, clash>>

\* UpdatePeer changes an entry the config has, and sets it live again.
Update(p) ==
  LET k == job[p].key
  IN /\ pc[p] = "update"
     /\ \/ conf[k] = Absent /\ NoFault /\ UNCHANGED live
        \/ conf[k] # Absent /\ NoFault /\ live' = live \cup {k}
        \/ conf[k] # Absent /\ Fault /\ live' \in {live, live \cup {k}}
     /\ Finish(p)
     /\ UNCHANGED <<conf, disabled, secret, expiry, todo, aborts, history>>

-----------------------------------------------------------------------------
(* Disabling and enabling *)

\* Mutant: the peer is removed before its settings are saved.
FindUnsaved(p) ==
  /\ pc[p] = "find"
  /\ IF job[p].key \in live THEN Then(p, "remove") ELSE Finish(p)
  /\ NoFault
  /\ UNCHANGED <<stores, todo, aborts, history>>

\* findPeer: the peers are those of the kernel, their names those of the config.
Find(p) ==
  LET k == job[p].key
      entry == IF conf[k] = Absent THEN Unnamed ELSE conf[k]
  IN /\ pc[p] = "find"
     /\ \/ /\ k \in live /\ NoFault
           /\ Goto(p, "save")
           /\ job' = [job EXCEPT ![p].client = entry]
        \/ k \notin live /\ NoFault /\ Finish(p)
        \/ Fault /\ Finish(p)
     /\ UNCHANGED <<stores, todo, aborts, history>>

\* SaveDisabledPeer, before anything is removed.
Save(p) ==
  /\ pc[p] = "save"
  /\ \/ /\ disabled' = [disabled EXCEPT ![job[p].key] = job[p].client]
        /\ Then(p, "remove") /\ NoFault
     \/ Fault /\ Finish(p) /\ UNCHANGED disabled
  /\ UNCHANGED <<conf, live, secret, expiry, todo, aborts, history>>

\* RemovePeer, for apiDeletePeer and disablePeer.
Remove(p) ==
  LET k == job[p].key
      kind == job[p].kind
      failed == IF kind = "delete" THEN Finish(p) ELSE Then(p, "unsave")
  IN /\ pc[p] = "remove"
     /\ \/ /\ conf[k] = Absent /\ NoFault /\ failed
           /\ UNCHANGED <<conf, live, clients, issued, off, term>>
        \/ /\ conf[k] # Absent /\ NoFault
           /\ conf' = [conf EXCEPT ![k] = Absent]
           /\ live' = live \ {k}
           /\ clients' = IF kind = "delete" THEN clients \ {conf[k]} ELSE clients
           /\ term' = IF kind = "disable" THEN term ELSE [term EXCEPT ![k] = "none"]
           /\ CASE kind = "delete" -> Then(p, "unsecret")
                [] kind = "expire" -> Then(p, "unexpire")
                [] OTHER -> Finish(p)
           /\ issued' = IF kind = "delete" THEN issued \ {k} ELSE issued
           /\ off' = IF kind = "delete" THEN GoneOff(k) ELSE off
        \/ /\ conf[k] # Absent /\ Fault /\ failed
           /\ RemoveFails(k)
           /\ clients' = IF kind = "delete" THEN clients \ {conf[k]} ELSE clients
           /\ UNCHANGED <<issued, off, term>>
     /\ UNCHANGED <<disabled, secret, expiry, todo, aborts, made, clash>>

\* DeleteDisabledPeer: after a failed removal ("unsave") and after an enable
\* ("undisable").  Its error is ignored.
Unsave(p) ==
  /\ pc[p] \in {"unsave", "undisable"}
  /\ \/ disabled' = [disabled EXCEPT ![job[p].key] = Absent] /\ NoFault
     \/ Fault /\ UNCHANGED disabled
  /\ Finish(p)
  /\ UNCHANGED <<conf, live, secret, expiry, todo, aborts, history>>

\* GetDisabledPeer of apiEnablePeer.
Get(p) ==
  LET row == disabled[job[p].key]
  IN /\ pc[p] = "get"
     /\ \/ /\ row # Absent /\ NoFault
           /\ Goto(p, "add")
           /\ job' = [job EXCEPT ![p].client = row]
        \/ row = Absent /\ NoFault /\ Finish(p)
        \/ Fault /\ Finish(p)
     /\ UNCHANGED <<stores, todo, aborts, history>>

-----------------------------------------------------------------------------
(* Rotation, and the rows of a key that is gone *)

\* Mutant: the old key is left in the kernel.
RotateKeepingOld(p) ==
  LET k == job[p].key
      n == job[p].new
  IN /\ pc[p] = "rotate" /\ conf[k] # Absent
     /\ conf' = [conf EXCEPT ![k] = Absent, ![n] = conf[k]]
     /\ live' = live \cup {n}
     /\ off' = GoneOff(k)
     /\ Then(p, "seal") /\ NoFault
     /\ UNCHANGED <<disabled, secret, expiry, todo, aborts, made, clients, issued, term, clash>>

\* RotatePeerKey: the entry moves to the new key.
Rotate(p) ==
  LET k == job[p].key
      n == job[p].new
      moved == [conf EXCEPT ![k] = Absent, ![n] = conf[k]]
  IN /\ pc[p] = "rotate"
     /\ \/ /\ conf[k] = Absent /\ NoFault /\ Finish(p)
           /\ UNCHANGED <<conf, live, issued, off, term>>
        \/ /\ conf[k] # Absent /\ NoFault
           /\ conf' = moved
           /\ live' = (live \ {k}) \cup {n}
           /\ Then(p, "seal")
           /\ issued' = issued \ {k}
           /\ off' = GoneOff(k)
           /\ term' = [term EXCEPT ![k] = "none", ![n] = term[k]]
        \/ /\ conf[k] # Absent /\ Fault /\ Finish(p)
           /\ conf' \in {conf, moved}
           /\ live' \in {live, live \ {k}, (live \ {k}) \cup {n}}
           /\ UNCHANGED <<issued, off, term>>
     /\ UNCHANGED <<disabled, secret, expiry, todo, aborts, made, clients, clash>>

\* DeletePeerSecret of the old key; its error is ignored.
Unsecret(p) ==
  /\ pc[p] = "unsecret"
  /\ \/ secret' = secret \ {job[p].key} /\ NoFault
     \/ Fault /\ UNCHANGED secret
  /\ IF job[p].kind = "delete" THEN Then(p, "unexpire") ELSE Finish(p)
  /\ UNCHANGED <<conf, live, disabled, expiry, todo, aborts, history>>

\* DeletePeerExpiry: after a delete, and after the worker disabled the peer.
\* A failure is only logged.
Unexpire(p) ==
  /\ pc[p] = "unexpire"
  /\ \/ expiry' = [expiry EXCEPT ![job[p].key] = "none"] /\ NoFault
     \/ Fault /\ UNCHANGED expiry
  /\ Finish(p)
  /\ UNCHANGED <<conf, live, disabled, secret, todo, aborts, history>>

-----------------------------------------------------------------------------
(* The expiry worker *)

\* sweepExpired: ListDuePeers, then disablePeer for each.
Sweep ==
  /\ pc[Worker] = "idle" /\ todo = {}
  /\ todo' = {k \in Keys : expiry[k] = "due"}
  /\ UNCHANGED <<stores, pc, job, faults, aborts, history>>

\* Mutant: the expiry row is deleted before the peer is disabled.
NextDueForgetting ==
  \E k \in todo :
    /\ pc[Worker] = "idle" /\ Begins(Worker, {k})
    /\ todo' = todo \ {k}
    /\ Goto(Worker, "find")
    /\ job' = [job EXCEPT ![Worker] = [NoJob EXCEPT !.kind = "expire", !.key = k, !.new = k]]
    /\ expiry' = [expiry EXCEPT ![k] = "none"]
    /\ UNCHANGED <<conf, live, disabled, secret, faults, aborts, made, clients, issued, off, term>>

NextDue ==
  \E k \in todo :
    /\ pc[Worker] = "idle" /\ Begins(Worker, {k})
    /\ todo' = todo \ {k}
    /\ Goto(Worker, "find")
    /\ job' = [job EXCEPT ![Worker] = [NoJob EXCEPT !.kind = "expire", !.key = k, !.new = k]]
    /\ UNCHANGED <<stores, faults, aborts, made, clients, issued, off, term>>

-----------------------------------------------------------------------------
(* The environment *)

\* The handler makes no further call.
Abort(p) ==
  /\ pc[p] # "idle"
  /\ aborts < MaxAborts /\ aborts' = aborts + 1
  /\ Finish(p)
  /\ todo' = IF p = Worker THEN {} ELSE todo
  /\ UNCHANGED <<stores, faults, history>>

\* `wg-quick' reloads the config: a reboot, or a restart from the panel.
HostReload ==
  /\ live' = {k \in Keys : conf[k] # Absent}
  /\ UNCHANGED <<conf, disabled, secret, expiry, pc, job, todo, faults, aborts, history>>

\* The clock passes an expiry.  One is set days ahead: a sweep that is at work on
\* a key because of an earlier row ends before a new one is due.
Tick(k) ==
  /\ k \notin todo /\ (pc[Worker] = "idle" \/ job[Worker].key # k)
  /\ "future" \in {expiry[k], term[k]}
  /\ expiry' = [expiry EXCEPT ![k] = IF @ = "future" THEN "due" ELSE @]
  /\ term' = [term EXCEPT ![k] = IF @ = "future" THEN "due" ELSE @]
  /\ UNCHANGED <<conf, live, disabled, secret, pc, job, todo, faults, aborts,
                 made, clients, issued, off, clash>>

Step(p) ==
  \/ AddTo(p) \/ Seal(p) \/ Unadd(p) \/ SetExpiry(p) \/ Update(p)
  \/ Find(p) \/ Save(p) \/ Remove(p) \/ Unsave(p) \/ Get(p)
  \/ Rotate(p) \/ Unsecret(p) \/ Unexpire(p)

Next ==
  \/ \E h \in Handlers : NewRequest(h)
  \/ \E p \in Procs : Step(p) \/ Abort(p)
  \/ Sweep \/ NextDue
  \/ HostReload
  \/ \E k \in Keys : Tick(k)

Spec == Init /\ [][Next]_vars

\* Handlers run to their end, and the worker's ticker starts sweep after sweep.
\* Nothing forces a request, the clock or a reload.
LiveSpec ==
  /\ Spec
  /\ \A p \in Procs : WF_vars(Step(p))
  /\ WF_vars(Sweep) /\ WF_vars(NextDue)

-----------------------------------------------------------------------------
(* Properties *)

\* A client that was created and not deleted is always in the config file or in
\* disabled_peers, with its name: disabling, enabling, rotating and expiring it
\* never lose its settings.
SettingsKept ==
  \A c \in clients : \E k \in Keys : c \in {conf[k], disabled[k]}

\* No call has failed and no two operations on one key have overlapped.
Undisturbed == faults = 0 /\ ~clash

\* Wherever a handler stops, and whatever else runs on other keys, the settings
\* are kept as long as calls succeed and operations on one key do not overlap.
SettingsKeptUndisturbed == Undisturbed => SettingsKept

\* The panel can always rebuild the config of a client it generated the key
\* for: while the key is configured or disabled, its secret is stored, whichever
\* calls fail.
SecretKept ==
  \A k \in issued : conf[k] # Absent \/ disabled[k] # Absent => k \in secret

\* A key whose deletion or rotation succeeded is not accepted by the interface
\* again, unless the admin configures that key anew or a disabled_peers row of it
\* was left to enable (by a handler that stopped, or because the client had been
\* created on the key of a disabled one).
OffStaysOff == Undisturbed => \A k \in live : off[k] # "yes"

\* The sweep takes a key whose peer_expiry row is due, once, off the interface, however
\* admins disable, enable, rotate or delete it meanwhile, unless a call fails or
\* the key is created anew with another expiry.
DueGoesOff ==
  \A k \in Keys : expiry[k] = "due" /\ term[k] = "due" /\ faults = 0
                    ~> k \notin live \/ expiry[k] = "future" \/ faults > 0

=============================================================================
