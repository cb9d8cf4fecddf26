----------------------------- MODULE WgProvider -----------------------------
(***************************************************************************)
(* One WireGuard/AmneziaWG interface as internal/vpn/wgfamily/provider.go  *)
(* manages it: the peers in the config file on the host, the peers in the  *)
(* kernel, and the operations that keep the two in step over SSH.          *)
(*                                                                         *)
(* Every operation runs under the mutex of its Provider object, as a       *)
(* sequence of SSH commands; each command is one action.  A command can    *)
(* succeed, fail without effect, or take effect while its answer is lost   *)
(* (the per-command timeout of sshexec.Client.Run).  A Provider object is  *)
(* replaced, with a new mutex, when servers.Manager.Rebuild runs.          *)
(* Name, keepalive and AmneziaWG options follow AllowedIPs and are left     *)
(* out, as are the [Interface] keys.  One of those would matter: under      *)
(* `SaveConfig = true' wg-quick writes the kernel's peers over the file at  *)
(* every stop.  The panel never sets it; a file that came with it is not    *)
(* modelled.                                                                *)
(***************************************************************************)
EXTENDS Naturals

CONSTANTS
  Keys,     \* public keys of peers
  Addrs,    \* entries of AllowedIPs
  Specs,    \* the AllowedIPs the panel asks for
  Callers,  \* goroutines: HTTP handlers and the expiry worker
  MaxInst,  \* bound on the Provider objects of one panel process
  Absent,   \* no such peer
  NoConf,   \* a config that was not, or could not be, read
  None

Insts == 1..MaxInst

\* Peers of a config file, and peers of the interface.
Confs == [Keys -> Specs \cup {Absent}]
Lives == [Keys -> (SUBSET Addrs) \cup {Absent}]

ASSUME WgAssumption ==
  /\ Specs \subseteq SUBSET Addrs
  /\ {} \notin Specs
  /\ \A ips \in SUBSET Addrs : Absent # ips
  /\ \A t \in Confs : NoConf # t
  /\ None \notin Callers \cup {"ok", "err"}
  /\ MaxInst \in Nat \ {0}

Kinds == {"add", "update", "remove", "rotate", "server", "restore",
          "ensure"}

\* A method call.  "add" is AddPeer, with a key it generates, and
\* AddConfiguredPeer, with a key it is given; "server" is UpdateServerConfig,
\* EnableForwarding and ApplyNetworking, which leave the peers alone.
Ops == [kind : Kinds, key : Keys, new : Keys, ips : Specs]

AnyKey == CHOOSE k \in Keys : TRUE
AnySpec == CHOOSE i \in Specs : TRUE

\* The calls, with a fixed value for the parameters a method does not have.
Requests ==
  {o \in Ops :
     /\ o.kind # "rotate" => o.new = AnyKey
     /\ o.kind \notin {"add", "update"} => o.ips = AnySpec
     /\ o.kind \in {"server", "restore", "ensure"} => o.key = AnyKey}

VARIABLES
  conf,    \* the config file on the host
  live,    \* the peers in the kernel
  backup,  \* the newest row of protean.conf_backups
  newest,  \* the Provider object in the registry
  lock,    \* who holds each object's mutex
  pc,      \* next command of each caller
  op,      \* the operation it runs
  inst,    \* the object it runs it on
  seen,    \* the config it read first
  prev,    \* the config it read just before overwriting it
  ret,     \* what the operation returned
  doubt    \* history: a step since the last reload may leave conf # live

host == <<conf, live, backup, doubt>>
vars == <<conf, live, backup, newest, lock, pc, op, inst, seen, prev, ret, doubt>>

Commands == {"idle", "lock", "read", "save", "write", "live", "live2", "undo",
             "reload"}

NoPeers == [k \in Keys |-> Absent]

Init ==
  /\ conf = NoPeers
  /\ live = NoPeers
  /\ backup = NoPeers
  /\ newest = 1
  /\ lock = [i \in Insts |-> None]
  /\ pc = [c \in Callers |-> "idle"]
  /\ op = [c \in Callers |-> None]
  /\ inst = [c \in Callers |-> 1]
  /\ seen = [c \in Callers |-> NoConf]
  /\ prev = [c \in Callers |-> NoConf]
  /\ ret = [c \in Callers |-> None]
  /\ doubt = FALSE

-----------------------------------------------------------------------------
(* The kernel *)

\* `wg set <if> peer k allowed-ips ...': an address belongs to one peer, so the
\* others lose it.
Assign(L, k, ips) ==
  [q \in Keys |-> CASE q = k -> ips
                    [] q # k /\ L[q] = Absent -> Absent
                    [] OTHER -> L[q] \ ips]

Unassign(L, k) == [L EXCEPT ![k] = Absent]

Holders(t, a) == {k \in Keys : t[k] # Absent /\ a \in t[k]}

\* What a reload makes of a config: its peers, each address with one of the
\* peers that list it.
Loads(t) ==
  {L \in Lives :
     /\ \A k \in Keys : (L[k] = Absent) = (t[k] = Absent)
     /\ \A k \in Keys : L[k] # Absent => L[k] \subseteq t[k]
     /\ \A a \in Addrs : Holders(t, a) # {} => \E k \in Keys : Holders(L, a) = {k}}

\* Whether peer k of a config lists an address that another one lists too: when
\* k gives it up, the kernel does not give it back to the other one.
Shares(t, k) ==
  t[k] # Absent /\ \E a \in t[k] : Holders(t, a) # {k}

-----------------------------------------------------------------------------
(* Calls and the mutex *)

Goto(c, l) == pc' = [pc EXCEPT ![c] = l]

\* reg.Get, then the method call; apiRestoreBackup has read the content to
\* restore, the newest backup here, before it.
Call(c, o) ==
  /\ pc[c] = "idle"
  /\ Goto(c, "lock")
  /\ op' = [op EXCEPT ![c] = o]
  /\ inst' = [inst EXCEPT ![c] = newest]
  /\ ret' = [ret EXCEPT ![c] = None]
  /\ seen' = [seen EXCEPT ![c] = IF o.kind = "restore" THEN backup ELSE NoConf]
  /\ UNCHANGED <<newest, lock, prev>> /\ UNCHANGED host

\* Mutant: the mutex is not taken.
LockFree(c) ==
  /\ pc[c] = "lock"
  /\ Goto(c, "read")
  /\ UNCHANGED <<newest, lock, op, inst, seen, prev, ret>> /\ UNCHANGED host

Lock(c) ==
  /\ pc[c] = "lock"
  /\ lock[inst[c]] = None
  /\ lock' = [lock EXCEPT ![inst[c]] = c]
  /\ Goto(c, "read")
  /\ UNCHANGED <<newest, op, inst, seen, prev, ret>> /\ UNCHANGED host

\* Mutant: an error path without the Unlock.
ReturnLocked(c, r) ==
  /\ pc' = [pc EXCEPT ![c] = "idle"]
  /\ lock' = IF r = "ok" THEN [lock EXCEPT ![inst[c]] = None] ELSE lock
  /\ ret' = [ret EXCEPT ![c] = r]
  /\ op' = [op EXCEPT ![c] = None]
  /\ seen' = [seen EXCEPT ![c] = NoConf]
  /\ prev' = [prev EXCEPT ![c] = NoConf]
  /\ UNCHANGED <<newest, inst>>

\* The deferred Unlock and the error the caller gets.
Return(c, r) ==
  /\ pc' = [pc EXCEPT ![c] = "idle"]
  /\ lock' = [lock EXCEPT ![inst[c]] = None]
  /\ ret' = [ret EXCEPT ![c] = r]
  /\ op' = [op EXCEPT ![c] = None]
  /\ seen' = [seen EXCEPT ![c] = NoConf]
  /\ prev' = [prev EXCEPT ![c] = NoConf]
  /\ UNCHANGED <<newest, inst>>

Continue(c, l) ==
  Goto(c, l) /\ UNCHANGED <<newest, lock, op, inst, seen, prev, ret>>

-----------------------------------------------------------------------------
(* The commands of an operation *)

\* FindPeer: a new key must be free, the peer of the other calls present.
Allowed(o, c) ==
  CASE o.kind = "add" -> c[o.key] = Absent
    [] o.kind \in {"update", "remove"} -> c[o.key] # Absent
    [] o.kind = "rotate" -> c[o.key] # Absent /\ c[o.new] = Absent
    [] OTHER -> TRUE

\* Mutant: rotation keeps the old peer in the config.
EditedKeepingOld(o, c) ==
  CASE o.kind \in {"add", "update"} -> [c EXCEPT ![o.key] = o.ips]
    [] o.kind = "remove" -> [c EXCEPT ![o.key] = Absent]
    [] o.kind = "rotate" -> [c EXCEPT ![o.new] = c[o.key]]
    [] o.kind = "ensure" -> NoPeers
    [] OTHER -> c

\* The peers of the config an operation writes, from the config it read.
Edited(o, c) ==
  CASE o.kind \in {"add", "update"} -> [c EXCEPT ![o.key] = o.ips]
    [] o.kind = "remove" -> [c EXCEPT ![o.key] = Absent]
    [] o.kind = "rotate" -> [c EXCEPT ![o.key] = Absent, ![o.new] = c[o.key]]
    [] o.kind = "ensure" -> NoPeers
    [] OTHER -> c

\* readConf and its checks.  EnsureServer runs `test -e' instead, and goes on
\* when that fails; RestoreConf has its content already.
Read(c) ==
  /\ pc[c] = "read"
  /\ \/ op[c].kind # "restore" /\ Return(c, "err")
     \/ op[c].kind = "restore" /\ Continue(c, "save")
     \/ op[c].kind = "ensure" /\ Return(c, "ok")
     \/ /\ op[c].kind # "restore"
        /\ Allowed(op[c], conf)
        /\ seen' = [seen EXCEPT ![c] = conf]
        /\ Goto(c, IF op[c].kind = "ensure" THEN "write" ELSE "save")
        /\ UNCHANGED <<newest, lock, op, inst, prev, ret>>
  /\ UNCHANGED host

\* writeConf: a second read, kept for the rollback and offered as a backup.
Save(c) ==
  /\ pc[c] = "save"
  /\ \/ prev' = prev /\ backup' = backup
     \/ prev' = [prev EXCEPT ![c] = conf] /\ backup' \in {conf, backup}
  /\ Goto(c, "write")
  /\ UNCHANGED <<conf, live, doubt, newest, lock, op, inst, seen, ret>>

AfterWrite(o) ==
  IF o.kind \in {"server", "restore", "ensure"} THEN "reload" ELSE "live"

\* What a write that was cut off leaves of t: `cat >' has emptied the file and
\* filled it again as far as it came, in an order of peers that is not modelled.
\* A peer cut in its middle is gone.
Cuts(t) == {[k \in Keys |-> IF k \in ks THEN t[k] ELSE Absent] : ks \in SUBSET Keys}

\* sshexec.WriteFile writes in place.  It fails before it has begun, in its
\* middle, or after its end.
Write(c) ==
  /\ pc[c] = "write"
  /\ \/ conf' = Edited(op[c], seen[c]) /\ Continue(c, AfterWrite(op[c]))
        /\ UNCHANGED doubt
     \/ conf' \in Cuts(Edited(op[c], seen[c])) /\ Return(c, "err") /\ doubt' = TRUE
     \/ conf' = conf /\ Return(c, "err") /\ UNCHANGED doubt
  /\ UNCHANGED <<live, backup>>

\* `wg set': assigns the peer, or removes it (RemovePeer, RotatePeerKey).
LiveEffect(o) ==
  IF o.kind \in {"remove", "rotate"}
  THEN Unassign(live, o.key)
  ELSE Assign(live, o.key, o.ips)

GivesUpShared(o, t) == o.kind \in {"update", "remove"} /\ Shares(t, o.key)

\* A failure of RemovePeer's command is returned as it is.
Live(c) ==
  /\ pc[c] = "live"
  /\ \/ /\ live' = LiveEffect(op[c])
        /\ doubt' = (doubt \/ GivesUpShared(op[c], seen[c]))
        /\ IF op[c].kind = "rotate" THEN Continue(c, "live2") ELSE Return(c, "ok")
     \/ /\ live' \in {live, LiveEffect(op[c])}
        /\ doubt' = (doubt \/ live' # live \/ op[c].kind = "remove")
        /\ IF op[c].kind = "remove" THEN Return(c, "err") ELSE Continue(c, "undo")
  /\ UNCHANGED <<conf, backup>>

\* RotatePeerKey adds the new key with the old one's AllowedIPs.
Live2(c) ==
  /\ pc[c] = "live2"
  /\ \/ /\ live' = Assign(live, op[c].new, seen[c][op[c].key])
        /\ UNCHANGED doubt
        /\ Return(c, "ok")
     \/ /\ live' \in {live, Assign(live, op[c].new, seen[c][op[c].key])}
        /\ doubt' = TRUE
        /\ Continue(c, "undo")
  /\ UNCHANGED <<conf, backup>>

\* Mutant: the rollback is forgotten.
UndoNothing(c) ==
  /\ pc[c] = "undo"
  /\ conf' = conf
  /\ Return(c, "err")
  /\ UNCHANGED <<live, backup, doubt>>

\* Mutant: the rollback writes prev even when it could not be read.
UndoBlind(c) ==
  /\ pc[c] = "undo"
  /\ conf' = prev[c]
  /\ Return(c, "err")
  /\ UNCHANGED <<live, backup, doubt>>

\* The rollback of writeConfAndApply and RotatePeerKey; its own failure is
\* only logged.
Undo(c) ==
  /\ pc[c] = "undo"
  /\ \/ prev[c] # NoConf /\ conf' = prev[c] /\ doubt' = doubt
     \/ prev[c] # NoConf /\ conf' \in {conf} \cup Cuts(prev[c]) /\ doubt' = TRUE
     \/ prev[c] = NoConf /\ conf' = conf /\ doubt' = TRUE
  /\ Return(c, "err")
  /\ UNCHANGED <<live, backup>>

\* restart; EnsureServer's `enable' leaves a running interface alone.
Reload(c) ==
  /\ pc[c] = "reload"
  /\ \/ /\ op[c].kind # "ensure"
        /\ live' \in Loads(conf)
        /\ doubt' = FALSE
        /\ \E r \in {"ok", "err"} : Return(c, r)
     \/ /\ live' = live
        /\ doubt' = TRUE
        /\ \E r \in {"ok", "err"} : Return(c, r) /\ (r = "ok" => op[c].kind = "ensure")
  /\ UNCHANGED <<conf, backup>>

-----------------------------------------------------------------------------
(* Outside the operations *)

\* servers.Manager.Rebuild: a new Provider object takes over the interface.  The
\* old object's SSH client reconnects by itself, so calls on it go on.
Rebuild ==
  /\ newest < MaxInst
  /\ newest' = newest + 1
  /\ UNCHANGED <<lock, pc, op, inst, seen, prev, ret>> /\ UNCHANGED host

AfterWriting == {"live", "live2", "undo", "reload"}

\* The host reboots, or an admin restarts the unit (Installer.Service).
HostReload ==
  /\ live' \in Loads(conf)
  /\ doubt' = (\E c \in Callers : pc[c] \in AfterWriting)
  /\ UNCHANGED <<conf, backup, newest, lock, pc, op, inst, seen, prev, ret>>

PanelCrash ==
  /\ newest' = 1
  /\ lock' = [i \in Insts |-> None]
  /\ pc' = [c \in Callers |-> "idle"]
  /\ op' = [c \in Callers |-> None]
  /\ inst' = [c \in Callers |-> 1]
  /\ seen' = [c \in Callers |-> NoConf]
  /\ prev' = [c \in Callers |-> NoConf]
  /\ ret' = [c \in Callers |-> None]
  /\ doubt' = (doubt \/ \E c \in Callers : pc[c] \in AfterWriting)
  /\ UNCHANGED <<conf, live, backup>>

-----------------------------------------------------------------------------
Step(c) ==
  Read(c) \/ Save(c) \/ Write(c) \/ Live(c) \/ Live2(c) \/ Undo(c) \/ Reload(c)

\* While one Provider object serves the interface.
OneObjectNext ==
  \/ \E c \in Callers : (\E o \in Requests : Call(c, o)) \/ Lock(c) \/ Step(c)
  \/ HostReload
  \/ PanelCrash

Next == OneObjectNext \/ Rebuild

Spec == Init /\ [][Next]_vars

\* Every command ends, at the latest at its timeout, and a Go mutex is handed to
\* a goroutine that has waited long enough.
FairSpec ==
  /\ Init /\ [][OneObjectNext]_vars
  /\ \A c \in Callers : WF_vars(Step(c)) /\ SF_vars(Lock(c))

-----------------------------------------------------------------------------
(* Properties *)

TypeOK ==
  /\ conf \in Confs
  /\ live \in Lives
  /\ backup \in Confs
  /\ newest \in Insts
  /\ lock \in [Insts -> Callers \cup {None}]
  /\ pc \in [Callers -> Commands]
  /\ op \in [Callers -> Ops \cup {None}]
  /\ inst \in [Callers -> Insts]
  /\ seen \in [Callers -> Confs \cup {NoConf}]
  /\ prev \in [Callers -> Confs \cup {NoConf}]
  /\ ret \in [Callers -> {"ok", "err", None}]
  /\ doubt \in BOOLEAN

\* The peers an operation is about.
Touched(o) ==
  CASE o.kind \in {"add", "update", "remove"} -> {o.key}
    [] o.kind = "rotate" -> {o.key, o.new}
    [] o.kind = "server" -> {}
    [] OTHER -> Keys

\* What a caller that writes the config wants it to hold.
Wanted(c) == IF pc[c] = "write" THEN Edited(op[c], seen[c]) ELSE prev[c]

\* Provider.mu: "concurrent admin actions ... can't lose a peer to a
\* last-write-wins race".  Writing or rolling back the config leaves the peers
\* the operation is not about as they are; a write that is cut off may drop them,
\* but revives or changes none.
NoLostPeer ==
  [][\A c \in Callers :
       (Write(c) \/ Undo(c)) =>
         \A k \in Keys \ Touched(op[c]) :
            conf'[k] = conf[k] \/ (conf'[k] = Absent /\ conf' # Wanted(c))]_vars

\* A call that returns no error left the peer the same in the config and in the
\* kernel, whatever reloads happened while it ran.
OkAgrees ==
  [][\A c \in Callers :
       ret'[c] = "ok" /\ ret[c] = None /\ op[c].kind \notin {"server", "restore", "ensure"}
         => \A k \in Touched(op[c]) : conf'[k] = live'[k]]_vars

AtRest == \A i \in Insts : lock[i] = None

Agree == live \in Loads(conf)

\* Between operations the kernel holds what a reload of the config would give,
\* unless one of the steps named by doubt happened: a lost answer or a cut write,
\* a failed rollback, a failed removal, a crash or an address shared by two peers.
AgreeUnlessDoubt == AtRest /\ ~doubt => Agree

\* Every call returns: the mutex is released on every path.
CallsReturn == \A c \in Callers : pc[c] # "idle" ~> pc[c] = "idle"
=============================================================================
