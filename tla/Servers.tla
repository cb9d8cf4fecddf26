------------------------------ MODULE Servers -------------------------------
(***************************************************************************)
(* The servers the panel manages: their rows and instances in the          *)
(* database, and what servers.Manager makes of them in memory: one SSH     *)
(* client per server and one Provider per instance in vpn.Registry.        *)
(*                                                                         *)
(* A handler is a program of database statements and Manager calls, as in  *)
(* the code; requests on one server run side by side, since no lock spans  *)
(* a row's change and the rebuild that follows it.  A row's configuration  *)
(* (address, key, settings of its instances) is its version number.        *)
(***************************************************************************)
EXTENDS Naturals, Sequences, FiniteSets

CONSTANTS
    Host,          \* ids of servers
    DefaultHost,   \* "default", the one server that is seeded from the environment
    Instance,      \* local names of instances
    Seed,          \* the Template's instances
    Single,        \* instances of the types that are allowed once per server
    SrvProc,       \* requests served at the same time
    MaxVer,        \* bound: versions of a server's configuration
    MaxSrvFault    \* bound: failed statements

ASSUME SeedAssumption == Seed \subseteq Instance /\ Single \subseteq Instance
ASSUME MaxVerAssumption == MaxVer \in Nat

VARIABLES
    srv,       \* rows of servers: [exists, enabled, panel, ver]
    inst,      \* rows of server_instances, by server
    registry,  \* registered providers: <<server, instance, version>>
    pool,      \* Manager.clients: the version an SSH client was made of, 0 = none
    names,     \* Manager.names
    sreq,      \* requests in progress
    srvFault,
    mixed      \* history: servers whose last operations overlapped or failed

srvVars == <<srv, inst, registry, pool, names, sreq, srvFault, mixed>>

Rebuild == <<"get", "build", "swap">>
NoRow == [exists |-> FALSE, enabled |-> FALSE, panel |-> FALSE, ver |-> 0]
SrvIdle == [op |-> "none", h |-> DefaultHost, i |-> "", rest |-> <<>>, ver |-> 0, insts |-> {},
            alone |-> TRUE]

-----------------------------------------------------------------------------
(* The handlers *)

apiServersCreate == <<"bootstrap", "insert">> \o Rebuild
apiServersUpdate == <<"exists", "update">> \o Rebuild
apiServersEnable == <<"enable">> \o Rebuild
apiServersDisable == <<"disable", "remove">>
apiServersDelete == <<"wipe", "deleteRow", "remove">>
apiServerInstancesCreate == <<"exists", "validate", "insertInst">> \o Rebuild
apiServerInstancesDelete == <<"deleteInst">> \o Rebuild
updateOpenVPNMTU == <<"patchInst">> \o Rebuild
apiConsolePanelHostSet == <<"exists", "panelHost">>
apiConsolePanelHostClear == <<"clearPanel">>

Handler(op) ==
    CASE op = "create" -> apiServersCreate
      [] op = "update" -> apiServersUpdate
      [] op = "enable" -> apiServersEnable
      [] op = "disable" -> apiServersDisable
      [] op = "delete" -> apiServersDelete
      [] op = "addInst" -> apiServerInstancesCreate
      [] op = "delInst" -> apiServerInstancesDelete
      [] op = "mtu" -> updateOpenVPNMTU
      [] op = "panel" -> apiConsolePanelHostSet
      [] op = "unpanel" -> apiConsolePanelHostClear

HostOps == {"create", "update", "enable", "disable", "delete", "panel", "unpanel"}
InstOps == {"addInst", "delInst", "mtu"}

-----------------------------------------------------------------------------
\* LoadAll: every enabled server is rebuilt, before requests are served.
Live(h) == srv[h].exists /\ srv[h].enabled
Seeded(h) == IF Live(h) /\ inst[h] = {} /\ h = DefaultHost /\ ~srv[h].panel THEN Seed ELSE inst[h]
LoadAll(insts) ==
    /\ registry' = UNION {{<<h, i, srv[h].ver>> : i \in insts[h]} : h \in {x \in Host : Live(x)}}
    /\ pool' = [h \in Host |-> IF Live(h) THEN srv[h].ver ELSE 0]
    /\ names' = [h \in Host |-> IF Live(h) THEN insts[h] ELSE {}]

SrvInit ==
    /\ srv = [h \in Host |-> NoRow]
    /\ inst = [h \in Host |-> {}]
    /\ registry = {} /\ pool = [h \in Host |-> 0] /\ names = [h \in Host |-> {}]
    /\ sreq = [q \in SrvProc |-> SrvIdle]
    /\ srvFault = 0
    /\ mixed = {}

\* The panel stops, whatever it was doing, and starts again.
SrvRestart ==
    /\ srvFault < MaxSrvFault /\ srvFault' = srvFault + 1
    /\ inst' = [h \in Host |-> Seeded(h)]
    /\ LoadAll(inst')
    /\ sreq' = [q \in SrvProc |-> SrvIdle]
    /\ mixed' = {}
    /\ UNCHANGED srv

Busy(h) == {q \in SrvProc : sreq[q].op # "none" /\ sreq[q].h = h}
SrvHead(q) == IF sreq[q].rest = <<>> THEN "none" ELSE Head(sreq[q].rest)
Go(q, r) == sreq' = [sreq EXCEPT ![q] = r]
Rest(q) == [sreq[q] EXCEPT !.rest = Tail(@)]

Begin(q, op, h, i) ==
    /\ sreq[q].op = "none"
    /\ op \in {"create", "update", "mtu"} => srv[h].ver + Cardinality(Busy(h)) < MaxVer
    /\ sreq' = [p \in SrvProc |->
                  IF p = q THEN [SrvIdle EXCEPT !.op = op, !.h = h, !.i = i, !.rest = Handler(op),
                                                !.alone = (Busy(h) = {})]
                  ELSE [sreq[p] EXCEPT !.alone = @ /\ p \notin Busy(h)]]
    /\ UNCHANGED <<srv, inst, registry, pool, names, srvFault, mixed>>

\* An error of a statement, or a row that is not there: the handler answers
\* with the error and does nothing more.
SrvAbort(q) ==
    /\ Go(q, SrvIdle)
    /\ mixed' = mixed \cup {sreq[q].h}
    /\ UNCHANGED <<srv, inst, registry, pool, names>>

FailStatement(q) ==
    /\ SrvHead(q) \notin {"none", "swap", "remove"} /\ srvFault < MaxSrvFault
    /\ srvFault' = srvFault + 1
    /\ SrvAbort(q)

\* GetServer finds no row, or CreateServer one with that id.
NoSuchServer(q) ==
    /\ \/ SrvHead(q) \in {"exists", "get", "enable", "disable", "panelHost"} /\ ~srv[sreq[q].h].exists
       \/ SrvHead(q) = "insert" /\ srv[sreq[q].h].exists
    /\ SrvAbort(q) /\ UNCHANGED srvFault

-----------------------------------------------------------------------------
(* Statements *)

\* BootstrapHost: the account and key on the host, made before there is a row.
BootstrapHost(q) ==
    /\ SrvHead(q) = "bootstrap"
    /\ Go(q, Rest(q))
    /\ UNCHANGED <<srv, inst, registry, pool, names, srvFault, mixed>>

CreateServer(q) ==
    /\ SrvHead(q) = "insert" /\ ~srv[sreq[q].h].exists
    /\ srv' = [srv EXCEPT ![sreq[q].h] =
                 [exists |-> TRUE, enabled |-> TRUE, panel |-> FALSE, ver |-> @.ver + 1]]
    /\ Go(q, Rest(q))
    /\ UNCHANGED <<inst, registry, pool, names, srvFault, mixed>>

GetServer(q) ==
    /\ SrvHead(q) = "exists" /\ srv[sreq[q].h].exists
    /\ Go(q, Rest(q))
    /\ UNCHANGED <<srv, inst, registry, pool, names, srvFault, mixed>>

\* UpdateServer leaves `enabled' alone; it may also find the row gone.
UpdateServer(q) ==
    /\ SrvHead(q) = "update"
    /\ srv' = IF srv[sreq[q].h].exists THEN [srv EXCEPT ![sreq[q].h].ver = @ + 1] ELSE srv
    /\ Go(q, Rest(q))
    /\ UNCHANGED <<inst, registry, pool, names, srvFault, mixed>>

UpdateServerEnabled(q) ==
    /\ SrvHead(q) \in {"enable", "disable"} /\ srv[sreq[q].h].exists
    /\ srv' = [srv EXCEPT ![sreq[q].h].enabled = (SrvHead(q) = "enable")]
    /\ Go(q, Rest(q))
    /\ UNCHANGED <<inst, registry, pool, names, srvFault, mixed>>

\* SetPanelHost: one transaction that moves the flag.
SetPanelHost(q) ==
    /\ SrvHead(q) = "panelHost" /\ srv[sreq[q].h].exists
    /\ srv' = [h \in Host |-> [srv[h] EXCEPT !.panel = (h = sreq[q].h)]]
    /\ Go(q, Rest(q))
    /\ UNCHANGED <<inst, registry, pool, names, srvFault, mixed>>

ClearPanelHost(q) ==
    /\ SrvHead(q) = "clearPanel"
    /\ srv' = [h \in Host |-> [srv[h] EXCEPT !.panel = FALSE]]
    /\ Go(q, Rest(q))
    /\ UNCHANGED <<inst, registry, pool, names, srvFault, mixed>>

\* The rows of every table keyed by the provider, for the instances listed.
DeleteProviderData(q) ==
    /\ SrvHead(q) = "wipe"
    /\ Go(q, Rest(q))
    /\ UNCHANGED <<srv, inst, registry, pool, names, srvFault, mixed>>

\* server_instances goes with the row.
DeleteServer(q) ==
    /\ SrvHead(q) = "deleteRow"
    /\ srv' = [srv EXCEPT ![sreq[q].h] = [NoRow EXCEPT !.ver = srv[sreq[q].h].ver]]
    /\ inst' = [inst EXCEPT ![sreq[q].h] = {}]
    /\ Go(q, Rest(q))
    /\ UNCHANGED <<registry, pool, names, srvFault, mixed>>

\* singleInstanceTypes: counted in one statement, inserted in the next; a
\* wg-family instance may also be refused for its address or its port.
ValidateInstance(q) ==
    /\ SrvHead(q) = "validate"
    /\ IF sreq[q].i \in Single /\ sreq[q].i \in inst[sreq[q].h]
       THEN SrvAbort(q)
       ELSE \/ Go(q, Rest(q)) /\ UNCHANGED <<srv, inst, registry, pool, names, mixed>>
            \/ sreq[q].i \notin Single /\ SrvAbort(q)
    /\ UNCHANGED srvFault

\* The foreign key and the primary key of server_instances.
CreateServerInstance(q) ==
    /\ SrvHead(q) = "insertInst"
    /\ LET h == sreq[q].h IN
         IF srv[h].exists /\ sreq[q].i \notin inst[h]
         THEN /\ inst' = [inst EXCEPT ![h] = @ \cup {sreq[q].i}]
              /\ Go(q, Rest(q))
              /\ UNCHANGED <<srv, registry, pool, names, mixed>>
         ELSE SrvAbort(q)
    /\ UNCHANGED srvFault

DeleteServerInstance(q) ==
    /\ SrvHead(q) = "deleteInst"
    /\ inst' = [inst EXCEPT ![sreq[q].h] = @ \ {sreq[q].i}]
    /\ Go(q, Rest(q))
    /\ UNCHANGED <<srv, registry, pool, names, srvFault, mixed>>

UpdateServerInstanceConfig(q) ==
    /\ SrvHead(q) = "patchInst"
    /\ IF sreq[q].i \in inst[sreq[q].h]
       THEN /\ srv' = [srv EXCEPT ![sreq[q].h].ver = @ + 1]
            /\ Go(q, Rest(q))
            /\ UNCHANGED <<inst, registry, pool, names, mixed>>
       ELSE SrvAbort(q)
    /\ UNCHANGED srvFault

-----------------------------------------------------------------------------
(* servers.Manager *)

\* Rebuild's read: a disabled server is removed instead.
RebuildGetAnyway(q) ==
    /\ SrvHead(q) = "get" /\ srv[sreq[q].h].exists
    /\ Go(q, [Rest(q) EXCEPT !.ver = srv[sreq[q].h].ver])
    /\ UNCHANGED <<srv, inst, registry, pool, names, srvFault, mixed>>

RebuildGet(q) ==
    /\ SrvHead(q) = "get" /\ srv[sreq[q].h].exists
    /\ Go(q, IF srv[sreq[q].h].enabled
             THEN [Rest(q) EXCEPT !.ver = srv[sreq[q].h].ver]
             ELSE [Rest(q) EXCEPT !.rest = <<"remove">>])
    /\ UNCHANGED <<srv, inst, registry, pool, names, srvFault, mixed>>

\* buildProviders: the stored instances; the default server's are seeded from
\* the Template when it has none and is not the panel's own host.
BuildProviders(q) ==
    /\ SrvHead(q) = "build"
    /\ LET h == sreq[q].h
           seeds == inst[h] = {} /\ h = DefaultHost /\ ~srv[h].panel
       IN IF seeds /\ ~srv[h].exists
          THEN SrvAbort(q)
          ELSE /\ inst' = IF seeds THEN [inst EXCEPT ![h] = Seed] ELSE inst
               /\ Go(q, [Rest(q) EXCEPT !.insts = inst'[h]])
               /\ UNCHANGED <<srv, registry, pool, names, mixed>>
    /\ UNCHANGED srvFault

\* seedInstancesFromTemplate stops at the first insert that fails: the rows
\* inserted so far stay, and the server is not empty any more.
SeedFails(q) ==
    /\ SrvHead(q) = "build" /\ srvFault < MaxSrvFault
    /\ sreq[q].h = DefaultHost /\ inst[DefaultHost] = {} /\ srv[DefaultHost].exists
    /\ srvFault' = srvFault + 1
    /\ \E part \in SUBSET Seed : part # Seed /\ inst' = [inst EXCEPT ![DefaultHost] = part]
    /\ Go(q, SrvIdle)
    /\ mixed' = mixed \cup {DefaultHost}
    /\ UNCHANGED <<srv, registry, pool, names>>

\* What the manager's critical section leaves: the old names are taken out of
\* the registry, the new providers put in.
SwapKeepingOld(h, ver, insts) == registry \cup {<<h, i, ver>> : i \in insts}
Swapped(h, ver, insts) ==
    {e \in registry : e[1] # h \/ e[2] \notin names[h]} \cup {<<h, i, ver>> : i \in insts}

RebuildSwap(q) ==
    /\ SrvHead(q) = "swap"
    /\ registry' = Swapped(sreq[q].h, sreq[q].ver, sreq[q].insts)
    /\ pool' = [pool EXCEPT ![sreq[q].h] = sreq[q].ver]
    /\ names' = [names EXCEPT ![sreq[q].h] = sreq[q].insts]
    /\ Go(q, Rest(q))
    /\ UNCHANGED <<srv, inst, srvFault, mixed>>

Remove(q) ==
    /\ SrvHead(q) = "remove"
    /\ registry' = Swapped(sreq[q].h, 0, {})
    /\ pool' = [pool EXCEPT ![sreq[q].h] = 0]
    /\ names' = [names EXCEPT ![sreq[q].h] = {}]
    /\ Go(q, Rest(q))
    /\ UNCHANGED <<srv, inst, srvFault, mixed>>

\* The handler is done.  Alone on its server and with a rebuild or a removal at
\* its end, it has also repaired what overlapping requests left before.
Done(q) ==
    /\ sreq[q].op # "none" /\ sreq[q].rest = <<>>
    /\ Go(q, SrvIdle)
    /\ mixed' = CASE ~sreq[q].alone -> mixed \cup {sreq[q].h}
                  [] sreq[q].alone /\ sreq[q].op \in {"panel", "unpanel"} -> mixed
                  [] OTHER -> mixed \ {sreq[q].h}
    /\ UNCHANGED <<srv, inst, registry, pool, names, srvFault>>

SrvStep(q) ==
    \/ FailStatement(q) \/ NoSuchServer(q) \/ BootstrapHost(q) \/ CreateServer(q) \/ GetServer(q) \/ UpdateServer(q)
    \/ UpdateServerEnabled(q) \/ SetPanelHost(q) \/ ClearPanelHost(q)
    \/ DeleteProviderData(q) \/ DeleteServer(q)
    \/ ValidateInstance(q) \/ CreateServerInstance(q) \/ DeleteServerInstance(q)
    \/ UpdateServerInstanceConfig(q) \/ RebuildGet(q) \/ BuildProviders(q) \/ SeedFails(q)
    \/ RebuildSwap(q) \/ Remove(q) \/ Done(q)

SrvNext ==
    \/ \E q \in SrvProc : SrvStep(q)
    \/ \E q \in SrvProc, op \in HostOps, h \in Host : Begin(q, op, h, "")
    \/ \E q \in SrvProc, op \in InstOps, h \in Host, i \in Instance : Begin(q, op, h, i)
    \/ SrvRestart

SrvSpec == SrvInit /\ [][SrvNext]_srvVars

-----------------------------------------------------------------------------
(* Properties *)

\* However requests on one server overlap or fail: the providers in the
\* registry are those the manager remembers for that server, all made from its
\* one open SSH client.  So the next Remove or Rebuild takes out every one,
\* and no provider is left that works on a closed client.
RegistryTracked ==
    \A h \in Host :
      {<<e[2], e[3]>> : e \in {x \in registry : x[1] = h}} = {<<i, pool[h]>> : i \in names[h]}

\* With no request on a server under way, and unless the last ones overlapped
\* or one of them failed: a server that exists and is enabled is registered
\* with its stored instances and its current configuration, and a disabled or
\* deleted one has neither a provider nor an SSH client.
Settled ==
    \A h \in Host : Busy(h) = {} /\ h \notin mixed =>
      IF Live(h) THEN pool[h] = srv[h].ver /\ names[h] = inst[h]
                 ELSE pool[h] = 0 /\ names[h] = {}

=============================================================================
