-------------------------------- MODULE Xray --------------------------------
(***************************************************************************)
(* The Xray provider: the instance (strategy, secrets, relay chain) and    *)
(* its clients are rows of the database, and every change rebuilds the     *)
(* host's config file from them and restarts the service.  There is no     *)
(* lock: requests run side by side, step by step.                          *)
(***************************************************************************)
EXTENDS Naturals

CONSTANTS
    Strategy,       \* names of the strategies the requests choose from
    SingleClient,   \* those that allow one client
    WithSecrets,    \* those with secrets of the instance, e.g. Reality's keys
    ByPassword,     \* those whose clients have a password, not a UUID
    XName,          \* names of clients
    DefaultName,    \* "default", the client Apply adds to an empty list
    XProc,          \* requests served at the same time
    MaxMade,        \* bound: secrets and credentials generated
    MaxXFault       \* bound: failures

ASSUME XrayAssumption == DefaultName \in XName /\ MaxMade \in Nat

VARIABLES
    xinst,    \* the row of xray_instances: [strategy, secret, chained], or NoInst
    xclients, \* the rows of xray_clients: the credential [kind, n], n = 0 if none
    made,     \* secrets and credentials generated so far
    xconfig,  \* the config file
    xlive,    \* what the running service has loaded
    xreq, xfault,
    unsure    \* history: the last change failed or overlapped another

xrayVars == <<xinst, xclients, made, xconfig, xlive, xreq, xfault, unsure>>

NoInst == [strategy |-> "none", secret |-> 0, chained |-> FALSE]
NoCred == [kind |-> "none", n |-> 0]
NoConfig == [inst |-> NoInst, clients |-> {}]
XIdle == [pc |-> "idle", strategy |-> "none", relay |-> "keep", name |-> DefaultName,
          read |-> NoInst, list |-> {}, again |-> FALSE, alone |-> TRUE]

Cred(s) == IF s \in ByPassword THEN "password" ELSE "uuid"
\* BuildInbound: a client made for the other kind of credential has an empty one.
BuildInbound(inst, list) ==
    [inst |-> inst,
     clients |-> {IF c.kind = Cred(inst.strategy) THEN c ELSE NoCred : c \in list}]
ListClients == {xclients[n] : n \in {m \in XName : xclients[m].n # 0}}

XrayInit ==
    /\ xinst = NoInst /\ xclients = [n \in XName |-> NoCred] /\ made = 0
    /\ xconfig = NoConfig /\ xlive = NoConfig
    /\ xreq = [p \in XProc |-> XIdle] /\ xfault = 0 /\ unsure = FALSE

-----------------------------------------------------------------------------
(* Requests *)

Start(p, r) ==
    LET others == {o \in XProc \ {p} : xreq[o].pc # "idle"} IN
    /\ xreq[p].pc = "idle"
    /\ xreq' = [o \in XProc |-> IF o = p THEN [r EXCEPT !.alone = (others = {})]
                                ELSE [xreq[o] EXCEPT !.alone = FALSE]]
    /\ unsure' = (unsure \/ others # {})
At(p, pc) == xreq[p].pc = pc
XGoto(p, pc) == xreq' = [xreq EXCEPT ![p].pc = pc]
\* The next call starts from the database: what was read before is forgotten.
Forget(p, pc) ==
    xreq' = [xreq EXCEPT ![p] = [XIdle EXCEPT !.pc = pc, !.again = xreq[p].again, !.alone = xreq[p].alone]]
Ends(p, failed) ==
    /\ xreq' = [xreq EXCEPT ![p] = XIdle]
    /\ unsure' = (failed \/ (unsure /\ ~xreq[p].alone))

\* A statement, a command or a check of the parameters fails.
Fail(p) ==
    /\ ~At(p, "idle") /\ xfault < MaxXFault /\ xfault' = xfault + 1
    /\ Ends(p, TRUE)
    /\ UNCHANGED <<xinst, xclients, made, xconfig, xlive>>

-----------------------------------------------------------------------------
(* Apply *)

\* The instance is read first; a read that fails counts as "no instance".
Apply(p, s, relay, cur) ==
    /\ cur = xinst \/ (cur = NoInst /\ xinst # NoInst /\ xfault < MaxXFault)
    /\ xfault' = IF cur = xinst THEN xfault ELSE xfault + 1
    /\ Start(p, [XIdle EXCEPT !.pc = "persist", !.strategy = s, !.relay = relay, !.read = cur])
    /\ UNCHANGED <<xinst, xclients, made, xconfig, xlive>>
\* Secrets and, unless the request names one, the relay chain are carried over
\* from the same strategy.
ApplyPersist(p) ==
    LET r == xreq[p]
        same == r.read.strategy = r.strategy
        new == r.strategy \in WithSecrets /\ (same => r.read.secret = 0) IN
    /\ At(p, "persist") /\ (new => made < MaxMade)
    /\ made' = IF new THEN made + 1 ELSE made
    /\ xinst' = [strategy |-> r.strategy,
                 secret |-> IF new THEN made' ELSE IF same THEN r.read.secret ELSE 0,
                 chained |-> IF r.relay = "keep" THEN same /\ r.read.chained ELSE r.relay = "chain"]
    /\ Forget(p, "ensure")
    /\ UNCHANGED <<xclients, xconfig, xlive, xfault, unsure>>
\* With no client yet, AddClient runs to its end and the config is built again.
ApplyEnsureClient(p) ==
    /\ At(p, "ensure")
    /\ IF ListClients = {}
       THEN xreq' = [xreq EXCEPT ![p].pc = "add", ![p].again = TRUE]
       ELSE XGoto(p, "get")
    /\ UNCHANGED <<xinst, xclients, made, xconfig, xlive, xfault, unsure>>

-----------------------------------------------------------------------------
(* Clients *)

apiXrayAddClient(p, n) ==
    /\ Start(p, [XIdle EXCEPT !.pc = "add", !.name = n])
    /\ UNCHANGED <<xinst, xclients, made, xconfig, xlive, xfault>>
\* No strategy yet, or a single client there already: the list's own failure
\* counts as an empty list.
AddClientCheck(p) ==
    /\ At(p, "add")
    /\ xinst # NoInst
    /\ \/ (xinst.strategy \in SingleClient => ListClients = {}) /\ UNCHANGED xfault
       \/ xinst.strategy \in SingleClient /\ ListClients # {} /\ xfault < MaxXFault /\ xfault' = xfault + 1
    /\ xreq' = [xreq EXCEPT ![p].pc = "save", ![p].read = xinst]
    /\ UNCHANGED <<xinst, xclients, made, xconfig, xlive, unsure>>
AddClientRefused(p) ==
    /\ At(p, "add")
    /\ xinst = NoInst \/ (xinst.strategy \in SingleClient /\ ListClients # {})
    /\ Ends(p, TRUE)
    /\ UNCHANGED <<xinst, xclients, made, xconfig, xlive, xfault>>
\* An existing name gets a new credential.
SaveXrayClient(p) ==
    /\ At(p, "save") /\ made < MaxMade /\ made' = made + 1
    /\ xclients' = [xclients EXCEPT ![xreq[p].name] =
                      [kind |-> Cred(xreq[p].read.strategy), n |-> made']]
    /\ Forget(p, "get")
    /\ UNCHANGED <<xinst, xconfig, xlive, xfault, unsure>>
apiXrayRemoveClient(p, n) ==
    /\ Start(p, [XIdle EXCEPT !.pc = "get"])
    /\ xclients' = [xclients EXCEPT ![n] = NoCred]
    /\ UNCHANGED <<xinst, made, xconfig, xlive, xfault>>

-----------------------------------------------------------------------------
(* rebuild *)

RebuildInstance(p) ==
    /\ At(p, "get")
    /\ IF xinst = NoInst THEN Ends(p, TRUE)
       ELSE /\ xreq' = [xreq EXCEPT ![p].pc = "list", ![p].read = xinst]
            /\ UNCHANGED unsure
    /\ UNCHANGED <<xinst, xclients, made, xconfig, xlive, xfault>>
\* Every strategy refuses an empty list of clients.
RebuildClients(p) ==
    /\ At(p, "list")
    /\ IF ListClients = {} THEN Ends(p, TRUE)
       ELSE /\ xreq' = [xreq EXCEPT ![p].pc = "write", ![p].list = ListClients]
            /\ UNCHANGED unsure
    /\ UNCHANGED <<xinst, xclients, made, xconfig, xlive, xfault>>
RebuildWrite(p) ==
    /\ At(p, "write")
    /\ xconfig' = BuildInbound(xreq[p].read, xreq[p].list)
    /\ Forget(p, "restart")
    /\ UNCHANGED <<xinst, xclients, made, xlive, xfault, unsure>>
WriteWithoutRestart(p) ==
    /\ At(p, "restart") /\ Ends(p, FALSE)
    /\ UNCHANGED <<xinst, xclients, made, xconfig, xlive, xfault>>
RebuildRestart(p) ==
    /\ At(p, "restart") /\ xlive' = xconfig
    /\ IF xreq[p].again
       THEN xreq' = [xreq EXCEPT ![p].pc = "get", ![p].again = FALSE] /\ UNCHANGED unsure
       ELSE Ends(p, FALSE)
    /\ UNCHANGED <<xinst, xclients, made, xconfig, xfault>>

\* The host, or an admin, restarts the service.
ServiceRestarts ==
    /\ xlive # xconfig /\ xlive' = xconfig
    /\ UNCHANGED <<xinst, xclients, made, xconfig, xreq, xfault, unsure>>

XrayNext ==
    \/ ServiceRestarts
    \/ \E p \in XProc :
         \/ \E s \in Strategy, relay \in {"keep", "direct", "chain"}, cur \in {xinst, NoInst} :
              Apply(p, s, relay, cur)
         \/ \E n \in XName : apiXrayAddClient(p, n) \/ apiXrayRemoveClient(p, n)
         \/ ApplyPersist(p) \/ ApplyEnsureClient(p)
         \/ AddClientCheck(p) \/ AddClientRefused(p) \/ SaveXrayClient(p)
         \/ RebuildInstance(p) \/ RebuildClients(p) \/ RebuildWrite(p) \/ RebuildRestart(p)
         \/ Fail(p)

XraySpec == XrayInit /\ [][XrayNext]_xrayVars

-----------------------------------------------------------------------------
(* Properties *)

Quiet == \A p \in XProc : xreq[p].pc = "idle"

\* Once a change has ended that neither failed nor overlapped another, the
\* service runs what the rows say: this instance, with exactly these clients.
\* One such change also repairs whatever overlapping or failed ones have left.
XraySettled ==
    Quiet /\ ~unsure /\ xinst # NoInst /\ ListClients # {} => xlive = BuildInbound(xinst, ListClients)

=============================================================================
