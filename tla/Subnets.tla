------------------------------- MODULE Subnets ------------------------------
(***************************************************************************)
(* The catalogue of site subnets and their NAT rules, the mesh and egress  *)
(* settings of two instances of one server (one of wg-family, one          *)
(* cert-based) and what of them has reached the host, as api_subnets.go,   *)
(* api_network.go, mesh.go, network_groups.go and network_detect.go run    *)
(* it.  One action is one statement or one host command; a read is joined  *)
(* to the step that uses it.  Labels, a subnet's group and owner, and      *)
(* pushed routes other than those of the mesh change nothing here; a       *)
(* tunnel keeps its network.                                               *)
(***************************************************************************)
EXTENDS Addresses

CONSTANTS Cidr,         \* the subnets there may be
          NetOf,        \* their networks
          TunnelCidr,   \* the tunnel network of each instance
          SubProc,
          MaxSubStep,   \* bound: requests that begin
          MaxSubUpset   \* bound: failing calls, restarts and reboots

Inst == {"wg", "cert"}
ASSUME SubnetAssumption ==
    /\ NetOf \in [Cidr -> [ip : AddrSpace, len : 0..Width]]
    /\ TunnelCidr \in [Inst -> [ip : AddrSpace, len : 0..Width]]
    /\ ~CIDROverlap(TunnelCidr["wg"], TunnelCidr["cert"])
    /\ Cidr \cap Inst = {}

Off == [mesh |-> FALSE, egress |-> FALSE, group |-> 0]
NoSubReq == [at |-> "idle", op |-> "none", c |-> {}, i |-> {}, side |-> "wg", on |-> TRUE, want |-> Off, prev |-> Off,
             skip |-> {}]

VARIABLES
    subnet,     \* subnets: "none", "local" (no route known), "pass" or "masq"
    natRule,    \* the host's MASQUERADE rules
    setting,    \* provider_settings; group 0: none
    groups,     \* network_groups: how many were made
    hostNet,    \* what the host was last set up with, per instance
    meshRule,   \* the host's FORWARD rule for the cert-based instance
    ipForward,  \* net.ipv4.ip_forward
    restore,    \* what the workers at startup have yet to put back
    sreq,       \* the requests
    unsure,     \* history: subnets and instances about which requests
                \* overlapped or a call failed
    unplugged,  \* history: the host rebooted and the panel has not restarted since
    overruled,  \* history: EnableForwarding was the last to write the wg conf's rules
    unchecked,  \* history: what a subnet was not compared with when it was added, the
                \* tunnels that were not up or not read, or the other "rows"
    subSteps, subUpsets

subTables == <<subnet, setting, groups, unchecked>>
subHost == <<natRule, hostNet, meshRule, ipForward, overruled>>
subRest == <<restore, unplugged, subUpsets>>
subVars == <<subTables, subHost, subRest, sreq, unsure, subSteps>>

Rows == {c \in Cidr : subnet[c] # "none"}
Networks(cs, is) == {NetOf[c] : c \in cs} \cup {TunnelCidr[i] : i \in is}

\* An installation in use: perhaps one subnet masqueraded, perhaps each instance
\* in a group of its own, and perhaps host and panel have just started, with the
\* cert-based instance in the mesh.
SubnetsInit ==
    /\ \E cs \in {{}} \cup {{c} : c \in Cidr}, started \in BOOLEAN :
         /\ \A c \in cs : CheckNoOverlap(NetOf[c], Networks({}, Inst))
         /\ subnet = [c \in Cidr |-> IF c \in cs THEN "masq" ELSE "none"]
         /\ natRule = IF started THEN {} ELSE cs
         /\ restore = IF started THEN cs \cup {"cert"} ELSE {}
         /\ hostNet = [i \in Inst |-> [Off EXCEPT !.mesh = started /\ i = "cert"]]
         /\ ipForward = started
    /\ groups \in {0, 2}
    /\ setting = [i \in Inst |-> [hostNet[i] EXCEPT !.group = IF i = "wg" THEN groups \div 2 ELSE groups]]
    /\ meshRule = FALSE
    /\ sreq = [p \in SubProc |-> NoSubReq]
    /\ unsure = {} /\ unplugged = FALSE /\ overruled = FALSE /\ unchecked = [c \in Cidr |-> {}]
    /\ subSteps = 0 /\ subUpsets = 0

-----------------------------------------------------------------------------
(* Requests *)

Send(p, r) == sreq' = [sreq EXCEPT ![p] = r]
\* A request is about an instance, or about a subnet and those that overlap it.
About(cs, is) == is \cup {d \in Cidr : \E c \in cs : CIDROverlap(NetOf[c], NetOf[d])}
On(p) == About(sreq[p].c, sreq[p].i)
\* Whatever two requests, or one and a worker, are about at the same time.
Shared(p, things) == things \cap (restore \cup UNION {On(q) : q \in SubProc \ {p}})
Open(p, r) ==
    /\ sreq[p].at = "idle" /\ subSteps < MaxSubStep /\ subSteps' = subSteps + 1
    /\ Send(p, r) /\ unsure' = unsure \cup Shared(p, About(r.c, r.i))
    /\ UNCHANGED <<subTables, subHost, subRest>>
Go(p, r) == Send(p, r) /\ UNCHANGED <<unsure, subSteps, subUpsets, restore, unplugged>>
\* A call fails, and what it was about is in doubt.
Trip(p, r, things) ==
    /\ subUpsets < MaxSubUpset /\ subUpsets' = subUpsets + 1
    /\ Send(p, r) /\ unsure' = unsure \cup things
    /\ UNCHANGED <<subSteps, restore, unplugged>>
At(p, at) == [sreq[p] EXCEPT !.at = at]

-----------------------------------------------------------------------------
(* The catalogue *)

\* meshAddressSpace: all subnets, and the tunnels of the instances that are up and
\* answer.
apiSubnetsCreate(p, c) ==
    \E seen \in SUBSET Inst :
      /\ CheckNoOverlap(NetOf[c], Networks(Rows, seen))
      /\ Open(p, [NoSubReq EXCEPT !.at = "insert", !.op = "local", !.c = {c}, !.skip = Inst \ seen])

\* subnets.cidr is unique: a second insert is an error.
CreateSubnet(p) ==
    /\ sreq[p].at = "insert"
    /\ subnet' = [c \in Cidr |-> IF c \in sreq[p].c /\ subnet[c] = "none" THEN sreq[p].op ELSE subnet[c]]
    /\ unchecked' = [c \in Cidr |-> IF c \in sreq[p].c \ Rows THEN sreq[p].skip ELSE unchecked[c]]
    /\ Go(p, IF sreq[p].i # {} /\ sreq[p].c \cap Rows = {} THEN At(p, "pair") ELSE NoSubReq)
    /\ UNCHANGED <<setting, groups, subHost>>

\* apiSubnetsUpdateNAT: the host's rule first, ...
apiSubnetsUpdateNAT(p, c, mode) ==
    /\ subnet[c] \in {"pass", "masq"} \ {mode}
    /\ Open(p, [NoSubReq EXCEPT !.at = "nat", !.op = mode, !.c = {c}])
NATPersisted(p) ==
    LET rule == IF sreq[p].op = "masq" THEN natRule \cup sreq[p].c ELSE natRule \ sreq[p].c
    IN /\ sreq[p].at = "nat"
       /\ \/ natRule' = rule /\ Go(p, At(p, "mode"))
          \/ natRule' = natRule /\ Trip(p, At(p, "mode"), {})
       /\ UNCHANGED <<subTables, hostNet, meshRule, ipForward, overruled>>
SubnetNAT(p) ==
    LET rule == IF sreq[p].op = "masq" THEN natRule \cup sreq[p].c ELSE natRule \ sreq[p].c
    IN /\ sreq[p].at = "nat"
       /\ \/ natRule' = rule /\ Go(p, At(p, "mode"))
          \/ natRule' = natRule /\ Trip(p, NoSubReq, {})
          \/ natRule' = natRule /\ Trip(p, At(p, "mode"), sreq[p].c)   \* no installer for the server
          \/ natRule' = rule /\ Trip(p, NoSubReq, sreq[p].c)           \* done, but unanswered
       /\ UNCHANGED <<subTables, hostNet, meshRule, ipForward, overruled>>
\* ... then the row, if it is still there.
SetSubnetNATMode(p) ==
    /\ sreq[p].at = "mode"
    /\ \/ /\ subnet' = [c \in Cidr |-> IF c \in sreq[p].c /\ subnet[c] # "none" THEN sreq[p].op ELSE subnet[c]]
          /\ Go(p, NoSubReq)
       \/ UNCHANGED subnet /\ Trip(p, NoSubReq, sreq[p].c)
    /\ UNCHANGED <<setting, groups, unchecked, subHost>>

\* apiSubnetsDelete takes a masquerade rule down first, best effort.
apiSubnetsDelete(p, c) ==
    /\ subnet[c] # "none"
    /\ Open(p, [NoSubReq EXCEPT !.at = IF subnet[c] = "masq" THEN "natdel" ELSE "drop", !.c = {c}])
DeleteNAT(p) ==
    /\ sreq[p].at = "natdel"
    /\ \/ natRule' = natRule \ sreq[p].c /\ Go(p, At(p, "drop"))
       \/ natRule' = natRule /\ Trip(p, At(p, "drop"), sreq[p].c)
    /\ UNCHANGED <<subTables, hostNet, meshRule, ipForward, overruled>>
DeleteSubnet(p) ==
    /\ sreq[p].at = "drop"
    /\ \/ /\ subnet' = [c \in Cidr |-> IF c \in sreq[p].c THEN "none" ELSE subnet[c]]
          /\ Go(p, NoSubReq)
       \/ UNCHANGED subnet /\ Trip(p, NoSubReq, sreq[p].c)
    /\ UNCHANGED <<setting, groups, unchecked, subHost>>

-----------------------------------------------------------------------------
(* Settings of an instance *)

SetProviderSettings(i, mesh, egress) ==
    setting' = [setting EXCEPT ![i] = [@ EXCEPT !.mesh = mesh, !.egress = egress]]
SetProviderGroup(is, g) ==
    setting' = [i \in Inst |-> IF i \in is THEN [setting[i] EXCEPT !.group = g] ELSE setting[i]]

\* apiMeshSettingsUpdate: the settings, the group, then the host.  Whether the
\* host must forward is asked for only when something is turned on, not when it
\* was on before.
apiMeshSettingsUpdate(p, i, want) ==
    /\ want # setting[i]
    /\ Open(p, [NoSubReq EXCEPT !.at = "save", !.op = "settings", !.i = {i}, !.side = i,
                         !.on = \/ want.mesh /\ ~setting[i].mesh
                                \/ want.egress /\ ~setting[i].egress,
                         !.want = want, !.prev = setting[i]])
SaveSettings(p) ==
    /\ sreq[p].at = "save"
    /\ \/ SetProviderSettings(sreq[p].side, sreq[p].want.mesh, sreq[p].want.egress) /\ Go(p, At(p, "group"))
       \/ UNCHANGED setting /\ Trip(p, NoSubReq, {})
    /\ UNCHANGED <<subnet, groups, unchecked, subHost>>
SaveGroup(p) ==
    LET prev == sreq[p].prev
        want == sreq[p].want
        changed == want.mesh # prev.mesh \/ want.egress # prev.egress
    IN /\ sreq[p].at = "group"
       /\ \/ /\ SetProviderGroup(sreq[p].i, want.group)
             /\ Go(p, [At(p, IF sreq[p].side = "cert" /\ changed THEN "provision"
                            ELSE IF sreq[p].side = "wg" /\ want.egress # prev.egress THEN "networking"
                            ELSE "sysctl") EXCEPT !.prev = Off])
          \/ UNCHANGED setting /\ Trip(p, NoSubReq, sreq[p].i)   \* saved, not applied
       /\ UNCHANGED <<subnet, groups, unchecked, subHost>>

\* wg-family: ApplyNetworking with the egress that was asked for.
ApplyNetworking(p) ==
    /\ sreq[p].at = "networking"
    /\ \/ /\ hostNet' = [hostNet EXCEPT !["wg"].egress = sreq[p].want.egress] /\ overruled' = FALSE
          /\ Go(p, At(p, "sysctl"))
       \/ UNCHANGED <<hostNet, overruled>> /\ Trip(p, At(p, "sysctl"), sreq[p].i)
    /\ UNCHANGED <<subTables, natRule, meshRule, ipForward>>

\* The forwarding button writes the conf's rules without egress, whatever the
\* settings say, and leaves those alone.
apiMeshEnableForwarding(p) ==
    Open(p, [NoSubReq EXCEPT !.at = "forward", !.op = "settings", !.i = {"wg"}])
EnableForwarding(p) ==
    /\ sreq[p].at = "forward"
    /\ \/ /\ hostNet' = [hostNet EXCEPT !["wg"].egress = FALSE] /\ overruled' = TRUE
          /\ (Go(p, NoSubReq) \/ Trip(p, NoSubReq, sreq[p].i))   \* the restart may fail
       \/ UNCHANGED <<hostNet, overruled>> /\ Trip(p, NoSubReq, {})
    /\ UNCHANGED <<subTables, natRule, meshRule, ipForward>>

ProvisionStale(p) ==
    /\ sreq[p].at = "provision"
    /\ Go(p, [sreq[p] EXCEPT !.at = "ensure", !.prev = hostNet["cert"]])
    /\ UNCHANGED <<subTables, subHost>>
\* provisionCert reads the settings, sets the server up with them, ...
provisionCert(p) ==
    /\ sreq[p].at = "provision"
    /\ Go(p, [sreq[p] EXCEPT !.at = "ensure", !.prev = setting["cert"]])
    /\ UNCHANGED <<subTables, subHost>>
EnsureCertServer(p) ==
    /\ sreq[p].at = "ensure"
    /\ \/ hostNet' = [hostNet EXCEPT !["cert"] = [sreq[p].prev EXCEPT !.group = 0]] /\ Go(p, At(p, "rule"))
       \/ hostNet' = hostNet /\ Trip(p, At(p, "sysctl"), {"cert"})
    /\ UNCHANGED <<subTables, natRule, meshRule, ipForward, overruled>>
\* ... and adds or removes the FORWARD rule, best effort: not if the server is not up
\* yet, or the command fails.
applyCertMeshForwarding(p) ==
    /\ sreq[p].at = "rule"
    /\ \/ meshRule' = sreq[p].prev.mesh /\ Go(p, At(p, "sysctl"))
       \/ meshRule' = meshRule /\ Trip(p, At(p, "sysctl"), {"cert"})
    /\ UNCHANGED <<subTables, natRule, hostNet, ipForward, overruled>>

EnsureIPForward(p) ==
    LET next == IF sreq[p].op = "pair" /\ sreq[p].side = "wg"
                THEN [sreq[p] EXCEPT !.at = "side", !.side = "cert"] ELSE NoSubReq
    IN /\ sreq[p].at = "sysctl"
       /\ \/ ipForward' = (ipForward \/ sreq[p].on) /\ Go(p, next)
          \/ sreq[p].on /\ ipForward' = ipForward /\ Trip(p, next, Inst)
       /\ UNCHANGED <<subTables, natRule, hostNet, meshRule, overruled>>

-----------------------------------------------------------------------------
(* A detection decision: subnets of a peer, and mesh with the other instance *)

ensureProviderGroup(i) ==
    IF setting[i].group # 0 THEN UNCHANGED <<setting, groups>>
    ELSE groups' = groups + 1 /\ SetProviderGroup({i}, groups + 1)

\* Only an equal network is looked for, not one that overlaps.
DetectSubnet(p, c) ==
    /\ subnet[c] = "none"
    /\ Open(p, [NoSubReq EXCEPT !.at = "name", !.op = "pass", !.c = {c}, !.i = {"wg"},
                         !.skip = Inst \cup {"rows"}])
NameGroup(p) ==
    /\ sreq[p].at = "name" /\ ensureProviderGroup("wg")
    /\ Go(p, At(p, "insert"))
    /\ UNCHANGED <<subnet, unchecked, subHost>>
DetectMesh(p) == Open(p, [NoSubReq EXCEPT !.at = "pair", !.op = "pair", !.i = Inst])

\* Two instances in different groups stay as they are.
reconcileMeshGroups(p) ==
    LET a == setting["wg"].group
        b == setting["cert"].group
    IN CASE a = 0 /\ b = 0 -> groups' = groups + 1 /\ SetProviderGroup(Inst, groups + 1)
         [] a = 0 /\ b # 0 -> SetProviderGroup({"wg"}, b) /\ UNCHANGED groups
         [] a # 0 /\ b = 0 -> SetProviderGroup({"cert"}, a) /\ UNCHANGED groups
         [] OTHER -> UNCHANGED <<setting, groups>>

\* enableMeshPair: the groups (a failure is logged), then each side that is off.
enableMeshPair(p) ==
    /\ sreq[p].at = "pair"
    /\ \/ reconcileMeshGroups(p) /\ unsure' = unsure \cup Shared(p, Inst) /\ UNCHANGED subUpsets
       \/ /\ subUpsets < MaxSubUpset /\ subUpsets' = subUpsets + 1
          /\ unsure' = unsure \cup Shared(p, Inst) /\ UNCHANGED <<setting, groups>>
    /\ Send(p, [sreq[p] EXCEPT !.at = "side", !.op = "pair", !.i = Inst, !.side = "wg"])
    /\ UNCHANGED <<subnet, unchecked, subHost, subSteps, restore, unplugged>>
PairSide(p) ==
    LET i == sreq[p].side
        skip == IF i = "wg" THEN [sreq[p] EXCEPT !.side = "cert"] ELSE NoSubReq
    IN /\ sreq[p].at = "side"
       /\ Go(p, IF setting[i].mesh THEN skip
                ELSE [sreq[p] EXCEPT !.at = "pairsave", !.want = [setting[i] EXCEPT !.mesh = TRUE]])
       /\ UNCHANGED <<subTables, subHost>>
\* The row is written whole, from what was read.
PairSave(p) ==
    LET i == sreq[p].side
    IN /\ sreq[p].at = "pairsave"
       /\ \/ /\ SetProviderSettings(i, TRUE, sreq[p].want.egress)
             /\ Go(p, At(p, IF i = "cert" THEN "provision" ELSE "sysctl"))
          \/ UNCHANGED setting /\ Trip(p, NoSubReq, {})
       /\ UNCHANGED <<subnet, groups, unchecked, subHost>>

-----------------------------------------------------------------------------
(* Reboots and restarts *)

\* Rules outside the conf files do not survive a reboot of the host.
HostLosesRules ==
    /\ subUpsets < MaxSubUpset /\ subUpsets' = subUpsets + 1
    /\ natRule' = {} /\ meshRule' = FALSE /\ unplugged' = TRUE
    /\ UNCHANGED <<subTables, hostNet, ipForward, overruled, restore, sreq, unsure, subSteps>>

\* The panel restarts: requests are cut off, the workers read what to put back ...
SubnetsRestart ==
    /\ subUpsets < MaxSubUpset \/ unplugged
    /\ subUpsets' = IF subUpsets < MaxSubUpset THEN subUpsets + 1 ELSE subUpsets
    /\ unsure' = unsure \cup UNION {On(p) : p \in SubProc}
    /\ sreq' = [p \in SubProc |-> NoSubReq]
    /\ restore' = {c \in Cidr : subnet[c] = "masq"} \cup (IF setting["cert"].mesh THEN {"cert"} ELSE {})
    /\ unplugged' = FALSE
    /\ UNCHANGED <<subTables, subHost, subSteps>>
\* ... and put it back, one after another.  A host or a server that does not answer
\* is passed over, and if the list cannot be read nothing is put back.
Restored(xs) ==
    /\ restore' = restore \ xs
    /\ UNCHANGED <<subTables, hostNet, ipForward, overruled, unplugged, sreq, subSteps>>
Skipped(xs) ==
    /\ subUpsets < MaxSubUpset /\ subUpsets' = subUpsets + 1 /\ unsure' = unsure \cup xs
    /\ UNCHANGED <<natRule, meshRule>>
ReapplySubnetNAT ==
    \E cs \in {restore \cap Cidr} \cup {{c} : c \in restore \cap Cidr} :
      /\ cs # {} /\ Restored(cs)
      /\ \/ \E c \in cs : cs = {c} /\ natRule' = natRule \cup {c} /\ UNCHANGED <<meshRule, unsure, subUpsets>>
         \/ Skipped(cs)
ReapplyMeshForwarding ==
    /\ "cert" \in restore /\ Restored({"cert"})
    /\ \/ meshRule' = TRUE /\ UNCHANGED <<natRule, unsure, subUpsets>>
       \/ Skipped({"cert"})

SubnetsNext ==
    \/ \E p \in SubProc :
        \/ \E c \in Cidr : \/ apiSubnetsCreate(p, c) \/ apiSubnetsDelete(p, c) \/ DetectSubnet(p, c)
                           \/ \E mode \in {"pass", "masq"} : apiSubnetsUpdateNAT(p, c, mode)
        \/ CreateSubnet(p) \/ SubnetNAT(p) \/ SetSubnetNATMode(p) \/ DeleteNAT(p) \/ DeleteSubnet(p)
        \/ \E i \in Inst, mesh, egress \in BOOLEAN, g \in 0..groups :
             apiMeshSettingsUpdate(p, i, [mesh |-> mesh, egress |-> egress, group |-> g])
        \/ SaveSettings(p) \/ SaveGroup(p) \/ ApplyNetworking(p) \/ provisionCert(p)
        \/ apiMeshEnableForwarding(p) \/ EnableForwarding(p)
        \/ EnsureCertServer(p) \/ applyCertMeshForwarding(p) \/ EnsureIPForward(p)
        \/ NameGroup(p) \/ DetectMesh(p) \/ enableMeshPair(p) \/ PairSide(p) \/ PairSave(p)
    \/ HostLosesRules \/ SubnetsRestart \/ ReapplySubnetNAT \/ ReapplyMeshForwarding

SubnetsSpec == SubnetsInit /\ [][SubnetsNext]_subVars

-----------------------------------------------------------------------------
(* Properties *)

Idle(x) == x \notin unsure \cup restore /\ \A p \in SubProc : x \notin On(p)

\* Between requests, the host masquerades exactly the subnets whose row says so -
\* those about which no call failed and no requests overlapped, and until the
\* workers have put the rules back after a reboot.
NatAgrees ==
    ~unplugged => \A c \in Cidr : Idle(c) => (c \in natRule <=> subnet[c] = "masq")

\* Likewise the host runs with the mesh and egress settings on record, and
\* forwards if any of them needs it - but for egress while the forwarding button has
\* overruled it.
MeshApplied ==
    /\ Idle("wg") /\ ~overruled => hostNet["wg"].egress = setting["wg"].egress
    /\ Idle("cert") => /\ hostNet["cert"] = [setting["cert"] EXCEPT !.group = 0]
                       /\ ~unplugged => meshRule = setting["cert"].mesh
    /\ \A i \in Inst : Idle(i) /\ (setting[i].mesh \/ setting[i].egress) => ipForward

\* No address is in two subnets of the catalogue, or in a subnet and a tunnel that
\* was up and read when the subnet was added - except for subnets that a detection
\* added and those of requests that overlapped.
SubnetsDisjoint ==
    LET sound == {c \in Rows \ unsure : "rows" \notin unchecked[c]}
    IN \A c \in sound : \A net \in Networks(sound \ {c}, Inst \ unchecked[c]) :
         ~\E x \in AddrSpace : ContainsIP(NetOf[c], x) /\ ContainsIP(net, x)

=============================================================================
