-------------------------------- MODULE Nodes -------------------------------
(***************************************************************************)
(* Nodes (routers and other equipment), the peers they own on one          *)
(* wg-family instance, and the destinations a peer is restricted to, as    *)
(* api_nodes.go, network_detect.go and api_peer_forward.go run them.  One  *)
(* action is one statement or one host command; a read is joined to the    *)
(* step that uses it.  The requests of api_peers.go about one peer are one *)
(* step each, with their outcomes: PeerLifecycle takes them apart.  Names, *)
(* kinds and destination lists are left out: a peer is restricted or it is *)
(* not.  What a detection decision does to subnets and mesh settings is    *)
(* Subnets.                                                                *)
(***************************************************************************)
EXTENDS Addresses

CONSTANTS Node,        \* rows of nodes; a row that is deleted never comes back
          PeerKey,     \* public keys
          Pool,        \* the tunnel network of the instance, the host's own address in it
          HostIP,
          TypedIP,     \* the addresses an admin types
          NoNode, NodeProc,
          MaxNodeStep, \* bound: requests that begin
          MaxNodeUpset \* bound: failing calls, restarts and reboots

ASSUME NodeAssumption ==
    /\ PeerKey # {} /\ \A n \in Node : NoNode # n
    /\ Pool \in [ip : AddrSpace, len : 0..Width] /\ {HostIP, HostIP + 1} \subseteq AddrSpace
    /\ TypedIP \subseteq AddrSpace

NodeRole == {"member", "network_node"}
NoNodeReq == [at |-> "idle", op |-> "none", n |-> NoNode, keys |-> {},
              key |-> "none", addr |-> NoAddr]

VARIABLES
    node,       \* nodes: "none", "gone" or the role of the row
    nodePeer,   \* node_peer
    portalPeer, \* peer_owner: the peers of portal users
    peerAddr,   \* the address of a peer on the host; NoAddr: not there
    disabled,   \* disabled_peers: the address a disabled peer comes back with
    known,      \* keys that were generated
    stored,     \* peer_forward_rules: the peers with a list of destinations
    enforced,   \* the addresses whose rules are in the host's FORWARD chain, above
                \* the interface's own ACCEPT
    reapply,    \* peers ReapplyPeerForwardRules has yet to restore
    nreq,       \* the requests
    gift,       \* history: the node the access switch made a peer for
    moved,      \* history: peers whose key an admin rotated, or that were enabled
                \* again once their node was gone
    forced,     \* history: peers an admin put on an address in use
    adrift,     \* history: peers whose rules were not all written, that another's
                \* call freed, whose address changed, or that startup skipped
    clipped,    \* history: peers whose rules a call for a shorter address took along
    blurred,    \* history: requests overlapped, a call failed, or an admin
                \* went round the switch
    wiped,      \* history: the chain was emptied or overruled, and the panel has not
                \* restarted since
    nodeSteps, nodeUpsets

nodeVars == <<node, nodePeer, portalPeer, peerAddr, disabled, known, stored, enforced, reapply,
              nreq, gift, moved, forced, adrift, clipped, blurred, wiped, nodeSteps, nodeUpsets>>
owners == <<portalPeer, gift, moved>>
nodeTables == <<node, nodePeer, owners>>
peerState == <<peerAddr, disabled, known, forced>>
ruleState == <<enforced, adrift, clipped>>
hostState == <<peerState, ruleState>>
rest == <<reapply, wiped, nodeUpsets>>

OnHost(k) == peerAddr[k] # NoAddr
\* Where a peer is, or would be if it were enabled.
Home(k) == IF OnHost(k) THEN peerAddr[k] ELSE disabled[k]
LiveNode(n) == node[n] \in NodeRole
OwnedKeys(n) == {k \in PeerKey : nodePeer[k] = n}
Busy == \E q \in NodeProc : nreq[q].at # "idle"

\* A network node, a member, and a client somebody made by hand; which ones does
\* not matter.
NodesInit ==
    /\ LET router == CHOOSE n \in Node : TRUE
           member == CHOOSE n \in Node : n # router
       IN node = [n \in Node |-> IF n = router THEN "network_node"
                                 ELSE IF n = member THEN "member" ELSE "none"]
    /\ nodePeer = [k \in PeerKey |-> NoNode] /\ portalPeer = {}
    /\ LET made == CHOOSE k \in PeerKey : TRUE
       IN /\ known = {made}
          /\ peerAddr = [k \in PeerKey |-> IF k = made THEN HostIP + 1 ELSE NoAddr]
    /\ disabled = [k \in PeerKey |-> NoAddr]
    /\ stored = {} /\ enforced = {} /\ reapply = {}
    /\ nreq = [p \in NodeProc |-> NoNodeReq]
    /\ gift = [k \in PeerKey |-> NoNode] /\ moved = {} /\ forced = {} /\ adrift = {} /\ clipped = {}
    /\ blurred = FALSE /\ wiped = FALSE /\ nodeSteps = 0 /\ nodeUpsets = 0

-----------------------------------------------------------------------------
(* The tables *)

CreateNode(n, role) == node[n] = "none" /\ node' = [node EXCEPT ![n] = role]

\* SetNodePeer needs the row of the node; one that is gone is an error.
SetNodePeer(k, n) == nodePeer' = [nodePeer EXCEPT ![k] = n]
ClearNodePeer(k) == nodePeer' = [nodePeer EXCEPT ![k] = NoNode]
HasNetworkNodePeer(n) ==
    \E k \in PeerKey : nodePeer[k] \notin {NoNode, n} /\ node[nodePeer[k]] = "network_node"

\* ON DELETE CASCADE takes the node_peer rows along.
DeleteNode(n) ==
    /\ node' = [node EXCEPT ![n] = "gone"]
    /\ nodePeer' = [k \in PeerKey |-> IF nodePeer[k] = n THEN NoNode ELSE nodePeer[k]]

Answer(p, r) == nreq' = [nreq EXCEPT ![p] = r]
\* A request begins; one that overlaps another, or the worker at startup, is on
\* record.
Arrives(p) == nreq[p].at = "idle" /\ nodeSteps < MaxNodeStep /\ nodeSteps' = nodeSteps + 1
Starts(p) == Arrives(p) /\ blurred' = (blurred \/ Busy \/ reapply # {})
Continues == UNCHANGED <<nodeSteps, blurred>>
Upset == nodeUpsets < MaxNodeUpset /\ nodeUpsets' = nodeUpsets + 1
FailsNow == Upset /\ blurred' = TRUE /\ UNCHANGED nodeSteps
StartsAndFails(p) == Arrives(p) /\ Upset /\ blurred' = TRUE

\* A peer that leaves the host, or changes its address, leaves its rules behind.
LeavesRules(k) == adrift' = adrift \cup ({k} \cap stored)

-----------------------------------------------------------------------------
(* The Nodes page *)

apiNodesCreate(p, n, role) ==
    /\ Starts(p) /\ CreateNode(n, role)
    /\ UNCHANGED <<nodePeer, owners, hostState, stored, rest, nreq>>
\* The role may change while the node owns peers.
apiNodesUpdate(p, n, role) ==
    /\ Starts(p) /\ LiveNode(n) /\ node[n] # role /\ node' = [node EXCEPT ![n] = role]
    /\ UNCHANGED <<nodePeer, owners, hostState, stored, rest, nreq>>

\* removeNodePeers and revokeNodeProviderAccess list the peers first; a list that
\* fails ends there, which for a deletion leaves the peers to the cascade.
ListOwned(p, n, op) ==
    /\ Starts(p) /\ LiveNode(n)
    /\ Answer(p, [NoNodeReq EXCEPT !.at = "remove", !.op = op, !.n = n, !.keys = OwnedKeys(n)])
    /\ UNCHANGED <<nodeTables, hostState, stored, rest>>
ListOwnedFails(p) ==
    /\ nreq[p].at = "remove" /\ FailsNow
    /\ Answer(p, IF nreq[p].op = "delete" THEN [nreq[p] EXCEPT !.keys = {}] ELSE NoNodeReq)
    /\ UNCHANGED <<nodeTables, hostState, stored, reapply, wiped>>

RemoveSkipped(p, k) ==
    /\ nreq[p].at = "remove" /\ k \in nreq[p].keys
    /\ Answer(p, [nreq[p] EXCEPT !.at = "clear", !.key = k]) /\ Continues
    /\ UNCHANGED <<nodeTables, hostState, stored, rest>>
\* RemovePeer on the host, best effort.
RemoveOwned(p, k) ==
    /\ nreq[p].at = "remove" /\ k \in nreq[p].keys
    /\ \/ peerAddr' = [peerAddr EXCEPT ![k] = NoAddr] /\ Continues /\ UNCHANGED nodeUpsets
       \/ OnHost(k) /\ FailsNow /\ UNCHANGED peerAddr
    /\ LeavesRules(k)
    /\ Answer(p, [nreq[p] EXCEPT !.at = "clear", !.key = k])
    /\ UNCHANGED <<nodeTables, disabled, known, forced, enforced, clipped, stored, reapply, wiped>>
ClearOwned(p) ==
    LET k == nreq[p].key
    IN /\ nreq[p].at = "clear"
       /\ ClearNodePeer(k)
       /\ Answer(p, [nreq[p] EXCEPT !.at = "remove", !.keys = @ \ {k}, !.key = "none"])
       /\ Continues /\ UNCHANGED <<node, owners, hostState, stored, rest>>

apiNodesDelete(p) ==
    /\ nreq[p].at = "remove" /\ nreq[p].op = "delete" /\ nreq[p].keys = {}
    /\ DeleteNode(nreq[p].n) /\ Answer(p, NoNodeReq)
    /\ Continues /\ UNCHANGED <<owners, hostState, stored, rest>>
revokeNodeProviderAccess(p) ==
    /\ nreq[p].at = "remove" /\ nreq[p].op = "revoke" /\ nreq[p].keys = {}
    /\ Answer(p, NoNodeReq)
    /\ Continues /\ UNCHANGED <<nodeTables, hostState, stored, rest>>

\* apiNodeAccessSet(enabled): nothing to do if the node owns a peer here, refused
\* if another network node does; then a peer is provisioned.
apiNodeAccessSet(p, n) ==
    /\ Starts(p) /\ LiveNode(n)
    /\ OwnedKeys(n) = {}
    /\ node[n] = "network_node" => ~HasNetworkNodePeer(n)
    /\ Answer(p, [NoNodeReq EXCEPT !.at = "list", !.op = "grant", !.n = n])
    /\ UNCHANGED <<nodeTables, hostState, stored, rest>>

PickUnchecked(p) ==
    LET free == NextFreeIPInRange(Pool, NoAddr, NoAddr, {HostIP})
    IN /\ nreq[p].at = "list"
       /\ Answer(p, [nreq[p] EXCEPT !.at = "add", !.addr = free])
       /\ Continues /\ UNCHANGED <<nodeTables, hostState, stored, rest>>
\* autoProvisionPeer picks an address from the list of peers it has read ...
PickAddress(p) ==
    LET used == {peerAddr[k] : k \in {x \in PeerKey : OnHost(x)}} \cup {HostIP}
        free == NextFreeIPInRange(Pool, NoAddr, NoAddr, used)
    IN /\ nreq[p].at = "list"
       /\ Answer(p, IF free = NoAddr THEN NoNodeReq ELSE [nreq[p] EXCEPT !.at = "add", !.addr = free])
       /\ Continues /\ UNCHANGED <<nodeTables, hostState, stored, rest>>

\* Keys are random, so which one comes next does not matter.
FreshKey == IF known = PeerKey THEN {} ELSE {CHOOSE k \in PeerKey : k \notin known}

\* ... and adds the peer under a fresh key; if it cannot be added, or its secret
\* not be saved and the peer is removed again, the grant ends.
autoProvisionPeer(p) ==
    /\ nreq[p].at = "add"
    /\ \/ \E k \in FreshKey :
            /\ known' = known \cup {k} /\ gift' = [gift EXCEPT ![k] = nreq[p].n]
            /\ peerAddr' = [peerAddr EXCEPT ![k] = nreq[p].addr]
            /\ Answer(p, [nreq[p] EXCEPT !.at = "own", !.keys = {k}, !.addr = NoAddr])
            /\ Continues /\ UNCHANGED nodeUpsets
       \/ Answer(p, NoNodeReq) /\ FailsNow /\ UNCHANGED <<known, gift, peerAddr>>
    /\ UNCHANGED <<node, nodePeer, portalPeer, moved, disabled, forced, ruleState, stored, reapply, wiped>>

\* SetNodePeer, for the access switch, the owner picker and the detection.
AssignNode(p) ==
    /\ nreq[p].at = "own"
    /\ \E k \in nreq[p].keys :
         \/ /\ LiveNode(nreq[p].n) /\ SetNodePeer(k, nreq[p].n) /\ Continues /\ UNCHANGED nodeUpsets
            /\ gift' = [gift EXCEPT ![k] = IF @ = NoNode THEN @ ELSE nreq[p].n]
            /\ moved' = moved \ {k}
         \/ ~LiveNode(nreq[p].n) /\ Continues /\ UNCHANGED <<nodePeer, gift, moved, nodeUpsets>>
         \/ FailsNow /\ UNCHANGED <<nodePeer, gift, moved>>
    /\ Answer(p, NoNodeReq)
    /\ UNCHANGED <<node, portalPeer, hostState, stored, reapply, wiped>>

-----------------------------------------------------------------------------
(* Owners by hand, and by detection *)

\* apiPeerSetNodeOwner: an existing node, or a member made on the fly, ...
apiPeerSetNodeOwner(p, k, n) ==
    /\ Starts(p) /\ k \in known
    /\ \/ LiveNode(n) /\ UNCHANGED node
       \/ CreateNode(n, "member")
    /\ Answer(p, [NoNodeReq EXCEPT !.at = "portal", !.n = n, !.keys = {k}])
    /\ UNCHANGED <<nodePeer, owners, hostState, stored, rest>>
\* ... unless a portal user owns the peer.
GetPeerOwnerUserID(p) ==
    /\ nreq[p].at = "portal"
    /\ Answer(p, IF nreq[p].keys \subseteq portalPeer THEN NoNodeReq ELSE [nreq[p] EXCEPT !.at = "own"])
    /\ Continues /\ UNCHANGED <<nodeTables, hostState, stored, rest>>
\* With no node: the owner is cleared, the peer stays.
ClearNodeOwner(p, k) ==
    /\ Starts(p) /\ nodePeer[k] # NoNode /\ ClearNodePeer(k)
    /\ gift' = [gift EXCEPT ![k] = NoNode]
    /\ UNCHANGED <<node, portalPeer, moved, hostState, stored, rest, nreq>>

\* apiPeerSetOwner: a portal user, unless a node owns the peer.
apiPeerSetOwner(p, k) ==
    /\ Starts(p) /\ k \in known /\ nodePeer[k] = NoNode
    /\ Answer(p, [NoNodeReq EXCEPT !.at = "user", !.keys = {k}])
    /\ UNCHANGED <<nodeTables, hostState, stored, rest>>
SetPeerOwner(p) ==
    /\ nreq[p].at = "user"
    /\ portalPeer' = portalPeer \cup nreq[p].keys /\ Answer(p, NoNodeReq)
    /\ Continues /\ UNCHANGED <<node, nodePeer, gift, moved, hostState, stored, rest>>
ClearPeerOwner(p, k) ==
    /\ Starts(p) /\ k \in portalPeer /\ portalPeer' = portalPeer \ {k}
    /\ UNCHANGED <<node, nodePeer, gift, moved, hostState, stored, rest, nreq>>

\* applyNetworkDetection, a "create_node" decision about a peer nobody owns yet:
\* neither a portal owner nor another network node is looked for.
applyNetworkDetection(p, k, n) ==
    /\ Starts(p) /\ OnHost(k) /\ nodePeer[k] = NoNode
    /\ Answer(p, [NoNodeReq EXCEPT !.at = "create", !.n = n, !.keys = {k}])
    /\ UNCHANGED <<nodeTables, hostState, stored, rest>>
CreateDetected(p) ==
    /\ nreq[p].at = "create"
    /\ CreateNode(nreq[p].n, "network_node")
    /\ blurred' = (blurred \/ nreq[p].keys \cap portalPeer # {}) /\ UNCHANGED nodeSteps
    /\ Answer(p, [nreq[p] EXCEPT !.at = "own"])
    /\ UNCHANGED <<nodePeer, owners, hostState, stored, rest>>

-----------------------------------------------------------------------------
(* Restricting a peer *)

\* The rules of an address are found by their comment, whose text need only begin
\* with the dotted address that is looked for: those of 10.8.0.12 are found for
\* 10.8.0.1 too.
Begins(a, b) ==
    /\ a \div 256 = b \div 256 /\ a % 256 # 0
    /\ \E digits \in {10, 100} : (b % 256) \div digits = a % 256
Tagged(a) == {b \in AddrSpace : b = a \/ Begins(a, b)}

\* cmd_peer_forward_rules: whatever is found for the address is deleted, then its
\* rules are written, on top.
Sync(k, a, on) ==
    /\ enforced' = (enforced \ Tagged(a)) \cup (IF on THEN {a} ELSE {})
    /\ adrift' = (adrift \ {k}) \cup (IF on THEN {} ELSE {j \in PeerKey \ {k} : Home(j) = a})
    /\ clipped' = (clipped \ {k}) \cup {j \in PeerKey : Home(j) \in Tagged(a) \ {a}}
\* The command is cut off, or its answer is lost: the deletion may have happened,
\* and the rules may have been written.
SyncFails(k, a, on) ==
    /\ enforced' \in {enforced, enforced \ Tagged(a)} \cup (IF on THEN {(enforced \ Tagged(a)) \cup {a}} ELSE {})
    /\ adrift' = adrift \cup {j \in stored : Home(j) = a}
    /\ clipped' = clipped \cup {j \in PeerKey : Home(j) \in Tagged(a) \ {a}}
\* A rule is not written, and the script, which goes on after an error, answers
\* by its last command.
SyncHalfDone(k, a, on) ==
    /\ enforced' = enforced \ Tagged(a)
    /\ adrift' = adrift \cup {j \in PeerKey : Home(j) = a}
    /\ clipped' = clipped \cup {j \in PeerKey : Home(j) \in Tagged(a) \ {a}}

\* The host's rules for the peer's present address first; a list may be replaced
\* by another, ...
apiPeerForwardRulesPut(p, k, on) ==
    /\ Starts(p) /\ OnHost(k) /\ (on \/ k \in stored)
    /\ Answer(p, [NoNodeReq EXCEPT !.at = "rules", !.op = IF on THEN "restrict" ELSE "free", !.keys = {k},
                                   !.key = k, !.addr = peerAddr[k]])
    /\ UNCHANGED <<nodeTables, hostState, stored, rest>>
ForwardNotChecked(p) ==
    LET r == nreq[p]
        on == r.op = "restrict"
    IN /\ r.at = "rules"
       /\ \/ Sync(r.key, r.addr, on) /\ UNCHANGED nodeUpsets
          \/ Upset /\ SyncFails(r.key, r.addr, on)
       /\ Answer(p, [r EXCEPT !.at = "store"])
       /\ Continues /\ UNCHANGED <<nodeTables, peerState, stored, reapply, wiped>>
SetHostForwardRules(p) ==
    LET r == nreq[p]
        on == r.op = "restrict"
        store == [r EXCEPT !.at = "store"]
    IN /\ r.at = "rules"
       /\ \/ Sync(r.key, r.addr, on) /\ Answer(p, store) /\ UNCHANGED nodeUpsets
          \/ Upset /\ SyncFails(r.key, r.addr, on) /\ Answer(p, NoNodeReq)
          \/ Upset /\ on /\ SyncHalfDone(r.key, r.addr, on) /\ Answer(p, store)
       /\ Continues /\ UNCHANGED <<nodeTables, peerState, stored, reapply, wiped>>
\* ... then the rows, in one transaction.
SetPeerForwardRules(p) ==
    /\ nreq[p].at = "store"
    /\ \/ /\ stored' = IF nreq[p].op = "restrict" THEN stored \cup nreq[p].keys
                                                  ELSE stored \ nreq[p].keys
          /\ UNCHANGED <<nodeUpsets, adrift>>
       \/ Upset /\ UNCHANGED stored /\ adrift' = adrift \cup nreq[p].keys
    /\ Answer(p, NoNodeReq) /\ Continues
    /\ UNCHANGED <<nodeTables, peerState, enforced, clipped, reapply, wiped>>

-----------------------------------------------------------------------------
(* The peers page, which knows nothing of nodes *)

\* Any address goes; one that another peer has is on record.
Place(k, a) ==
    /\ peerAddr' = [peerAddr EXCEPT ![k] = a]
    /\ forced' = IF \E j \in PeerKey \ {k} : peerAddr[j] = a THEN forced \cup {k} ELSE forced \ {k}

\* apiCreatePeer: a new key, or one the client brings along.
apiCreatePeer(p, k, a) ==
    /\ Starts(p) /\ ~OnHost(k) /\ k \in known \cup FreshKey
    /\ Place(k, a) /\ known' = known \cup {k} /\ gift' = [gift EXCEPT ![k] = NoNode]
    /\ LeavesRules(k)
    /\ UNCHANGED <<node, nodePeer, portalPeer, moved, disabled, enforced, clipped, stored, rest, nreq>>
\* apiUpdatePeer: the rules of the old address stay, and the new one has none.
apiUpdatePeer(p, k, a) ==
    /\ Starts(p) /\ OnHost(k) /\ peerAddr[k] # a
    /\ Place(k, a) /\ LeavesRules(k)
    /\ UNCHANGED <<nodeTables, disabled, known, enforced, clipped, stored, rest, nreq>>
\* apiRotatePeer: the peer has a new key, node_peer and the rules' rows keep the
\* old one.  If the new secret cannot be saved, the peer is gone.
apiRotatePeer(p, k) ==
    /\ OnHost(k) /\ LeavesRules(k)
    /\ \E new \in FreshKey :
         /\ known' = known \cup {new}
         /\ \/ /\ Starts(p) /\ UNCHANGED nodeUpsets
               /\ peerAddr' = [peerAddr EXCEPT ![k] = NoAddr, ![new] = peerAddr[k]]
               /\ gift' = [gift EXCEPT ![new] = gift[k]] /\ moved' = moved \cup {new}
               /\ forced' = IF k \in forced THEN forced \cup {new} ELSE forced
            \/ /\ StartsAndFails(p)
               /\ peerAddr' = [peerAddr EXCEPT ![k] = NoAddr] /\ UNCHANGED <<gift, moved, forced>>
    /\ UNCHANGED <<node, nodePeer, portalPeer, disabled, enforced, clipped, stored, reapply, wiped, nreq>>
\* disablePeer: the row first; if the peer cannot be removed it goes again, best
\* effort.
apiDisablePeer(p, k) ==
    /\ OnHost(k)
    /\ disabled' = [disabled EXCEPT ![k] = peerAddr[k]]
    /\ \/ Starts(p) /\ peerAddr' = [peerAddr EXCEPT ![k] = NoAddr] /\ UNCHANGED nodeUpsets
       \/ StartsAndFails(p) /\ UNCHANGED peerAddr
    /\ UNCHANGED <<nodeTables, known, forced, ruleState, stored, reapply, wiped, nreq>>
\* apiEnablePeer: the address it had, then the row, best effort.
apiEnablePeer(p, k) ==
    /\ ~OnHost(k) /\ disabled[k] # NoAddr /\ Place(k, disabled[k])
    /\ \/ Starts(p) /\ disabled' = [disabled EXCEPT ![k] = NoAddr] /\ UNCHANGED nodeUpsets
       \/ StartsAndFails(p) /\ UNCHANGED disabled
    /\ moved' = IF nodePeer[k] = NoNode THEN moved \cup {k} ELSE moved
    /\ UNCHANGED <<node, nodePeer, portalPeer, gift, known, ruleState, stored, reapply, wiped, nreq>>

\* apiDeletePeer: the peer, then its rows (an error is ignored).  The host's
\* rules, the owner and the node stay as they are.
apiDeletePeer(p, k) ==
    /\ Starts(p) /\ OnHost(k)
    /\ peerAddr' = [peerAddr EXCEPT ![k] = NoAddr] /\ LeavesRules(k)
    /\ Answer(p, [NoNodeReq EXCEPT !.at = "rows", !.keys = {k}])
    /\ UNCHANGED <<nodeTables, disabled, known, forced, enforced, clipped, stored, rest>>
DeletePeerForwardRules(p) ==
    /\ nreq[p].at = "rows"
    /\ \/ stored' = stored \ nreq[p].keys /\ UNCHANGED nodeUpsets
       \/ Upset /\ UNCHANGED stored
    /\ Answer(p, NoNodeReq) /\ Continues
    /\ UNCHANGED <<nodeTables, hostState, reapply, wiped>>

-----------------------------------------------------------------------------
(* Reboots and restarts *)

\* The host reboots or a firewall change reloads the whole filter table, and the
\* chain is empty; or the interface restarts, and its ACCEPT is above the rules.
\* So it stays until the panel starts again.
HostLosesChain ==
    /\ Upset
    /\ enforced' = {} /\ wiped' = TRUE
    /\ UNCHANGED <<nodeTables, peerState, adrift, clipped, stored, reapply, nreq, blurred, nodeSteps>>

\* The panel restarts: requests are cut off, the worker reads the rows ...
NodesRestart ==
    /\ nodeUpsets < MaxNodeUpset \/ wiped
    /\ nodeUpsets' = IF nodeUpsets < MaxNodeUpset THEN nodeUpsets + 1 ELSE nodeUpsets
    /\ nreq' = [p \in NodeProc |-> NoNodeReq] /\ blurred' = (blurred \/ Busy)
    /\ wiped' = FALSE
    /\ \/ reapply' = stored /\ UNCHANGED adrift
       \/ reapply' = {} /\ adrift' = adrift \cup stored   \* the rows cannot be read
    /\ UNCHANGED <<nodeTables, peerState, enforced, clipped, stored, nodeSteps>>
\* ... and restores one peer after another, at the address it has by then; one
\* that cannot be read, or whose host does not answer, is skipped.
ReapplyPeerForwardRules ==
    \E k \in reapply :
      /\ reapply' = reapply \ {k}
      /\ \/ OnHost(k) /\ Sync(k, peerAddr[k], TRUE)
         \/ OnHost(k) /\ SyncFails(k, peerAddr[k], TRUE)
         \/ adrift' = adrift \cup {k} /\ UNCHANGED <<enforced, clipped>>
      /\ blurred' = (blurred \/ Busy)
      /\ UNCHANGED <<nodeTables, peerState, stored, nreq, wiped, nodeSteps, nodeUpsets>>

NodesNext ==
    \/ \E p \in NodeProc :
        \/ \E n \in Node :
            \/ \E role \in NodeRole : apiNodesCreate(p, n, role) \/ apiNodesUpdate(p, n, role)
            \/ \E op \in {"delete", "revoke"} : ListOwned(p, n, op)
            \/ apiNodeAccessSet(p, n)
            \/ \E k \in PeerKey : apiPeerSetNodeOwner(p, k, n) \/ applyNetworkDetection(p, k, n)
        \/ \E k \in PeerKey : \/ RemoveOwned(p, k) \/ ClearNodeOwner(p, k) \/ apiPeerSetOwner(p, k)
                              \/ ClearPeerOwner(p, k) \/ apiDeletePeer(p, k) \/ apiRotatePeer(p, k)
                              \/ apiDisablePeer(p, k) \/ apiEnablePeer(p, k)
                              \/ \E a \in TypedIP : apiCreatePeer(p, k, a) \/ apiUpdatePeer(p, k, a)
                              \/ \E on \in BOOLEAN : apiPeerForwardRulesPut(p, k, on)
        \/ ListOwnedFails(p) \/ ClearOwned(p) \/ apiNodesDelete(p) \/ revokeNodeProviderAccess(p)
        \/ PickAddress(p) \/ autoProvisionPeer(p) \/ AssignNode(p) \/ GetPeerOwnerUserID(p)
        \/ SetPeerOwner(p) \/ CreateDetected(p)
        \/ SetHostForwardRules(p) \/ SetPeerForwardRules(p) \/ DeletePeerForwardRules(p)
    \/ HostLosesChain \/ NodesRestart \/ ReapplyPeerForwardRules

NodesSpec == NodesInit /\ [][NodesNext]_nodeVars

-----------------------------------------------------------------------------
(* Properties *)

Quiet == ~Busy /\ ~blurred

\* Once access is revoked or the node deleted, none of the peers the access switch
\* made for it is left on the host without an owner, whatever became of the peer in
\* between - unless an admin rotated its key or enabled it afterwards, requests
\* overlapped or a call failed.
NoOrphanPeer ==
    Quiet => \A k \in PeerKey \ moved : gift[k] # NoNode /\ OnHost(k) => nodePeer[k] # NoNode

\* The access switch never hands out an address that a peer has, however that peer
\* came by it: two peers share one only if an admin put the second one there.  The
\* pool is read and the peer added in separate steps, so this is for requests that
\* did not overlap.
AddressesDistinct ==
    ~blurred => \A j, k \in PeerKey \ forced : j # k /\ OnHost(j) => peerAddr[j] # peerAddr[k]

\* A restriction on record is in force, in whichever order peers were restricted,
\* freed, disabled, enabled, deleted and made again, and once startup has restored
\* it: unless one of the things happened that `adrift', `clipped' and `wiped' name.
RestrictionInForce ==
    Quiet /\ ~wiped => \A k \in stored \ (reapply \cup adrift \cup clipped) :
                         OnHost(k) => peerAddr[k] \in enforced

=============================================================================
