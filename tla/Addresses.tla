------------------------------ MODULE Addresses -----------------------------
(***************************************************************************)
(* The address arithmetic of internal/vpn: overlap of networks, the next   *)
(* free address of a pool, and the split of a peer's AllowedIPs.  An       *)
(* address is a number below 2^Width, a network an address and the length  *)
(* of its prefix, as net.ParseCIDR returns them.  Addresses of one family  *)
(* only; AddressCheck compares the operators with what they are meant for. *)
(***************************************************************************)
EXTENDS Integers, Sequences, FiniteSets

CONSTANTS Width,      \* bits of an address
          NoAddr      \* no address found, or no bound given

AddrSpace == 0..2^Width - 1
ASSUME AddrAssumption == Width \in Nat /\ NoAddr \notin AddrSpace

NetworkAt(c) == (c.ip \div 2^(Width - c.len)) * 2^(Width - c.len)
ContainsIP(c, a) == a \div 2^(Width - c.len) = c.ip \div 2^(Width - c.len)

\* One network contains the base address of the other.
OverlapOneWay(a, b) == ContainsIP(a, NetworkAt(b))
CIDROverlap(a, b) == ContainsIP(a, NetworkAt(b)) \/ ContainsIP(b, NetworkAt(a))

CheckNoOverlap(c, existing) == \A e \in existing : ~CIDROverlap(c, e)

\* The scan for a free address: where it gives up, and what it passes over.
ScanEnds(c, last, cur) == cur = 2^Width \/ ~ContainsIP(c, cur) \/ (last # NoAddr /\ cur > last)
Taken(c, used, cur) == cur = NetworkAt(c) \/ cur \in used
FreeFrom(c, last, used) ==
    LET scan[cur \in 0..2^Width] ==
          IF ScanEnds(c, last, cur) THEN NoAddr
          ELSE IF Taken(c, used, cur) THEN scan[cur + 1] ELSE cur
    IN scan
OutOfRange(c, a) == a # NoAddr /\ ~ContainsIP(c, a)

\* NextFreeIP is the case of a pool without bounds.
NextFreeAboveFirst(c, first, last, used) ==
    IF OutOfRange(c, first) \/ OutOfRange(c, last) THEN NoAddr
    ELSE FreeFrom(c, last, used)[IF first = NoAddr THEN NetworkAt(c) ELSE first + 1]
NextFreeIPInRange(c, first, last, used) ==
    IF OutOfRange(c, first) \/ OutOfRange(c, last) THEN NoAddr
    ELSE FreeFrom(c, last, used)[IF first = NoAddr THEN NetworkAt(c) ELSE first]

\* ClassifyPeerRoutes, as the places of the list that end up in each field: whether
\* an entry lies in the tunnel network is asked of its address and its length, not
\* of its place; the first host address in it is the peer's own.
InsideByAddress(tunnel, e) == ContainsIP(tunnel, e.ip)
Inside(tunnel, e) == ContainsIP(tunnel, e.ip) /\ e.len >= tunnel.len
FullTunnel(e) == e.len = 0 /\ e.ip = 0
ClassifyPeerRoutes(tunnel, entries) ==
    LET real == {n \in DOMAIN entries : ~FullTunnel(entries[n])}
        inside == {n \in real : Inside(tunnel, entries[n])}
        hosts == {n \in inside : entries[n].len = Width}
        own == {n \in hosts : \A m \in hosts : n <= m}
    IN [own |-> own, sites |-> real \ inside, full |-> real # DOMAIN entries,
        anomalies |-> inside \ own]

\* detectNetworkStructure: what the preview suggests for a peer.
SuggestedAction(class, named, handled) ==
    IF handled THEN "already_handled"
    ELSE IF class.sites # {} /\ named THEN "create_node"
    ELSE IF class.anomalies \cup class.sites # {} THEN "anomaly"
    ELSE "none"

=============================================================================
