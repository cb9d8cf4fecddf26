---------------------------- MODULE AddressCheck ----------------------------
(***************************************************************************)
(* The operators of Addresses against reference definitions, one state for *)
(* each input.                                                             *)
(***************************************************************************)
EXTENDS Addresses

CONSTANT AddrInputs  \* the inputs that are examined
VARIABLE input

AddrInit == input \in AddrInputs

\* The address that is handed out is the lowest free host address of the pool,
\* bounds included, and there is none only if there is none.
NextFreeExact ==
    input.kind = "free" =>
      LET pool == {a \in AddrSpace \ input.used :
                     /\ ContainsIP(input.net, a) /\ a # NetworkAt(input.net)
                     /\ input.first # NoAddr => a >= input.first
                     /\ input.last # NoAddr => a <= input.last}
          legal == \A a \in {input.first, input.last} : a = NoAddr \/ ContainsIP(input.net, a)
          got == NextFreeIPInRange(input.net, input.first, input.last, input.used)
      IN IF legal /\ pool # {} THEN got \in pool /\ \A a \in pool : got <= a ELSE got = NoAddr

\* The site subnets are exactly the networks that reach out of the tunnel network,
\* the peer's own address is one host of it and found wherever there is one, and
\* every entry ends up in one place, however the peer's conf lists them; a peer
\* with a site subnet that is not handled yet is always brought up, unnamed ones as
\* an anomaly.
RoutesSplit ==
    input.kind = "routes" =>
      LET c == ClassifyPeerRoutes(input.net, input.entries)
          real == {n \in DOMAIN input.entries : ~FullTunnel(input.entries[n])}
          within == {n \in real : \A x \in AddrSpace :
                       ContainsIP(input.entries[n], x) => ContainsIP(input.net, x)}
          hosts == {n \in within : \E a \in AddrSpace :
                      {x \in AddrSpace : ContainsIP(input.entries[n], x)} = {a}}
      IN /\ c.sites = real \ within
         /\ c.own \subseteq hosts /\ (\A m, n \in c.own : m = n) /\ (hosts # {} => c.own # {})
         /\ c.own \cup c.anomalies = within /\ c.own \cap c.anomalies = {}
         /\ c.sites # {} /\ ~input.handled
              => SuggestedAction(c, input.named, FALSE) = IF input.named THEN "create_node" ELSE "anomaly"

=============================================================================
