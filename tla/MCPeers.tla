------------------------------- MODULE MCPeers -------------------------------
EXTENDS PeerLifecycle, TLC

\* Keys, clients and handlers are interchangeable.
Symmetry == Permutations(Keys) \cup Permutations(Clients) \cup Permutations(Handlers)
=============================================================================
