SPECIFICATION MCSpec
CONSTANTS
  Width = 4
  NoAddr = NoAddr
  Node = {n1, n2, n3}
  PeerKey = {k1, k2, k3}
  Pool <- MCPool
  HostIP = 2
  TypedIP = {1, 12}
  NoNode = NoNode
  NodeProc = {r1, r2}
  MaxNodeStep = 3
  MaxNodeUpset = 1
  Users = {u1}
  Keys = {x1, x2}
  Handlers = {r1, r2}
  MaxFaults = 1
  NoUser = NoUser
  NoKey = NoKey
INVARIANTS NoOrphanPeer  RestrictionInForce RevokedOffUndisturbed GrantedWorks
SYMMETRY NodeSymmetry
CHECK_DEADLOCK FALSE
