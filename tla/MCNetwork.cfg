SPECIFICATION MCSpec
CONSTANTS
  AddrInputs <- MCInputs
  Width = 3
  NoAddr = NoAddr
  wide = wide
  narrow = narrow
  Cidr = {wide, narrow}
  NetOf <- MCNetOf
  TunnelCidr <- MCTunnel
  SubProc = {r1, r2}
  MaxSubStep = 2
  MaxSubUpset = 1
  Keys = {k1, k2}
  Addrs = {a1, a2}
  Specs = {{a1}, {a1, a2}}
  Callers = {c1}
  MaxInst = 2
  Absent = Absent
  NoConf = NoConf
  None = None
INVARIANTS NextFreeExact RoutesSplit NatAgrees MeshApplied SubnetsDisjoint AgreeUnlessDoubt
PROPERTY OkAgrees
SYMMETRY NetSymmetry
CHECK_DEADLOCK FALSE
