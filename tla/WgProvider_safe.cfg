SPECIFICATION FairSpec
INVARIANT TypeOK
PROPERTIES NoLostPeer CallsReturn
CONSTANTS
  Keys = {k1, k2}
  Addrs = {a1}
  Specs = {{a1}}
  Callers = {c1, c2}
  MaxInst = 1
  Absent = Absent
  NoConf = NoConf
  None = None
