SPECIFICATION Spec
PROPERTY NoLostPeer
CONSTANTS
  Keys = {k1, k2}
  Addrs = {a1, a2}
  Specs = {{a1}}
  Callers = {c1, c2}
  MaxInst = 2
  Absent = Absent
  NoConf = NoConf
  None = None
