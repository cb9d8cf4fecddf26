SPECIFICATION Spec
INVARIANTS SecretKept OffStaysOff
CONSTANTS
  Keys = {k1, k2}
  Clients = {c1, c2}
  Handlers = {h1, h2}
  Worker = worker
  Kinds = {"create", "adopt", "delete", "disable", "enable", "rotate"}
  Asked = {"none"}
  MaxFaults = 1
  MaxAborts = 0
  Absent = Absent
  Unnamed = Unnamed
SYMMETRY Symmetry
