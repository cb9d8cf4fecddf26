SPECIFICATION LiveSpec
INVARIANT SettingsKeptUndisturbed
PROPERTY DueGoesOff
CONSTANTS
  Keys = {k1, k2}
  Clients = {c1}
  Handlers = {h1}
  Worker = worker
  Kinds = {"create", "adopt", "delete", "disable", "enable", "rotate", "update"}
  Asked = {"none", "future"}
  MaxFaults = 0
  MaxAborts = 1
  Absent = Absent
  Unnamed = Unnamed
