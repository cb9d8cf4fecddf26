SPECIFICATION MCSpec
CONSTANTS
  Sessions = {s1}
  Svc = svc
  Rulesets = {r1, r2}
  Invalid = {r2}
  Factory = factory
  Cidrs = {c1}
  NoFile = NoFile
  User = {u1, u2}
  NoUser = NoUser
  Ticket = {k1, k2}
  Upgrade = {q1, q2, q3}
  MaxPerUser = 1
  MaxTotal = 2
  cell1 = cell1
  cell2 = cell2
  Cell = {cell1, cell2}
  Key = {k1, k2}
  AnyKey = k1
  Value = {v1, v2}
  Unset = Unset
  NColumn = 2
  ColumnOf <- MCColumnOf
INVARIANTS TypeOK DeadMan BootTrusted SlotsCounted
PROPERTIES UnconfirmedReverts SessionEnds RotationAtomic
CHECK_DEADLOCK FALSE
