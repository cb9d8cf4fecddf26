SPECIFICATION Spec
INVARIANT RevokedOff
CONSTANTS
  Users = {u1}
  Keys = {k1, k2}
  Handlers = {h1}
  MaxFaults = 0
  NoUser = NoUser
  NoKey = NoKey
