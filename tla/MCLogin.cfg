SPECIFICATION MCSpec
CONSTANTS
  LoginProc = {r1, r2}
  IP = {addr}
  Username = {name}
  NoName = NoName
  FailThreshold = 2
  CountWindow = 2
  BanBase = 2
  EscalationFactor = 2
  EscalationReset = 1
  MaxBan = 4
  MaxLevel = 1
  MaxUpset = 1
  GuardChoices <- MCGuardChoices
  alice = alice
  bob = bob
  ext = ext
  Account = {alice, bob, ext}
  Source <- MCSource
  Emergency = bob
  NoAccount = NoAccount
  Token = {"t1", "t2"}
  Group = {g}
  AcctProc = {r1, r2}
  MaxAcctStep = 4
  TlsProc = {r1, r2}
  Loop = loop
  Validity = 2
  RenewBefore = 1
  MaxTlsSave = 2
  MaxTlsFault = 1
  MaxTlsTime = 4
INVARIANTS GuessBound AdminKept NoOrphanSession ServedValid TlsSettled
SYMMETRY LoginSymmetry
CHECK_DEADLOCK FALSE
