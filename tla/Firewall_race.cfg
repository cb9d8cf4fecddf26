SPECIFICATION SerialSpec
PROPERTY ConfirmRaceSafe
CONSTANTS
  Sessions = {s1}
  Svc = svc
  Rulesets = {r1, r2}
  Invalid = {r2}
  Factory = factory
  Cidrs = {c1}
  NoFile = NoFile
