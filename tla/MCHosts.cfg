SPECIFICATION MCSpec
CONSTANTS
  CN = {c1}
  CertProc = {q1, q2}
  NoProc = NoProc
  MaxCA = 2
  MaxCert = 2
  MaxCertFault = 1
  CertCalls = {"add", "csr", "adopt", "update", "remove", "config", "profile", "ensure", "import", "importCRL"}
  Host = {"default"}
  DefaultHost = "default"
  Instance = {"wg0", "xray"}
  Seed = {"wg0", "xray"}
  Single = {"xray"}
  SrvProc = {q1, q2}
  MaxVer = 3
  MaxSrvFault = 1
  TTL = 2
  MaxRead = 1
  MaxClock = 5
  MaxChange = 2
  Strategy = {"reality", "shadow"}
  SingleClient = {"shadow"}
  WithSecrets = {"reality"}
  ByPassword = {"shadow"}
  XName = {"default", "phone"}
  DefaultName = "default"
  XProc = {q1, q2}
  MaxMade = 2
  MaxXFault = 1
INVARIANTS RemovedRefused ConnsCurrent RegistryTracked Settled ShownAfterInvalidate ServedRecent XraySettled
PROPERTIES CAKept
SYMMETRY HostSymmetry
CHECK_DEADLOCK FALSE
