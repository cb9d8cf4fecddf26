SPECIFICATION CertSpec
CONSTANTS
  CN = {c1}
  CertProc = {q1}
  NoProc = NoProc
  MaxCA = 2
  MaxCert = 1
  MaxCertFault = 0
  CertCalls = {"add", "remove", "ensure", "import"}
INVARIANTS RevokedCannotReconnect
CHECK_DEADLOCK FALSE
