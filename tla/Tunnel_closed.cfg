SPECIFICATION Spec
CONSTANTS
  Procs = {p1}
  MaxCgroups = 3
  V4Addresses = {"v4"}
  Mtus = {"1280"}
  Importers = {}
  Texts = {}
  Kept <- MCOnePeer
  IPv6 = TRUE
  Failing = {"rule4", "rule6", "flush4", "flush6", "link"}
  Faults = {"stepfail", "writefail", "crash", "linkloss", "logout"}
INVARIANT FailsClosed
PROPERTY RollbackComplete
