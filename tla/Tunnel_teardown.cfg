SPECIFICATION Spec
CONSTANTS
  Procs = {p1, p2}
  MaxCgroups = 3
  V4Addresses = {"v4"}
  Mtus = {"1280"}
  Importers = {}
  Texts = {}
  Kept <- MCOnePeer
  IPv6 = TRUE
  Failing = {"nft"}
  Faults = {}
SYMMETRY Symmetry
INVARIANT FailsClosed
