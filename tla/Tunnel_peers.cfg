SPECIFICATION Spec
CONSTANTS
  Procs = {p1}
  MaxCgroups = 3
  V4Addresses = {"v4"}
  Mtus = {"1280"}
  Importers = {"import"}
  Texts <- MCTexts
  Kept <- MCAbsent
  IPv6 = TRUE
  Failing = {}
  Faults = {}
SYMMETRY Symmetry
INVARIANT EndpointsKept
