SPECIFICATION Spec
CONSTANTS
  Procs = {p1, p2}
  MaxCgroups = 1
  V4Addresses = {"v4"}
  Mtus = {"1280"}
  Importers = {"import"}
  Texts <- MCTexts
  Kept <- MCSpoilt
  IPv6 = FALSE
  Failing = {"rule4"}
  Faults = {"overlap", "stepfail"}
SYMMETRY Symmetry
INVARIANTS
  AtRestComplete
  KeyNotLeft
  WgFaithful
