SPECIFICATION Spec
CONSTANTS
  Procs = {p1}
  MaxCgroups = 3
  V4Addresses = {"v4"}
  Mtus = {"1280"}
  Importers = {"import", "warp"}
  Texts <- MCTexts
  Kept <- MCAbsent
  IPv6 = TRUE
  Failing = {}
  Faults = {"crash", "overlap"}
\* Either fault is enough.
INVARIANT WgWhole
