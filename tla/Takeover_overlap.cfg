SPECIFICATION Spec
CONSTANTS
  Procs = {p1, p2, p3}
  NoPid = NoPid
  Bodies = {"dhcp"}
  Commands = {"run"}
  Faults = {"crash", "overlap"}
SYMMETRY Symmetry
INVARIANTS
  TakeoversSerialised
  OwnerHoldsPort
