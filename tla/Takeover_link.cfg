SPECIFICATION Spec
CONSTANTS
  Procs = {p1, p2}
  NoPid = NoPid
  Bodies = {"dhcp"}
  Commands = {"run", "restore"}
  Faults = {"crash"}
INVARIANT LinkKept
