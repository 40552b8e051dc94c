SPECIFICATION Spec
CONSTANTS
  Procs = {p1, p2}
  NoPid = NoPid
  Bodies = {"dhcp", "static"}
  Commands = {"run"}
  Faults = {"nm"}
INVARIANT LastWriteKept
