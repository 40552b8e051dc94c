SPECIFICATION Spec
CONSTANTS
  Procs = {p1, p2}
  NoPid = NoPid
  Bodies = {"dhcp"}
  Commands = {"run", "stop"}
  Faults = {"overlap"}
INVARIANT InactiveUntouched
