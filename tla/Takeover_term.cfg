SPECIFICATION FairSpec
CONSTANTS
  Procs = {p1, p2}
  NoPid = NoPid
  Bodies = {"dhcp", "static"}
  Commands = {"run", "run_no_takeover", "restore", "stop"}
  Faults = {"nm", "nostatus"}
INVARIANT NMHeldOff
PROPERTY TermRestores
