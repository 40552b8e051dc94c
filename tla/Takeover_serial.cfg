SPECIFICATION Spec
CONSTANTS
  Procs = {p1, p2}
  NoPid = NoPid
  Bodies = {"dhcp", "static"}
  Commands = {"run", "run_no_takeover", "restore", "stop"}
  Faults = {"crash", "rmfail", "nostatus", "pidreuse"}
INVARIANTS
  TypeOK
  Undoable
  BackupGenuine
  StartsFromSystem
PROPERTY SwitchSpec
