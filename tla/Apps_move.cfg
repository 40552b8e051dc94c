SPECIFICATION Spec
CONSTANTS
  MaxProcs = 3
  Socks = {s1}
  Rounds = 2
  Faults = {"setuid", "overlap"}
INVARIANTS
  WholeTreeMoved
  OldConnectionsReset
  CaptureSettled
CHECK_DEADLOCK FALSE
