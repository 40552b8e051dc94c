SPECIFICATION FairSpec
CONSTANTS
  Flights <- MCFlights
  Requests = {"site", "dead", "malformed", "eof"}
  Reads <- MCReads
  Routers = {"r1"}
  MaxStarts = 2
  MaxRules = 2
  Foreign <- MCForeign
  Faults = {"nft", "nofile", "undeleted"}
INVARIANTS
  SameHandshake
  NameSevered
  RunningTruthful
PROPERTY StopFrees
CHECK_DEADLOCK FALSE
