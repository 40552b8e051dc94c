SPECIFICATION Spec
CONSTANTS
  Flights <- MCFlights
  Requests = {"site", "dead", "malformed", "eof"}
  Reads <- MCReads
  Routers = {"r1", "r2"}
  MaxStarts = 3
  Foreign <- MCForeign
  MaxRules = 2
  Faults = {"undeleted", "inslice", "inside"}
\* Each is refuted on its own: keep one of them.  Beside it, the fault it needs.
INVARIANT StartLasts          \* none
INVARIANT FlagExact           \* none
INVARIANT NoLoop              \* inslice
INVARIANT LaunchedFiltered    \* inside
INVARIANT RedirectServed      \* none
INVARIANT OneRule             \* none, with two routers; undeleted, with one
INVARIANT Unchanged           \* none
CHECK_DEADLOCK FALSE
