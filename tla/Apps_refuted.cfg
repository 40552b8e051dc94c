SPECIFICATION Spec
CONSTANTS
  MaxProcs = 3
  Socks = {s1}
  Rounds = 2
  Faults = {"orphan", "reaper", "setuid", "regain", "handover", "overlap", "ssfail", "silent", "slow"}
\* Each is refuted on its own: keep one of them.  Beside it, the faults any one
\* of which is enough; Apps_move.cfg has none of them but setuid and overlap.
INVARIANT WholeTreeMoved      \* reaper; or setuid with regain
INVARIANT OldConnectionsReset \* reaper, handover, ssfail; or setuid with regain
INVARIANT AllMoved            \* none; with Rounds = 5, orphan
INVARIANT PruneSpares         \* overlap
INVARIANT NothingOutside      \* orphan, silent
INVARIANT CaptureSettled      \* slow, orphan, reaper
PROPERTY OwnProcessesOnly    \* setuid
CHECK_DEADLOCK FALSE
