\* Two requests at once that crash anywhere, overlapping refreshes, an executor
\* whose heartbeat is late.
SPECIFICATION Spec
CONSTANTS
  MaxSlice = 2
  Enqueuer = {e1, e2}
  Worker = {w1}
  Scheduler = scheduler
  MayOvertake = FALSE
  MayOverlap = TRUE
  MayLapse = TRUE
  Crashing = {e1, e2, w1}
  MaxRequests = 2
  NoSlice = none
  Nobody = nobody
SYMMETRY Symmetric
INVARIANTS
  AgreesUnlessUpset
  NoEarlyVerdict
  SliceFollowsRun
PROPERTIES
  EachSliceRunsOnce
CHECK_DEADLOCK FALSE
