\* A worker may take a run before it is attached.
SPECIFICATION Spec
CONSTANTS
  MaxSlice = 2
  Enqueuer = {e1}
  Worker = {w1, w2}
  Scheduler = scheduler
  MayOvertake = TRUE
  MayOverlap = FALSE
  MayLapse = FALSE
  Crashing = {}
  MaxRequests = 1
  NoSlice = none
  Nobody = nobody
INVARIANTS
  CompletedRunLeavesQueue
CHECK_DEADLOCK FALSE
