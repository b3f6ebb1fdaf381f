\* A worker may crash.
SPECIFICATION Spec
CONSTANTS
  MaxSlice = 2
  Enqueuer = {e1}
  Worker = {w1, w2}
  Scheduler = scheduler
  MayOvertake = FALSE
  MayOverlap = FALSE
  MayLapse = FALSE
  Crashing = {w1}
  MaxRequests = 1
  NoSlice = none
  Nobody = nobody
INVARIANTS
  BatchAgrees
CHECK_DEADLOCK FALSE
