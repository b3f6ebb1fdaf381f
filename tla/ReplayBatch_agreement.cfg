\* Refreshes do not overlap; workers and the scheduler may crash.
SPECIFICATION FairSpec
CONSTANTS
  MaxSlice = 2
  Enqueuer = {e1}
  Worker = {w1, w2}
  Scheduler = scheduler
  MayOvertake = FALSE
  MayOverlap = FALSE
  MayLapse = FALSE
  Crashing = {w1, w2, scheduler}
  MaxRequests = 2
  NoSlice = none
  Nobody = nobody
INVARIANTS
  CompletedRunEndsSlice
PROPERTIES
  BatchEnds
CHECK_DEADLOCK FALSE
