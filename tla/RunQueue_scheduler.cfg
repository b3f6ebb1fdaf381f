\* Only the scheduler enqueues; everyone may crash, heartbeats may be late; the body of k
\* may raise outside its try.
\* SQLite ids.
SPECIFICATION Spec
CONSTANTS
  Scheduler = scheduler
  Api = {}
  Worker = {w1, w2}
  Job = {j, k}
  Scheduled = {j, k}
  Tuning = {}
  Manual = {}
  RunNow = {}
  Raising = {k}
  MaxRuns = 3
  MaxSlot = 2
  Postgres = FALSE
  MayLapse = TRUE
  LeasesLapse = FALSE
  Deletes = FALSE
  Crashing = {w1, w2, scheduler}
  NoRun = none
  NoJob = nojob
  NoSlot = noslot
  Nobody = nobody
SYMMETRY Workers
INVARIANTS
  OneActivePerJob
  OnlyRaisersStrand
PROPERTIES
  ImplementsLifecycle
