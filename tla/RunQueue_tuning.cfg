\* Two tuning jobs, enqueued by the scheduler and an operator.
SPECIFICATION Spec
CONSTANTS
  Scheduler = scheduler
  Api = {api}
  Worker = {w1, w2}
  Job = {j, k}
  Scheduled = {j}
  Tuning = {j, k}
  Manual = {}
  RunNow = {}
  Raising = {}
  MaxRuns = 3
  MaxSlot = 1
  Postgres = TRUE
  MayLapse = FALSE
  LeasesLapse = FALSE
  Deletes = TRUE
  Crashing = {w1, w2}
  NoRun = none
  NoJob = nojob
  NoSlot = noslot
  Nobody = nobody
SYMMETRY Workers
INVARIANTS
  ClaimExclusive
  TakenForGood
  Timely
  TuningSerial
PROPERTIES
  VerdictIsFinal
