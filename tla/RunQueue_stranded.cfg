\* Two tuning runs refuse each other.
SPECIFICATION Spec
CONSTANTS
  Scheduler = scheduler
  Api = {api}
  Worker = {w1, w2}
  Job = {j, k}
  Scheduled = {j}
  Tuning = {j, k}
  Manual = {}
  RunNow = {}
  Raising = {}
  MaxRuns = 2
  MaxSlot = 1
  Postgres = TRUE
  MayLapse = FALSE
  LeasesLapse = FALSE
  Deletes = FALSE
  Crashing = {}
  NoRun = none
  NoJob = nojob
  NoSlot = noslot
  Nobody = nobody
SYMMETRY Workers
INVARIANTS
  NoneStranded
