\* One worker and the API process may crash; leases run out; the other worker
\* goes on.
SPECIFICATION FairSpec
CONSTANTS
  Scheduler = scheduler
  Api = {api}
  Worker = {w1, w2}
  Job = {j, k, m}
  Scheduled = {j}
  Tuning = {}
  Manual = {m}
  RunNow = {k}
  Raising = {j, k}
  MaxRuns = 2
  MaxSlot = 1
  Postgres = TRUE
  MayLapse = FALSE
  LeasesLapse = TRUE
  Deletes = FALSE
  Crashing = {w1, api}
  NoRun = none
  NoJob = nojob
  NoSlot = noslot
  Nobody = nobody
PROPERTIES
  AbandonedIsRecovered
  QueuedIsTaken
