------------------------------ MODULE RunQueue ------------------------------
(***************************************************************************)
(* The run queue: rows of the "runs" table, the processes that insert,     *)
(* claim, execute, finalize, recover and delete them.                      *)
(*                                                                         *)
(*   repositories/runs.py      the table and its guarded updates           *)
(*   services/job_execution.py enqueue_job, execute_run, execute_claimed_run *)
(*   services/runs.py          the scheduler's pass                        *)
(*   workers/tasks.py          the worker loop and its heartbeats          *)
(*   api/routes/*.py           manual enqueue, run-now, delete             *)
(*                                                                         *)
(* One action is one database transaction of one process, because between  *)
(* two commits any other process may run.  Clocks are abstracted to the    *)
(* two facts the code compares them for: whether a worker's last heartbeat *)
(* is inside the staleness window (fresh) and whether a run's lease is     *)
(* past (lease).  "completed" stands for completed and                     *)
(* completed_with_warnings, which no guard of this code tells apart.       *)
(***************************************************************************)
EXTENDS Integers, FiniteSets

CONSTANTS
  Scheduler,   \* the scheduler process (one: it must not be scaled)
  Api,         \* API processes, each running one handler at a time (the
               \* handlers are async def and await nothing)
  Worker,      \* worker incarnations; a restarted worker has a new id
  Job,         \* configured jobs
  Scheduled,   \* jobs with a schedule
  Tuning,      \* jobs of type plan_generation_tuning
  Manual,      \* system jobs enqueued with no look at the queue
  RunNow,      \* jobs an API handler enqueues and then executes itself
  Raising,     \* jobs whose body may raise outside its own try block
  MaxRuns,     \* bound: rows ever inserted
  MaxSlot,     \* bound: minutes the clock reaches
  Postgres,    \* TRUE: ids come from a sequence, foreign keys are enforced
  MayLapse,    \* TRUE: a live worker's heartbeat may be late
  LeasesLapse, \* TRUE: an execution may outlive its lease
  Deletes,     \* TRUE: operators delete runs
  Crashing,    \* processes that may crash
  NoRun, NoJob, NoSlot, Nobody

ASSUME BoundsAssumption == MaxRuns \in Nat /\ MaxSlot \in Nat \ {0}

ASSUME SwitchAssumption ==
  {Postgres, MayLapse, LeasesLapse, Deletes} \subseteq BOOLEAN

ASSUME JobAssumption ==
  /\ UNION {Scheduled, Tuning, Manual, RunNow, Raising} \subseteq Job
  /\ NoJob \notin Job

Run  == 1..MaxRuns
Slot == 1..MaxSlot
Proc == {Scheduler} \cup Api \cup Worker

ASSUME ProcAssumption ==
  /\ Scheduler \notin Api \cup Worker
  /\ Api \cap Worker = {}
  /\ Nobody \notin Worker
  /\ Crashing \subseteq Proc

ASSUME NoneAssumption == NoRun \notin Run /\ NoSlot \notin Slot

VARIABLES
  status,   \* status column; "absent" where the table holds no such row
  jobOf,    \* job_id column
  slotOf,   \* scheduled_for column
  owner,    \* worker_id column
  lease,    \* lease_expires_at column: none, held (in the future), expired
  logged,   \* other tables hold a foreign key to the run
  created,  \* the last id given to a row
  fresh,    \* workers whose heartbeat is within the staleness window
  now,      \* the current minute
  pc,       \* where each process is
  op,       \* what it is doing: poll, enqueue, runnow, manual, delete, none
  want,     \* the job it is enqueueing
  at,       \* the schedule slot it is enqueueing
  held,     \* the run it picked, claimed or was asked to delete
  snap      \* the stale runs its recovery query returned

rowVars  == <<status, jobOf, slotOf, owner, lease, logged, created>>
procVars == <<pc, op, want, at, held, snap>>
vars     == <<rowVars, fresh, now, procVars>>

Statuses == {"absent", "queued", "running", "completed", "failed"}
PCs == {"off", "dead", "poll", "idle", "pass", "recover", "failing", "check",
        "insert", "claim", "claimed", "body", "delete"}
Ops == {"none", "poll", "enqueue", "runnow", "manual", "delete"}

RowsOK ==
  /\ status  \in [Run -> Statuses]
  /\ jobOf   \in [Run -> Job \cup {NoJob}]
  /\ slotOf  \in [Run -> Slot \cup {NoSlot}]
  /\ owner   \in [Run -> Worker \cup {Nobody}]
  /\ lease   \in [Run -> {"none", "held", "expired"}]
  /\ logged  \in [Run -> BOOLEAN]
  /\ created \in 0..MaxRuns

ProcsOK ==
  /\ fresh \subseteq Worker
  /\ pc   \in [Proc -> PCs]
  /\ op   \in [Proc -> Ops]
  /\ want \in [Proc -> Job \cup {NoJob}]
  /\ at   \in [Proc -> Slot \cup {NoSlot}]
  /\ held \in [Proc -> Run \cup {NoRun}]
  /\ snap \in [Proc -> SUBSET Run]

\* The rows and the processes are of the shape the code gives them; a run-now
\* handler, which has no worker id, leaves none in a row.
TypeOK == RowsOK /\ ProcsOK /\ now \in Slot

Init ==
  /\ status = [r \in Run |-> "absent"]
  /\ jobOf  = [r \in Run |-> NoJob]
  /\ slotOf = [r \in Run |-> NoSlot]
  /\ owner  = [r \in Run |-> Nobody]
  /\ lease  = [r \in Run |-> "none"]
  /\ logged = [r \in Run |-> FALSE]
  /\ created = 0
  /\ fresh = {}
  /\ now = 1
  /\ pc   = [p \in Proc |-> IF p \in Worker THEN "off" ELSE "idle"]
  /\ op   = [p \in Proc |-> "none"]
  /\ want = [p \in Proc |-> NoJob]
  /\ at   = [p \in Proc |-> NoSlot]
  /\ held = [p \in Proc |-> NoRun]
  /\ snap = [p \in Proc |-> {}]

-----------------------------------------------------------------------------
(* Queries over the runs table.                                            *)

Active(r) == status[r] \in {"queued", "running"}

\* Mutant of ActiveForJob: looks at running rows only.
ActiveForJobIfRunning(j) == {r \in Run : status[r] = "running" /\ jobOf[r] = j}

ActiveForJob(j) == {r \in Run : Active(r) /\ jobOf[r] = j}

ActiveTuning(exclude) ==
  {r \in Run \ exclude : Active(r) /\ jobOf[r] \in Tuning}

InSlot(j, s) == {r \in Run : status[r] # "absent" /\ jobOf[r] = j /\ slotOf[r] = s}

\* Mutant of OldestQueued: the oldest row, whatever its status.
OldestRow(r) ==
  /\ status[r] # "absent"
  /\ \A q \in Run : status[q] # "absent" => r <= q

\* The queued row with the smallest created_at; ids grow with created_at.
OldestQueued(r) ==
  /\ status[r] = "queued"
  /\ \A q \in Run : status[q] = "queued" => r <= q

\* Mutants of Stale: every running row; queued rows, too; no rows
\* that have no worker.
StaleWhateverWorker == {r \in Run : status[r] = "running"}

StaleEvenQueued ==
  {r \in Run : Active(r) /\ owner[r] \notin fresh}

StaleByHeartbeatOnly ==
  {r \in Run : /\ status[r] = "running"
               /\ owner[r] # Nobody /\ owner[r] \notin fresh}

\* Running rows whose worker's heartbeat is stale, and running rows of no
\* worker whose lease is past.  (The third query of the code selects rows
\* with no lease; the claim that makes a row running always sets one.)
Stale ==
  {r \in Run : /\ status[r] = "running"
               /\ \/ owner[r] # Nobody /\ owner[r] \notin fresh
                  \/ owner[r] = Nobody /\ lease[r] = "expired"}

\* The id of an inserted row: a Postgres sequence never goes back, a SQLite
\* rowid is one above the largest in the table.
NextId ==
  IF Postgres
  THEN created + 1
  ELSE CHOOSE n \in 1..(MaxRuns + 1) :
         /\ \A r \in Run : status[r] # "absent" => r < n
         /\ n = 1 \/ status[n - 1] # "absent"

Enqueueing ==
  {p \in Proc : /\ op[p] \in {"enqueue", "runnow", "manual"}
                /\ pc[p] \in {"recover", "failing", "check", "insert"}}

\* Keeps the number of rows within MaxRuns.
Room == created + Cardinality(Enqueueing) < MaxRuns

-----------------------------------------------------------------------------
(* What the processes have in common.                                      *)

Go(p, label) == pc' = [pc EXCEPT ![p] = label]

\* The end of a request, of a scheduler pass or of a worker's process_once,
\* which writes a last heartbeat.
Release(p) ==
  /\ pc'   = [pc   EXCEPT ![p] = IF p \in Worker THEN "poll" ELSE "idle"]
  /\ op'   = [op   EXCEPT ![p] = "none"]
  /\ want' = [want EXCEPT ![p] = NoJob]
  /\ at'   = [at   EXCEPT ![p] = NoSlot]
  /\ held' = [held EXCEPT ![p] = NoRun]
  /\ snap' = [snap EXCEPT ![p] = {}]
  /\ fresh' = fresh \cup ({p} \cap Worker)

\* What follows the recovery of stale runs in each caller.
AfterRecovery(p) ==
  CASE op[p] = "poll" -> "pass"
    [] op[p] \in {"enqueue", "runnow"} -> "check"
    [] OTHER -> "delete"

\* recover_stale_running_runs, first half: the queries.
RecoverRead(p) ==
  /\ pc[p] = "recover"
  /\ snap' = [snap EXCEPT ![p] = Stale]
  /\ Go(p, IF Stale = {} THEN AfterRecovery(p) ELSE "failing")
  /\ UNCHANGED <<rowVars, fresh, now, op, want, at, held>>

\* Mutant of RecoverCommit: gives stale runs back to the queue.
RecoverByRequeueing(p) ==
  /\ pc[p] = "failing"
  /\ status' = [r \in Run |-> IF r \in snap[p] THEN "queued" ELSE status[r]]
  /\ snap' = [snap EXCEPT ![p] = {}]
  /\ Go(p, AfterRecovery(p))
  /\ UNCHANGED <<jobOf, slotOf, owner, lease, logged, created, fresh, now,
                 op, want, at, held>>

\* Second half: every row that was read is written "failed", whatever it is
\* now; the lease stays.  A row deleted meanwhile makes the flush update
\* fewer rows than it must, which rolls all of it back and ends the caller.
RecoverCommit(p) ==
  /\ pc[p] = "failing"
  /\ \/ /\ \A r \in snap[p] : status[r] # "absent"
        /\ status' = [r \in Run |-> IF r \in snap[p] THEN "failed" ELSE status[r]]
        /\ snap' = [snap EXCEPT ![p] = {}]
        /\ Go(p, AfterRecovery(p))
        /\ UNCHANGED <<jobOf, slotOf, owner, lease, logged, created, fresh, now,
                       op, want, at, held>>
     \/ /\ \E r \in snap[p] : status[r] = "absent"
        /\ Release(p)
        /\ UNCHANGED <<rowVars, now>>

-----------------------------------------------------------------------------
(* Enqueueing.                                                             *)

\* enqueue_job has returned run r: a run-now handler claims it, the
\* scheduler goes on with its pass, any other caller answers its request.
Returned(p, r) ==
  \/ /\ op[p] = "runnow"
     /\ Go(p, "claim")
     /\ held' = [held EXCEPT ![p] = r]
     /\ UNCHANGED <<fresh, op, want, at, snap>>
  \/ /\ p = Scheduler
     /\ Go(p, "pass")
     /\ op'   = [op EXCEPT ![p] = "poll"]
     /\ want' = [want EXCEPT ![p] = NoJob]
     /\ UNCHANGED <<fresh, at, held, snap>>
  \/ /\ op[p] # "runnow" /\ p # Scheduler
     /\ Release(p)

\* The runs enqueue_job answers with instead of inserting one, in the order
\* it looks for them.
Existing(p) ==
  LET inSlot == IF at[p] = NoSlot THEN {} ELSE InSlot(want[p], at[p])
      tuning == IF want[p] \in Tuning THEN ActiveTuning({}) ELSE {}
  IN  IF inSlot # {} THEN inSlot
      ELSE IF tuning # {} THEN tuning
      ELSE ActiveForJob(want[p])

Check(p) ==
  /\ pc[p] = "check"
  /\ \/ /\ Existing(p) = {}
        /\ Go(p, "insert")
        /\ UNCHANGED <<fresh, op, want, at, held, snap>>
     \/ \E r \in Existing(p) :
          /\ \A q \in Existing(p) : q <= r
          /\ Returned(p, r)
  /\ UNCHANGED <<rowVars, now>>

\* Nothing is locked since Check: another process may have inserted a run
\* of the job.  Only the (job, slot) pair is unique, and its violation ends
\* the caller, for the scheduler its whole pass.
Insert(p) ==
  /\ pc[p] = "insert"
  /\ \/ /\ at[p] # NoSlot /\ InSlot(want[p], at[p]) # {}
        /\ Release(p)
        /\ UNCHANGED rowVars
     \/ /\ at[p] = NoSlot \/ InSlot(want[p], at[p]) = {}
        /\ NextId \in Run
        /\ created' = NextId
        /\ status' = [status EXCEPT ![NextId] = "queued"]
        /\ jobOf'  = [jobOf  EXCEPT ![NextId] = want[p]]
        /\ slotOf' = [slotOf EXCEPT ![NextId] = at[p]]
        /\ Returned(p, NextId)
        /\ UNCHANGED <<owner, lease, logged>>
  /\ UNCHANGED now

-----------------------------------------------------------------------------
(* The scheduler.                                                          *)

\* A pass works on the minute at which it starts.
BeginPass ==
  /\ pc[Scheduler] = "idle"
  /\ Go(Scheduler, "recover")
  /\ op' = [op EXCEPT ![Scheduler] = "poll"]
  /\ at' = [at EXCEPT ![Scheduler] = now]
  /\ UNCHANGED <<rowVars, fresh, now, want, held, snap>>

\* Job j is due this minute and the pass sees no reason to skip it.  (Which
\* jobs are due is left open; a pass may look at a job again, where the code
\* looks once.)
PickDue(j) ==
  /\ pc[Scheduler] = "pass"
  /\ InSlot(j, at[Scheduler]) = {}
  /\ j \in Tuning => ActiveTuning({}) = {}
  /\ ActiveForJob(j) = {}
  /\ Room
  /\ Go(Scheduler, "recover")
  /\ op'   = [op   EXCEPT ![Scheduler] = "enqueue"]
  /\ want' = [want EXCEPT ![Scheduler] = j]
  /\ UNCHANGED <<rowVars, fresh, now, at, held, snap>>

EndPass ==
  /\ pc[Scheduler] = "pass"
  /\ Release(Scheduler)
  /\ UNCHANGED <<rowVars, now>>

-----------------------------------------------------------------------------
(* API requests.                                                           *)

\* POST /jobs/{id}/execute, the run-now handlers, and the manual evaluation
\* of plans, which inserts without looking at the queue.
Request(c, kind, j) ==
  /\ pc[c] = "idle"
  /\ Room
  /\ \/ kind = "enqueue" /\ j \notin Manual \cup RunNow
     \/ kind = "runnow"  /\ j \in RunNow
     \/ kind = "manual"  /\ j \in Manual
  /\ Go(c, IF kind = "manual" THEN "insert" ELSE "recover")
  /\ op'   = [op   EXCEPT ![c] = kind]
  /\ want' = [want EXCEPT ![c] = j]
  /\ UNCHANGED <<rowVars, fresh, now, at, held, snap>>

\* DELETE /runs/{id}.
RequestDelete(c, r) ==
  /\ Deletes
  /\ pc[c] = "idle"
  /\ status[r] # "absent"
  /\ Go(c, "recover")
  /\ op'   = [op   EXCEPT ![c] = "delete"]
  /\ held' = [held EXCEPT ![c] = r]
  /\ UNCHANGED <<rowVars, fresh, now, want, at, snap>>

\* Mutant of Delete: nothing refers to the row.
DeleteReferenced(c, force) ==
  LET r == held[c]
  IN  /\ pc[c] = "delete"
      /\ IF status[r] = "absent" \/ (Active(r) /\ ~force)
         THEN UNCHANGED rowVars
         ELSE /\ status' = [status EXCEPT ![r] = "absent"]
              /\ UNCHANGED <<jobOf, slotOf, owner, lease, logged, created>>
      /\ Release(c)
      /\ UNCHANGED now

\* 404 when the row is gone, 400 when it is active and force is not set, an
\* integrity error when the database enforces the references to it.
Delete(c, force) ==
  LET r == held[c]
      refused == \/ status[r] = "absent"
                 \/ Active(r) /\ ~force
                 \/ Postgres /\ logged[r]
  IN  /\ pc[c] = "delete"
      /\ IF refused
         THEN UNCHANGED rowVars
         ELSE /\ status' = [status EXCEPT ![r] = "absent"]
              /\ jobOf'  = [jobOf  EXCEPT ![r] = NoJob]
              /\ slotOf' = [slotOf EXCEPT ![r] = NoSlot]
              /\ owner'  = [owner  EXCEPT ![r] = Nobody]
              /\ lease'  = [lease  EXCEPT ![r] = "none"]
              /\ logged' = [logged EXCEPT ![r] = FALSE]
              /\ UNCHANGED created
      /\ Release(c)
      /\ UNCHANGED now

-----------------------------------------------------------------------------
(* Workers, and the API handler that executes its own run.                 *)

Start(w) ==
  /\ pc[w] = "off"
  /\ Go(w, "poll")
  /\ fresh' = fresh \cup {w}
  /\ UNCHANGED <<rowVars, now, op, want, at, held, snap>>

\* claim_next_queued_run, the query.
Select(w) ==
  /\ pc[w] = "poll"
  /\ \E r \in Run :
       /\ OldestQueued(r)
       /\ held' = [held EXCEPT ![w] = r]
  /\ Go(w, "claim")
  /\ UNCHANGED <<rowVars, fresh, now, op, want, at, snap>>

\* The worker_id a claim writes: the run-now handlers pass none.
Identity(p) == IF p \in Worker THEN p ELSE Nobody

\* Mutant of Take: no WHERE status = 'queued'.
TakeWhateverStatus(p, r) ==
  /\ status[r] # "absent"
  /\ status' = [status EXCEPT ![r] = "running"]
  /\ owner'  = [owner  EXCEPT ![r] = Identity(p)]
  /\ lease'  = [lease  EXCEPT ![r] = "held"]

\* claim_queued_run: one guarded UPDATE.
Take(p, r) ==
  /\ status[r] = "queued"
  /\ status' = [status EXCEPT ![r] = "running"]
  /\ owner'  = [owner  EXCEPT ![r] = Identity(p)]
  /\ lease'  = [lease  EXCEPT ![r] = "held"]

\* When the UPDATE matched no row a worker queries again and the handler
\* answers that the run is already taken.
Claim(p) ==
  /\ pc[p] = "claim"
  /\ \/ /\ Take(p, held[p])
        /\ Go(p, "claimed")
        /\ UNCHANGED <<fresh, op, want, at, held, snap>>
     \/ /\ status[held[p]] # "queued"
        /\ Release(p)
        /\ UNCHANGED <<status, owner, lease>>
  /\ UNCHANGED <<jobOf, slotOf, logged, created, now>>

\* Mutant of Conflicts: two tuning runs may execute at once.
NoConflicts(r) == {}

\* The other active tuning runs a tuning run refuses to execute beside.
Conflicts(r) == IF jobOf[r] \in Tuning THEN ActiveTuning({r}) ELSE {}

\* execute_run up to the job body.  The refusal of a tuning run is a plain
\* RuntimeError, which execute_claimed_run does not catch: the row stays
\* "running".
Dispatch(p) ==
  LET r == held[p]
  IN  /\ pc[p] = "claimed"
      /\ IF status[r] = "absent"
         THEN Release(p) /\ UNCHANGED logged
         ELSE /\ logged' = [logged EXCEPT ![r] = TRUE]
              /\ IF Conflicts(r) # {}
                 THEN Release(p)
                 ELSE /\ Go(p, "body")
                      /\ fresh' = fresh \cup ({p} \cap Worker)
                      /\ UNCHANGED <<op, want, at, held, snap>>
      /\ UNCHANGED <<status, jobOf, slotOf, owner, lease, created, now>>

\* Mutant of Finish: a failed run keeps its status.
FinishQuietly(p, verdict) ==
  LET r == held[p]
  IN  /\ pc[p] = "body"
      /\ Release(p)
      /\ IF status[r] = "absent" \/ verdict = "failed"
         THEN UNCHANGED <<status, lease>>
         ELSE /\ status' = [status EXCEPT ![r] = verdict]
              /\ lease'  = [lease  EXCEPT ![r] = "none"]
      /\ UNCHANGED <<jobOf, slotOf, owner, logged, created, now>>

\* _finalize_success, or the handler of RunExecutionFailed: update_status
\* does not look at the status it overwrites.
Finish(p, verdict) ==
  LET r == held[p]
  IN  /\ pc[p] = "body"
      /\ Release(p)
      /\ IF status[r] = "absent"
         THEN UNCHANGED <<status, lease>>
         ELSE /\ status' = [status EXCEPT ![r] = verdict]
              /\ lease'  = [lease  EXCEPT ![r] = "none"]
      /\ UNCHANGED <<jobOf, slotOf, owner, logged, created, now>>

\* Any other exception of the body: process_once logs it and goes on.
EscapeBody(p) ==
  /\ pc[p] = "body"
  /\ jobOf[held[p]] \in Raising
  /\ Release(p)
  /\ UNCHANGED <<rowVars, now>>

-----------------------------------------------------------------------------
(* Crashes and time.                                                       *)

\* A worker comes back under a new id, that is as another member of Worker.
Crash(p) ==
  /\ p \in Crashing
  /\ pc[p] \notin {"off", "dead", "idle"}
  /\ pc'   = [pc   EXCEPT ![p] = IF p \in Worker THEN "dead" ELSE "idle"]
  /\ op'   = [op   EXCEPT ![p] = "none"]
  /\ want' = [want EXCEPT ![p] = NoJob]
  /\ at'   = [at   EXCEPT ![p] = NoSlot]
  /\ held' = [held EXCEPT ![p] = NoRun]
  /\ snap' = [snap EXCEPT ![p] = {}]
  /\ UNCHANGED <<rowVars, fresh, now>>

Heartbeat(w) ==
  /\ pc[w] \notin {"off", "dead"}
  /\ w \notin fresh
  /\ fresh' = fresh \cup {w}
  /\ UNCHANGED <<rowVars, now, procVars>>

\* Two heartbeat intervals pass without a heartbeat of w.
Lapse(w) ==
  /\ w \in fresh
  /\ pc[w] = "dead" \/ MayLapse
  /\ fresh' = fresh \ {w}
  /\ UNCHANGED <<rowVars, now, procVars>>

\* The lease of r runs out: nothing ever renews it.
LeaseLapse(r) ==
  /\ LeasesLapse
  /\ status[r] = "running" /\ lease[r] = "held"
  /\ lease' = [lease EXCEPT ![r] = "expired"]
  /\ UNCHANGED <<status, jobOf, slotOf, owner, logged, created, fresh, now,
                 procVars>>

Tick ==
  /\ now < MaxSlot
  /\ now' = now + 1
  /\ UNCHANGED <<rowVars, fresh, procVars>>

-----------------------------------------------------------------------------

SchedulerStep ==
  \/ BeginPass \/ EndPass
  \/ \E j \in Scheduled : PickDue(j)
  \/ RecoverRead(Scheduler) \/ RecoverCommit(Scheduler)
  \/ Check(Scheduler) \/ Insert(Scheduler)

Execute(p) ==
  \/ Claim(p) \/ Dispatch(p) \/ EscapeBody(p)
  \/ \E verdict \in {"completed", "failed"} : Finish(p, verdict)

\* What a handler does once it has its request.
Handle(c) ==
  \/ RecoverRead(c) \/ RecoverCommit(c)
  \/ Check(c) \/ Insert(c)
  \/ \E force \in BOOLEAN : Delete(c, force)
  \/ Execute(c)

ApiStep(c) ==
  \/ \E kind \in Ops, j \in Job : Request(c, kind, j)
  \/ \E r \in Run : RequestDelete(c, r)
  \/ Handle(c)

WorkerStep(w) == Select(w) \/ Execute(w)

Environment ==
  \/ \E w \in Worker : Start(w) \/ Heartbeat(w) \/ Lapse(w)
  \/ \E p \in Proc : Crash(p)
  \/ \E r \in Run : LeaseLapse(r)
  \/ Tick

Next ==
  \/ SchedulerStep
  \/ \E c \in Api : ApiStep(c)
  \/ \E w \in Worker : WorkerStep(w)
  \/ Environment

Spec == Init /\ [][Next]_vars

\* Processes that run keep running (their loops never block on each other),
\* handlers finish, job bodies end, a dead worker's heartbeat grows old and
\* a live one's is renewed, and leases run out where they may.
Fairness ==
  /\ WF_vars(SchedulerStep)
  /\ \A c \in Api : WF_vars(Handle(c))
  /\ \A w \in Worker : /\ WF_vars(WorkerStep(w))
                       /\ WF_vars(Start(w))
                       /\ WF_vars(Heartbeat(w))
                       /\ WF_vars(pc[w] = "dead" /\ Lapse(w))
  /\ \A r \in Run : WF_vars(LeaseLapse(r))

FairSpec == Spec /\ Fairness

-----------------------------------------------------------------------------
(* Properties.                                                             *)

\* Process p executes run r: it has claimed it and has not let go of it.
Holds(p, r) == pc[p] \in {"claimed", "body"} /\ held[p] = r

\* No two processes ever execute the same run, whatever the interleaving of
\* claims, recoveries, late heartbeats, crashes and deletions: the guarded
\* UPDATE of claim_queued_run is the only thing that keeps them apart.
ClaimExclusive ==
  \A p, q \in Proc : \A r \in Run : Holds(p, r) /\ Holds(q, r) => p = q

\* A run being executed is never claimable again, and as long as its row
\* says "running" the row names the process executing it, so that recovery
\* judges a run by the heartbeat of the worker that really has it.
HolderIsRecorded ==
  \A p \in Proc : \A r \in Run :
    Holds(p, r) => /\ status[r] # "queued"
                   /\ status[r] = "running" => owner[r] = Identity(p)

\* No row has an id that was not yet given, and a run that a process
\* executes, or is about to fail as stale, is an inserted one that no claim
\* can take any more.
TakenForGood ==
  /\ \A r \in Run : r > created => status[r] = "absent"
  /\ \A p \in Proc : \A r \in Run :
       Holds(p, r) \/ r \in snap[p] => r <= created /\ status[r] # "queued"

\* The inductive invariant behind ClaimExclusive and ImplementsLifecycle:
\* without TakenForGood an Insert could give a held id to a new row, or a
\* claim could take a held row.
Guarded == TakenForGood /\ HolderIsRecorded /\ ClaimExclusive

\* Rows as runs of RunLifecycle.
Phase(r) ==
  IF r > created THEN "new"
  ELSE CASE status[r] = "absent"  -> "gone"
         [] status[r] = "queued"  -> "queued"
         [] status[r] = "running" -> "taken"
         [] OTHER                 -> "settled"

Lifecycle ==
  INSTANCE RunLifecycle
  WITH Taker <- Worker \cup {Nobody},
       phase <- [r \in Run |-> Phase(r)],
       taker <- owner

\* The table with its guarded updates implements RunLifecycle, through every
\* recovery that runs late, every worker that finishes late and every row
\* deleted under a process that still holds its id.
ImplementsLifecycle == Lifecycle!Spec

\* While heartbeats are in time and leases last, the rows that a recovery is
\* about to fail belong to dead workers, so no verdict can be on its way for
\* them, and the row of a run being executed stays "running" and, from the
\* dispatch on, cannot be deleted.  (What VerdictIsFinal and TuningSerial
\* rest on.)
Timely ==
  /\ \A r \in Run : /\ lease[r] # "expired"
                    /\ owner[r] \in Worker => pc[owner[r]] # "off"
  /\ \A w \in Worker : pc[w] \notin {"off", "dead"} => w \in fresh
  /\ \A p \in Proc : \A r \in snap[p] :
       \/ status[r] = "absent"
       \/ /\ status[r] \in {"running", "failed"}
          /\ owner[r] \in Worker /\ pc[owner[r]] = "dead"
  /\ \A p \in Proc : \A r \in Run : Holds(p, r) =>
       \/ status[r] = "running" /\ owner[r] = Identity(p)
       \/ status[r] = "absent" /\ pc[p] = "claimed"
  /\ \A p \in Proc : /\ pc[p] \in {"claim", "claimed", "body"} => held[p] \in Run
                     /\ pc[p] = "body" => logged[held[p]]

\* A run that has ended keeps its verdict until it is deleted: neither a
\* recovery that read the row before a worker finished, nor a worker that
\* finishes after a recovery, replaces it.  Holds while live workers'
\* heartbeats are in time and no handler outlives its lease.
VerdictIsFinal ==
  [][\A r \in Run : status[r] \in {"completed", "failed"}
                      => status'[r] \in {status[r], "absent"}]_vars

\* A job has at most one queued or running run, however passes of the
\* scheduler are cut short and workers crash.  Holds where one process
\* enqueues: enqueue_job looks and then inserts, with nothing locked.
OneActivePerJob ==
  \A j \in Job \ Manual : Cardinality(ActiveForJob(j)) <= 1

\* At most one tuning body executes at any time, even when the scheduler and
\* operators enqueued several tuning runs at once and several workers
\* claimed them: the check at dispatch is the last one.
TuningSerial ==
  \A p, q \in Proc :
    pc[p] = "body" /\ pc[q] = "body"
    /\ {jobOf[held[p]], jobOf[held[q]]} \subseteq Tuning => p = q

\* Process p executes r, and r's row says so.
Attended(r) == \E p \in Proc : Holds(p, r) /\ owner[r] = Identity(p)

\* Recovery will come to judge r: its worker is dead, so the heartbeat grows
\* old, or it has no worker and a lease, which runs out.
Recoverable(r) ==
  \/ owner[r] \in Worker /\ pc[owner[r]] = "dead"
  \/ owner[r] = Nobody /\ lease[r] # "none"

\* No run is stranded: a "running" row of a live worker is the one that
\* worker is executing, so that a worker that lets go of a run always leaves
\* it completed or failed.  (What the repository's specification says of a
\* failed run; what the code keeps of it is OnlyRaisersStrand.)
NoneStranded ==
  \A r \in Run :
    status[r] = "running" =>
      \/ \E p \in Proc : Holds(p, r)
      \/ owner[r] \in Worker /\ pc[owner[r]] = "dead"

\* A run is left "running" with nobody executing it and no recovery that will
\* ever judge it only by an exception that execute_claimed_run does not catch:
\* of a body outside its try (broker steering), or of a tuning run refused at
\* its dispatch.  Crashes, lost claims, late recoveries, forced deletions and
\* ids given again strand none.
OnlyRaisersStrand ==
  \A r \in Run :
    status[r] = "running" =>
      \/ Attended(r)
      \/ Recoverable(r)
      \/ jobOf[r] \in Raising \cup Tuning

\* A run that its executor abandoned, by crashing or, for a handler, by an
\* exception, does not stay "running" for ever: the scheduler's next passes
\* fail it once the worker's heartbeat is old or the handler's lease is past.
AbandonedIsRecovered ==
  \A r \in Run :
    (/\ status[r] = "running" /\ \A p \in Proc : ~Holds(p, r)
     /\ owner[r] = Nobody \/ pc[owner[r]] = "dead")
      ~> status[r] # "running"

\* Every queued run is claimed or deleted in the end as long as one worker
\* survives: claims that lose the race try again, oldest first.
QueuedIsTaken ==
  \A r \in Run :
    status[r] = "queued" ~> \/ status[r] # "queued"
                            \/ \A w \in Worker : pc[w] = "dead"
=============================================================================
