----------------------------- MODULE ReplayBatch -----------------------------
(***************************************************************************)
(* One historical replay batch: its row, its slices (one per trading day)  *)
(* and the runs that execute them.                                         *)
(*                                                                         *)
(*   services/historical_replay.py      create, enqueue, complete, fail    *)
(*   repositories/historical_replay.py  the rows and the batch's status    *)
(*   services/job_execution.py          the body of a replay run           *)
(*   repositories/runs.py               recovery of replay slices          *)
(*                                                                         *)
(* The status of a batch is a summary of its slices that is kept in a row  *)
(* of its own: whoever changes a slice counts the slices afterwards and    *)
(* writes what it counted.  Every commit is an action, so that other       *)
(* writers may come between the count and the write.                       *)
(*                                                                         *)
(* (job, scheduled_for) is unique in "runs" and a slice is enqueued with   *)
(* its as_of, so a slice has at most one run and the run is named by it.   *)
(* RunQueue says how runs are queued; here a worker claims any of them.    *)
(***************************************************************************)
EXTENDS Integers

CONSTANTS
  MaxSlice,     \* days in the batch's window
  Enqueuer,     \* processes that create and enqueue the batch
  Worker,       \* executors of runs; a restarted one has a new id
  Scheduler,    \* the process that recovers stale runs
  MayOvertake,  \* TRUE: a worker may claim a run not yet attached
  MayOverlap,   \* TRUE: refreshes of the batch may overlap or be cut short
  MayLapse,     \* TRUE: a live worker's heartbeat may be late; the synchronous
                \* replay of plan_generation_tuning writes one at dispatch only
  Crashing,     \* processes that may crash
  MaxRequests,  \* bound: requests to enqueue the batch
  NoSlice, Nobody

Slice == 1..MaxSlice
Proc  == Enqueuer \cup Worker \cup {Scheduler}

ASSUME BatchAssumption ==
  /\ MaxSlice \in Nat \ {0} /\ MaxRequests \in Nat
  /\ {MayOvertake, MayOverlap, MayLapse} \subseteq BOOLEAN
  /\ NoSlice \notin Slice

ASSUME ActorAssumption ==
  /\ Enqueuer \cap Worker = {}
  /\ Scheduler \notin Enqueuer \cup Worker
  /\ Nobody \notin Worker
  /\ Crashing \subseteq Proc

VARIABLES
  batch,     \* the batch's status; "absent" before it is created
  slice,     \* each slice's status
  attached,  \* slices whose run_id is set
  run,       \* each slice's run: "new" before it is inserted
  owner,     \* the worker_id of the run
  described, \* runs whose artifact names the batch and the slice
  fresh,     \* workers whose heartbeat is within the staleness window
  requests,  \* requests made so far
  pc,        \* where each process is
  cur,       \* the slice it has in hand
  todo,      \* the slices it has listed
  sum,       \* the batch status it has counted
  lost,      \* workers whose body failed
  hit,       \* the slices the recovery is about to fail
  outdated,  \* history: processes whose count is older than a change of a slice
  wrong      \* history: the row was left, or written, other than by a true count

rows  == <<batch, slice, attached, run, owner, described>>
procs == <<pc, cur, todo, sum, lost, hit>>
hist  == <<outdated, wrong>>
vars  == <<rows, fresh, requests, procs, hist>>

Ended == {"completed", "degraded", "failed"}
SliceStatuses == {"absent", "planned", "queued", "running"} \cup Ended
BatchEnded == {"completed", "completed_with_warnings", "failed"}
BatchStatuses == {"absent", "planned", "queued", "running"} \cup BatchEnded
RunStatuses == {"new", "queued", "running", "completed", "failed"}

EnqueuerPCs ==
  {"idle", "slicing", "marking", "insert", "describe", "attach", "refresh", "store"}
WorkerPCs == {"idle", "dead", "claimed", "body", "refresh", "store", "final"}
SchedulerPCs == {"reading", "counting", "failing"}

\* Processes that have a slice in hand: requests between the commits that
\* enqueue it and workers that execute its run.
Enqueues(e) == e \in Enqueuer /\ pc[e] \in {"describe", "attach"}
Executes(w) == w \in Worker /\ pc[w] \notin {"idle", "dead"}

\* The rows and the processes are of the shape the code gives them: slices
\* and batches have the statuses of their kind, and a process that writes a
\* slice has one.
TypeOK ==
  /\ batch     \in BatchStatuses
  /\ slice     \in [Slice -> SliceStatuses]
  /\ attached  \subseteq Slice
  /\ run       \in [Slice -> RunStatuses]
  /\ owner     \in [Slice -> Worker \cup {Nobody}]
  /\ described \subseteq Slice
  /\ fresh     \subseteq Worker
  /\ requests  \in Nat
  /\ pc   \in [Proc -> EnqueuerPCs \cup WorkerPCs \cup SchedulerPCs]
  /\ cur  \in [Proc -> Slice \cup {NoSlice}]
  /\ todo \in [Proc -> SUBSET Slice]
  /\ sum  \in [Proc -> BatchStatuses]
  /\ lost \subseteq Worker
  /\ hit \subseteq Slice
  /\ \A e \in Enqueuer : pc[e] \in EnqueuerPCs
  /\ \A w \in Worker : pc[w] \in WorkerPCs
  /\ pc[Scheduler] \in SchedulerPCs
  /\ \A p \in Proc : Enqueues(p) \/ Executes(p) => cur[p] \in Slice

Init ==
  /\ batch = "absent"
  /\ slice = [s \in Slice |-> "absent"]
  /\ attached = {}
  /\ run = [s \in Slice |-> "new"]
  /\ owner = [s \in Slice |-> Nobody]
  /\ described = {}
  /\ fresh = Worker
  /\ requests = 0
  /\ pc   = [p \in Proc |-> IF p = Scheduler THEN "reading" ELSE "idle"]
  /\ cur  = [p \in Proc |-> NoSlice]
  /\ todo = [p \in Proc |-> {}]
  /\ sum  = [p \in Proc |-> "absent"]
  /\ lost = {}
  /\ hit = {}
  /\ outdated = {}
  /\ wrong = FALSE

Go(p, label) == pc' = [pc EXCEPT ![p] = label]

\* The end of a request, of a run or of a recovery.
Rest(p, label) ==
  /\ Go(p, label)
  /\ cur'  = [cur  EXCEPT ![p] = NoSlice]
  /\ todo' = [todo EXCEPT ![p] = {}]
  /\ sum'  = [sum  EXCEPT ![p] = "absent"]
  /\ lost' = lost \ {p}
  /\ hit'  = IF p = Scheduler THEN {} ELSE hit

\* Process p changes a slice: what the others have counted is out of date.
Outdates(p) == outdated' = outdated \cup {q \in Proc \ {p} : pc[q] = "store"}

\* Processes that changed the batch or a slice, or are about to, and have the
\* refresh of the batch still to come.
WillRefresh(p) ==
  \/ p \in Enqueuer /\ pc[p] \in {"insert", "describe", "attach", "refresh", "store"}
  \/ p \in Worker /\ pc[p] \in {"body", "refresh", "store"}

-----------------------------------------------------------------------------
(* The batch's status as a summary of its slices.                          *)

\* Mutant of Verdict: the batch has ended when one slice has.
HastyVerdict(old, status) ==
  LET found == {status[s] : s \in Slice}
  IN  IF found \cap Ended = {} THEN old
      ELSE IF found = {"failed"} THEN "failed" ELSE "completed"

\* refresh_batch_status; old is what a batch with slices both planned and
\* ended keeps.
Verdict(old, status) ==
  LET found == {status[s] : s \in Slice}
  IN  IF found \subseteq {"absent", "planned"} THEN "planned"
      ELSE IF "running" \in found THEN "running"
      ELSE IF "queued"  \in found THEN "queued"
      ELSE IF "planned" \in found THEN old
      ELSE IF found = {"failed"}  THEN "failed"
      ELSE IF found = {"completed"} THEN "completed"
      ELSE "completed_with_warnings"

\* The counting queries of refresh_batch_status.
Count(p) ==
  /\ pc[p] = "refresh"
  /\ MayOverlap \/ \A q \in Proc : pc[q] \notin {"store", "failing"}
  /\ sum' = [sum EXCEPT ![p] = Verdict(batch, slice)]
  /\ Go(p, "store")
  /\ UNCHANGED <<rows, fresh, requests, cur, todo, lost, hit>>
  /\ outdated' = outdated \ {p} /\ UNCHANGED wrong

\* update_batch_status with what was counted.
Store(p) ==
  /\ pc[p] = "store"
  /\ batch' = sum[p]
  /\ IF p \in Worker
     THEN Go(p, "final") /\ UNCHANGED <<cur, todo, sum, lost, hit>>
     ELSE Rest(p, "idle")
  /\ UNCHANGED <<slice, attached, run, owner, described, fresh, requests>>
  /\ outdated' = outdated \ {p} /\ wrong' = (p \in outdated)

-----------------------------------------------------------------------------
(* Creating and enqueueing the batch.                                      *)

\* create_batch, first commit.  The name is unique: a batch is created once.
Create(e) ==
  /\ pc[e] = "idle"
  /\ batch = "absent"
  /\ batch' = "planned"
  /\ Go(e, "slicing")
  /\ UNCHANGED <<slice, attached, run, owner, described, fresh, requests, cur,
                 todo, sum, lost, hit>>
  /\ UNCHANGED hist

\* create_daily_slices: all of them in one commit.
CreateSlices(e) ==
  /\ pc[e] = "slicing"
  /\ slice' = [s \in Slice |-> "planned"]
  /\ Go(e, "refresh")
  /\ UNCHANGED <<batch, attached, run, owner, described, fresh, requests, cur,
                 todo, sum, lost, hit>>
  /\ Outdates(e) /\ UNCHANGED wrong

\* enqueue_batch up to the first commit: lists the slices once.  A batch
\* with no slices is refused.
Request(e) ==
  /\ pc[e] = "idle"
  /\ requests < MaxRequests
  /\ \A s \in Slice : slice[s] # "absent"
  /\ requests' = requests + 1
  /\ todo' = [todo EXCEPT ![e] = Slice \ attached]
  /\ Go(e, "marking")
  /\ UNCHANGED <<rows, fresh, cur, sum, lost, hit>>
  /\ UNCHANGED hist

\* What follows the slices done: the next one that was listed without a
\* run, or the refresh.
NextInsert(e) == IF todo[e] = {} THEN "refresh" ELSE "insert"

MarkQueued(e) ==
  /\ pc[e] = "marking"
  /\ batch' = "queued"
  /\ Go(e, NextInsert(e))
  /\ UNCHANGED <<slice, attached, run, owner, described, fresh, requests, cur,
                 todo, sum, lost, hit>>
  /\ UNCHANGED hist

\* Mutant of InsertRun: a second run for a slice restarts its run.
InsertAgain(e) ==
  /\ pc[e] = "insert"
  /\ \E s \in todo[e] :
       /\ \A t \in todo[e] : s <= t
       /\ run' = [run EXCEPT ![s] = "queued"]
       /\ cur' = [cur EXCEPT ![e] = s]
       /\ todo' = [todo EXCEPT ![e] = @ \ {s}]
       /\ Go(e, "describe")
       /\ UNCHANGED <<sum, lost, hit>>
  /\ UNCHANGED <<batch, slice, attached, owner, described, fresh, requests>>
  /\ UNCHANGED hist

\* runs.enqueue: the first slice listed.  When it has a run that was
\* inserted and never attached, or another request inserted one meanwhile,
\* the unique constraint ends the request, without a refresh.
InsertRun(e) ==
  /\ pc[e] = "insert"
  /\ \E s \in todo[e] :
       /\ \A t \in todo[e] : s <= t
       /\ \/ /\ run[s] = "new"
             /\ run' = [run EXCEPT ![s] = "queued"]
             /\ cur' = [cur EXCEPT ![e] = s]
             /\ todo' = [todo EXCEPT ![e] = @ \ {s}]
             /\ Go(e, "describe")
             /\ UNCHANGED <<sum, lost, hit, wrong>>
          \/ /\ run[s] # "new"
             /\ Rest(e, "idle")
             /\ wrong' = TRUE
             /\ UNCHANGED run
  /\ UNCHANGED <<batch, slice, attached, owner, described, fresh, requests>>
  /\ UNCHANGED outdated

\* runs.set_artifact: the ids without which a worker refuses the run.
Describe(e) ==
  /\ pc[e] = "describe"
  /\ described' = described \cup {cur[e]}
  /\ Go(e, "attach")
  /\ UNCHANGED <<batch, slice, attached, run, owner, fresh, requests, cur,
                 todo, sum, lost, hit>>
  /\ UNCHANGED hist

\* Mutant of Attach: names the next slice of the list, too.
AttachAhead(e) ==
  /\ pc[e] = "attach"
  /\ attached' = attached \cup {cur[e]} \cup todo[e]
  /\ slice' = [s \in Slice |-> IF s \in {cur[e]} \cup todo[e] THEN "queued"
                               ELSE slice[s]]
  /\ cur' = [cur EXCEPT ![e] = NoSlice]
  /\ Go(e, NextInsert(e))
  /\ UNCHANGED <<batch, run, owner, described, fresh, requests, todo, sum, lost, hit>>
  /\ Outdates(e) /\ UNCHANGED wrong

\* attach_slice_run: writes "queued" whatever the slice has become.
Attach(e) ==
  /\ pc[e] = "attach"
  /\ attached' = attached \cup {cur[e]}
  /\ slice' = [slice EXCEPT ![cur[e]] = "queued"]
  /\ cur' = [cur EXCEPT ![e] = NoSlice]
  /\ Go(e, NextInsert(e))
  /\ UNCHANGED <<batch, run, owner, described, fresh, requests, todo, sum, lost, hit>>
  /\ Outdates(e) /\ UNCHANGED wrong

-----------------------------------------------------------------------------
(* Executing the run of a slice.                                           *)

\* Claim and dispatch, which writes a heartbeat.
Claim(w, s) ==
  /\ pc[w] = "idle"
  /\ run[s] = "queued"
  /\ MayOvertake \/ \A e \in Enqueuer : cur[e] # s
  /\ run' = [run EXCEPT ![s] = "running"]
  /\ owner' = [owner EXCEPT ![s] = w]
  /\ fresh' = fresh \cup {w}
  /\ cur' = [cur EXCEPT ![w] = s]
  /\ Go(w, "claimed")
  /\ UNCHANGED <<batch, slice, attached, described, requests, todo, sum, lost, hit>>
  /\ UNCHANGED hist

\* mark_slice_running.  A run without ids raises a plain RuntimeError: the
\* worker goes on and the row stays "running".
MarkRunning(w) ==
  /\ pc[w] = "claimed"
  /\ \/ /\ cur[w] \in described
        /\ slice' = [slice EXCEPT ![cur[w]] = "running"]
        /\ Go(w, "body")
        /\ Outdates(w)
        /\ UNCHANGED <<cur, todo, sum, lost, hit>>
     \/ /\ cur[w] \notin described
        /\ Rest(w, "idle")
        /\ UNCHANGED <<slice, outdated>>
  /\ UNCHANGED <<batch, attached, run, owner, described, fresh, requests>>
  /\ UNCHANGED wrong

\* Mutant of EndSlice: a failed body leaves the slice as it is.
EndSliceIfDone(w, verdict) ==
  /\ pc[w] = "body"
  /\ slice' = [slice EXCEPT ![cur[w]] = IF verdict = "failed" THEN @ ELSE verdict]
  /\ lost' = IF verdict = "failed" THEN lost \cup {w} ELSE lost
  /\ Go(w, "refresh")
  /\ UNCHANGED <<batch, attached, run, owner, described, fresh, requests, cur,
                 todo, sum, hit>>
  /\ Outdates(w) /\ UNCHANGED wrong

\* Mutant of EndSlice: fail_slice does not refresh the batch.
EndSliceUnrefreshed(w, verdict) ==
  /\ pc[w] = "body"
  /\ slice' = [slice EXCEPT ![cur[w]] = verdict]
  /\ lost' = IF verdict = "failed" THEN lost \cup {w} ELSE lost
  /\ Go(w, IF verdict = "failed" THEN "final" ELSE "refresh")
  /\ UNCHANGED <<batch, attached, run, owner, described, fresh, requests, cur,
                 todo, sum, hit>>
  /\ Outdates(w) /\ UNCHANGED wrong

\* The end of the body: complete_slice or fail_slice, first commit; the
\* refresh follows.
EndSlice(w, verdict) ==
  /\ pc[w] = "body"
  /\ slice' = [slice EXCEPT ![cur[w]] = verdict]
  /\ lost' = IF verdict = "failed" THEN lost \cup {w} ELSE lost
  /\ Go(w, "refresh")
  /\ UNCHANGED <<batch, attached, run, owner, described, fresh, requests, cur,
                 todo, sum, hit>>
  /\ Outdates(w) /\ UNCHANGED wrong

\* _finalize_success, or execute_claimed_run after a failure.
Finalize(w) ==
  /\ pc[w] = "final"
  /\ run' = [run EXCEPT ![cur[w]] = IF w \in lost THEN "failed" ELSE "completed"]
  /\ Rest(w, "idle")
  /\ UNCHANGED <<batch, slice, attached, owner, described, fresh, requests>>
  /\ UNCHANGED hist

-----------------------------------------------------------------------------
(* Recovery of stale runs, as far as it changes slices and batches.        *)

\* Mutant of Stale: every running run.
StaleWhateverHeartbeat == {s \in Slice : run[s] = "running"}

\* Running runs whose worker's heartbeat is stale.
Stale == {s \in Slice : run[s] = "running" /\ owner[s] \notin fresh}

RecoverRead ==
  LET p == Scheduler
  IN  /\ pc[p] = "reading"
      /\ Stale # {}
      /\ todo' = [todo EXCEPT ![p] = Stale]
      /\ Go(p, "counting")
      /\ UNCHANGED <<rows, fresh, requests, cur, sum, lost, hit>>
      /\ UNCHANGED hist

\* The slices of the stale runs that are running, by their run_id.
Hit == {s \in todo[Scheduler] \cap attached : slice[s] = "running"}

Fail(S, status) == [s \in Slice |-> IF s \in S THEN "failed" ELSE status[s]]

\* Reads the slices and counts them.  What it has changed is not yet in the
\* database when it counts, because the sessions of db.py do not flush before a
\* query.
RecoverCount ==
  LET p == Scheduler
  IN  /\ pc[p] = "counting"
      /\ MayOverlap \/ \A q \in Proc : pc[q] # "store"
      /\ hit' = Hit
      /\ sum' = [sum EXCEPT ![p] = Verdict("planned", slice)]
      /\ Go(p, "failing")
      /\ UNCHANGED <<rows, fresh, requests, cur, todo, lost>>
      /\ UNCHANGED hist

\* One commit: runs, slices, and the batch, whose status is what was counted
\* before the slices failed.  With no slice to fail it leaves the batch alone.
RecoverCommit ==
  LET p == Scheduler
  IN  /\ pc[p] = "failing"
      /\ run' = Fail(todo[p], run)
      /\ slice' = Fail(hit, slice)
      /\ batch' = IF hit = {} THEN batch ELSE sum[p]
      /\ Rest(p, "reading")
      /\ UNCHANGED <<attached, owner, described, fresh, requests>>
      /\ IF hit = {} THEN UNCHANGED hist ELSE Outdates(p) /\ wrong' = TRUE

-----------------------------------------------------------------------------
(* Crashes and time.                                                       *)

\* A worker comes back under a new id, a request is not repeated by itself,
\* and the scheduler begins its passes anew.
Crash(p) ==
  /\ p \in Crashing
  /\ pc[p] \notin {"idle", "dead", "reading"}
  /\ MayOverlap \/ pc[p] \notin {"refresh", "store", "final"}
  /\ Rest(p, IF p \in Worker THEN "dead"
             ELSE IF p = Scheduler THEN "reading" ELSE "idle")
  /\ UNCHANGED <<rows, fresh, requests>>
  /\ outdated' = outdated \ {p} /\ wrong' = (wrong \/ WillRefresh(p))

Heartbeat(w) ==
  /\ w \notin fresh
  /\ pc[w] # "dead"
  /\ fresh' = fresh \cup {w}
  /\ UNCHANGED <<rows, requests, procs>>
  /\ UNCHANGED hist

Lapse(w) ==
  /\ w \in fresh
  /\ pc[w] = "dead" \/ MayLapse
  /\ fresh' = fresh \ {w}
  /\ UNCHANGED <<rows, requests, procs>>
  /\ UNCHANGED hist

-----------------------------------------------------------------------------

\* What an enqueuer does once it has its request.
EnqueuerStep(e) ==
  \/ CreateSlices(e) \/ MarkQueued(e) \/ InsertRun(e) \/ Describe(e)
  \/ Attach(e) \/ Count(e) \/ Store(e)

WorkerStep(w) ==
  \/ \E s \in Slice : Claim(w, s)
  \/ MarkRunning(w)
  \/ \E verdict \in Ended : EndSlice(w, verdict)
  \/ Count(w) \/ Store(w) \/ Finalize(w)

SchedulerStep == RecoverRead \/ RecoverCount \/ RecoverCommit

Next ==
  \/ \E e \in Enqueuer : Create(e) \/ Request(e) \/ EnqueuerStep(e)
  \/ \E w \in Worker : WorkerStep(w) \/ Heartbeat(w) \/ Lapse(w)
  \/ SchedulerStep
  \/ \E p \in Proc : Crash(p)

Spec == Init /\ [][Next]_vars

\* Requests run to their end, workers take runs and end them, the scheduler
\* passes once a minute, and a dead worker's heartbeat grows old.
Fairness ==
  /\ \A e \in Enqueuer : WF_vars(EnqueuerStep(e))
  /\ \A w \in Worker : WF_vars(WorkerStep(w)) /\ WF_vars(pc[w] = "dead" /\ Lapse(w))
  /\ WF_vars(SchedulerStep)

FairSpec == Spec /\ Fairness

-----------------------------------------------------------------------------
(* Properties.                                                             *)

\* No slice is attached, running or ended before its run is inserted and
\* described, none is running or ended before its run is claimed, and none
\* is failed by a recovery before it ran: whatever the order in which
\* requests, workers, recoveries and crashes cut the four commits that
\* enqueue a slice.
SliceFollowsRun ==
  /\ \A s \in attached : run[s] # "new" /\ s \in described
  /\ \A s \in Slice : /\ slice[s] \in {"running"} \cup Ended =>
                           run[s] \notin {"new", "queued"} /\ s \in described
                      /\ slice[s] = "queued" => s \in attached
  /\ hit \subseteq {s \in attached : run[s] \in {"running", "completed", "failed"}}

\* The batch is never reported as ended while a slice has still to end,
\* even when two requests, late heartbeats, crashes and overlapping counts
\* write its status: as long as no worker takes a run before the slice is
\* attached, an ended slice stays ended.
NoEarlyVerdict == batch \in BatchEnded => \A s \in Slice : slice[s] \in Ended

\* A completed run has completed its slice.  Needs heartbeats in time, too:
\* a recovery may fail the slice under a worker it takes for dead.
CompletedRunEndsSlice ==
  \A s \in Slice : run[s] = "completed" => slice[s] \in {"completed", "degraded"}

\* Nobody is about to change a row of the batch.
Quiet ==
  /\ \A p \in Proc : pc[p] \in {"idle", "dead", "reading"}
  /\ \A s \in Slice : run[s] \notin {"queued", "running"}

\* The batch's status is what its slices add up to.
Agrees == batch \in {"absent", Verdict(batch, slice)}

\* When all is quiet the batch's status is what its slices add up to, whoever
\* failed the last of them (what a test of the recovery asserts; the code's
\* recovery does not keep it).
BatchAgrees == Quiet => Agrees

\* Whatever requests, workers, recoveries and crashes there were, and however
\* their counts overlap, the batch's status is what its slices add up to as soon
\* as nobody has a refresh still to come, unless one of these happened after the
\* last true count was stored: a count was stored that another process's change
\* of a slice had outdated, a recovery failed a slice, or a process died, or was
\* refused a run, between its change and its refresh.  No such loss lasts: the
\* next true count undoes it.
AgreesUnlessUpset ==
  (\A p \in Proc : ~WillRefresh(p)) /\ ~wrong => Agrees

\* A slice whose worker run completed does not stay queued.
CompletedRunLeavesQueue ==
  \A s \in Slice : ~(run[s] = "completed" /\ slice[s] = "queued"
                     /\ \A e \in Enqueuer : cur[e] # s)

\* A batch that was enqueued ends, as long as no worker dies: a slice whose
\* worker died before it entered the slice stays queued.
BatchEnds ==
  batch = "queued" ~> \/ batch \in BatchEnded
                      \/ \E w \in Worker : pc[w] = "dead"

\* A run as the queue's abstract specification sees it.
Lifecycle ==
  INSTANCE RunLifecycle
  WITH Run <- Slice,
       Taker <- Worker \cup {Nobody},
       phase <- [s \in Slice |->
                   CASE run[s] = "new" -> "new"
                     [] run[s] = "queued" -> "queued"
                     [] run[s] = "running" -> "taken"
                     [] OTHER -> "settled"],
       taker <- owner

\* However often a batch is enqueued, and however requests crash between the
\* commits that enqueue a slice, each slice has at most one run, which is
\* executed once.
EachSliceRunsOnce == Lifecycle!Spec
=============================================================================
