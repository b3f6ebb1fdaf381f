-------------------------- MODULE ReplayBatchProofs --------------------------
(***************************************************************************)
(* Theorems about ReplayBatch, for any number of slices, requests and      *)
(* workers.                                                                *)
(***************************************************************************)
EXTENDS ReplayBatch, TLAPS

-----------------------------------------------------------------------------
(* Type correctness.                                                       *)

LEMMA VerdictType ==
  ASSUME NEW old \in BatchStatuses, NEW status
  PROVE  Verdict(old, status) \in BatchStatuses
BY DEF Verdict, BatchStatuses, BatchEnded

LEMMA TypeInit == Init => TypeOK
BY ActorAssumption
   DEF Init, TypeOK, BatchStatuses, SliceStatuses, RunStatuses, EnqueuerPCs,
       WorkerPCs, SchedulerPCs, Enqueues, Executes, Proc

LEMMA RefreshType ==
  ASSUME TypeOK, NEW p \in Enqueuer \cup Worker, Count(p) \/ Store(p)
  PROVE  TypeOK'
<1> p \in Proc /\ p # Scheduler
  BY ActorAssumption DEF Proc
<1> USE DEF TypeOK, Go, EnqueuerPCs, WorkerPCs, SchedulerPCs, Enqueues, Executes
<1>1. CASE Count(p)
  <2>1. Verdict(batch, slice) \in BatchStatuses
    BY VerdictType
  <2> QED
    BY <1>1, <2>1, ActorAssumption DEF Count, rows
<1>2. CASE Store(p)
  <2>1. batch' \in BatchStatuses
        /\ UNCHANGED <<slice, attached, run, owner, described, fresh, requests, hit>>
    BY <1>2 DEF Store, Rest
  <2>2. CASE p \in Worker
    <3>1. pc' = [pc EXCEPT ![p] = "final"] /\ UNCHANGED <<cur, todo, sum, lost>>
      BY <1>2, <2>2 DEF Store
    <3>2. pc[p] = "store"
      BY <1>2 DEF Store
    <3> QED
      BY <2>1, <2>2, <3>1, <3>2, ActorAssumption
  <2>3. CASE p \notin Worker
    <3>1. Rest(p, "idle")
      BY <1>2, <2>3 DEF Store
    <3> QED
      BY <2>1, <2>3, <3>1, ActorAssumption DEF Rest, BatchStatuses
  <2> QED
    BY <2>2, <2>3
<1> QED
  BY <1>1, <1>2

LEMMA InsertType ==
  ASSUME TypeOK, NEW e \in Enqueuer, InsertRun(e)
  PROVE  TypeOK'
<1> e \in Proc /\ e \notin Worker /\ e # Scheduler
  BY ActorAssumption DEF Proc
<1> DEFINE Inserts(s) == /\ run' = [run EXCEPT ![s] = "queued"]
                         /\ cur' = [cur EXCEPT ![e] = s]
                         /\ todo' = [todo EXCEPT ![e] = @ \ {s}]
                         /\ pc' = [pc EXCEPT ![e] = "describe"]
                         /\ UNCHANGED <<sum, lost, hit>>
<1>1. PICK s \in todo[e] : Inserts(s) \/ (Rest(e, "idle") /\ UNCHANGED run)
  BY DEF InsertRun, Go
<1>2. UNCHANGED <<batch, slice, attached, owner, described, fresh, requests>>
  BY DEF InsertRun
<1>3. s \in Slice
  BY <1>1 DEF TypeOK
<1>4. CASE Rest(e, "idle") /\ UNCHANGED run
  BY <1>2, <1>4
     DEF Rest, Go, TypeOK, BatchStatuses, EnqueuerPCs, Enqueues, Executes
<1>5. CASE Inserts(s)
  BY <1>2, <1>3, <1>5
     DEF TypeOK, RunStatuses, EnqueuerPCs, Enqueues, Executes
<1> QED
  BY <1>1, <1>4, <1>5

LEMMA EnqueuerType ==
  ASSUME TypeOK, NEW e \in Enqueuer, Create(e) \/ Request(e) \/ EnqueuerStep(e)
  PROVE  TypeOK'
<1> e \in Proc /\ e \notin Worker /\ e # Scheduler
  BY ActorAssumption DEF Proc
<1> USE DEF TypeOK, Go, EnqueuerPCs, Enqueues, Executes
<1>1. CASE Create(e)
  BY <1>1 DEF Create, BatchStatuses
<1>2. CASE Request(e)
  BY <1>2 DEF Request, rows
<1>3. CASE CreateSlices(e)
  BY <1>3 DEF CreateSlices, SliceStatuses
<1>4. CASE MarkQueued(e)
  BY <1>4 DEF MarkQueued, NextInsert, BatchStatuses
<1>5. CASE InsertRun(e)
  BY <1>5, InsertType
<1>6. CASE Describe(e)
  BY <1>6 DEF Describe
<1>7. CASE Attach(e)
  BY <1>7 DEF Attach, NextInsert, SliceStatuses
<1>8. CASE Count(e) \/ Store(e)
  BY <1>8, RefreshType
<1> QED
  BY <1>1, <1>2, <1>3, <1>4, <1>5, <1>6, <1>7, <1>8 DEF EnqueuerStep

LEMMA WorkerType ==
  ASSUME TypeOK, NEW w \in Worker, WorkerStep(w) \/ Heartbeat(w) \/ Lapse(w)
  PROVE  TypeOK'
<1> w \in Proc /\ w \notin Enqueuer /\ w # Scheduler
  BY ActorAssumption DEF Proc
<1> USE DEF TypeOK, Go, WorkerPCs, Enqueues, Executes
<1>1. ASSUME NEW s \in Slice, Claim(w, s)
      PROVE  TypeOK'
  BY <1>1 DEF Claim, RunStatuses
<1>2. CASE MarkRunning(w)
  <2>1. cur[w] \in Slice
    BY <1>2 DEF MarkRunning
  <2>2. CASE pc' = [pc EXCEPT ![w] = "body"]
             /\ slice' = [slice EXCEPT ![cur[w]] = "running"]
             /\ UNCHANGED <<cur, todo, sum, lost, hit>>
    BY <1>2, <2>1, <2>2 DEF MarkRunning, SliceStatuses
  <2>3. CASE Rest(w, "idle") /\ UNCHANGED slice
    BY <1>2, <2>3 DEF MarkRunning, Rest, BatchStatuses
  <2> QED
    BY <1>2, <2>2, <2>3 DEF MarkRunning
<1>3. ASSUME NEW verdict \in Ended, EndSlice(w, verdict)
      PROVE  TypeOK'
  BY <1>3 DEF EndSlice, SliceStatuses
<1>4. CASE Count(w) \/ Store(w)
  BY <1>4, RefreshType
<1>5. CASE Finalize(w)
  BY <1>5 DEF Finalize, Rest, RunStatuses, BatchStatuses
<1>6. CASE Heartbeat(w) \/ Lapse(w)
  BY <1>6 DEF Heartbeat, Lapse, rows, procs
<1> QED
  BY <1>1, <1>2, <1>3, <1>4, <1>5, <1>6 DEF WorkerStep

LEMMA SchedulerType ==
  ASSUME TypeOK, SchedulerStep
  PROVE  TypeOK'
<1> Scheduler \in Proc /\ Scheduler \notin Enqueuer \cup Worker
  BY ActorAssumption DEF Proc
<1> USE DEF TypeOK, Go, SchedulerPCs, Enqueues, Executes
<1>1. CASE RecoverRead
  BY <1>1 DEF RecoverRead, Stale, rows
<1>2. CASE RecoverCount
  <2>1. sum'[Scheduler] \in BatchStatuses
    BY <1>2, VerdictType DEF RecoverCount, BatchStatuses
  <2>2. Hit \subseteq Slice
    BY DEF Hit
  <2> QED
    BY <1>2, <2>1, <2>2 DEF RecoverCount, rows
<1>3. CASE RecoverCommit
  <2>1. batch' \in BatchStatuses
    BY <1>3 DEF RecoverCommit
  <2>2. slice' \in [Slice -> SliceStatuses] /\ run' \in [Slice -> RunStatuses]
    BY <1>3 DEF RecoverCommit, Fail, SliceStatuses, Ended, RunStatuses
  <2> QED
    BY <1>3, <2>1, <2>2 DEF RecoverCommit, Rest, BatchStatuses
<1> QED
  BY <1>1, <1>2, <1>3 DEF SchedulerStep

LEMMA CrashType ==
  ASSUME TypeOK, NEW p \in Proc, Crash(p)
  PROVE  TypeOK'
BY ActorAssumption
   DEF Crash, Rest, Go, rows, TypeOK, EnqueuerPCs, WorkerPCs, SchedulerPCs,
       Enqueues, Executes, BatchStatuses, Proc

LEMMA TypeStep == TypeOK /\ [Next]_vars => TypeOK'
<1> SUFFICES ASSUME TypeOK, [Next]_vars
             PROVE  TypeOK'
  OBVIOUS
<1>1. CASE UNCHANGED vars
  BY <1>1 DEF vars, rows, procs, TypeOK, Enqueues, Executes
<1> QED
  BY <1>1, EnqueuerType, WorkerType, SchedulerType, CrashType DEF Next

\* Rows and processes keep their shape whatever requests, workers, the
\* scheduler and crashes do, and in whatever order.
THEOREM ReplayTypeCorrect == Spec => []TypeOK
BY TypeInit, TypeStep, PTL DEF Spec

-----------------------------------------------------------------------------
(* The order of a slice's commits.                                         *)

\* Before its slices exist a batch has nothing else, and one request is to
\* create them, if it did not crash; afterwards all of them exist.
SlicesCreated ==
  \/ /\ batch \in {"absent", "planned"}
     /\ \A s \in Slice : slice[s] = "absent" /\ run[s] = "new"
     /\ \A e \in Enqueuer : pc[e] \in {"idle", "slicing"}
     /\ \A e \in Enqueuer : pc[e] = "slicing" => batch = "planned"
     /\ \A e, f \in Enqueuer : pc[e] = "slicing" /\ pc[f] = "slicing" => e = f
     /\ \A w \in Worker : pc[w] \in {"idle", "dead"}
     /\ pc[Scheduler] = "reading"
  \/ /\ batch # "absent"
     /\ \A s \in Slice : slice[s] # "absent"
     /\ \A e \in Enqueuer : pc[e] # "slicing"
     /\ \A p \in Enqueuer \cup Worker : pc[p] = "store" => sum[p] # "absent"
     /\ pc[Scheduler] = "failing" => sum[Scheduler] # "absent"

\* A slice in hand has its run, described before it is attached or entered,
\* and a run that is executed or recovered is queued no more.
InHand ==
  /\ \A e \in Enqueuer : /\ Enqueues(e) => run[cur[e]] # "new"
                         /\ pc[e] = "attach" => cur[e] \in described
  /\ \A w \in Worker :
       Executes(w) => /\ run[cur[w]] \notin {"new", "queued"}
                      /\ pc[w] # "claimed" => cur[w] \in described
  /\ \A s \in todo[Scheduler] : run[s] \notin {"new", "queued"}

Ordered == TypeOK /\ SlicesCreated /\ InHand /\ SliceFollowsRun

LEMMA OrderedInit == Init => Ordered
<1> SUFFICES ASSUME Init
             PROVE  Ordered
  OBVIOUS
<1>1. TypeOK
  BY TypeInit
<1>2. SlicesCreated
  BY ActorAssumption DEF Init, SlicesCreated, Proc
<1>3. InHand
  BY ActorAssumption DEF Init, InHand, Enqueues, Executes, Proc
<1>4. SliceFollowsRun
  BY DEF Init, SliceFollowsRun, Ended
<1> QED
  BY <1>1, <1>2, <1>3, <1>4 DEF Ordered

LEMMA VerdictPresent ==
  ASSUME NEW old, NEW status, old # "absent"
  PROVE  Verdict(old, status) # "absent"
BY DEF Verdict

LEMMA CreatedStep ==
  ASSUME Ordered, TypeOK', Next
  PROVE  SlicesCreated'
<1> USE DEF Ordered, SlicesCreated, Go
<1> Slice # {}
  BY BatchAssumption DEF Slice
<1>1. ASSUME NEW e \in Enqueuer, Create(e) \/ Request(e) \/ EnqueuerStep(e)
      PROVE  SlicesCreated'
  <2>1. CASE Create(e)
    BY <1>1, <2>1, ActorAssumption DEF Create, TypeOK, Proc
  <2>2. CASE Request(e)
    BY <1>1, <2>2, ActorAssumption DEF Request, rows, TypeOK, Proc
  <2>3. CASE CreateSlices(e)
    BY <1>1, <2>3, ActorAssumption DEF CreateSlices, TypeOK, Proc
  <2>4. CASE MarkQueued(e)
    BY <1>1, <2>4, ActorAssumption DEF MarkQueued, NextInsert, TypeOK, Proc
  <2>5. CASE InsertRun(e)
    BY <1>1, <2>5, ActorAssumption DEF InsertRun, Rest, TypeOK, Proc
  <2>6. CASE Describe(e)
    BY <1>1, <2>6, ActorAssumption DEF Describe, TypeOK, Proc
  <2>7. CASE Attach(e)
    BY <1>1, <2>7, ActorAssumption DEF Attach, NextInsert, TypeOK, Proc
  <2>8. CASE Count(e)
    BY <1>1, <2>8, ActorAssumption, VerdictPresent DEF Count, rows, TypeOK, Proc
  <2>9. CASE Store(e)
    BY <1>1, <2>9, ActorAssumption DEF Store, Rest, TypeOK, Proc
  <2> QED
    BY <1>1, <2>1, <2>2, <2>3, <2>4, <2>5, <2>6, <2>7, <2>8, <2>9 DEF
       EnqueuerStep
<1>2. ASSUME NEW w \in Worker, WorkerStep(w) \/ Heartbeat(w) \/ Lapse(w)
      PROVE  SlicesCreated'
  <2>1. CASE \E s \in Slice : Claim(w, s)
    BY <1>2, <2>1, ActorAssumption DEF Claim, TypeOK, Proc
  <2>2. CASE MarkRunning(w)
    BY <1>2, <2>2, ActorAssumption DEF MarkRunning, Rest, TypeOK, Proc
  <2>3. CASE \E verdict \in Ended : EndSlice(w, verdict)
    BY <1>2, <2>3, ActorAssumption DEF EndSlice, Ended, TypeOK, Proc
  <2>4. CASE Count(w)
    BY <1>2, <2>4, ActorAssumption, VerdictPresent DEF Count, rows, TypeOK, Proc
  <2>5. CASE Store(w)
    BY <1>2, <2>5, ActorAssumption DEF Store, TypeOK, Proc
  <2>6. CASE Finalize(w)
    BY <1>2, <2>6, ActorAssumption DEF Finalize, Rest, TypeOK, Proc
  <2>7. CASE Heartbeat(w)
    BY <1>2, <2>7, ActorAssumption DEF Heartbeat, rows, procs, TypeOK, Proc
  <2>8. CASE Lapse(w)
    BY <1>2, <2>8, ActorAssumption DEF Lapse, rows, procs, TypeOK, Proc
  <2> QED
    BY <1>2, <2>1, <2>2, <2>3, <2>4, <2>5, <2>6, <2>7, <2>8 DEF WorkerStep
<1>3. CASE SchedulerStep
  <2>1. CASE RecoverRead
    BY <1>3, <2>1, ActorAssumption DEF RecoverRead, Stale, rows, TypeOK, Proc
  <2>2. CASE RecoverCount
    BY <1>3, <2>2, ActorAssumption, VerdictPresent DEF RecoverCount, Hit, rows, TypeOK, Proc
  <2>3. CASE RecoverCommit
    BY <1>3, <2>3, ActorAssumption DEF RecoverCommit, Fail, Rest, TypeOK, Proc
  <2> QED
    BY <1>3, <2>1, <2>2, <2>3 DEF SchedulerStep
<1>4. ASSUME NEW p \in Proc, Crash(p)
      PROVE  SlicesCreated'
  BY <1>4, ActorAssumption DEF Crash, Rest, rows, TypeOK, Proc
<1> QED
  BY <1>1, <1>2, <1>3, <1>4 DEF Next

LEMMA InHandStep ==
  ASSUME Ordered, TypeOK', Next
  PROVE  InHand'
<1> USE DEF Ordered, SlicesCreated, InHand, Enqueues, Executes, Go
<1>1. ASSUME NEW e \in Enqueuer, Create(e) \/ Request(e) \/ EnqueuerStep(e)
      PROVE  InHand'
  <2>1. CASE Create(e)
    BY <1>1, <2>1, ActorAssumption DEF Create, TypeOK, Proc
  <2>2. CASE Request(e)
    BY <1>1, <2>2, ActorAssumption DEF Request, rows, TypeOK, Proc
  <2>3. CASE CreateSlices(e)
    BY <1>1, <2>3, ActorAssumption DEF CreateSlices, TypeOK, Proc
  <2>4. CASE MarkQueued(e)
    BY <1>1, <2>4, ActorAssumption DEF MarkQueued, NextInsert, TypeOK, Proc
  <2>5. CASE InsertRun(e)
    BY <1>1, <2>5, ActorAssumption DEF InsertRun, Rest, TypeOK, Proc
  <2>6. CASE Describe(e)
    BY <1>1, <2>6, ActorAssumption DEF Describe, TypeOK, Proc
  <2>7. CASE Attach(e)
    BY <1>1, <2>7, ActorAssumption DEF Attach, NextInsert, TypeOK, Proc
  <2>8. CASE Count(e)
    BY <1>1, <2>8, ActorAssumption DEF Count, rows, TypeOK, Proc
  <2>9. CASE Store(e)
    BY <1>1, <2>9, ActorAssumption DEF Store, Rest, TypeOK, Proc
  <2> QED
    BY <1>1, <2>1, <2>2, <2>3, <2>4, <2>5, <2>6, <2>7, <2>8, <2>9 DEF
       EnqueuerStep
<1>2. ASSUME NEW w \in Worker, WorkerStep(w) \/ Heartbeat(w) \/ Lapse(w)
      PROVE  InHand'
  <2>1. CASE \E s \in Slice : Claim(w, s)
    BY <1>2, <2>1, ActorAssumption DEF Claim, TypeOK, Proc
  <2>2. CASE MarkRunning(w)
    BY <1>2, <2>2, ActorAssumption DEF MarkRunning, Rest, TypeOK, Proc
  <2>3. CASE \E verdict \in Ended : EndSlice(w, verdict)
    BY <1>2, <2>3, ActorAssumption DEF EndSlice, TypeOK, Proc
  <2>4. CASE Count(w)
    BY <1>2, <2>4, ActorAssumption DEF Count, rows, TypeOK, Proc
  <2>5. CASE Store(w)
    BY <1>2, <2>5, ActorAssumption DEF Store, TypeOK, Proc
  <2>6. CASE Finalize(w)
    BY <1>2, <2>6, ActorAssumption DEF Finalize, Rest, TypeOK, Proc
  <2>7. CASE Heartbeat(w)
    BY <1>2, <2>7, ActorAssumption DEF Heartbeat, rows, procs, TypeOK, Proc
  <2>8. CASE Lapse(w)
    BY <1>2, <2>8, ActorAssumption DEF Lapse, rows, procs, TypeOK, Proc
  <2> QED
    BY <1>2, <2>1, <2>2, <2>3, <2>4, <2>5, <2>6, <2>7, <2>8 DEF WorkerStep
<1>3. CASE SchedulerStep
  <2>1. CASE RecoverRead
    BY <1>3, <2>1, ActorAssumption DEF RecoverRead, Stale, rows, TypeOK, Proc
  <2>2. CASE RecoverCount
    BY <1>3, <2>2, ActorAssumption, VerdictPresent DEF RecoverCount, Hit, rows, TypeOK, Proc
  <2>3. CASE RecoverCommit
    BY <1>3, <2>3, ActorAssumption DEF RecoverCommit, Fail, Rest, TypeOK, Proc
  <2> QED
    BY <1>3, <2>1, <2>2, <2>3 DEF SchedulerStep
<1>4. ASSUME NEW p \in Proc, Crash(p)
      PROVE  InHand'
  BY <1>4, ActorAssumption DEF Crash, Rest, rows, TypeOK, Proc
<1> QED
  BY <1>1, <1>2, <1>3, <1>4 DEF Next

LEMMA FollowsStep ==
  ASSUME Ordered, TypeOK', Next
  PROVE  SliceFollowsRun'
<1> USE DEF Ordered, SlicesCreated, InHand, SliceFollowsRun, Enqueues, Executes, Go, Ended
<1>1. ASSUME NEW e \in Enqueuer, Create(e) \/ Request(e) \/ EnqueuerStep(e)
      PROVE  SliceFollowsRun'
  <2>1. CASE Create(e)
    BY <1>1, <2>1, ActorAssumption DEF Create, TypeOK, Proc
  <2>2. CASE Request(e)
    BY <1>1, <2>2, ActorAssumption DEF Request, rows, TypeOK, Proc
  <2>3. CASE CreateSlices(e)
    BY <1>1, <2>3, ActorAssumption DEF CreateSlices, TypeOK, Proc
  <2>4. CASE MarkQueued(e)
    BY <1>1, <2>4, ActorAssumption DEF MarkQueued, NextInsert, TypeOK, Proc
  <2>5. CASE InsertRun(e)
    BY <1>1, <2>5, ActorAssumption DEF InsertRun, Rest, TypeOK, Proc
  <2>6. CASE Describe(e)
    BY <1>1, <2>6, ActorAssumption DEF Describe, TypeOK, Proc
  <2>7. CASE Attach(e)
    BY <1>1, <2>7, ActorAssumption DEF Attach, NextInsert, TypeOK, Proc
  <2>8. CASE Count(e)
    BY <1>1, <2>8, ActorAssumption DEF Count, rows, TypeOK, Proc
  <2>9. CASE Store(e)
    BY <1>1, <2>9, ActorAssumption DEF Store, Rest, TypeOK, Proc
  <2> QED
    BY <1>1, <2>1, <2>2, <2>3, <2>4, <2>5, <2>6, <2>7, <2>8, <2>9 DEF
       EnqueuerStep
<1>2. ASSUME NEW w \in Worker, WorkerStep(w) \/ Heartbeat(w) \/ Lapse(w)
      PROVE  SliceFollowsRun'
  <2>1. CASE \E s \in Slice : Claim(w, s)
    BY <1>2, <2>1, ActorAssumption DEF Claim, TypeOK, Proc
  <2>2. CASE MarkRunning(w)
    BY <1>2, <2>2, ActorAssumption DEF MarkRunning, Rest, TypeOK, Proc
  <2>3. CASE \E verdict \in Ended : EndSlice(w, verdict)
    BY <1>2, <2>3, ActorAssumption DEF EndSlice, TypeOK, Proc
  <2>4. CASE Count(w)
    BY <1>2, <2>4, ActorAssumption DEF Count, rows, TypeOK, Proc
  <2>5. CASE Store(w)
    BY <1>2, <2>5, ActorAssumption DEF Store, TypeOK, Proc
  <2>6. CASE Finalize(w)
    BY <1>2, <2>6, ActorAssumption DEF Finalize, Rest, TypeOK, Proc
  <2>7. CASE Heartbeat(w)
    BY <1>2, <2>7, ActorAssumption DEF Heartbeat, rows, procs, TypeOK, Proc
  <2>8. CASE Lapse(w)
    BY <1>2, <2>8, ActorAssumption DEF Lapse, rows, procs, TypeOK, Proc
  <2> QED
    BY <1>2, <2>1, <2>2, <2>3, <2>4, <2>5, <2>6, <2>7, <2>8 DEF WorkerStep
<1>3. CASE SchedulerStep
  <2>1. CASE RecoverRead
    BY <1>3, <2>1, ActorAssumption DEF RecoverRead, Stale, rows, TypeOK, Proc
  <2>2. CASE RecoverCount
    BY <1>3, <2>2, ActorAssumption DEF RecoverCount, Hit, rows, RunStatuses, TypeOK, Proc
  <2>3. CASE RecoverCommit
    BY <1>3, <2>3, ActorAssumption DEF RecoverCommit, Fail, Rest, TypeOK, Proc
  <2> QED
    BY <1>3, <2>1, <2>2, <2>3 DEF SchedulerStep
<1>4. ASSUME NEW p \in Proc, Crash(p)
      PROVE  SliceFollowsRun'
  BY <1>4, ActorAssumption DEF Crash, Rest, rows, TypeOK, Proc
<1> QED
  BY <1>1, <1>2, <1>3, <1>4 DEF Next

LEMMA OrderedStep == Ordered /\ [Next]_vars => Ordered'
<1>1. ASSUME Ordered, Next
      PROVE  Ordered'
  <2>1. TypeOK'
    BY <1>1, TypeStep DEF Ordered
  <2> QED
    BY <1>1, <2>1, CreatedStep, InHandStep, FollowsStep DEF Ordered
<1>2. ASSUME Ordered, UNCHANGED vars
      PROVE  Ordered'
  BY <1>2 DEF vars, rows, procs, Ordered, TypeOK, SlicesCreated, InHand,
     SliceFollowsRun, Enqueues, Executes
<1> QED
  BY <1>1, <1>2

\* Whatever the order in which requests, executors, recoveries and crashes
\* cut the commits of enqueue_batch, no slice is attached, running, ended or
\* about to be failed before the commit it depends on: for any number of
\* slices, requests and executors, overtaking and late heartbeats included.
THEOREM SlicesFollowRuns == Spec => []SliceFollowsRun
BY OrderedInit, OrderedStep, PTL DEF Spec, Ordered

-----------------------------------------------------------------------------
(* Refinement of RunLifecycle.                                             *)

Phases == [s \in Slice |->
             CASE run[s] = "new" -> "new"
               [] run[s] = "queued" -> "queued"
               [] run[s] = "running" -> "taken"
               [] OTHER -> "settled"]

\* What a step does to the runs.
RunsSame == UNCHANGED <<run, owner>>

RunQueued == \E s \in Slice : /\ run[s] = "new"
                              /\ run' = [run EXCEPT ![s] = "queued"]
                              /\ owner' = owner

RunTaken == \E s \in Slice, w \in Worker : /\ run[s] = "queued"
                                          /\ run' = [run EXCEPT ![s] = "running"]
                                          /\ owner' = [owner EXCEPT ![s] = w]

RunsSettled ==
  \E S \in SUBSET Slice, verdict \in {"completed", "failed"} :
    /\ \A s \in S : run[s] \notin {"new", "queued"}
    /\ run' = [s \in Slice |-> IF s \in S THEN verdict ELSE run[s]]
    /\ owner' = owner

RunStep == RunsSame \/ RunQueued \/ RunTaken \/ RunsSettled

LEMMA NextRuns == Ordered /\ [Next]_vars => RunStep
<1> SUFFICES ASSUME Ordered, [Next]_vars
             PROVE  RunStep
  OBVIOUS
<1> USE DEF RunStep
<1>1. ASSUME NEW e \in Enqueuer, Create(e) \/ Request(e) \/ EnqueuerStep(e)
      PROVE  RunStep
  <2>1. CASE InsertRun(e)
    <3>1. todo[e] \subseteq Slice
      BY ActorAssumption DEF Ordered, TypeOK, Proc
    <3> QED
      BY <2>1, <3>1 DEF InsertRun, RunsSame, RunQueued
  <2>2. CASE ~InsertRun(e)
    BY <1>1, <2>2 DEF EnqueuerStep, Create, Request, CreateSlices, MarkQueued,
       Describe, Attach, Count, Store, RunsSame, rows
  <2> QED
    BY <2>1, <2>2
<1>2. ASSUME NEW w \in Worker, WorkerStep(w) \/ Heartbeat(w) \/ Lapse(w)
      PROVE  RunStep
  <2>1. CASE \E s \in Slice : Claim(w, s)
    BY <2>1 DEF Claim, RunTaken
  <2>2. CASE Finalize(w)
    <3>1. cur[w] \in Slice /\ run[cur[w]] \notin {"new", "queued"}
      BY <2>2, ActorAssumption
         DEF Ordered, TypeOK, InHand, Executes, Finalize, Proc
    <3> DEFINE verdict == IF w \in lost THEN "failed" ELSE "completed"
    <3>2. run' = [s \in Slice |-> IF s \in {cur[w]} THEN verdict ELSE run[s]]
      BY <2>2 DEF Finalize, Ordered, TypeOK
    <3>3. {cur[w]} \in SUBSET Slice /\ verdict \in {"completed", "failed"}
      BY <3>1
    <3>4. owner' = owner
      BY <2>2 DEF Finalize
    <3>5. RunsSettled
      BY <3>1, <3>2, <3>3, <3>4 DEF RunsSettled
    <3> QED
      BY <3>5
  <2>3. CASE ~(\E s \in Slice : Claim(w, s)) /\ ~Finalize(w)
    BY <1>2, <2>3 DEF WorkerStep, MarkRunning, EndSlice, Count, Store, Heartbeat,
       Lapse, RunsSame, rows
  <2> QED
    BY <2>1, <2>2, <2>3
<1>3. CASE SchedulerStep
  <2>1. CASE RecoverCommit
    <3>1. /\ todo[Scheduler] \in SUBSET Slice
          /\ \A s \in todo[Scheduler] : run[s] \notin {"new", "queued"}
      BY ActorAssumption DEF Ordered, TypeOK, InHand, Proc
    <3> QED
      BY <2>1, <3>1 DEF RecoverCommit, Fail, RunsSettled
  <2>2. CASE ~RecoverCommit
    BY <1>3, <2>2 DEF SchedulerStep, RecoverRead, RecoverCount, RunsSame, rows
  <2> QED
    BY <2>1, <2>2
<1>4. ASSUME NEW p \in Proc, Crash(p)
      PROVE  RunStep
  BY <1>4 DEF Crash, RunsSame, rows
<1>5. CASE UNCHANGED vars
  BY <1>5 DEF vars, rows, RunsSame
<1> QED
  BY <1>1, <1>2, <1>3, <1>4, <1>5 DEF Next

LEMMA LifecycleInit == Init => Lifecycle!Init
BY DEF Init, Lifecycle!Init

LEMMA LifecycleStep ==
  ASSUME Ordered, RunStep
  PROVE  [Lifecycle!Next]_(Lifecycle!vars)
<1> USE DEF Ordered, TypeOK
<1>1. CASE RunsSame
  BY <1>1 DEF RunsSame, Lifecycle!vars
<1>2. CASE RunQueued
  <2>1. PICK s \in Slice : /\ run[s] = "new"
                           /\ run' = [run EXCEPT ![s] = "queued"]
                           /\ owner' = owner
    BY <1>2 DEF RunQueued
  <2>2. Phases' = [Phases EXCEPT ![s] = "queued"]
    BY <2>1 DEF Phases
  <2>3. Lifecycle!Enqueue(s)
    BY <2>1, <2>2 DEF Phases, Lifecycle!Enqueue
  <2> QED
    BY <2>3 DEF Lifecycle!Next
<1>3. CASE RunTaken
  <2>1. PICK s \in Slice, w \in Worker :
          /\ run[s] = "queued"
          /\ run' = [run EXCEPT ![s] = "running"]
          /\ owner' = [owner EXCEPT ![s] = w]
    BY <1>3 DEF RunTaken
  <2>2. Phases' = [Phases EXCEPT ![s] = "taken"]
    BY <2>1 DEF Phases
  <2>3. Lifecycle!Take(s, w)
    BY <2>1, <2>2 DEF Phases, Lifecycle!Take
  <2> QED
    BY <2>3 DEF Lifecycle!Next
<1>4. CASE RunsSettled
  <2>1. PICK S \in SUBSET Slice, verdict \in {"completed", "failed"} :
          /\ \A s \in S : run[s] \notin {"new", "queued"}
          /\ run' = [s \in Slice |-> IF s \in S THEN verdict ELSE run[s]]
          /\ owner' = owner
    BY <1>4 DEF RunsSettled
  <2>2. \A s \in S : Phases[s] \in {"taken", "settled"}
    BY <2>1 DEF Phases
  <2>3. Phases' = [s \in Slice |-> IF s \in S THEN "settled" ELSE Phases[s]]
    BY <2>1 DEF Phases
  <2>4. Lifecycle!Settle(S)
    BY <2>1, <2>2, <2>3 DEF Phases, Lifecycle!Settle
  <2> QED
    BY <2>4 DEF Lifecycle!Next
<1> QED
  BY <1>1, <1>2, <1>3, <1>4 DEF RunStep

\* However often a batch is enqueued, and wherever requests and executors
\* crash, the run of each slice is inserted once, claimed once and settled
\* only after that.
THEOREM SlicesRunOnce == Spec => EachSliceRunsOnce
BY OrderedInit, OrderedStep, NextRuns, LifecycleInit, LifecycleStep, PTL
   DEF Spec, EachSliceRunsOnce, Lifecycle!Spec

-----------------------------------------------------------------------------
(* No verdict before its time.                                             *)

AllEnded == \A s \in Slice : slice[s] \in Ended

\* A request attaches a run that nobody took.
AttachesQueued == \A e \in Enqueuer : Enqueues(e) => run[cur[e]] = "queued"

OneExecutor ==
  \A v, w \in Worker : Executes(v) /\ Executes(w) /\ cur[v] = cur[w] => v = w

\* A slice is entered once, and is not failed before that.
EnteredOnce ==
  \A w \in Worker :
    pc[w] = "claimed" => slice[cur[w]] \in {"planned", "queued"} /\ cur[w] \notin hit

\* A count that says the batch has ended is true until it is written.
TrueCounts ==
  /\ \A p \in Enqueuer \cup Worker :
       pc[p] = "store" /\ sum[p] \in BatchEnded => AllEnded
  /\ pc[Scheduler] = "failing" /\ sum[Scheduler] \in BatchEnded =>
       \A s \in Slice : slice[s] \in Ended \/ s \in hit

Steady ==
  /\ Ordered /\ NoEarlyVerdict
  /\ AttachesQueued /\ OneExecutor /\ EnteredOnce /\ TrueCounts

LEMMA VerdictEnded ==
  ASSUME NEW old, NEW status \in [Slice -> SliceStatuses],
         \A s \in Slice : status[s] # "absent",
         Verdict(old, status) \in BatchEnded, old \notin BatchEnded
  PROVE  \A s \in Slice : status[s] \in Ended
BY DEF Verdict, BatchEnded, SliceStatuses, Ended

LEMMA SteadyInit == Init => Steady
<1> SUFFICES ASSUME Init
             PROVE  Steady
  OBVIOUS
<1>1. Ordered
  BY OrderedInit
<1>2. NoEarlyVerdict /\ AttachesQueued /\ OneExecutor /\ EnteredOnce /\ TrueCounts
  BY ActorAssumption
     DEF Init, NoEarlyVerdict, BatchEnded, AttachesQueued, OneExecutor, EnteredOnce,
         TrueCounts, Enqueues, Executes, Proc
<1> QED
  BY <1>1, <1>2 DEF Steady

LEMMA AttachesStep ==
  ASSUME ~MayOvertake, Steady, TypeOK', Next
  PROVE  AttachesQueued'
<1> USE DEF Steady, Ordered, Go, AttachesQueued, InHand, Enqueues, Executes
<1>1. ASSUME NEW e \in Enqueuer, Create(e) \/ Request(e) \/ EnqueuerStep(e)
      PROVE  AttachesQueued'
  <2>1. CASE Create(e)
        BY <1>1, <2>1, ActorAssumption DEF Create, TypeOK, Proc
  <2>2. CASE Request(e)
        BY <1>1, <2>2, ActorAssumption DEF Request, rows, TypeOK, Proc
  <2>3. CASE CreateSlices(e)
        BY <1>1, <2>3, ActorAssumption DEF CreateSlices, TypeOK, Proc
  <2>4. CASE MarkQueued(e)
        BY <1>1, <2>4, ActorAssumption DEF MarkQueued, NextInsert, TypeOK,
       Proc
  <2>5. CASE InsertRun(e)
        BY <1>1, <2>5, ActorAssumption DEF InsertRun, Rest, TypeOK, Proc
  <2>6. CASE Describe(e)
        BY <1>1, <2>6, ActorAssumption DEF Describe, TypeOK, Proc
  <2>7. CASE Attach(e)
        BY <1>1, <2>7, ActorAssumption DEF Attach, NextInsert, TypeOK, Proc
  <2>8. CASE Count(e)
        BY <1>1, <2>8, ActorAssumption DEF Count, rows, TypeOK, Proc
  <2>9. CASE Store(e)
        BY <1>1, <2>9, ActorAssumption DEF Store, Rest, TypeOK, Proc
  <2> QED
        BY <1>1, <2>1, <2>2, <2>3, <2>4, <2>5, <2>6, <2>7, <2>8, <2>9 DEF
       EnqueuerStep
<1>2. ASSUME NEW w \in Worker, WorkerStep(w) \/ Heartbeat(w) \/ Lapse(w)
      PROVE  AttachesQueued'
  <2>1. CASE \E s \in Slice : Claim(w, s)
        BY <1>2, <2>1, ActorAssumption DEF Claim, TypeOK, Proc
  <2>2. CASE MarkRunning(w)
        BY <1>2, <2>2, ActorAssumption DEF MarkRunning, Rest, TypeOK, Proc
  <2>3. CASE \E verdict \in Ended : EndSlice(w, verdict)
        BY <1>2, <2>3, ActorAssumption DEF EndSlice, TypeOK, Proc
  <2>4. CASE Count(w)
        BY <1>2, <2>4, ActorAssumption DEF Count, rows, TypeOK, Proc
  <2>5. CASE Store(w)
        BY <1>2, <2>5, ActorAssumption DEF Store, TypeOK, Proc
  <2>6. CASE Finalize(w)
        BY <1>2, <2>6, ActorAssumption DEF Finalize, Rest, TypeOK, Proc
  <2>7. CASE Heartbeat(w)
        BY <1>2, <2>7, ActorAssumption DEF Heartbeat, rows, procs, TypeOK,
       Proc
  <2>8. CASE Lapse(w)
        BY <1>2, <2>8, ActorAssumption DEF Lapse, rows, procs, TypeOK, Proc
  <2> QED
        BY <1>2, <2>1, <2>2, <2>3, <2>4, <2>5, <2>6, <2>7, <2>8 DEF
       WorkerStep
<1>3. CASE SchedulerStep
  <2>1. CASE RecoverRead
        BY <1>3, <2>1, ActorAssumption DEF RecoverRead, Stale, rows, TypeOK,
       Proc
  <2>2. CASE RecoverCount
        BY <1>3, <2>2, ActorAssumption DEF RecoverCount, Hit, rows, TypeOK,
       Proc
  <2>3. CASE RecoverCommit
        BY <1>3, <2>3, ActorAssumption DEF RecoverCommit, Fail, Rest,
       TypeOK, Proc
  <2> QED
        BY <1>3, <2>1, <2>2, <2>3 DEF SchedulerStep
<1>4. ASSUME NEW p \in Proc, Crash(p)
      PROVE  AttachesQueued'
      BY <1>4, ActorAssumption DEF Crash, Rest, rows, TypeOK, Proc
<1> QED
  BY <1>1, <1>2, <1>3, <1>4 DEF Next

LEMMA ExecutorStep ==
  ASSUME ~MayOvertake, Steady, TypeOK', Next
  PROVE  OneExecutor'
<1> USE DEF Steady, Ordered, Go, OneExecutor, InHand, Executes
<1>1. ASSUME NEW e \in Enqueuer, Create(e) \/ Request(e) \/ EnqueuerStep(e)
      PROVE  OneExecutor'
  <2>1. CASE Create(e)
        BY <1>1, <2>1, ActorAssumption DEF Create, TypeOK, Proc
  <2>2. CASE Request(e)
        BY <1>1, <2>2, ActorAssumption DEF Request, rows, TypeOK, Proc
  <2>3. CASE CreateSlices(e)
        BY <1>1, <2>3, ActorAssumption DEF CreateSlices, TypeOK, Proc
  <2>4. CASE MarkQueued(e)
        BY <1>1, <2>4, ActorAssumption DEF MarkQueued, NextInsert, TypeOK,
       Proc
  <2>5. CASE InsertRun(e)
        BY <1>1, <2>5, ActorAssumption DEF InsertRun, Rest, TypeOK, Proc
  <2>6. CASE Describe(e)
        BY <1>1, <2>6, ActorAssumption DEF Describe, TypeOK, Proc
  <2>7. CASE Attach(e)
        BY <1>1, <2>7, ActorAssumption DEF Attach, NextInsert, TypeOK, Proc
  <2>8. CASE Count(e)
        BY <1>1, <2>8, ActorAssumption DEF Count, rows, TypeOK, Proc
  <2>9. CASE Store(e)
        BY <1>1, <2>9, ActorAssumption DEF Store, Rest, TypeOK, Proc
  <2> QED
        BY <1>1, <2>1, <2>2, <2>3, <2>4, <2>5, <2>6, <2>7, <2>8, <2>9 DEF
       EnqueuerStep
<1>2. ASSUME NEW w \in Worker, WorkerStep(w) \/ Heartbeat(w) \/ Lapse(w)
      PROVE  OneExecutor'
  <2>1. CASE \E s \in Slice : Claim(w, s)
        BY <1>2, <2>1, ActorAssumption DEF Claim, TypeOK, Proc
  <2>2. CASE MarkRunning(w)
        BY <1>2, <2>2, ActorAssumption DEF MarkRunning, Rest, TypeOK, Proc
  <2>3. CASE \E verdict \in Ended : EndSlice(w, verdict)
        BY <1>2, <2>3, ActorAssumption DEF EndSlice, TypeOK, Proc
  <2>4. CASE Count(w)
        BY <1>2, <2>4, ActorAssumption DEF Count, rows, TypeOK, Proc
  <2>5. CASE Store(w)
        BY <1>2, <2>5, ActorAssumption DEF Store, TypeOK, Proc
  <2>6. CASE Finalize(w)
        BY <1>2, <2>6, ActorAssumption DEF Finalize, Rest, TypeOK, Proc
  <2>7. CASE Heartbeat(w)
        BY <1>2, <2>7, ActorAssumption DEF Heartbeat, rows, procs, TypeOK,
       Proc
  <2>8. CASE Lapse(w)
        BY <1>2, <2>8, ActorAssumption DEF Lapse, rows, procs, TypeOK, Proc
  <2> QED
        BY <1>2, <2>1, <2>2, <2>3, <2>4, <2>5, <2>6, <2>7, <2>8 DEF
       WorkerStep
<1>3. CASE SchedulerStep
  <2>1. CASE RecoverRead
        BY <1>3, <2>1, ActorAssumption DEF RecoverRead, Stale, rows, TypeOK,
       Proc
  <2>2. CASE RecoverCount
        BY <1>3, <2>2, ActorAssumption DEF RecoverCount, Hit, rows, TypeOK,
       Proc
  <2>3. CASE RecoverCommit
        BY <1>3, <2>3, ActorAssumption DEF RecoverCommit, Fail, Rest,
       TypeOK, Proc
  <2> QED
        BY <1>3, <2>1, <2>2, <2>3 DEF SchedulerStep
<1>4. ASSUME NEW p \in Proc, Crash(p)
      PROVE  OneExecutor'
      BY <1>4, ActorAssumption DEF Crash, Rest, rows, TypeOK, Proc
<1> QED
  BY <1>1, <1>2, <1>3, <1>4 DEF Next

LEMMA EnteredStep ==
  ASSUME ~MayOvertake, Steady, TypeOK', Next
  PROVE  EnteredOnce'
<1> USE DEF Steady, Ordered, Go, EnteredOnce, OneExecutor, SlicesCreated,
            InHand, Executes, SliceFollowsRun, Ended, SliceStatuses
<1>1. ASSUME NEW e \in Enqueuer, Create(e) \/ Request(e) \/ EnqueuerStep(e)
      PROVE  EnteredOnce'
  <2>1. CASE Create(e)
        BY <1>1, <2>1, ActorAssumption DEF Create, TypeOK, Proc
  <2>2. CASE Request(e)
        BY <1>1, <2>2, ActorAssumption DEF Request, rows, TypeOK, Proc
  <2>3. CASE CreateSlices(e)
        BY <1>1, <2>3, ActorAssumption DEF CreateSlices, TypeOK, Proc
  <2>4. CASE MarkQueued(e)
        BY <1>1, <2>4, ActorAssumption DEF MarkQueued, NextInsert, TypeOK,
       Proc
  <2>5. CASE InsertRun(e)
        BY <1>1, <2>5, ActorAssumption DEF InsertRun, Rest, TypeOK, Proc
  <2>6. CASE Describe(e)
        BY <1>1, <2>6, ActorAssumption DEF Describe, TypeOK, Proc
  <2>7. CASE Attach(e)
        BY <1>1, <2>7, ActorAssumption DEF Attach, NextInsert, TypeOK, Proc
  <2>8. CASE Count(e)
        BY <1>1, <2>8, ActorAssumption DEF Count, rows, TypeOK, Proc
  <2>9. CASE Store(e)
        BY <1>1, <2>9, ActorAssumption DEF Store, Rest, TypeOK, Proc
  <2> QED
        BY <1>1, <2>1, <2>2, <2>3, <2>4, <2>5, <2>6, <2>7, <2>8, <2>9 DEF
       EnqueuerStep
<1>2. ASSUME NEW w \in Worker, WorkerStep(w) \/ Heartbeat(w) \/ Lapse(w)
      PROVE  EnteredOnce'
  <2>1. CASE \E s \in Slice : Claim(w, s)
        BY <1>2, <2>1, ActorAssumption DEF Claim, TypeOK, Proc
  <2>2. CASE MarkRunning(w)
        BY <1>2, <2>2, ActorAssumption DEF MarkRunning, Rest, TypeOK, Proc
  <2>3. CASE \E verdict \in Ended : EndSlice(w, verdict)
        BY <1>2, <2>3, ActorAssumption DEF EndSlice, TypeOK, Proc
  <2>4. CASE Count(w)
        BY <1>2, <2>4, ActorAssumption DEF Count, rows, TypeOK, Proc
  <2>5. CASE Store(w)
        BY <1>2, <2>5, ActorAssumption DEF Store, TypeOK, Proc
  <2>6. CASE Finalize(w)
        BY <1>2, <2>6, ActorAssumption DEF Finalize, Rest, TypeOK, Proc
  <2>7. CASE Heartbeat(w)
        BY <1>2, <2>7, ActorAssumption DEF Heartbeat, rows, procs, TypeOK,
       Proc
  <2>8. CASE Lapse(w)
        BY <1>2, <2>8, ActorAssumption DEF Lapse, rows, procs, TypeOK, Proc
  <2> QED
        BY <1>2, <2>1, <2>2, <2>3, <2>4, <2>5, <2>6, <2>7, <2>8 DEF
       WorkerStep
<1>3. CASE SchedulerStep
  <2>1. CASE RecoverRead
        BY <1>3, <2>1, ActorAssumption DEF RecoverRead, Stale, rows, TypeOK,
       Proc
  <2>2. CASE RecoverCount
        BY <1>3, <2>2, ActorAssumption DEF RecoverCount, Hit, rows, TypeOK,
       Proc
  <2>3. CASE RecoverCommit
        BY <1>3, <2>3, ActorAssumption DEF RecoverCommit, Fail, Rest,
       TypeOK, Proc
  <2> QED
        BY <1>3, <2>1, <2>2, <2>3 DEF SchedulerStep
<1>4. ASSUME NEW p \in Proc, Crash(p)
      PROVE  EnteredOnce'
      BY <1>4, ActorAssumption DEF Crash, Rest, rows, TypeOK, Proc
<1> QED
  BY <1>1, <1>2, <1>3, <1>4 DEF Next

LEMMA CountsStep ==
  ASSUME ~MayOvertake, Steady, TypeOK', Next
  PROVE  TrueCounts'
<1> USE DEF Steady, Ordered, Go, TrueCounts, AllEnded, NoEarlyVerdict,
            AttachesQueued, EnteredOnce, SlicesCreated, SliceFollowsRun,
            Enqueues, Executes
<1>1. ASSUME NEW e \in Enqueuer, Create(e) \/ Request(e) \/ EnqueuerStep(e)
      PROVE  TrueCounts'
  <2>1. CASE Create(e)
        BY <1>1, <2>1, ActorAssumption DEF Create, Ended, TypeOK, Proc
  <2>2. CASE Request(e)
        BY <1>1, <2>2, ActorAssumption DEF Request, rows, Ended, TypeOK,
       Proc
  <2>3. CASE CreateSlices(e)
        BY <1>1, <2>3, ActorAssumption DEF CreateSlices, Ended, TypeOK, Proc
  <2>4. CASE MarkQueued(e)
        BY <1>1, <2>4, ActorAssumption DEF MarkQueued, NextInsert, Ended,
       TypeOK, Proc
  <2>5. CASE InsertRun(e)
        BY <1>1, <2>5, ActorAssumption DEF InsertRun, Rest, Ended, TypeOK,
       Proc
  <2>6. CASE Describe(e)
        BY <1>1, <2>6, ActorAssumption DEF Describe, Ended, TypeOK, Proc
  <2>7. CASE Attach(e)
        BY <1>1, <2>7, ActorAssumption DEF Attach, NextInsert, Ended,
       TypeOK, Proc
  <2>8. CASE Count(e)
        BY <1>1, <2>8, ActorAssumption, VerdictEnded DEF Count, rows, Ended,
       TypeOK, Proc
  <2>9. CASE Store(e)
        BY <1>1, <2>9, ActorAssumption DEF Store, Rest, Ended, TypeOK, Proc
  <2> QED
        BY <1>1, <2>1, <2>2, <2>3, <2>4, <2>5, <2>6, <2>7, <2>8, <2>9 DEF
       EnqueuerStep
<1>2. ASSUME NEW w \in Worker, WorkerStep(w) \/ Heartbeat(w) \/ Lapse(w)
      PROVE  TrueCounts'
  <2>1. CASE \E s \in Slice : Claim(w, s)
        BY <1>2, <2>1, ActorAssumption DEF Claim, Ended, TypeOK, Proc
  <2>2. CASE MarkRunning(w)
        BY <1>2, <2>2, ActorAssumption DEF MarkRunning, Rest, Ended, TypeOK,
       Proc
  <2>3. CASE \E verdict \in Ended : EndSlice(w, verdict)
        BY <1>2, <2>3, ActorAssumption DEF EndSlice, Ended, TypeOK, Proc
  <2>4. CASE Count(w)
        BY <1>2, <2>4, ActorAssumption, VerdictEnded DEF Count, rows, Ended,
       TypeOK, Proc
  <2>5. CASE Store(w)
        BY <1>2, <2>5, ActorAssumption DEF Store, Ended, TypeOK, Proc
  <2>6. CASE Finalize(w)
        BY <1>2, <2>6, ActorAssumption DEF Finalize, Rest, Ended, TypeOK,
       Proc
  <2>7. CASE Heartbeat(w)
        BY <1>2, <2>7, ActorAssumption DEF Heartbeat, rows, procs, Ended,
       TypeOK, Proc
  <2>8. CASE Lapse(w)
        BY <1>2, <2>8, ActorAssumption DEF Lapse, rows, procs, Ended,
       TypeOK, Proc
  <2> QED
        BY <1>2, <2>1, <2>2, <2>3, <2>4, <2>5, <2>6, <2>7, <2>8 DEF
       WorkerStep
<1>3. CASE SchedulerStep
  <2>1. CASE RecoverRead
        BY <1>3, <2>1, ActorAssumption DEF RecoverRead, Stale, rows, Ended,
       TypeOK, Proc
  <2>2. CASE RecoverCount
        BY <1>3, <2>2, ActorAssumption, VerdictEnded DEF RecoverCount, Hit,
       rows, Fail, SliceStatuses, BatchEnded, Ended, TypeOK, Proc
  <2>3. CASE RecoverCommit
        BY <1>3, <2>3, ActorAssumption DEF RecoverCommit, Fail, Rest, Ended,
       TypeOK, Proc
  <2> QED
        BY <1>3, <2>1, <2>2, <2>3 DEF SchedulerStep
<1>4. ASSUME NEW p \in Proc, Crash(p)
      PROVE  TrueCounts'
      BY <1>4, ActorAssumption DEF Crash, Rest, rows, Ended, TypeOK, Proc
<1> QED
  BY <1>1, <1>2, <1>3, <1>4 DEF Next

LEMMA VerdictStep ==
  ASSUME ~MayOvertake, Steady, TypeOK', Next
  PROVE  NoEarlyVerdict'
<1> USE DEF Steady, Ordered, Go, TrueCounts, AllEnded, NoEarlyVerdict,
            AttachesQueued, EnteredOnce, SlicesCreated, SliceFollowsRun,
            Enqueues, Executes, BatchEnded
<1>1. ASSUME NEW e \in Enqueuer, Create(e) \/ Request(e) \/ EnqueuerStep(e)
      PROVE  NoEarlyVerdict'
  <2>1. CASE Create(e)
        BY <1>1, <2>1, ActorAssumption DEF Create, Ended, TypeOK, Proc
  <2>2. CASE Request(e)
        BY <1>1, <2>2, ActorAssumption DEF Request, rows, Ended, TypeOK,
       Proc
  <2>3. CASE CreateSlices(e)
        BY <1>1, <2>3, ActorAssumption DEF CreateSlices, Ended, TypeOK, Proc
  <2>4. CASE MarkQueued(e)
        BY <1>1, <2>4, ActorAssumption DEF MarkQueued, NextInsert, Ended,
       TypeOK, Proc
  <2>5. CASE InsertRun(e)
        BY <1>1, <2>5, ActorAssumption DEF InsertRun, Rest, Ended, TypeOK,
       Proc
  <2>6. CASE Describe(e)
        BY <1>1, <2>6, ActorAssumption DEF Describe, Ended, TypeOK, Proc
  <2>7. CASE Attach(e)
        BY <1>1, <2>7, ActorAssumption DEF Attach, NextInsert, Ended,
       TypeOK, Proc
  <2>8. CASE Count(e)
        BY <1>1, <2>8, ActorAssumption DEF Count, rows, Ended, TypeOK, Proc
  <2>9. CASE Store(e)
        BY <1>1, <2>9, ActorAssumption DEF Store, Rest, Ended, TypeOK, Proc
  <2> QED
        BY <1>1, <2>1, <2>2, <2>3, <2>4, <2>5, <2>6, <2>7, <2>8, <2>9 DEF
       EnqueuerStep
<1>2. ASSUME NEW w \in Worker, WorkerStep(w) \/ Heartbeat(w) \/ Lapse(w)
      PROVE  NoEarlyVerdict'
  <2>1. CASE \E s \in Slice : Claim(w, s)
        BY <1>2, <2>1, ActorAssumption DEF Claim, Ended, TypeOK, Proc
  <2>2. CASE MarkRunning(w)
        BY <1>2, <2>2, ActorAssumption DEF MarkRunning, Rest, Ended, TypeOK,
       Proc
  <2>3. CASE \E verdict \in Ended : EndSlice(w, verdict)
        BY <1>2, <2>3, ActorAssumption DEF EndSlice, Ended, TypeOK, Proc
  <2>4. CASE Count(w)
        BY <1>2, <2>4, ActorAssumption DEF Count, rows, Ended, TypeOK, Proc
  <2>5. CASE Store(w)
        BY <1>2, <2>5, ActorAssumption DEF Store, Ended, TypeOK, Proc
  <2>6. CASE Finalize(w)
        BY <1>2, <2>6, ActorAssumption DEF Finalize, Rest, Ended, TypeOK,
       Proc
  <2>7. CASE Heartbeat(w)
        BY <1>2, <2>7, ActorAssumption DEF Heartbeat, rows, procs, Ended,
       TypeOK, Proc
  <2>8. CASE Lapse(w)
        BY <1>2, <2>8, ActorAssumption DEF Lapse, rows, procs, Ended,
       TypeOK, Proc
  <2> QED
        BY <1>2, <2>1, <2>2, <2>3, <2>4, <2>5, <2>6, <2>7, <2>8 DEF
       WorkerStep
<1>3. CASE SchedulerStep
  <2>1. CASE RecoverRead
        BY <1>3, <2>1, ActorAssumption DEF RecoverRead, Stale, rows, Ended,
       TypeOK, Proc
  <2>2. CASE RecoverCount
        BY <1>3, <2>2, ActorAssumption DEF RecoverCount, Hit, rows, Ended,
       TypeOK, Proc
  <2>3. CASE RecoverCommit
        BY <1>3, <2>3, ActorAssumption DEF RecoverCommit, Fail, Rest, Ended,
       TypeOK, Proc
  <2> QED
        BY <1>3, <2>1, <2>2, <2>3 DEF SchedulerStep
<1>4. ASSUME NEW p \in Proc, Crash(p)
      PROVE  NoEarlyVerdict'
      BY <1>4, ActorAssumption DEF Crash, Rest, rows, Ended, TypeOK, Proc
<1> QED
  BY <1>1, <1>2, <1>3, <1>4 DEF Next

LEMMA SteadyStep ==
  ASSUME ~MayOvertake
  PROVE  Steady /\ [Next]_vars => Steady'
<1>1. ASSUME Steady, Next
      PROVE  Steady'
  <2>1. Ordered' /\ TypeOK'
    BY <1>1, OrderedStep DEF Steady, Ordered
  <2> QED
    BY <1>1, <2>1, AttachesStep, ExecutorStep, EnteredStep, CountsStep, VerdictStep
       DEF Steady
<1>2. ASSUME Steady, UNCHANGED vars
      PROVE  Steady'
  <2>1. Ordered'
    BY <1>2, OrderedStep DEF Steady
  <2> QED
    BY <1>2, <2>1 DEF vars, rows, procs, Steady, NoEarlyVerdict, AttachesQueued,
       OneExecutor, EnteredOnce, TrueCounts, AllEnded, Enqueues, Executes
<1> QED
  BY <1>1, <1>2

\* As long as no worker takes a run before it is attached, the batch is
\* never reported as ended while a slice has still to end: for any number of
\* slices, requests and workers, with overlapping counts, late heartbeats and
\* crashes, and whether or not the recovery's session flushes.
THEOREM VerdictsNotEarly ==
  ASSUME ~MayOvertake
  PROVE  Spec => []NoEarlyVerdict
<1>1. Steady => NoEarlyVerdict
  BY DEF Steady
<1> QED
  BY <1>1, SteadyInit, SteadyStep, PTL DEF Spec

-----------------------------------------------------------------------------
(* A completed run has completed its slice.                                *)

\* A live worker's heartbeat is in time.
LiveFresh == \A w \in Worker : pc[w] # "dead" => w \in fresh

RunsOwned == \A s \in Slice : run[s] \notin {"new", "queued"} => owner[s] \in Worker

\* The run of an executor is running, and is its own.
Executing ==
  \A w \in Worker : Executes(w) => run[cur[w]] = "running" /\ owner[cur[w]] = w

\* The recovery has only runs of dead workers in hand.
Doomed ==
  /\ \A s \in todo[Scheduler] : run[s] = "running" /\ pc[owner[s]] = "dead"
  /\ hit \subseteq todo[Scheduler]
  /\ pc[Scheduler] # "failing" => hit = {}

\* Nobody takes a live worker for dead: its runs are left to it, whoever else
\* acts.  Holds with runs taken before they are attached, too.
Attentive == Ordered /\ LiveFresh /\ RunsOwned /\ Executing /\ Doomed

LEMMA FreshStep ==
  ASSUME ~MayLapse, Attentive, TypeOK', Next
  PROVE  LiveFresh'
<1> USE DEF Attentive, Ordered, Go, LiveFresh, Executes
<1>1. ASSUME NEW e \in Enqueuer, Create(e) \/ Request(e) \/ EnqueuerStep(e)
      PROVE  LiveFresh'
  <2>1. CASE Create(e)
    BY <1>1, <2>1, ActorAssumption DEF Create, TypeOK, Proc
  <2>2. CASE Request(e)
    BY <1>1, <2>2, ActorAssumption DEF Request, rows, TypeOK, Proc
  <2>3. CASE CreateSlices(e)
    BY <1>1, <2>3, ActorAssumption DEF CreateSlices, TypeOK, Proc
  <2>4. CASE MarkQueued(e)
    BY <1>1, <2>4, ActorAssumption DEF MarkQueued, NextInsert, TypeOK, Proc
  <2>5. CASE InsertRun(e)
    BY <1>1, <2>5, ActorAssumption DEF InsertRun, Rest, TypeOK, Proc
  <2>6. CASE Describe(e)
    BY <1>1, <2>6, ActorAssumption DEF Describe, TypeOK, Proc
  <2>7. CASE Attach(e)
    BY <1>1, <2>7, ActorAssumption DEF Attach, NextInsert, TypeOK, Proc
  <2>8. CASE Count(e)
    BY <1>1, <2>8, ActorAssumption DEF Count, rows, TypeOK, Proc
  <2>9. CASE Store(e)
    BY <1>1, <2>9, ActorAssumption DEF Store, Rest, TypeOK, Proc
  <2> QED
    BY <1>1, <2>1, <2>2, <2>3, <2>4, <2>5, <2>6, <2>7, <2>8, <2>9 DEF EnqueuerStep
<1>2. ASSUME NEW w \in Worker, WorkerStep(w) \/ Heartbeat(w) \/ Lapse(w)
      PROVE  LiveFresh'
  <2>1. CASE \E s \in Slice : Claim(w, s)
    BY <1>2, <2>1, ActorAssumption DEF Claim, TypeOK, Proc
  <2>2. CASE MarkRunning(w)
    BY <1>2, <2>2, ActorAssumption DEF MarkRunning, Rest, TypeOK, Proc
  <2>3. CASE \E verdict \in Ended : EndSlice(w, verdict)
    BY <1>2, <2>3, ActorAssumption DEF EndSlice, TypeOK, Proc
  <2>4. CASE Count(w)
    BY <1>2, <2>4, ActorAssumption DEF Count, rows, TypeOK, Proc
  <2>5. CASE Store(w)
    BY <1>2, <2>5, ActorAssumption DEF Store, TypeOK, Proc
  <2>6. CASE Finalize(w)
    BY <1>2, <2>6, ActorAssumption DEF Finalize, Rest, TypeOK, Proc
  <2>7. CASE Heartbeat(w)
    BY <1>2, <2>7, ActorAssumption DEF Heartbeat, rows, procs, TypeOK, Proc
  <2>8. CASE Lapse(w)
    BY <1>2, <2>8, ActorAssumption DEF Lapse, rows, procs, TypeOK, Proc
  <2> QED
    BY <1>2, <2>1, <2>2, <2>3, <2>4, <2>5, <2>6, <2>7, <2>8 DEF WorkerStep
<1>3. CASE SchedulerStep
  <2>1. CASE RecoverRead
    BY <1>3, <2>1, ActorAssumption DEF RecoverRead, Stale, rows, TypeOK, Proc
  <2>2. CASE RecoverCount
    BY <1>3, <2>2, ActorAssumption, VerdictPresent DEF RecoverCount, Hit, rows, TypeOK, Proc
  <2>3. CASE RecoverCommit
    BY <1>3, <2>3, ActorAssumption DEF RecoverCommit, Fail, Rest, TypeOK, Proc
  <2> QED
    BY <1>3, <2>1, <2>2, <2>3 DEF SchedulerStep
<1>4. ASSUME NEW p \in Proc, Crash(p)
      PROVE  LiveFresh'
  BY <1>4, ActorAssumption DEF Crash, Rest, rows, TypeOK, Proc
<1> QED
  BY <1>1, <1>2, <1>3, <1>4 DEF Next

LEMMA OwnedStep ==
  ASSUME ~MayLapse, Attentive, TypeOK', Next
  PROVE  RunsOwned'
<1> USE DEF Attentive, Ordered, Go, RunsOwned, Executes, InHand
<1>1. ASSUME NEW e \in Enqueuer, Create(e) \/ Request(e) \/ EnqueuerStep(e)
      PROVE  RunsOwned'
  <2>1. CASE Create(e)
    BY <1>1, <2>1, ActorAssumption DEF Create, TypeOK, Proc
  <2>2. CASE Request(e)
    BY <1>1, <2>2, ActorAssumption DEF Request, rows, TypeOK, Proc
  <2>3. CASE CreateSlices(e)
    BY <1>1, <2>3, ActorAssumption DEF CreateSlices, TypeOK, Proc
  <2>4. CASE MarkQueued(e)
    BY <1>1, <2>4, ActorAssumption DEF MarkQueued, NextInsert, TypeOK, Proc
  <2>5. CASE InsertRun(e)
    BY <1>1, <2>5, ActorAssumption DEF InsertRun, Rest, TypeOK, Proc
  <2>6. CASE Describe(e)
    BY <1>1, <2>6, ActorAssumption DEF Describe, TypeOK, Proc
  <2>7. CASE Attach(e)
    BY <1>1, <2>7, ActorAssumption DEF Attach, NextInsert, TypeOK, Proc
  <2>8. CASE Count(e)
    BY <1>1, <2>8, ActorAssumption DEF Count, rows, TypeOK, Proc
  <2>9. CASE Store(e)
    BY <1>1, <2>9, ActorAssumption DEF Store, Rest, TypeOK, Proc
  <2> QED
    BY <1>1, <2>1, <2>2, <2>3, <2>4, <2>5, <2>6, <2>7, <2>8, <2>9 DEF EnqueuerStep
<1>2. ASSUME NEW w \in Worker, WorkerStep(w) \/ Heartbeat(w) \/ Lapse(w)
      PROVE  RunsOwned'
  <2>1. CASE \E s \in Slice : Claim(w, s)
    BY <1>2, <2>1, ActorAssumption DEF Claim, TypeOK, Proc
  <2>2. CASE MarkRunning(w)
    BY <1>2, <2>2, ActorAssumption DEF MarkRunning, Rest, TypeOK, Proc
  <2>3. CASE \E verdict \in Ended : EndSlice(w, verdict)
    BY <1>2, <2>3, ActorAssumption DEF EndSlice, TypeOK, Proc
  <2>4. CASE Count(w)
    BY <1>2, <2>4, ActorAssumption DEF Count, rows, TypeOK, Proc
  <2>5. CASE Store(w)
    BY <1>2, <2>5, ActorAssumption DEF Store, TypeOK, Proc
  <2>6. CASE Finalize(w)
    BY <1>2, <2>6, ActorAssumption DEF Finalize, Rest, TypeOK, Proc
  <2>7. CASE Heartbeat(w)
    BY <1>2, <2>7, ActorAssumption DEF Heartbeat, rows, procs, TypeOK, Proc
  <2>8. CASE Lapse(w)
    BY <1>2, <2>8, ActorAssumption DEF Lapse, rows, procs, TypeOK, Proc
  <2> QED
    BY <1>2, <2>1, <2>2, <2>3, <2>4, <2>5, <2>6, <2>7, <2>8 DEF WorkerStep
<1>3. CASE SchedulerStep
  <2>1. CASE RecoverRead
    BY <1>3, <2>1, ActorAssumption DEF RecoverRead, Stale, rows, TypeOK, Proc
  <2>2. CASE RecoverCount
    BY <1>3, <2>2, ActorAssumption, VerdictPresent DEF RecoverCount, Hit, rows, TypeOK, Proc
  <2>3. CASE RecoverCommit
    BY <1>3, <2>3, ActorAssumption DEF RecoverCommit, Fail, Rest, TypeOK, Proc
  <2> QED
    BY <1>3, <2>1, <2>2, <2>3 DEF SchedulerStep
<1>4. ASSUME NEW p \in Proc, Crash(p)
      PROVE  RunsOwned'
  BY <1>4, ActorAssumption DEF Crash, Rest, rows, TypeOK, Proc
<1> QED
  BY <1>1, <1>2, <1>3, <1>4 DEF Next

LEMMA ExecutingStep ==
  ASSUME ~MayLapse, Attentive, TypeOK', Next
  PROVE  Executing'
<1> USE DEF Attentive, Ordered, Go, Executing, Doomed, Executes, InHand
<1>1. ASSUME NEW e \in Enqueuer, Create(e) \/ Request(e) \/ EnqueuerStep(e)
      PROVE  Executing'
  <2>1. CASE Create(e)
    BY <1>1, <2>1, ActorAssumption DEF Create, TypeOK, Proc
  <2>2. CASE Request(e)
    BY <1>1, <2>2, ActorAssumption DEF Request, rows, TypeOK, Proc
  <2>3. CASE CreateSlices(e)
    BY <1>1, <2>3, ActorAssumption DEF CreateSlices, TypeOK, Proc
  <2>4. CASE MarkQueued(e)
    BY <1>1, <2>4, ActorAssumption DEF MarkQueued, NextInsert, TypeOK, Proc
  <2>5. CASE InsertRun(e)
    BY <1>1, <2>5, ActorAssumption DEF InsertRun, Rest, TypeOK, Proc
  <2>6. CASE Describe(e)
    BY <1>1, <2>6, ActorAssumption DEF Describe, TypeOK, Proc
  <2>7. CASE Attach(e)
    BY <1>1, <2>7, ActorAssumption DEF Attach, NextInsert, TypeOK, Proc
  <2>8. CASE Count(e)
    BY <1>1, <2>8, ActorAssumption DEF Count, rows, TypeOK, Proc
  <2>9. CASE Store(e)
    BY <1>1, <2>9, ActorAssumption DEF Store, Rest, TypeOK, Proc
  <2> QED
    BY <1>1, <2>1, <2>2, <2>3, <2>4, <2>5, <2>6, <2>7, <2>8, <2>9 DEF EnqueuerStep
<1>2. ASSUME NEW w \in Worker, WorkerStep(w) \/ Heartbeat(w) \/ Lapse(w)
      PROVE  Executing'
  <2>1. CASE \E s \in Slice : Claim(w, s)
    BY <1>2, <2>1, ActorAssumption DEF Claim, TypeOK, Proc
  <2>2. CASE MarkRunning(w)
    BY <1>2, <2>2, ActorAssumption DEF MarkRunning, Rest, TypeOK, Proc
  <2>3. CASE \E verdict \in Ended : EndSlice(w, verdict)
    BY <1>2, <2>3, ActorAssumption DEF EndSlice, TypeOK, Proc
  <2>4. CASE Count(w)
    BY <1>2, <2>4, ActorAssumption DEF Count, rows, TypeOK, Proc
  <2>5. CASE Store(w)
    BY <1>2, <2>5, ActorAssumption DEF Store, TypeOK, Proc
  <2>6. CASE Finalize(w)
    BY <1>2, <2>6, ActorAssumption DEF Finalize, Rest, TypeOK, Proc
  <2>7. CASE Heartbeat(w)
    BY <1>2, <2>7, ActorAssumption DEF Heartbeat, rows, procs, TypeOK, Proc
  <2>8. CASE Lapse(w)
    BY <1>2, <2>8, ActorAssumption DEF Lapse, rows, procs, TypeOK, Proc
  <2> QED
    BY <1>2, <2>1, <2>2, <2>3, <2>4, <2>5, <2>6, <2>7, <2>8 DEF WorkerStep
<1>3. CASE SchedulerStep
  <2>1. CASE RecoverRead
    BY <1>3, <2>1, ActorAssumption DEF RecoverRead, Stale, rows, TypeOK, Proc
  <2>2. CASE RecoverCount
    BY <1>3, <2>2, ActorAssumption, VerdictPresent DEF RecoverCount, Hit, rows, TypeOK, Proc
  <2>3. CASE RecoverCommit
    BY <1>3, <2>3, ActorAssumption DEF RecoverCommit, Fail, Rest, TypeOK, Proc
  <2> QED
    BY <1>3, <2>1, <2>2, <2>3 DEF SchedulerStep
<1>4. ASSUME NEW p \in Proc, Crash(p)
      PROVE  Executing'
  BY <1>4, ActorAssumption DEF Crash, Rest, rows, TypeOK, Proc
<1> QED
  BY <1>1, <1>2, <1>3, <1>4 DEF Next

LEMMA DoomedStep ==
  ASSUME ~MayLapse, Attentive, TypeOK', Next
  PROVE  Doomed'
<1> USE DEF Attentive, Ordered, Go, Executing, LiveFresh, RunsOwned, Doomed, Executes, InHand
<1>1. ASSUME NEW e \in Enqueuer, Create(e) \/ Request(e) \/ EnqueuerStep(e)
      PROVE  Doomed'
  <2>1. CASE Create(e)
    BY <1>1, <2>1, ActorAssumption DEF Create, TypeOK, Proc
  <2>2. CASE Request(e)
    BY <1>1, <2>2, ActorAssumption DEF Request, rows, TypeOK, Proc
  <2>3. CASE CreateSlices(e)
    BY <1>1, <2>3, ActorAssumption DEF CreateSlices, TypeOK, Proc
  <2>4. CASE MarkQueued(e)
    BY <1>1, <2>4, ActorAssumption DEF MarkQueued, NextInsert, TypeOK, Proc
  <2>5. CASE InsertRun(e)
    BY <1>1, <2>5, ActorAssumption DEF InsertRun, Rest, TypeOK, Proc
  <2>6. CASE Describe(e)
    BY <1>1, <2>6, ActorAssumption DEF Describe, TypeOK, Proc
  <2>7. CASE Attach(e)
    BY <1>1, <2>7, ActorAssumption DEF Attach, NextInsert, TypeOK, Proc
  <2>8. CASE Count(e)
    BY <1>1, <2>8, ActorAssumption DEF Count, rows, TypeOK, Proc
  <2>9. CASE Store(e)
    BY <1>1, <2>9, ActorAssumption DEF Store, Rest, TypeOK, Proc
  <2> QED
    BY <1>1, <2>1, <2>2, <2>3, <2>4, <2>5, <2>6, <2>7, <2>8, <2>9 DEF EnqueuerStep
<1>2. ASSUME NEW w \in Worker, WorkerStep(w) \/ Heartbeat(w) \/ Lapse(w)
      PROVE  Doomed'
  <2>1. CASE \E s \in Slice : Claim(w, s)
    BY <1>2, <2>1, ActorAssumption DEF Claim, TypeOK, Proc
  <2>2. CASE MarkRunning(w)
    BY <1>2, <2>2, ActorAssumption DEF MarkRunning, Rest, TypeOK, Proc
  <2>3. CASE \E verdict \in Ended : EndSlice(w, verdict)
    BY <1>2, <2>3, ActorAssumption DEF EndSlice, TypeOK, Proc
  <2>4. CASE Count(w)
    BY <1>2, <2>4, ActorAssumption DEF Count, rows, TypeOK, Proc
  <2>5. CASE Store(w)
    BY <1>2, <2>5, ActorAssumption DEF Store, TypeOK, Proc
  <2>6. CASE Finalize(w)
    BY <1>2, <2>6, ActorAssumption DEF Finalize, Rest, TypeOK, Proc
  <2>7. CASE Heartbeat(w)
    BY <1>2, <2>7, ActorAssumption DEF Heartbeat, rows, procs, TypeOK, Proc
  <2>8. CASE Lapse(w)
    BY <1>2, <2>8, ActorAssumption DEF Lapse, rows, procs, TypeOK, Proc
  <2> QED
    BY <1>2, <2>1, <2>2, <2>3, <2>4, <2>5, <2>6, <2>7, <2>8 DEF WorkerStep
<1>3. CASE SchedulerStep
  <2>1. CASE RecoverRead
    BY <1>3, <2>1, ActorAssumption DEF RecoverRead, Stale, rows, TypeOK, Proc
  <2>2. CASE RecoverCount
    BY <1>3, <2>2, ActorAssumption, VerdictPresent DEF RecoverCount, Hit, rows, TypeOK, Proc
  <2>3. CASE RecoverCommit
    BY <1>3, <2>3, ActorAssumption DEF RecoverCommit, Fail, Rest, TypeOK, Proc
  <2> QED
    BY <1>3, <2>1, <2>2, <2>3 DEF SchedulerStep
<1>4. ASSUME NEW p \in Proc, Crash(p)
      PROVE  Doomed'
  BY <1>4, ActorAssumption DEF Crash, Rest, rows, TypeOK, Proc
<1> QED
  BY <1>1, <1>2, <1>3, <1>4 DEF Next

LEMMA AttentiveStep ==
  ASSUME ~MayLapse
  PROVE  Attentive /\ [Next]_vars => Attentive'
<1>1. ASSUME Attentive, Next
      PROVE  Attentive'
  <2>1. Ordered' /\ TypeOK'
    BY <1>1, OrderedStep DEF Attentive, Ordered
  <2> QED
    BY <1>1, <2>1, FreshStep, OwnedStep, ExecutingStep, DoomedStep DEF Attentive
<1>2. ASSUME Attentive, UNCHANGED vars
      PROVE  Attentive'
  <2>1. Ordered'
    BY <1>2, OrderedStep DEF Attentive
  <2> QED
    BY <1>2, <2>1 DEF vars, rows, procs, Attentive, LiveFresh, RunsOwned, Executing, Doomed,
       Executes
<1> QED
  BY <1>1, <1>2

\* The slice of an executor is where the executor left it.
Delivered ==
  \A w \in Worker :
    /\ pc[w] = "body" => slice[cur[w]] = "running"
    /\ pc[w] \in {"refresh", "store", "final"} =>
         /\ slice[cur[w]] \in Ended
         /\ w \notin lost => slice[cur[w]] \in {"completed", "degraded"}

Punctual == Steady /\ Attentive /\ Delivered /\ CompletedRunEndsSlice

LEMMA DeliveredStep ==
  ASSUME ~MayOvertake, ~MayLapse, Punctual, TypeOK', Next
  PROVE  Delivered'
<1> USE DEF Punctual, Steady, Attentive, Ordered, Go, Executing, AttachesQueued, OneExecutor, Doomed, Delivered, Executes, Enqueues, SlicesCreated, Ended
<1>1. ASSUME NEW e \in Enqueuer, Create(e) \/ Request(e) \/ EnqueuerStep(e)
      PROVE  Delivered'
  <2>1. CASE Create(e)
    BY <1>1, <2>1, ActorAssumption DEF Create, TypeOK, Proc
  <2>2. CASE Request(e)
    BY <1>1, <2>2, ActorAssumption DEF Request, rows, TypeOK, Proc
  <2>3. CASE CreateSlices(e)
    BY <1>1, <2>3, ActorAssumption DEF CreateSlices, TypeOK, Proc
  <2>4. CASE MarkQueued(e)
    BY <1>1, <2>4, ActorAssumption DEF MarkQueued, NextInsert, TypeOK, Proc
  <2>5. CASE InsertRun(e)
    BY <1>1, <2>5, ActorAssumption DEF InsertRun, Rest, TypeOK, Proc
  <2>6. CASE Describe(e)
    BY <1>1, <2>6, ActorAssumption DEF Describe, TypeOK, Proc
  <2>7. CASE Attach(e)
    BY <1>1, <2>7, ActorAssumption DEF Attach, NextInsert, TypeOK, Proc
  <2>8. CASE Count(e)
    BY <1>1, <2>8, ActorAssumption DEF Count, rows, TypeOK, Proc
  <2>9. CASE Store(e)
    BY <1>1, <2>9, ActorAssumption DEF Store, Rest, TypeOK, Proc
  <2> QED
    BY <1>1, <2>1, <2>2, <2>3, <2>4, <2>5, <2>6, <2>7, <2>8, <2>9 DEF EnqueuerStep
<1>2. ASSUME NEW w \in Worker, WorkerStep(w) \/ Heartbeat(w) \/ Lapse(w)
      PROVE  Delivered'
  <2>1. CASE \E s \in Slice : Claim(w, s)
    BY <1>2, <2>1, ActorAssumption DEF Claim, TypeOK, Proc
  <2>2. CASE MarkRunning(w)
    BY <1>2, <2>2, ActorAssumption DEF MarkRunning, Rest, TypeOK, Proc
  <2>3. CASE \E verdict \in Ended : EndSlice(w, verdict)
    BY <1>2, <2>3, ActorAssumption DEF EndSlice, TypeOK, Proc
  <2>4. CASE Count(w)
    BY <1>2, <2>4, ActorAssumption DEF Count, rows, TypeOK, Proc
  <2>5. CASE Store(w)
    BY <1>2, <2>5, ActorAssumption DEF Store, TypeOK, Proc
  <2>6. CASE Finalize(w)
    BY <1>2, <2>6, ActorAssumption DEF Finalize, Rest, TypeOK, Proc
  <2>7. CASE Heartbeat(w)
    BY <1>2, <2>7, ActorAssumption DEF Heartbeat, rows, procs, TypeOK, Proc
  <2>8. CASE Lapse(w)
    BY <1>2, <2>8, ActorAssumption DEF Lapse, rows, procs, TypeOK, Proc
  <2> QED
    BY <1>2, <2>1, <2>2, <2>3, <2>4, <2>5, <2>6, <2>7, <2>8 DEF WorkerStep
<1>3. CASE SchedulerStep
  <2>1. CASE RecoverRead
    BY <1>3, <2>1, ActorAssumption DEF RecoverRead, Stale, rows, TypeOK, Proc
  <2>2. CASE RecoverCount
    BY <1>3, <2>2, ActorAssumption, VerdictPresent DEF RecoverCount, Hit, rows, TypeOK, Proc
  <2>3. CASE RecoverCommit
    BY <1>3, <2>3, ActorAssumption DEF RecoverCommit, Fail, Rest, TypeOK, Proc
  <2> QED
    BY <1>3, <2>1, <2>2, <2>3 DEF SchedulerStep
<1>4. ASSUME NEW p \in Proc, Crash(p)
      PROVE  Delivered'
  BY <1>4, ActorAssumption DEF Crash, Rest, rows, TypeOK, Proc
<1> QED
  BY <1>1, <1>2, <1>3, <1>4 DEF Next

LEMMA CompletedStep ==
  ASSUME ~MayOvertake, ~MayLapse, Punctual, TypeOK', Next
  PROVE  CompletedRunEndsSlice'
<1> USE DEF Punctual, Steady, Attentive, Ordered, Go, Executing, AttachesQueued, Doomed, Delivered, CompletedRunEndsSlice, Executes, Enqueues, SlicesCreated, Ended
<1>1. ASSUME NEW e \in Enqueuer, Create(e) \/ Request(e) \/ EnqueuerStep(e)
      PROVE  CompletedRunEndsSlice'
  <2>1. CASE Create(e)
    BY <1>1, <2>1, ActorAssumption DEF Create, TypeOK, Proc
  <2>2. CASE Request(e)
    BY <1>1, <2>2, ActorAssumption DEF Request, rows, TypeOK, Proc
  <2>3. CASE CreateSlices(e)
    BY <1>1, <2>3, ActorAssumption DEF CreateSlices, TypeOK, Proc
  <2>4. CASE MarkQueued(e)
    BY <1>1, <2>4, ActorAssumption DEF MarkQueued, NextInsert, TypeOK, Proc
  <2>5. CASE InsertRun(e)
    BY <1>1, <2>5, ActorAssumption DEF InsertRun, Rest, TypeOK, Proc
  <2>6. CASE Describe(e)
    BY <1>1, <2>6, ActorAssumption DEF Describe, TypeOK, Proc
  <2>7. CASE Attach(e)
    BY <1>1, <2>7, ActorAssumption DEF Attach, NextInsert, TypeOK, Proc
  <2>8. CASE Count(e)
    BY <1>1, <2>8, ActorAssumption DEF Count, rows, TypeOK, Proc
  <2>9. CASE Store(e)
    BY <1>1, <2>9, ActorAssumption DEF Store, Rest, TypeOK, Proc
  <2> QED
    BY <1>1, <2>1, <2>2, <2>3, <2>4, <2>5, <2>6, <2>7, <2>8, <2>9 DEF EnqueuerStep
<1>2. ASSUME NEW w \in Worker, WorkerStep(w) \/ Heartbeat(w) \/ Lapse(w)
      PROVE  CompletedRunEndsSlice'
  <2>1. CASE \E s \in Slice : Claim(w, s)
    BY <1>2, <2>1, ActorAssumption DEF Claim, TypeOK, Proc
  <2>2. CASE MarkRunning(w)
    BY <1>2, <2>2, ActorAssumption DEF MarkRunning, Rest, TypeOK, Proc
  <2>3. CASE \E verdict \in Ended : EndSlice(w, verdict)
    BY <1>2, <2>3, ActorAssumption DEF EndSlice, TypeOK, Proc
  <2>4. CASE Count(w)
    BY <1>2, <2>4, ActorAssumption DEF Count, rows, TypeOK, Proc
  <2>5. CASE Store(w)
    BY <1>2, <2>5, ActorAssumption DEF Store, TypeOK, Proc
  <2>6. CASE Finalize(w)
    BY <1>2, <2>6, ActorAssumption DEF Finalize, Rest, TypeOK, Proc
  <2>7. CASE Heartbeat(w)
    BY <1>2, <2>7, ActorAssumption DEF Heartbeat, rows, procs, TypeOK, Proc
  <2>8. CASE Lapse(w)
    BY <1>2, <2>8, ActorAssumption DEF Lapse, rows, procs, TypeOK, Proc
  <2> QED
    BY <1>2, <2>1, <2>2, <2>3, <2>4, <2>5, <2>6, <2>7, <2>8 DEF WorkerStep
<1>3. CASE SchedulerStep
  <2>1. CASE RecoverRead
    BY <1>3, <2>1, ActorAssumption DEF RecoverRead, Stale, rows, TypeOK, Proc
  <2>2. CASE RecoverCount
    BY <1>3, <2>2, ActorAssumption, VerdictPresent DEF RecoverCount, Hit, rows, TypeOK, Proc
  <2>3. CASE RecoverCommit
    BY <1>3, <2>3, ActorAssumption DEF RecoverCommit, Fail, Rest, TypeOK, Proc
  <2> QED
    BY <1>3, <2>1, <2>2, <2>3 DEF SchedulerStep
<1>4. ASSUME NEW p \in Proc, Crash(p)
      PROVE  CompletedRunEndsSlice'
  BY <1>4, ActorAssumption DEF Crash, Rest, rows, TypeOK, Proc
<1> QED
  BY <1>1, <1>2, <1>3, <1>4 DEF Next

LEMMA PunctualInit == Init => Punctual
<1> SUFFICES ASSUME Init
             PROVE  Punctual
  OBVIOUS
<1>1. Steady
  BY SteadyInit
<1>2. /\ LiveFresh /\ RunsOwned /\ Executing /\ Doomed /\ Delivered
      /\ CompletedRunEndsSlice
  BY ActorAssumption
     DEF Init, LiveFresh, RunsOwned, Executing, Doomed, Delivered, CompletedRunEndsSlice,
         Executes, Proc
<1> QED
  BY <1>1, <1>2 DEF Punctual, Attentive, Steady

LEMMA PunctualStep ==
  ASSUME ~MayOvertake, ~MayLapse
  PROVE  Punctual /\ [Next]_vars => Punctual'
<1>1. ASSUME Punctual, Next
      PROVE  Punctual'
  <2>1. Steady' /\ Attentive' /\ TypeOK'
    BY <1>1, SteadyStep, AttentiveStep DEF Punctual, Steady, Ordered
  <2> QED
    BY <1>1, <2>1, DeliveredStep, CompletedStep DEF Punctual
<1>2. ASSUME Punctual, UNCHANGED vars
      PROVE  Punctual'
  <2>1. Steady' /\ Attentive'
    BY <1>2, SteadyStep, AttentiveStep DEF Punctual
  <2> QED
    BY <1>2, <2>1 DEF vars, rows, procs, Punctual, Delivered, CompletedRunEndsSlice, Executes
<1> QED
  BY <1>1, <1>2

\* As long as no worker takes a run before it is attached and heartbeats are in
\* time, a run that is recorded as completed has completed its slice and no
\* attach, recovery or second executor undoes it: for any number of slices,
\* requests and workers, with crashes and overlapping refreshes.
THEOREM CompletedRunsEndSlices ==
  ASSUME ~MayOvertake, ~MayLapse
  PROVE  Spec => []CompletedRunEndsSlice
<1>1. Punctual => CompletedRunEndsSlice
  BY DEF Punctual
<1> QED
  BY <1>1, PunctualInit, PunctualStep, PTL DEF Spec

-----------------------------------------------------------------------------
(* The batch's status and its slices agree.                                *)

\* A count that no change of a slice has outdated is what the slices add up to,
\* and the row is as well, or was upset, or somebody has still to count.
TrueCount ==
  \A p \in Enqueuer \cup Worker :
    pc[p] = "store" /\ p \notin outdated => Verdict(sum[p], slice) = sum[p]
StatusKept == wrong \/ (\E p \in Proc : WillRefresh(p)) \/ Agrees

\* The inductive invariant.
Agreeing == Ordered /\ TrueCount /\ StatusKept

LEMMA VerdictStable ==
  ASSUME NEW old, NEW status
  PROVE  Verdict(Verdict(old, status), status) = Verdict(old, status)
BY DEF Verdict

\* A step after which every true count was one before, of the same slices.
LEMMA CountsFrame ==
  ASSUME TrueCount,
         \A q \in Enqueuer \cup Worker : pc'[q] = "store" /\ q \notin outdated' =>
           /\ pc[q] = "store" /\ q \notin outdated
           /\ sum'[q] = sum[q] /\ slice' = slice
  PROVE  TrueCount'
BY DEF TrueCount

\* A step of p that leaves its refresh to come, upsets the row, or changes
\* neither row nor slices without having a refresh to come.
LEMMA StatusFrame ==
  ASSUME StatusKept, NEW p \in Proc,
         \A q \in Proc \ {p} : pc'[q] = pc[q],
         \/ WillRefresh(p)'
         \/ wrong'
         \/ ~WillRefresh(p) /\ UNCHANGED <<batch, slice, wrong>>
  PROVE  StatusKept'
<1>1. CASE WillRefresh(p)'
  BY <1>1 DEF StatusKept
<1>2. CASE wrong'
  BY <1>2 DEF StatusKept
<1>3. CASE ~WillRefresh(p) /\ UNCHANGED <<batch, slice, wrong>>
  <2>1. ASSUME NEW q \in Proc, WillRefresh(q)
        PROVE  WillRefresh(q)'
    BY <1>3, <2>1 DEF WillRefresh
  <2> QED
    BY <1>3, <2>1 DEF StatusKept, Agrees
<1> QED
  BY <1>1, <1>2, <1>3

\* Or the row is upset, or right.
LEMMA StatusWritten ==
  ASSUME wrong' \/ Agrees'
  PROVE  StatusKept'
BY DEF StatusKept

LEMMA RefreshAgrees ==
  ASSUME Ordered, TrueCount, StatusKept, NEW p \in Enqueuer \cup Worker, Count(p) \/ Store(p)
  PROVE  TrueCount' /\ StatusKept'
<1> p \in Proc /\ (p \in Enqueuer => p \notin Worker) /\ p # Scheduler
  BY ActorAssumption DEF Proc
<1> USE DEF Ordered, TypeOK, Go
<1>1. CASE Count(p)
  <2>1. /\ pc' = [pc EXCEPT ![p] = "store"]
        /\ sum' = [sum EXCEPT ![p] = Verdict(batch, slice)]
        /\ UNCHANGED <<batch, slice>> /\ outdated' = outdated \ {p}
    BY <1>1 DEF Count, rows
  <2>2. TrueCount'
    <3>1. ASSUME NEW q \in Enqueuer \cup Worker, pc'[q] = "store", q \notin outdated'
          PROVE  Verdict(sum'[q], slice') = sum'[q]
      <4>1. CASE q = p
        BY <2>1, <4>1, VerdictStable DEF Proc
      <4>2. CASE q # p
        BY <2>1, <3>1, <4>2 DEF TrueCount, Proc
      <4> QED
        BY <4>1, <4>2
    <3> QED
      BY <3>1 DEF TrueCount
  <2>3. pc'[p] = "store"
    BY <2>1
  <2>4. WillRefresh(p)'
    BY <2>3 DEF WillRefresh
  <2> QED
    BY <2>1, <2>2, <2>4, StatusFrame
<1>2. CASE Store(p)
  <2>1. /\ pc[p] = "store" /\ batch' = sum[p] /\ UNCHANGED slice
        /\ outdated' = outdated \ {p} /\ wrong' = (p \in outdated)
        /\ \A q \in Proc \ {p} : pc'[q] = pc[q] /\ sum'[q] = sum[q]
        /\ pc'[p] # "store"
    BY <1>2 DEF Store, Rest
  <2>2. TrueCount'
    BY <2>1, CountsFrame DEF Proc
  <2>3. CASE p \in outdated
    <3>1. wrong' = (p \in outdated)
      BY <2>1
    <3>2. wrong'
      BY <2>3, <3>1, Zenon
    <3> QED
      BY <2>2, <3>2, StatusWritten
  <2>4. CASE p \notin outdated
    <3>1. Verdict(sum[p], slice) = sum[p]
      BY <2>1, <2>4 DEF TrueCount
    <3>2. batch' = sum[p] /\ slice' = slice
      BY <2>1
    <3>3. Verdict(batch', slice') = batch'
      BY <3>1, <3>2
    <3>4. Agrees'
      BY <3>3 DEF Agrees
    <3> QED
      BY <2>2, <3>4, StatusWritten
  <2> QED
    BY <2>2, <2>3, <2>4
<1> QED
  BY <1>1, <1>2

LEMMA EnqueuerAgrees ==
  ASSUME Ordered, TrueCount, StatusKept, NEW e \in Enqueuer,
         Create(e) \/ Request(e) \/ EnqueuerStep(e)
  PROVE  TrueCount' /\ StatusKept'
<1> e \in Proc /\ e \notin Worker /\ e # Scheduler
  BY ActorAssumption DEF Proc
<1> USE DEF Ordered, TypeOK, Go, hist
<1>1. CASE Create(e)
  <2>1. /\ pc[e] = "idle" /\ pc' = [pc EXCEPT ![e] = "slicing"]
        /\ batch = "absent" /\ batch' = "planned" /\ UNCHANGED <<slice, sum, outdated, wrong>>
    BY <1>1 DEF Create
  <2>2. TrueCount'
    BY <2>1, CountsFrame DEF Proc
  <2>3. \A s \in Slice : slice[s] = "absent"
    BY <2>1 DEF SlicesCreated
  <2>4. Agrees'
    BY <2>1, <2>3 DEF Agrees, Verdict
  <2> QED
    BY <2>2, <2>4 DEF StatusKept
<1>2. CASE Request(e)
  <2>1. /\ pc[e] = "idle" /\ pc' = [pc EXCEPT ![e] = "marking"]
        /\ UNCHANGED <<batch, slice, sum, outdated, wrong>>
    BY <1>2 DEF Request, rows
  <2>2. TrueCount'
    BY <2>1, CountsFrame DEF Proc
  <2>3. ~WillRefresh(e)
    BY <2>1 DEF WillRefresh
  <2> QED
    BY <2>1, <2>2, <2>3, StatusFrame
<1>3. CASE CreateSlices(e) \/ Attach(e)
  <2>1. PICK label \in {"refresh", "insert"} : pc' = [pc EXCEPT ![e] = label]
    BY <1>3 DEF CreateSlices, Attach, NextInsert
  <2>2. Outdates(e)
    BY <1>3 DEF CreateSlices, Attach
  <2>3. TrueCount'
    BY <2>1, <2>2, CountsFrame DEF Outdates, Proc
  <2>4. WillRefresh(e)'
    BY <2>1 DEF WillRefresh
  <2> QED
    BY <2>1, <2>3, <2>4, StatusFrame
<1>4. CASE MarkQueued(e) \/ Describe(e) \/ (InsertRun(e) /\ Go(e, "describe"))
  <2>1. PICK label \in {"refresh", "insert", "attach", "describe"} : pc' = [pc EXCEPT ![e] = label]
    BY <1>4 DEF MarkQueued, Describe, NextInsert
  <2>2. UNCHANGED <<slice, outdated>> /\ sum' = sum
    BY <1>4, <2>1 DEF MarkQueued, Describe, InsertRun, Rest, EnqueuerPCs
  <2>3. TrueCount'
    BY <2>1, <2>2, CountsFrame DEF Proc
  <2>4. WillRefresh(e)'
    BY <2>1 DEF WillRefresh
  <2> QED
    BY <2>1, <2>3, <2>4, StatusFrame
<1>5. CASE InsertRun(e) /\ Rest(e, "idle") /\ wrong'
  <2>1. /\ pc' = [pc EXCEPT ![e] = "idle"] /\ sum' = [sum EXCEPT ![e] = "absent"]
        /\ UNCHANGED <<slice, outdated>>
    BY <1>5 DEF InsertRun, Rest
  <2>2. TrueCount'
    BY <2>1, CountsFrame DEF Proc
  <2> QED
    BY <1>5, <2>2 DEF StatusKept
<1>6. InsertRun(e) => Go(e, "describe") \/ (Rest(e, "idle") /\ wrong')
  BY DEF InsertRun
<1> QED
  BY <1>1, <1>2, <1>3, <1>4, <1>5, <1>6, RefreshAgrees DEF EnqueuerStep

LEMMA WorkerAgrees ==
  ASSUME Ordered, TrueCount, StatusKept, NEW w \in Worker, WorkerStep(w)
  PROVE  TrueCount' /\ StatusKept'
<1> w \in Proc /\ w \notin Enqueuer /\ w # Scheduler
  BY ActorAssumption DEF Proc
<1> USE DEF Ordered, TypeOK, Go, hist
<1>1. ASSUME pc[w] \in {"idle", "claimed", "final"},
             \A q \in Proc \ {w} : pc'[q] = pc[q] /\ sum'[q] = sum[q],
             pc'[w] # "store", UNCHANGED <<batch, slice, outdated, wrong>>
      PROVE  TrueCount' /\ StatusKept'
  <2>1. TrueCount'
    BY <1>1, CountsFrame DEF Proc
  <2>2. ~WillRefresh(w)
    BY <1>1 DEF WillRefresh
  <2> QED
    BY <1>1, <2>1, <2>2, StatusFrame
<1>2. ASSUME NEW label \in {"body", "refresh"}, pc' = [pc EXCEPT ![w] = label], Outdates(w)
      PROVE  TrueCount' /\ StatusKept'
  <2>1. TrueCount'
    BY <1>2, CountsFrame DEF Outdates, Proc
  <2>2. WillRefresh(w)'
    BY <1>2 DEF WillRefresh
  <2> QED
    BY <1>2, <2>1, <2>2, StatusFrame
<1>3. ASSUME NEW s \in Slice, Claim(w, s)
      PROVE  TrueCount' /\ StatusKept'
  BY <1>1, <1>3 DEF Claim
<1>4. CASE MarkRunning(w)
  <2>1. CASE Go(w, "body") /\ Outdates(w)
    BY <1>2, <2>1
  <2>2. CASE Rest(w, "idle") /\ UNCHANGED <<slice, outdated>>
    BY <1>1, <1>4, <2>2 DEF MarkRunning, Rest
  <2> QED
    BY <1>4, <2>1, <2>2 DEF MarkRunning
<1>5. ASSUME NEW verdict \in Ended, EndSlice(w, verdict)
      PROVE  TrueCount' /\ StatusKept'
  BY <1>2, <1>5 DEF EndSlice
<1>6. CASE Finalize(w)
  BY <1>1, <1>6 DEF Finalize, Rest
<1> QED
  BY <1>3, <1>4, <1>5, <1>6, RefreshAgrees DEF WorkerStep

LEMMA SchedulerAgrees ==
  ASSUME Ordered, TrueCount, StatusKept, SchedulerStep
  PROVE  TrueCount' /\ StatusKept'
<1> Scheduler \in Proc /\ Scheduler \notin Enqueuer \cup Worker
  BY ActorAssumption DEF Proc
<1> USE DEF Ordered, TypeOK, Go, hist
<1>1. /\ \A q \in Proc \ {Scheduler} : pc'[q] = pc[q] /\ sum'[q] = sum[q]
  BY DEF SchedulerStep, RecoverRead, RecoverCount, RecoverCommit, Rest
<1>2. ~WillRefresh(Scheduler)
  BY DEF WillRefresh
<1>3. CASE UNCHANGED <<batch, slice, outdated, wrong>>
  <2>1. TrueCount'
    BY <1>1, <1>3, CountsFrame DEF Proc
  <2> QED
    BY <1>1, <1>2, <1>3, <2>1, StatusFrame
<1>4. CASE Outdates(Scheduler) /\ wrong'
  <2>1. TrueCount'
    BY <1>1, <1>4, CountsFrame DEF Outdates, Proc
  <2> QED
    BY <1>4, <2>1 DEF StatusKept
<1>5. CASE RecoverRead \/ RecoverCount
  BY <1>3, <1>5 DEF RecoverRead, RecoverCount, rows
<1>6. CASE RecoverCommit
  <2>1. CASE hit = {}
    <3>1. slice' = slice /\ batch' = batch
      BY <1>6, <2>1 DEF RecoverCommit, Fail
    <3> QED
      BY <1>3, <1>6, <2>1, <3>1 DEF RecoverCommit
  <2> QED
    BY <1>4, <1>6, <2>1 DEF RecoverCommit
<1> QED
  BY <1>5, <1>6 DEF SchedulerStep

LEMMA CrashAgrees ==
  ASSUME Ordered, TrueCount, StatusKept, NEW p \in Proc, Crash(p)
  PROVE  TrueCount' /\ StatusKept'
<1> USE DEF Ordered, TypeOK, Go
<1>1. /\ \A q \in Proc \ {p} : pc'[q] = pc[q] /\ sum'[q] = sum[q]
      /\ pc'[p] # "store" /\ UNCHANGED <<batch, slice>>
      /\ outdated' = outdated \ {p} /\ wrong' = (wrong \/ WillRefresh(p))
  BY DEF Crash, Rest, rows
<1>2. TrueCount'
  BY <1>1, CountsFrame DEF Proc
<1>3. CASE wrong \/ WillRefresh(p)
  <2>1. wrong'
    BY <1>1, <1>3
  <2> QED
    BY <1>2, <2>1 DEF StatusKept
<1>4. CASE ~wrong /\ ~WillRefresh(p)
  <2>1. ASSUME NEW q \in Proc, WillRefresh(q)
        PROVE  WillRefresh(q)'
    BY <1>1, <1>4, <2>1 DEF WillRefresh
  <2> QED
    BY <1>1, <1>2, <1>4, <2>1 DEF StatusKept, Agrees
<1> QED
  BY <1>3, <1>4

LEMMA AgreeingInit == Init => Agreeing
<1> SUFFICES ASSUME Init
             PROVE  Agreeing
  OBVIOUS
<1>1. TrueCount /\ StatusKept
  BY ActorAssumption DEF Init, TrueCount, StatusKept, Agrees, Proc
<1> QED
  BY <1>1, OrderedInit DEF Agreeing

LEMMA AgreeingStep == Agreeing /\ [Next]_vars => Agreeing'
<1> SUFFICES ASSUME Agreeing, [Next]_vars
             PROVE  TrueCount' /\ StatusKept'
  BY OrderedStep DEF Agreeing
<1>1. ASSUME UNCHANGED <<batch, slice, pc, sum, outdated, wrong>>
      PROVE  TrueCount' /\ StatusKept'
  BY <1>1 DEF Agreeing, TrueCount, StatusKept, WillRefresh, Agrees
<1>2. CASE UNCHANGED vars
  BY <1>1, <1>2 DEF vars, rows, procs, hist
<1>3. ASSUME NEW w \in Worker, Heartbeat(w) \/ Lapse(w)
      PROVE  TrueCount' /\ StatusKept'
  BY <1>1, <1>3 DEF Heartbeat, Lapse, rows, procs, hist
<1> QED
  BY <1>2, <1>3, EnqueuerAgrees, WorkerAgrees, SchedulerAgrees, CrashAgrees DEF Agreeing, Next

\* The batch's status is what its slices add up to whenever nobody has a refresh
\* still to come and the row was not upset since the last true count: for any
\* number of days, requests, workers and crashes, with counts that overlap,
\* heartbeats that are late and runs taken before they are attached.
THEOREM StatusIsSummary == Spec => []AgreesUnlessUpset
<1>1. Agreeing => AgreesUnlessUpset
  BY DEF Agreeing, StatusKept, AgreesUnlessUpset
<1> QED
  BY <1>1, AgreeingInit, AgreeingStep, PTL DEF Spec
=============================================================================
