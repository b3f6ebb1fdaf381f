---------------------------- MODULE RunQueueProofs ----------------------------
(***************************************************************************)
(* Theorems about RunQueue, for any number of processes, jobs and runs.    *)
(***************************************************************************)
EXTENDS RunQueue, WellFoundedInduction, FiniteSetTheorems, TLAPS

\* What a claim writes as worker_id is a worker or nobody.
LEMMA IdentityType ==
  ASSUME NEW p \in Proc
  PROVE  Identity(p) \in Worker \cup {Nobody}
BY DEF Identity, Proc

\* A process that lets go of its work is left well-formed.
LEMMA ReleaseType ==
  ASSUME ProcsOK, NEW p \in Proc, Release(p)
  PROVE  ProcsOK'
BY DEF ProcsOK, Release, PCs, Ops

\* So is a process to which enqueue_job has returned a run.
LEMMA ReturnedType ==
  ASSUME ProcsOK, NEW p \in Proc, NEW r \in Run, Returned(p, r)
  PROVE  ProcsOK'
<1>1. CASE op[p] = "runnow" /\ Go(p, "claim") /\ held' = [held EXCEPT ![p] = r]
           /\ UNCHANGED <<fresh, op, want, at, snap>>
  BY <1>1 DEF ProcsOK, Go, PCs
<1>2. CASE p = Scheduler /\ Go(p, "pass") /\ op' = [op EXCEPT ![p] = "poll"]
           /\ want' = [want EXCEPT ![p] = NoJob]
           /\ UNCHANGED <<fresh, at, held, snap>>
  BY <1>2 DEF ProcsOK, Go, PCs, Ops
<1>3. CASE Release(p)
  BY <1>3, ReleaseType
<1> QED
  BY <1>1, <1>2, <1>3 DEF Returned

LEMMA AfterRecoveryType ==
  ASSUME NEW p \in Proc
  PROVE  AfterRecovery(p) \in PCs
BY DEF AfterRecovery, PCs

LEMMA TypeInit == Init => TypeOK
BY BoundsAssumption
   DEF Init, TypeOK, RowsOK, ProcsOK, Statuses, PCs, Ops, Run, Slot

\* The steps that a scheduler, a handler or a worker may take while it
\* recovers stale runs.
LEMMA RecoverType ==
  ASSUME TypeOK, NEW p \in Proc, RecoverRead(p) \/ RecoverCommit(p)
  PROVE  TypeOK'
<1>1. CASE RecoverRead(p)
  <2>1. Stale \subseteq Run
    BY DEF Stale
  <2> QED
    BY <1>1, <2>1, AfterRecoveryType
       DEF RecoverRead, TypeOK, RowsOK, ProcsOK, rowVars, Go, PCs
<1>2. CASE RecoverCommit(p)
  <2>1. CASE /\ status' = [r \in Run |-> IF r \in snap[p] THEN "failed"
                                                          ELSE status[r]]
             /\ snap' = [snap EXCEPT ![p] = {}]
             /\ Go(p, AfterRecovery(p))
             /\ UNCHANGED <<jobOf, slotOf, owner, lease, logged, created,
                            fresh, now, op, want, at, held>>
    BY <2>1, AfterRecoveryType
       DEF TypeOK, RowsOK, ProcsOK, Go, Statuses
  <2>2. CASE Release(p) /\ UNCHANGED <<rowVars, now>>
    BY <2>2, ReleaseType DEF TypeOK, RowsOK, rowVars
  <2> QED
    BY <1>2, <2>1, <2>2 DEF RecoverCommit
<1> QED
  BY <1>1, <1>2

LEMMA EnqueueType ==
  ASSUME TypeOK, NEW p \in Proc, Check(p) \/ Insert(p)
  PROVE  TypeOK'
<1>1. CASE Check(p)
  <2>1. Existing(p) \subseteq Run
    BY DEF Existing, InSlot, ActiveTuning, ActiveForJob
  <2>2. CASE Go(p, "insert") /\ UNCHANGED <<fresh, op, want, at, held, snap>>
    BY <1>1, <2>2 DEF Check, TypeOK, RowsOK, ProcsOK, rowVars, Go, PCs
  <2>3. ASSUME NEW r \in Existing(p), Returned(p, r)
        PROVE  TypeOK'
    BY <1>1, <2>1, <2>3, ReturnedType DEF Check, TypeOK, RowsOK, rowVars
  <2> QED
    BY <1>1, <2>2, <2>3 DEF Check
<1>2. CASE Insert(p)
  <2>1. CASE Release(p) /\ UNCHANGED <<rowVars, now>>
    BY <2>1, ReleaseType DEF TypeOK, RowsOK, rowVars
  <2>2. CASE /\ NextId \in Run
             /\ created' = NextId
             /\ status' = [status EXCEPT ![NextId] = "queued"]
             /\ jobOf'  = [jobOf  EXCEPT ![NextId] = want[p]]
             /\ slotOf' = [slotOf EXCEPT ![NextId] = at[p]]
             /\ Returned(p, NextId)
             /\ UNCHANGED <<owner, lease, logged, now>>
    <3>1. ProcsOK'
      BY <2>2, ReturnedType DEF TypeOK
    <3>2. RowsOK'
      BY <2>2, BoundsAssumption
         DEF TypeOK, RowsOK, ProcsOK, Statuses, Run
    <3> QED
      BY <2>2, <3>1, <3>2 DEF TypeOK
  <2> QED
    BY <1>2, <2>1, <2>2 DEF Insert
<1> QED
  BY <1>1, <1>2

\* Claim, dispatch and the ends of a run.
LEMMA ExecuteType ==
  ASSUME TypeOK, NEW p \in Proc, Execute(p)
  PROVE  TypeOK'
<1>1. CASE Claim(p)
  <2>1. CASE /\ Take(p, held[p]) /\ Go(p, "claimed")
             /\ UNCHANGED <<fresh, op, want, at, held, snap>>
    BY <1>1, <2>1, IdentityType
       DEF Claim, Take, TypeOK, RowsOK, ProcsOK, Go, PCs, Statuses
  <2>2. CASE Release(p) /\ UNCHANGED <<status, owner, lease>>
    BY <1>1, <2>2, ReleaseType DEF Claim, TypeOK, RowsOK
  <2> QED
    BY <1>1, <2>1, <2>2 DEF Claim
<1>2. CASE Dispatch(p)
  <2>1. RowsOK' /\ now' = now
    BY <1>2 DEF Dispatch, TypeOK, RowsOK
  <2>2. CASE Release(p)
    BY <2>1, <2>2, ReleaseType DEF TypeOK
  <2>3. CASE /\ Go(p, "body") /\ fresh' = fresh \cup ({p} \cap Worker)
             /\ UNCHANGED <<op, want, at, held, snap>>
    BY <2>1, <2>3 DEF TypeOK, ProcsOK, Go, PCs
  <2> QED
    BY <1>2, <2>2, <2>3 DEF Dispatch
<1>3. CASE EscapeBody(p)
  BY <1>3, ReleaseType DEF EscapeBody, TypeOK, RowsOK, rowVars
<1>4. ASSUME NEW verdict \in {"completed", "failed"}, Finish(p, verdict)
      PROVE  TypeOK'
  <2>1. RowsOK' /\ now' = now
    BY <1>4 DEF Finish, TypeOK, RowsOK, Statuses
  <2> QED
    BY <1>4, <2>1, ReleaseType DEF Finish, TypeOK
<1> QED
  BY <1>1, <1>2, <1>3, <1>4 DEF Execute

LEMMA SchedulerType ==
  ASSUME TypeOK, SchedulerStep
  PROVE  TypeOK'
<1> Scheduler \in Proc
  BY DEF Proc
<1>1. CASE BeginPass
  BY <1>1 DEF BeginPass, TypeOK, RowsOK, ProcsOK, rowVars, Go, PCs, Ops
<1>2. CASE EndPass
  BY <1>2, ReleaseType DEF EndPass, TypeOK, RowsOK, rowVars
<1>3. ASSUME NEW j \in Scheduled, PickDue(j)
      PROVE  TypeOK'
  BY <1>3, JobAssumption
     DEF PickDue, TypeOK, RowsOK, ProcsOK, rowVars, Go, PCs, Ops
<1> QED
  BY <1>1, <1>2, <1>3, RecoverType, EnqueueType DEF SchedulerStep

LEMMA ApiType ==
  ASSUME TypeOK, NEW c \in Api, ApiStep(c)
  PROVE  TypeOK'
<1> c \in Proc
  BY DEF Proc
<1>1. ASSUME NEW kind \in Ops, NEW j \in Job, Request(c, kind, j)
      PROVE  TypeOK'
  BY <1>1 DEF Request, TypeOK, RowsOK, ProcsOK, rowVars, Go, PCs
<1>2. ASSUME NEW r \in Run, RequestDelete(c, r)
      PROVE  TypeOK'
  BY <1>2 DEF RequestDelete, TypeOK, RowsOK, ProcsOK, rowVars, Go, PCs, Ops
<1>3. ASSUME NEW force \in BOOLEAN, Delete(c, force)
      PROVE  TypeOK'
  <2>1. RowsOK' /\ now' = now
    BY <1>3 DEF Delete, TypeOK, RowsOK, rowVars, Statuses
  <2> QED
    BY <1>3, <2>1, ReleaseType DEF Delete, TypeOK
<1> QED
  BY <1>1, <1>2, <1>3, RecoverType, EnqueueType, ExecuteType
     DEF ApiStep, Handle

LEMMA WorkerType ==
  ASSUME TypeOK, NEW w \in Worker, WorkerStep(w)
  PROVE  TypeOK'
<1> w \in Proc
  BY DEF Proc
<1>1. CASE Select(w)
  BY <1>1 DEF Select, TypeOK, RowsOK, ProcsOK, rowVars, Go, PCs
<1> QED
  BY <1>1, ExecuteType DEF WorkerStep

LEMMA EnvironmentType ==
  ASSUME TypeOK, Environment
  PROVE  TypeOK'
<1> Worker \subseteq Proc
  BY DEF Proc
<1>1. ASSUME NEW w \in Worker, Start(w) \/ Heartbeat(w) \/ Lapse(w)
      PROVE  TypeOK'
  BY <1>1 DEF Start, Heartbeat, Lapse, TypeOK, RowsOK, ProcsOK, rowVars,
              procVars, Go, PCs
<1>2. ASSUME NEW p \in Proc, Crash(p)
      PROVE  TypeOK'
  BY <1>2 DEF Crash, TypeOK, RowsOK, ProcsOK, rowVars, PCs, Ops
<1>3. ASSUME NEW r \in Run, LeaseLapse(r)
      PROVE  TypeOK'
  BY <1>3 DEF LeaseLapse, TypeOK, RowsOK, ProcsOK, procVars
<1>4. CASE Tick
  BY <1>4, BoundsAssumption
     DEF Tick, TypeOK, RowsOK, ProcsOK, rowVars, procVars, Slot
<1> QED
  BY <1>1, <1>2, <1>3, <1>4 DEF Environment

LEMMA TypeStep == TypeOK /\ [Next]_vars => TypeOK'
<1> SUFFICES ASSUME TypeOK, [Next]_vars
             PROVE  TypeOK'
  OBVIOUS
<1>1. CASE UNCHANGED vars
  BY <1>1 DEF vars, rowVars, procVars, TypeOK, RowsOK, ProcsOK
<1> QED
  BY <1>1, SchedulerType, ApiType, WorkerType, EnvironmentType DEF Next

\* Whatever the interleaving of processes, crashes and clocks, rows and
\* processes keep the shape TypeOK gives them.
THEOREM TypeCorrect == Spec => []TypeOK
BY TypeInit, TypeStep, PTL DEF Spec

-------------------------------------------------------------------------------
(* A run is executed by one process, and is not claimed again.             *)

IInv == TypeOK /\ Guarded

\* No process gets hold of a run, or puts one on its list of stale runs.
NothingGained ==
  \A q \in Proc : /\ snap'[q] \subseteq snap[q]
                  /\ \A r \in Run : Holds(q, r)' => Holds(q, r)

LEMMA ReleaseGains ==
  ASSUME TypeOK, NEW p \in Proc, Release(p)
  PROVE  NothingGained /\ \A r \in Run : ~Holds(p, r)'
BY DEF TypeOK, ProcsOK, Release, NothingGained, Holds

LEMMA ReturnedGains ==
  ASSUME TypeOK, NEW p \in Proc, NEW r \in Run, Returned(p, r)
  PROVE  NothingGained
<1>1. CASE Release(p)
  BY <1>1, ReleaseGains
<1>2. CASE ~Release(p)
  BY <1>2 DEF Returned, Go, TypeOK, ProcsOK, NothingGained, Holds
<1> QED
  BY <1>1, <1>2

\* Steps that give nobody a run and change no row keep the invariant.
LEMMA QuietStep ==
  ASSUME Guarded, NothingGained, UNCHANGED <<status, owner, created>>
  PROVE  Guarded'
BY DEF Guarded, TakenForGood, HolderIsRecorded, ClaimExclusive, NothingGained

LEMMA GuardedInit == Init => Guarded
BY BoundsAssumption
   DEF Init, Guarded, TakenForGood, HolderIsRecorded, ClaimExclusive, Holds, Run

LEMMA RecoverGuarded ==
  ASSUME IInv, NEW p \in Proc, RecoverRead(p) \/ RecoverCommit(p)
  PROVE  Guarded'
<1> USE DEF IInv, Guarded
<1>0. AfterRecovery(p) \notin {"claimed", "body"}
  BY DEF AfterRecovery
<1>1. CASE RecoverRead(p)
  <2>1. \A q \in Proc : \A r \in Run : Holds(q, r)' => Holds(q, r)
    BY <1>0, <1>1 DEF RecoverRead, Go, TypeOK, ProcsOK, Holds
  <2>2. \A q \in Proc : \A r \in Run :
          r \in snap'[q] => r \in snap[q] \/ status[r] = "running"
    BY <1>1 DEF RecoverRead, Stale, TypeOK, ProcsOK
  <2>3. UNCHANGED <<status, owner, created>>
    BY <1>1 DEF RecoverRead, rowVars
  <2>4. \A r \in Run : status[r] = "running" => r <= created
    BY DEF TakenForGood, TypeOK, RowsOK, Run
  <2> QED
    BY <2>1, <2>2, <2>3, <2>4 DEF TakenForGood, HolderIsRecorded, ClaimExclusive
<1>2. CASE RecoverCommit(p)
  <2>1. CASE /\ status' = [r \in Run |-> IF r \in snap[p] THEN "failed"
                                                          ELSE status[r]]
             /\ snap' = [snap EXCEPT ![p] = {}]
             /\ Go(p, AfterRecovery(p))
             /\ UNCHANGED <<owner, created, held>>
    <3>1. NothingGained
      BY <1>0, <2>1 DEF Go, TypeOK, ProcsOK, NothingGained, Holds
    <3>2. \A r \in Run : \/ status'[r] = status[r]
                         \/ status'[r] = "failed" /\ r <= created
      BY <2>1 DEF TakenForGood
    <3> QED
      BY <2>1, <3>1, <3>2 DEF NothingGained, TakenForGood, HolderIsRecorded,
                              ClaimExclusive, TypeOK, RowsOK, Run
  <2>2. CASE Release(p) /\ UNCHANGED rowVars
    BY <2>2, ReleaseGains, QuietStep DEF rowVars
  <2> QED
    BY <1>2, <2>1, <2>2 DEF RecoverCommit
<1> QED
  BY <1>1, <1>2

\* Where ids are never given twice the inserted row is one nobody holds.
LEMMA EnqueueGuarded ==
  ASSUME Postgres, IInv, NEW p \in Proc, Check(p) \/ Insert(p)
  PROVE  Guarded'
<1> USE DEF IInv
<1>1. CASE Check(p)
  <2>1. UNCHANGED <<status, owner, created>>
    BY <1>1 DEF Check, rowVars
  <2>2. Existing(p) \subseteq Run
    BY DEF Existing, InSlot, ActiveTuning, ActiveForJob
  <2>3. CASE Go(p, "insert") /\ UNCHANGED <<held, snap>>
    BY <2>1, <2>3, QuietStep DEF Go, TypeOK, ProcsOK, NothingGained, Holds
  <2>4. ASSUME NEW r \in Existing(p), Returned(p, r)
        PROVE  Guarded'
    BY <2>1, <2>2, <2>4, ReturnedGains, QuietStep
  <2> QED
    BY <1>1, <2>3, <2>4 DEF Check
<1>2. CASE Insert(p)
  <2>1. CASE Release(p) /\ UNCHANGED rowVars
    BY <2>1, ReleaseGains, QuietStep DEF rowVars
  <2>2. CASE /\ NextId \in Run
             /\ created' = NextId
             /\ status' = [status EXCEPT ![NextId] = "queued"]
             /\ Returned(p, NextId)
             /\ UNCHANGED owner
    <3>1. NextId = created + 1 /\ created \in Nat
      BY DEF NextId, TypeOK, RowsOK
    <3>2. NothingGained
      BY <2>2, ReturnedGains
    <3> QED
      BY <2>2, <3>1, <3>2
         DEF Guarded, NothingGained, TakenForGood, HolderIsRecorded,
             ClaimExclusive, TypeOK, RowsOK, Run
  <2> QED
    BY <1>2, <2>1, <2>2 DEF Insert
<1> QED
  BY <1>1, <1>2

LEMMA ExecuteGuarded ==
  ASSUME IInv, NEW p \in Proc, Execute(p)
  PROVE  Guarded'
<1> USE DEF IInv
<1>1. CASE Claim(p)
  <2>1. CASE /\ Take(p, held[p]) /\ Go(p, "claimed")
             /\ UNCHANGED <<held, snap, created>>
    \* Nobody held the run: it was queued.
    <3>1. \A q \in Proc : \A r \in Run :
            Holds(q, r)' <=> IF q = p THEN r = held[p] ELSE Holds(q, r)
      BY <2>1 DEF Go, Holds, TypeOK, ProcsOK
    <3>2. \A q \in Proc : held[p] \in Run => ~Holds(q, held[p]) /\ held[p] \notin snap[q]
      BY <2>1 DEF Take, Guarded, TakenForGood
    <3>3. \A r \in Run : r # held[p] => status'[r] = status[r] /\ owner'[r] = owner[r]
      BY <2>1 DEF Take, TypeOK, RowsOK
    <3>4. held[p] \in Run => /\ status[held[p]] = "queued"
                             /\ status'[held[p]] = "running"
                             /\ owner'[held[p]] = Identity(p)
      BY <2>1 DEF Take, TypeOK, RowsOK
    <3>5. TakenForGood'
      BY <2>1, <3>1, <3>3, <3>4
         DEF Guarded, TakenForGood, TypeOK, RowsOK, Run
    <3>6. HolderIsRecorded'
      BY <3>1, <3>2, <3>3, <3>4 DEF Guarded, HolderIsRecorded, Identity
    <3>7. ClaimExclusive'
      BY <3>1, <3>2 DEF Guarded, ClaimExclusive
    <3> QED
      BY <3>5, <3>6, <3>7 DEF Guarded
  <2>2. CASE Release(p) /\ UNCHANGED <<status, owner, created>>
    BY <2>2, ReleaseGains, QuietStep
  <2> QED
    BY <1>1, <2>1, <2>2 DEF Claim
<1>2. CASE Dispatch(p)
  <2>1. UNCHANGED <<status, owner, created>>
    BY <1>2 DEF Dispatch
  <2>2. CASE Release(p)
    BY <2>1, <2>2, ReleaseGains, QuietStep
  <2>3. CASE pc[p] = "claimed" /\ Go(p, "body") /\ UNCHANGED <<held, snap>>
    BY <2>1, <2>3, QuietStep DEF Go, TypeOK, ProcsOK, NothingGained, Holds
  <2> QED
    BY <1>2, <2>2, <2>3 DEF Dispatch
<1>3. CASE EscapeBody(p)
  BY <1>3, ReleaseGains, QuietStep DEF EscapeBody, rowVars
<1>4. ASSUME NEW verdict \in {"completed", "failed"}, Finish(p, verdict)
      PROVE  Guarded'
  <2>1. NothingGained
    BY <1>4, ReleaseGains DEF Finish
  <2>2. \A r \in Run : \/ status'[r] = status[r]
                       \/ status'[r] \in {"completed", "failed"} /\ status[r] # "absent"
    BY <1>4 DEF Finish, TypeOK, RowsOK
  <2>3. UNCHANGED <<owner, created>>
    BY <1>4 DEF Finish
  <2> QED
    BY <2>1, <2>2, <2>3 DEF Guarded, NothingGained, TakenForGood,
                            HolderIsRecorded, ClaimExclusive
<1> QED
  BY <1>1, <1>2, <1>3, <1>4 DEF Execute

LEMMA DeleteGuarded ==
  ASSUME IInv, NEW c \in Proc, NEW force \in BOOLEAN, Delete(c, force)
  PROVE  Guarded'
<1> USE DEF IInv
<1>1. NothingGained
  BY ReleaseGains DEF Delete
<1>2. CASE UNCHANGED rowVars
  BY <1>1, <1>2, QuietStep DEF rowVars
<1>3. CASE /\ status' = [status EXCEPT ![held[c]] = "absent"]
           /\ UNCHANGED created
           /\ owner' = [owner EXCEPT ![held[c]] = Nobody]
  BY <1>1, <1>3 DEF Guarded, NothingGained, TakenForGood, HolderIsRecorded,
                    ClaimExclusive, TypeOK, RowsOK
<1> QED
  BY <1>2, <1>3 DEF Delete

LEMMA GuardedStep ==
  ASSUME Postgres, IInv, [Next]_vars
  PROVE  Guarded'
<1> USE DEF IInv
<1> Scheduler \in Proc /\ Api \subseteq Proc /\ Worker \subseteq Proc
  BY DEF Proc
<1>1. CASE SchedulerStep
  <2>1. CASE BeginPass \/ EndPass \/ \E j \in Scheduled : PickDue(j)
    <3>1. NothingGained
      BY <2>1, ReleaseGains DEF BeginPass, EndPass, PickDue, Go, TypeOK,
                                ProcsOK, NothingGained, Holds
    <3> QED
      BY <2>1, <3>1, QuietStep DEF BeginPass, EndPass, PickDue, rowVars
  <2> QED
    BY <1>1, <2>1, RecoverGuarded, EnqueueGuarded DEF SchedulerStep
<1>2. ASSUME NEW c \in Api, ApiStep(c)
      PROVE  Guarded'
  <2>1. ASSUME NEW kind \in Ops, NEW j \in Job, Request(c, kind, j)
        PROVE  Guarded'
    <3>1. NothingGained
      BY <2>1 DEF Request, Go, TypeOK, ProcsOK, NothingGained, Holds
    <3> QED
      BY <2>1, <3>1, QuietStep DEF Request, rowVars
  <2>2. ASSUME NEW r \in Run, RequestDelete(c, r)
        PROVE  Guarded'
    <3>1. NothingGained
      BY <2>2 DEF RequestDelete, Go, TypeOK, ProcsOK, NothingGained, Holds
    <3> QED
      BY <2>2, <3>1, QuietStep DEF RequestDelete, rowVars
  <2> QED
    BY <1>2, <2>1, <2>2, RecoverGuarded, EnqueueGuarded, ExecuteGuarded,
       DeleteGuarded DEF ApiStep, Handle
<1>3. ASSUME NEW w \in Worker, WorkerStep(w)
      PROVE  Guarded'
  <2>1. CASE Select(w)
    <3>1. NothingGained
      BY <2>1 DEF Select, Go, TypeOK, ProcsOK, NothingGained, Holds
    <3> QED
      BY <2>1, <3>1, QuietStep DEF Select, rowVars
  <2> QED
    BY <1>3, <2>1, ExecuteGuarded DEF WorkerStep
<1>4. CASE Environment
  <2>1. NothingGained
    BY <1>4 DEF Environment, Start, Heartbeat, Lapse, Crash, LeaseLapse, Tick,
                procVars, Go, TypeOK, ProcsOK, NothingGained, Holds
  <2>2. UNCHANGED <<status, owner, created>>
    BY <1>4 DEF Environment, Start, Heartbeat, Lapse, Crash, LeaseLapse, Tick,
                rowVars
  <2> QED
    BY <2>1, <2>2, QuietStep
<1>5. CASE UNCHANGED vars
  BY <1>5, QuietStep DEF vars, rowVars, procVars, NothingGained, Holds
<1> QED
  BY <1>1, <1>2, <1>3, <1>4, <1>5 DEF Next

\* On Postgres no two processes ever execute the same run.
THEOREM OneExecutor ==
  ASSUME Postgres
  PROVE  Spec => []ClaimExclusive
<1>1. Init => IInv
  BY TypeInit, GuardedInit DEF IInv
<1>2. IInv /\ [Next]_vars => IInv'
  BY TypeStep, GuardedStep DEF IInv
<1>3. IInv => ClaimExclusive
  BY DEF IInv, Guarded
<1> QED
  BY <1>1, <1>2, <1>3, PTL DEF Spec

\* On Postgres a run being executed cannot be claimed again, and while its
\* row says "running" it names the executor.
THEOREM ExecutorRecorded ==
  ASSUME Postgres
  PROVE  Spec => []HolderIsRecorded
<1>1. Init => IInv
  BY TypeInit, GuardedInit DEF IInv
<1>2. IInv /\ [Next]_vars => IInv'
  BY TypeStep, GuardedStep DEF IInv
<1>3. IInv => HolderIsRecorded
  BY DEF IInv, Guarded
<1> QED
  BY <1>1, <1>2, <1>3, PTL DEF Spec

\* On Postgres a run that is executed, or about to be failed as stale, was
\* inserted and cannot be claimed any more, and no id is given twice.
THEOREM TakenRunsStayTaken ==
  ASSUME Postgres
  PROVE  Spec => []TakenForGood
<1>1. Init => IInv
  BY TypeInit, GuardedInit DEF IInv
<1>2. IInv /\ [Next]_vars => IInv'
  BY TypeStep, GuardedStep DEF IInv
<1>3. IInv => TakenForGood
  BY DEF IInv, Guarded
<1> QED
  BY <1>1, <1>2, <1>3, PTL DEF Spec

-------------------------------------------------------------------------------
(* The table implements RunLifecycle: every step does one of five things   *)
(* to it, and each of them is a step of RunLifecycle or a stutter.         *)

RowsSame == UNCHANGED <<status, owner, created>>

RowInserted ==
  /\ created' = created + 1 /\ created' \in Run
  /\ status' = [status EXCEPT ![created'] = "queued"]
  /\ owner' = owner

RowTaken ==
  \E p \in Proc : held[p] \in Run /\ Take(p, held[p]) /\ created' = created

RowsSettled ==
  \E S \in SUBSET Run, verdict \in {"completed", "failed"} :
    /\ \A r \in S : status[r] \in {"running", "completed", "failed"}
    /\ status' = [r \in Run |-> IF r \in S THEN verdict ELSE status[r]]
    /\ UNCHANGED <<owner, created>>

RowRemoved ==
  \E r \in Run : /\ status[r] # "absent"
                 /\ status' = [status EXCEPT ![r] = "absent"]
                 /\ owner'  = [owner  EXCEPT ![r] = Nobody]
                 /\ created' = created

RowStep == RowsSame \/ RowInserted \/ RowTaken \/ RowsSettled \/ RowRemoved

LEMMA RecoverRows ==
  ASSUME IInv, NEW p \in Proc, RecoverRead(p) \/ RecoverCommit(p)
  PROVE  RowsSame \/ RowsSettled
<1>1. CASE RecoverRead(p)
  BY <1>1 DEF RecoverRead, rowVars, RowsSame
<1>2. CASE RecoverCommit(p)
  <2>1. CASE UNCHANGED rowVars
    BY <2>1 DEF rowVars, RowsSame
  <2>2. CASE /\ \A r \in snap[p] : status[r] # "absent"
             /\ status' = [r \in Run |-> IF r \in snap[p] THEN "failed"
                                                          ELSE status[r]]
             /\ UNCHANGED <<owner, created>>
    <3>1. /\ snap[p] \subseteq Run
          /\ \A r \in snap[p] : status[r] \in {"running", "completed", "failed"}
      BY <2>2 DEF IInv, TypeOK, RowsOK, ProcsOK, Statuses, Guarded, TakenForGood
    <3> QED
      BY <2>2, <3>1 DEF RowsSettled
  <2> QED
    BY <1>2, <2>1, <2>2 DEF RecoverCommit
<1> QED
  BY <1>1, <1>2

LEMMA EnqueueRows ==
  ASSUME Postgres, IInv, NEW p \in Proc, Check(p) \/ Insert(p)
  PROVE  RowsSame \/ RowInserted
BY DEF IInv, TypeOK, RowsOK, Check, Insert, NextId, rowVars, RowsSame, RowInserted

LEMMA ExecuteRows ==
  ASSUME IInv, NEW p \in Proc, Execute(p)
  PROVE  RowsSame \/ RowTaken \/ RowsSettled
<1> USE DEF IInv
<1>1. CASE Claim(p)
  <2>1. CASE held[p] \in Run
    BY <1>1, <2>1 DEF Claim, RowTaken, RowsSame
  <2>2. CASE held[p] \notin Run
    BY <1>1, <2>2 DEF Claim, Take, RowsSame, TypeOK, RowsOK
  <2> QED
    BY <2>1, <2>2
<1>2. CASE Dispatch(p) \/ EscapeBody(p)
  BY <1>2 DEF Dispatch, EscapeBody, rowVars, RowsSame
<1>3. ASSUME NEW verdict \in {"completed", "failed"}, Finish(p, verdict)
      PROVE  RowsSame \/ RowsSettled
  <2>1. CASE held[p] \in Run /\ status[held[p]] # "absent"
    <3>1. status[held[p]] \in {"running", "completed", "failed"}
      BY <1>3, <2>1 DEF Finish, Holds, Guarded, TakenForGood, TypeOK, RowsOK, Statuses
    <3>2. status' = [r \in Run |-> IF r \in {held[p]} THEN verdict ELSE status[r]]
      BY <1>3, <2>1 DEF Finish, TypeOK, RowsOK
    <3>3. UNCHANGED <<owner, created>>
      BY <1>3 DEF Finish
    <3> QED
      BY <2>1, <3>1, <3>2, <3>3 DEF RowsSettled
  <2>2. CASE ~(held[p] \in Run /\ status[held[p]] # "absent")
    BY <1>3, <2>2 DEF Finish, TypeOK, RowsOK, RowsSame
  <2> QED
    BY <2>1, <2>2
<1> QED
  BY <1>1, <1>2, <1>3 DEF Execute

LEMMA DeleteRows ==
  ASSUME IInv, NEW c \in Proc, NEW force \in BOOLEAN, Delete(c, force)
  PROVE  RowsSame \/ RowRemoved
<1>1. CASE held[c] \in Run
  BY <1>1 DEF Delete, rowVars, RowsSame, RowRemoved
<1>2. CASE held[c] \notin Run
  BY <1>2 DEF Delete, rowVars, RowsSame, IInv, TypeOK, RowsOK
<1> QED
  BY <1>1, <1>2

LEMMA NextRows ==
  ASSUME Postgres, IInv, [Next]_vars
  PROVE  RowStep
<1> USE DEF RowStep
<1> Scheduler \in Proc /\ Api \subseteq Proc /\ Worker \subseteq Proc
  BY DEF Proc
<1>1. CASE SchedulerStep
  <2>1. CASE BeginPass \/ EndPass \/ \E j \in Scheduled : PickDue(j)
    BY <2>1 DEF BeginPass, EndPass, PickDue, rowVars, RowsSame
  <2> QED
    BY <1>1, <2>1, RecoverRows, EnqueueRows DEF SchedulerStep
<1>2. ASSUME NEW c \in Api, ApiStep(c)
      PROVE  RowStep
  <2>1. ASSUME NEW kind \in Ops, NEW j \in Job, Request(c, kind, j)
        PROVE  RowsSame
    BY <2>1 DEF Request, rowVars, RowsSame
  <2>2. ASSUME NEW r \in Run, RequestDelete(c, r)
        PROVE  RowsSame
    BY <2>2 DEF RequestDelete, rowVars, RowsSame
  <2> QED
    BY <1>2, <2>1, <2>2, RecoverRows, EnqueueRows, ExecuteRows, DeleteRows
       DEF ApiStep, Handle
<1>3. ASSUME NEW w \in Worker, WorkerStep(w)
      PROVE  RowStep
  BY <1>3, ExecuteRows DEF WorkerStep, Select, rowVars, RowsSame
<1>4. CASE Environment
  BY <1>4 DEF Environment, Start, Heartbeat, Lapse, Crash, LeaseLapse, Tick,
              rowVars, RowsSame
<1>5. CASE UNCHANGED vars
  BY <1>5 DEF vars, rowVars, RowsSame
<1> QED
  BY <1>1, <1>2, <1>3, <1>4, <1>5 DEF Next

LEMMA LifecycleInit == Init => Lifecycle!Init
BY BoundsAssumption DEF Init, Lifecycle!Init, Phase, Run

LEMMA LifecycleStep ==
  ASSUME IInv, RowStep
  PROVE  [Lifecycle!Next]_(Lifecycle!vars)
<1> DEFINE Phases == [r \in Run |-> Phase(r)]
<1> USE DEF IInv, TypeOK, RowsOK
<1>1. CASE RowsSame
  BY <1>1 DEF RowsSame, Phase, Lifecycle!vars
<1>2. CASE RowInserted
  <2>1. PICK n \in Run : /\ n = created + 1 /\ created' = n
                         /\ status' = [status EXCEPT ![n] = "queued"]
                         /\ owner' = owner
    BY <1>2 DEF RowInserted
  <2>2. Phases[n] = "new"
    BY <2>1 DEF Phase, Run
  <2>3. ASSUME NEW r \in Run
        PROVE  Phase(r)' = IF r = n THEN "queued" ELSE Phase(r)
    <3>1. (r > n <=> r > created /\ r # n) /\ ~(n > n)
      BY <2>1 DEF Run
    <3> QED
      BY <2>1, <3>1 DEF Phase
  <2>4. Phases' = [Phases EXCEPT ![n] = "queued"]
    BY <2>1, <2>3
  <2>5. Lifecycle!Enqueue(n)
    BY <2>1, <2>2, <2>4 DEF Lifecycle!Enqueue
  <2> QED
    BY <2>5 DEF Lifecycle!Next
<1>3. CASE RowTaken
  <2>1. PICK p \in Proc : held[p] \in Run /\ Take(p, held[p]) /\ created' = created
    BY <1>3 DEF RowTaken
  <2>2. Phases[held[p]] = "queued"
    BY <2>1 DEF Take, Phase, Guarded, TakenForGood
  <2>3. Phases' = [Phases EXCEPT ![held[p]] = "taken"]
    BY <2>1, <2>2 DEF Take, Phase
  <2>4. Lifecycle!Take(held[p], Identity(p))
    BY <2>1, <2>2, <2>3 DEF Take, Lifecycle!Take
  <2> QED
    BY <2>1, <2>4, IdentityType DEF Lifecycle!Next
<1>4. CASE RowsSettled
  <2>1. PICK S \in SUBSET Run, verdict \in {"completed", "failed"} :
          /\ \A r \in S : status[r] \in {"running", "completed", "failed"}
          /\ status' = [r \in Run |-> IF r \in S THEN verdict ELSE status[r]]
          /\ UNCHANGED <<owner, created>>
    BY <1>4 DEF RowsSettled
  <2>2. \A r \in S : Phases[r] \in {"taken", "settled"}
    BY <2>1 DEF Phase, Guarded, TakenForGood
  <2>3. Phases' = [r \in Run |-> IF r \in S THEN "settled" ELSE Phases[r]]
    BY <2>1, <2>2 DEF Phase
  <2>4. Lifecycle!Settle(S)
    BY <2>1, <2>2, <2>3 DEF Lifecycle!Settle
  <2> QED
    BY <2>4 DEF Lifecycle!Next
<1>5. CASE RowRemoved
  <2>1. PICK r \in Run : /\ status[r] # "absent"
                         /\ status' = [status EXCEPT ![r] = "absent"]
                         /\ owner'  = [owner  EXCEPT ![r] = Nobody]
                         /\ created' = created
    BY <1>5 DEF RowRemoved
  <2>2. Phases[r] \in {"queued", "taken", "settled"} /\ ~(r > created)
    BY <2>1 DEF Phase, Guarded, TakenForGood
  <2>3. Phases' = [Phases EXCEPT ![r] = "gone"]
    BY <2>1, <2>2 DEF Phase
  <2>4. Lifecycle!Remove(r, Nobody)
    BY <2>1, <2>2, <2>3 DEF Lifecycle!Remove
  <2> QED
    BY <2>4 DEF Lifecycle!Next
<1> QED
  BY <1>1, <1>2, <1>3, <1>4, <1>5 DEF RowStep

\* On Postgres the queue keeps the promise of RunLifecycle: queued once,
\* taken once, settled only after that, no id used twice.
THEOREM QueueImplementsLifecycle ==
  ASSUME Postgres
  PROVE  Spec => ImplementsLifecycle
<1>1. Init => IInv
  BY TypeInit, GuardedInit DEF IInv
<1>2. IInv /\ [Next]_vars => IInv'
  BY TypeStep, GuardedStep DEF IInv
<1>3. IInv /\ [Next]_vars => [Lifecycle!Next]_(Lifecycle!vars)
  BY NextRows, LifecycleStep
<1> QED
  BY <1>1, <1>2, <1>3, LifecycleInit, PTL
     DEF Spec, ImplementsLifecycle, Lifecycle!Spec

-------------------------------------------------------------------------------
(* A job is queued twice only where two processes look at once.            *)

\* Induction over the naturals, as the existence of a least element.
LEMMA LeastOf ==
  ASSUME NEW S \in SUBSET Nat, S # {}
  PROVE  \E m \in S : \A n \in S : m <= n
<1> DEFINE Upto(m) == S \cap (0..m)
           All == {Upto(m) : m \in S}
<1>1. All \subseteq FiniteSubsetsOf(Nat) /\ All # {}
  <2>1. \A m \in S : IsFiniteSet(Upto(m)) /\ Upto(m) \subseteq Nat
    <3> TAKE m \in S
    <3>1. IsFiniteSet(0..m)
      BY FS_Interval
    <3> QED
      BY <3>1, FS_Subset
  <2> QED
    BY <2>1 DEF FiniteSubsetsOf
<1>2. PICK X \in All : \A Y \in All : ~(<<Y, X>> \in StrictSubsetOrdering(Nat))
  <2> HIDE DEF All
  <2> QED
    BY <1>1, FS_StrictSubsetOrderingWellFounded, WFMin
<1>3. PICK m \in S : X = Upto(m)
  BY <1>2
<1>4. ASSUME NEW n \in S, n < m PROVE FALSE
  <2>1. Upto(n) \in All /\ Upto(n) \subseteq Upto(m) /\ Upto(n) # Upto(m)
    BY <1>4
  <2> QED
    BY <1>2, <1>3, <2>1 DEF StrictSubsetOrdering
<1> QED
  BY <1>4

\* Ids that a sequence gave are not above the last one.
IdsGiven == Postgres => \A r \in Run : r > created => status[r] = "absent"

\* The inserted row takes the place of no other: above the largest rowid of
\* SQLite there is none, above the last value of a Postgres sequence none yet.
LEMMA NextIdFree ==
  ASSUME TypeOK, IdsGiven, NextId \in Run
  PROVE  status[NextId] = "absent"
<1>1. CASE Postgres
  BY <1>1 DEF NextId, IdsGiven, TypeOK, RowsOK, Run
<1>2. CASE ~Postgres
  <2> DEFINE Above == {n \in 1..(MaxRuns + 1) : \A r \in Run : status[r] # "absent" => r < n}
  <2>1. MaxRuns + 1 \in Above /\ Above \in SUBSET Nat
    BY BoundsAssumption DEF Run
  <2>2. PICK m \in Above : \A n \in Above : m <= n
    BY <2>1, LeastOf
  <2>3. m = 1 \/ status[m - 1] # "absent"
    <3> SUFFICES ASSUME m # 1, status[m - 1] = "absent"
                 PROVE  FALSE
      OBVIOUS
    <3>1. m - 1 \in Above
      BY <2>2, BoundsAssumption DEF Run
    <3> QED
      BY <2>2, <3>1, BoundsAssumption
  <2>4. \A r \in Run : status[r] # "absent" => r < NextId
    BY <1>2, <2>2, <2>3 DEF NextId
  <2> QED
    BY <2>4 DEF Run
<1> QED
  BY <1>1, <1>2

\* No two processes are between the look of enqueue_job and its insert for
\* one job.
LooksDoNotOverlap ==
  \A p, q \in Proc :
    /\ pc[p] = "insert" /\ pc[q] = "insert"
    /\ want[p] = want[q] /\ want[p] \notin Manual
    => p = q

\* A process about to insert a run found no active one, and there is none yet.
NoneSeenIsNone ==
  \A p \in Proc : pc[p] = "insert" /\ want[p] \notin Manual => ActiveForJob(want[p]) = {}

OnePerJob ==
  \A j \in Job \ Manual : \A q, r \in ActiveForJob(j) : q = r

LookInv == IdsGiven /\ NoneSeenIsNone /\ OnePerJob

\* A step that makes no row active and brings nobody to an insert, except with
\* a look that finds nothing.
Inactive ==
  /\ Postgres => created' = created
  /\ \A r \in Run : status[r] = "absent" => status'[r] = "absent"
  /\ \A r \in Run : Active(r)' => Active(r) /\ jobOf'[r] = jobOf[r]
  /\ \A p \in Proc : pc'[p] = "insert" =>
       \/ pc[p] = "insert" /\ want'[p] = want[p]
       \/ want'[p] \in Manual
       \/ ActiveForJob(want'[p]) = {}

LEMMA InactiveStep ==
  ASSUME TypeOK, LookInv, Inactive
  PROVE  LookInv'
<1> USE DEF LookInv
<1>1. \A j : ActiveForJob(j)' \subseteq ActiveForJob(j)
  BY DEF Inactive, ActiveForJob
<1>2. IdsGiven'
  BY DEF Inactive, IdsGiven, TypeOK, RowsOK
<1>3. NoneSeenIsNone'
  BY <1>1 DEF Inactive, NoneSeenIsNone
<1>4. OnePerJob'
  BY <1>1 DEF OnePerJob
<1> QED
  BY <1>2, <1>3, <1>4

\* Nobody comes to an insert by letting go or by being given a run.
LEMMA ReleaseElsewhere ==
  ASSUME TypeOK, NEW p \in Proc, Release(p)
  PROVE  \A q \in Proc : pc'[q] = "insert" =>
           pc[q] = "insert" /\ want'[q] = want[q] /\ q # p
BY DEF TypeOK, ProcsOK, Release

LEMMA ReturnedElsewhere ==
  ASSUME TypeOK, NEW p \in Proc, NEW r \in Run, Returned(p, r)
  PROVE  \A q \in Proc : pc'[q] = "insert" =>
           pc[q] = "insert" /\ want'[q] = want[q] /\ q # p
<1>1. CASE Release(p)
  BY <1>1, ReleaseElsewhere
<1>2. CASE ~Release(p)
  BY <1>2 DEF Returned, Go, TypeOK, ProcsOK
<1> QED
  BY <1>1, <1>2

LEMMA RecoverInactive ==
  ASSUME TypeOK, NEW p \in Proc, RecoverRead(p) \/ RecoverCommit(p)
  PROVE  Inactive
<1>0. AfterRecovery(p) # "insert"
  BY DEF AfterRecovery
<1>1. CASE RecoverRead(p)
  BY <1>0, <1>1 DEF RecoverRead, Go, rowVars, Inactive, Active, TypeOK, ProcsOK
<1>2. CASE RecoverCommit(p)
  <2>1. CASE Release(p) /\ UNCHANGED rowVars
    BY <2>1, ReleaseElsewhere DEF Inactive, Active, rowVars
  <2>2. CASE /\ \A r \in snap[p] : status[r] # "absent"
             /\ status' = [r \in Run |-> IF r \in snap[p] THEN "failed"
                                                          ELSE status[r]]
             /\ Go(p, AfterRecovery(p))
             /\ UNCHANGED <<jobOf, created, want>>
    BY <1>0, <2>2 DEF Go, Inactive, Active, TypeOK, RowsOK, ProcsOK
  <2> QED
    BY <1>2, <2>1, <2>2 DEF RecoverCommit
<1> QED
  BY <1>1, <1>2

LEMMA ExecuteInactive ==
  ASSUME TypeOK, NEW p \in Proc, Execute(p)
  PROVE  Inactive
<1>1. CASE Claim(p)
  <2>1. CASE Take(p, held[p]) /\ Go(p, "claimed") /\ UNCHANGED want
    BY <1>1, <2>1 DEF Claim, Take, Go, Inactive, Active, TypeOK, RowsOK, ProcsOK
  <2>2. CASE Release(p) /\ UNCHANGED status
    BY <1>1, <2>2, ReleaseElsewhere DEF Claim, Inactive, Active
  <2> QED
    BY <1>1, <2>1, <2>2 DEF Claim
<1>2. CASE Dispatch(p)
  <2>1. CASE Release(p)
    BY <1>2, <2>1, ReleaseElsewhere DEF Dispatch, Inactive, Active
  <2>2. CASE Go(p, "body") /\ UNCHANGED want
    BY <1>2, <2>2 DEF Dispatch, Go, Inactive, Active, TypeOK, ProcsOK
  <2> QED
    BY <1>2, <2>1, <2>2 DEF Dispatch
<1>3. CASE EscapeBody(p)
  BY <1>3, ReleaseElsewhere DEF EscapeBody, Inactive, Active, rowVars
<1>4. ASSUME NEW verdict \in {"completed", "failed"}, Finish(p, verdict)
      PROVE  Inactive
  BY <1>4, ReleaseElsewhere DEF Finish, Inactive, Active, TypeOK, RowsOK
<1> QED
  BY <1>1, <1>2, <1>3, <1>4 DEF Execute

LEMMA DeleteInactive ==
  ASSUME TypeOK, NEW c \in Proc, NEW force \in BOOLEAN, Delete(c, force)
  PROVE  Inactive
<1>1. CASE UNCHANGED rowVars
  BY <1>1, ReleaseElsewhere DEF Delete, Inactive, Active, rowVars
<1>2. CASE /\ status' = [status EXCEPT ![held[c]] = "absent"]
           /\ jobOf' = [jobOf EXCEPT ![held[c]] = NoJob]
           /\ UNCHANGED created
  BY <1>2, ReleaseElsewhere DEF Delete, Inactive, Active, TypeOK, RowsOK
<1> QED
  BY <1>1, <1>2 DEF Delete

LEMMA EnqueueLooks ==
  ASSUME TypeOK, LookInv, LooksDoNotOverlap, NEW p \in Proc,
         Check(p) \/ Insert(p)
  PROVE  LookInv'
<1>1. CASE Check(p)
  <2>1. CASE Existing(p) = {} /\ Go(p, "insert") /\ UNCHANGED want
    <3>1. ActiveForJob(want[p]) = {}
      BY <2>1 DEF Existing
    <3>2. Inactive
      BY <1>1, <2>1, <3>1 DEF Check, Go, Inactive, Active, rowVars, TypeOK, ProcsOK
    <3> QED
      BY <3>2, InactiveStep
  <2>2. ASSUME NEW r \in Existing(p), Returned(p, r)
        PROVE  LookInv'
    <3>1. r \in Run
      BY DEF Existing, InSlot, ActiveTuning, ActiveForJob
    <3>2. Inactive
      BY <1>1, <2>2, <3>1, ReturnedElsewhere DEF Check, Inactive, Active, rowVars
    <3> QED
      BY <3>2, InactiveStep
  <2> QED
    BY <1>1, <2>1, <2>2 DEF Check
<1>2. CASE Insert(p)
  <2>1. CASE Release(p) /\ UNCHANGED rowVars
    BY <2>1, ReleaseElsewhere, InactiveStep DEF Inactive, Active, rowVars
  <2>2. CASE /\ NextId \in Run
             /\ created' = NextId
             /\ status' = [status EXCEPT ![NextId] = "queued"]
             /\ jobOf'  = [jobOf  EXCEPT ![NextId] = want[p]]
             /\ Returned(p, NextId)
    <3> DEFINE new == NextId
    <3>0. new \in Run /\ status[new] = "absent"
      BY <2>2, NextIdFree DEF LookInv
    <3>1. /\ pc[p] = "insert" /\ created' = new
          /\ status' = [status EXCEPT ![new] = "queued"]
          /\ jobOf'  = [jobOf  EXCEPT ![new] = want[p]]
          /\ Postgres => new = created + 1
      BY <1>2, <2>2 DEF Insert, NextId
    <3>2. \A q \in Proc : pc'[q] = "insert" =>
            pc[q] = "insert" /\ want'[q] = want[q] /\ q # p
      BY <2>2, ReturnedElsewhere
    <3> HIDE DEF new
    <3>3. \A r \in Run : r # new => (Active(r)' <=> Active(r)) /\ jobOf'[r] = jobOf[r]
      BY <3>0, <3>1 DEF Active, TypeOK, RowsOK
    <3>4. \A j : ActiveForJob(j)' \subseteq
                   ActiveForJob(j) \cup (IF j = want[p] THEN {new} ELSE {})
      BY <3>0, <3>1, <3>3 DEF ActiveForJob, TypeOK, RowsOK
    <3>5. IdsGiven'
      BY <3>0, <3>1 DEF LookInv, IdsGiven, TypeOK, RowsOK, Run
    <3>6. NoneSeenIsNone'
      BY <3>1, <3>2, <3>4 DEF LookInv, NoneSeenIsNone, LooksDoNotOverlap
    <3>7. OnePerJob'
      BY <3>1, <3>4 DEF LookInv, OnePerJob, NoneSeenIsNone
    <3> QED
      BY <3>5, <3>6, <3>7 DEF LookInv
  <2> QED
    BY <1>2, <2>1, <2>2 DEF Insert
<1> QED
  BY <1>1, <1>2

LEMMA LookInit == Init => LookInv
BY BoundsAssumption
   DEF Init, LookInv, IdsGiven, NoneSeenIsNone, OnePerJob, ActiveForJob, Active, Proc

LEMMA LookStep ==
  ASSUME TypeOK, LookInv, LooksDoNotOverlap, [Next]_vars
  PROVE  LookInv'
<1> Scheduler \in Proc /\ Api \subseteq Proc /\ Worker \subseteq Proc
  BY DEF Proc
<1>1. CASE SchedulerStep
  <2>1. CASE BeginPass \/ \E j \in Scheduled : PickDue(j)
    BY <2>1, InactiveStep
       DEF BeginPass, PickDue, Go, Inactive, Active, rowVars, TypeOK, ProcsOK
  <2>2. CASE EndPass
    BY <2>2, ReleaseElsewhere, InactiveStep DEF EndPass, Inactive, Active, rowVars
  <2> QED
    BY <1>1, <2>1, <2>2, RecoverInactive, EnqueueLooks, InactiveStep DEF SchedulerStep
<1>2. ASSUME NEW c \in Api, ApiStep(c)
      PROVE  LookInv'
  <2>1. ASSUME NEW kind \in Ops, NEW j \in Job, Request(c, kind, j)
        PROVE  Inactive
    <3>1. \A p \in Proc : pc'[p] = "insert" =>
            \/ pc[p] = "insert" /\ want'[p] = want[p]
            \/ want'[p] \in Manual
      BY <2>1 DEF Request, Go, TypeOK, ProcsOK
    <3> QED
      BY <2>1, <3>1 DEF Request, Inactive, Active, rowVars
  <2>2. ASSUME NEW r \in Run, RequestDelete(c, r)
        PROVE  Inactive
    BY <2>2 DEF RequestDelete, Go, Inactive, Active, rowVars, TypeOK, ProcsOK
  <2> QED
    BY <1>2, <2>1, <2>2, RecoverInactive, EnqueueLooks, ExecuteInactive,
       DeleteInactive, InactiveStep DEF ApiStep, Handle
<1>3. ASSUME NEW w \in Worker, WorkerStep(w)
      PROVE  LookInv'
  <2>1. CASE Select(w)
    BY <2>1, InactiveStep DEF Select, Go, Inactive, Active, rowVars, TypeOK, ProcsOK
  <2> QED
    BY <1>3, <2>1, ExecuteInactive, InactiveStep DEF WorkerStep
<1>4. CASE Environment
  <2>1. ASSUME NEW w \in Worker, Start(w) \/ Heartbeat(w) \/ Lapse(w)
        PROVE  Inactive
    BY <2>1 DEF Start, Heartbeat, Lapse, Go, Inactive, Active, rowVars, procVars,
                TypeOK, ProcsOK
  <2>2. ASSUME NEW p \in Proc, Crash(p)
        PROVE  Inactive
    BY <2>2 DEF Crash, Inactive, Active, rowVars, TypeOK, ProcsOK
  <2>3. ASSUME NEW r \in Run, LeaseLapse(r)
        PROVE  Inactive
    BY <2>3 DEF LeaseLapse, Inactive, Active, procVars
  <2>4. CASE Tick
    BY <2>4, InactiveStep DEF Tick, Inactive, Active, rowVars, procVars
  <2> QED
    BY <1>4, <2>1, <2>2, <2>3, <2>4, InactiveStep DEF Environment
<1>5. CASE UNCHANGED vars
  BY <1>5, InactiveStep DEF vars, rowVars, procVars, Inactive, Active
<1> QED
  BY <1>1, <1>2, <1>3, <1>4, <1>5 DEF Next

LEMMA OnePerJobCounts == OnePerJob => OneActivePerJob
<1> SUFFICES ASSUME OnePerJob, NEW j \in Job \ Manual
             PROVE  Cardinality(ActiveForJob(j)) <= 1
  BY DEF OneActivePerJob
<1>1. CASE ActiveForJob(j) = {}
  BY <1>1, FS_EmptySet
<1>2. ASSUME NEW r \in ActiveForJob(j)
      PROVE  Cardinality(ActiveForJob(j)) <= 1
  <2>1. ActiveForJob(j) = {r}
    BY <1>2 DEF OnePerJob
  <2> QED
    BY <2>1, FS_Singleton
<1> QED
  BY <1>1, <1>2

\* enqueue_job looks for an active run and inserts one in two transactions.
\* Whatever crashes, recoveries and deletions come between them, and however
\* ids are given, a job has two active runs only if two processes were between
\* the two for the same job at the same time.
THEOREM OneActiveUnlessLooksOverlap ==
  Spec /\ []LooksDoNotOverlap => []OneActivePerJob
<1> DEFINE I == TypeOK /\ LookInv
<1>1. Init => I
  BY TypeInit, LookInit
<1>2. I /\ LooksDoNotOverlap /\ [Next]_vars => I'
  BY TypeStep, LookStep
<1>3. I => OneActivePerJob
  BY OnePerJobCounts DEF LookInv
<1> HIDE DEF I
<1> QED
  BY <1>1, <1>2, <1>3, PTL DEF Spec

\* Workers enqueue nothing.
WorkersOnlyExecute ==
  \A w \in Worker : pc[w] \in {"off", "dead", "poll", "claim", "claimed", "body"}

LEMMA WorkersStep ==
  ASSUME TypeOK, WorkersOnlyExecute, [Next]_vars
  PROVE  WorkersOnlyExecute'
<1> USE DEF WorkersOnlyExecute, TypeOK, ProcsOK
<1> Scheduler \in Proc /\ Api \subseteq Proc /\ Worker \subseteq Proc
  BY DEF Proc
<1>1. ASSUME NEW p \in Proc \ Worker, \E label \in PCs : Go(p, label)
      PROVE  WorkersOnlyExecute'
  BY <1>1 DEF Go
<1>2. ASSUME NEW p \in Proc \ Worker, Release(p)
      PROVE  WorkersOnlyExecute'
  BY <1>2 DEF Release
<1>3. ASSUME NEW p \in Proc \ Worker, NEW r, Returned(p, r)
      PROVE  WorkersOnlyExecute'
  BY <1>1, <1>2, <1>3 DEF Returned, PCs
<1>4. ASSUME NEW p \in Proc \ Worker,
             RecoverRead(p) \/ RecoverCommit(p) \/ Check(p) \/ Insert(p)
      PROVE  WorkersOnlyExecute'
  BY <1>1, <1>2, <1>3, <1>4, AfterRecoveryType
     DEF RecoverRead, RecoverCommit, Check, Insert, PCs
<1>5. ASSUME NEW p \in Proc, Execute(p)
      PROVE  WorkersOnlyExecute'
  BY <1>5 DEF Execute, Claim, Dispatch, EscapeBody, Finish, Release, Go
<1>6. CASE SchedulerStep
  <2>1. Scheduler \in Proc \ Worker
    BY ProcAssumption
  <2>2. BeginPass \/ EndPass \/ (\E j \in Scheduled : PickDue(j)) => WorkersOnlyExecute'
    BY <1>1, <1>2, <2>1 DEF BeginPass, EndPass, PickDue, PCs
  <2> QED
    BY <1>4, <1>6, <2>1, <2>2 DEF SchedulerStep
<1>7. ASSUME NEW c \in Api, ApiStep(c)
      PROVE  WorkersOnlyExecute'
  <2>1. c \in Proc \ Worker
    BY ProcAssumption
  <2>2. \/ \E kind \in Ops, j \in Job : Request(c, kind, j)
        \/ \E r \in Run : RequestDelete(c, r)
        \/ \E force \in BOOLEAN : Delete(c, force)
        => WorkersOnlyExecute'
    BY <1>1, <1>2, <2>1 DEF Request, RequestDelete, Delete, PCs
  <2> QED
    BY <1>4, <1>5, <1>7, <2>1, <2>2 DEF ApiStep, Handle
<1>8. ASSUME NEW w \in Worker, WorkerStep(w)
      PROVE  WorkersOnlyExecute'
  BY <1>5, <1>8 DEF WorkerStep, Select, Go
<1>9. CASE Environment
  BY <1>9 DEF Environment, Start, Heartbeat, Lapse, Crash, LeaseLapse, Tick,
              procVars, Go
<1>10. CASE UNCHANGED vars
  BY <1>10 DEF vars, procVars
<1> QED
  BY <1>6, <1>7, <1>8, <1>9, <1>10 DEF Next

\* Where the scheduler is the only process that enqueues, no job ever has two
\* active runs, wherever its passes are cut short.
THEOREM OneActiveOfOneEnqueuer ==
  ASSUME Api = {}
  PROVE  Spec => []OneActivePerJob
<1> DEFINE I == TypeOK /\ WorkersOnlyExecute
<1>1. Init => I
  BY TypeInit, ProcAssumption DEF Init, WorkersOnlyExecute, Proc
<1>2. I /\ [Next]_vars => I'
  BY TypeStep, WorkersStep
<1>3. I => LooksDoNotOverlap
  BY DEF WorkersOnlyExecute, LooksDoNotOverlap, Proc
<1> HIDE DEF I
<1> QED
  BY <1>1, <1>2, <1>3, OneActiveUnlessLooksOverlap, PTL DEF Spec

-------------------------------------------------------------------------------
(* The only ways to strand a run.                                          *)

\* The jobs whose exceptions execute_claimed_run does not catch.
Raisers == Raising \cup Tuning

\* A running row is of a raiser's run, or has the executor that its worker_id
\* stands for, or had it, and one without a worker has a lease.
Kept ==
  \A r \in Run : status[r] = "running" =>
    /\ owner[r] = Nobody => lease[r] # "none"
    /\ \/ jobOf[r] \in Raisers
       \/ owner[r] = Nobody
       \/ owner[r] \in Worker /\ (Holds(owner[r], r) \/ pc[owner[r]] = "dead")

\* A step after which running rows still have theirs.
Keeps ==
  /\ \A r \in Run : status'[r] = "running" =>
       \/ /\ status[r] = "running" /\ owner'[r] = owner[r] /\ jobOf'[r] = jobOf[r]
          /\ lease'[r] = "none" => lease[r] = "none"
       \/ /\ lease'[r] # "none"
          /\ \/ owner'[r] = Nobody
             \/ \E w \in Worker : owner'[r] = w /\ Holds(w, r)'
  /\ \A w \in Worker : \A r \in Run :
       Holds(w, r) /\ status'[r] = "running" =>
         Holds(w, r)' \/ pc'[w] = "dead" \/ jobOf'[r] \in Raisers
  /\ \A w \in Worker : pc[w] = "dead" => pc'[w] = "dead"

LEMMA KeepsStep ==
  ASSUME Kept, Keeps
  PROVE  Kept'
BY DEF Kept, Keeps

\* A step of a process that executes nothing, and makes no row running.
LEMMA IdleKeeps ==
  ASSUME TypeOK, NEW p \in Proc, pc[p] \notin {"claimed", "body", "dead"},
         \A q \in Proc \ {p} : pc'[q] = pc[q] /\ held'[q] = held[q],
         \A r \in Run : status'[r] = "running" =>
           /\ status[r] = "running" /\ owner'[r] = owner[r] /\ jobOf'[r] = jobOf[r]
           /\ lease'[r] = lease[r]
  PROVE  Keeps
BY DEF Keeps, Holds, Proc

LEMMA ReleaseOthers ==
  ASSUME TypeOK, NEW p \in Proc, Release(p)
  PROVE  \A q \in Proc \ {p} : pc'[q] = pc[q] /\ held'[q] = held[q]
BY DEF TypeOK, ProcsOK, Release

LEMMA ReturnedOthers ==
  ASSUME TypeOK, NEW p \in Proc, NEW r, Returned(p, r)
  PROVE  \A q \in Proc \ {p} : pc'[q] = pc[q] /\ held'[q] = held[q]
<1>1. CASE Release(p)
  BY <1>1, ReleaseOthers
<1>2. CASE ~Release(p)
  BY <1>2 DEF Returned, Go, TypeOK, ProcsOK
<1> QED
  BY <1>1, <1>2

LEMMA RecoverLeavesKept ==
  ASSUME TypeOK, NEW p \in Proc, RecoverRead(p) \/ RecoverCommit(p)
  PROVE  Keeps
<1>1. pc[p] \in {"recover", "failing"}
  BY DEF RecoverRead, RecoverCommit
<1>2. \A q \in Proc \ {p} : pc'[q] = pc[q] /\ held'[q] = held[q]
  BY ReleaseOthers DEF RecoverRead, RecoverCommit, Go, TypeOK, ProcsOK
<1>3. \A r \in Run : status'[r] = "running" =>
        /\ status[r] = "running" /\ owner'[r] = owner[r] /\ jobOf'[r] = jobOf[r]
        /\ lease'[r] = lease[r]
  BY DEF RecoverRead, RecoverCommit, rowVars
<1> QED
  BY <1>1, <1>2, <1>3, IdleKeeps

LEMMA EnqueueLeavesKept ==
  ASSUME TypeOK, NEW p \in Proc, Check(p) \/ Insert(p)
  PROVE  Keeps
<1>1. pc[p] \in {"check", "insert"}
  BY DEF Check, Insert
<1>2. \A q \in Proc \ {p} : pc'[q] = pc[q] /\ held'[q] = held[q]
  BY ReleaseOthers, ReturnedOthers DEF Check, Insert, Go, TypeOK, ProcsOK
<1>3. \A r \in Run : status'[r] = "running" =>
        /\ status[r] = "running" /\ owner'[r] = owner[r] /\ jobOf'[r] = jobOf[r]
        /\ lease'[r] = lease[r]
  BY DEF Check, Insert, rowVars, TypeOK, RowsOK
<1> QED
  BY <1>1, <1>2, <1>3, IdleKeeps

LEMMA DeleteLeavesKept ==
  ASSUME TypeOK, NEW c \in Proc, NEW force \in BOOLEAN, Delete(c, force)
  PROVE  Keeps
<1>1. pc[c] = "delete"
  BY DEF Delete
<1>2. \A q \in Proc \ {c} : pc'[q] = pc[q] /\ held'[q] = held[q]
  BY ReleaseOthers DEF Delete
<1>3. \A r \in Run : status'[r] = "running" =>
        /\ status[r] = "running" /\ owner'[r] = owner[r] /\ jobOf'[r] = jobOf[r]
        /\ lease'[r] = lease[r]
  <2>1. CASE UNCHANGED rowVars
    BY <2>1 DEF rowVars
  <2>2. CASE /\ status' = [status EXCEPT ![held[c]] = "absent"]
             /\ owner'  = [owner  EXCEPT ![held[c]] = Nobody]
             /\ jobOf'  = [jobOf  EXCEPT ![held[c]] = NoJob]
             /\ lease'  = [lease  EXCEPT ![held[c]] = "none"]
    BY <2>2 DEF TypeOK, RowsOK
  <2> QED
    BY <2>1, <2>2 DEF Delete
<1> QED
  BY <1>1, <1>2, <1>3, IdleKeeps

\* An executor lets go of a run that still says "running" only if it is a
\* raiser's.
LEMMA ExecuteLeavesKept ==
  ASSUME TypeOK, NEW p \in Api \cup Worker, Execute(p)
  PROVE  Keeps
<1> p \in Proc
  BY DEF Proc
<1>1. CASE Claim(p)
  <2>1. pc[p] = "claim" /\ UNCHANGED jobOf
    BY <1>1 DEF Claim
  <2>2. CASE Take(p, held[p]) /\ Go(p, "claimed") /\ UNCHANGED held
    <3>1. \A q \in Proc : \A r \in Run :
            Holds(q, r)' <=> IF q = p THEN r = held[p] ELSE Holds(q, r)
      BY <2>2 DEF Go, Holds, TypeOK, ProcsOK
    <3>2. \A r \in Run : IF r = held[p]
                         THEN owner'[r] = Identity(p) /\ lease'[r] = "held"
                         ELSE /\ status'[r] = status[r] /\ owner'[r] = owner[r]
                              /\ lease'[r] = lease[r]
      BY <2>2 DEF Take, TypeOK, RowsOK
    <3>3. \A w \in Worker : pc[w] = "dead" => pc'[w] = "dead"
      BY <2>1, <2>2 DEF Go, TypeOK, ProcsOK, Proc
    <3>4. \A r \in Run : ~Holds(p, r)
      BY <2>1 DEF Holds
    <3>5. IF p \in Worker THEN Identity(p) = p ELSE Identity(p) = Nobody
      BY DEF Identity
    <3> QED
      BY <2>1, <3>1, <3>2, <3>3, <3>4, <3>5 DEF Keeps, Proc
  <2>3. CASE Release(p) /\ UNCHANGED <<status, owner, lease>>
    BY <2>1, <2>3, ReleaseOthers, IdleKeeps
  <2> QED
    BY <1>1, <2>2, <2>3 DEF Claim
<1>2. ASSUME pc[p] \in {"claimed", "body"}, Release(p), UNCHANGED <<owner, jobOf>>,
             \A r \in Run : status'[r] = "running" =>
               status[r] = "running" /\ lease'[r] = lease[r],
             \A r \in Run : status'[r] = "running" /\ r = held[p] => jobOf[r] \in Raisers
      PROVE  Keeps
  BY <1>2, ReleaseOthers DEF Keeps, Holds, Proc
<1>3. CASE Dispatch(p)
  <2>1. pc[p] = "claimed" /\ UNCHANGED <<status, owner, jobOf, lease>>
    BY <1>3 DEF Dispatch
  <2>2. CASE status[held[p]] = "absent" /\ Release(p)
    BY <1>2, <2>1, <2>2
  <2>3. CASE Conflicts(held[p]) # {} /\ Release(p)
    <3>1. jobOf[held[p]] \in Tuning
      BY <2>3 DEF Conflicts
    <3> QED
      BY <1>2, <2>1, <2>3, <3>1 DEF Raisers
  <2>4. CASE Go(p, "body") /\ UNCHANGED held
    BY <2>1, <2>4 DEF Go, Keeps, Holds, TypeOK, ProcsOK, Proc
  <2> QED
    BY <1>3, <2>2, <2>3, <2>4 DEF Dispatch
<1>4. CASE EscapeBody(p)
  BY <1>2, <1>4 DEF EscapeBody, Raisers, rowVars
<1>5. ASSUME NEW verdict \in {"completed", "failed"}, Finish(p, verdict)
      PROVE  Keeps
  <2>1. pc[p] = "body" /\ Release(p) /\ UNCHANGED <<owner, jobOf>>
    BY <1>5 DEF Finish
  <2>2. \A r \in Run : status'[r] = "running" =>
          status[r] = "running" /\ r # held[p] /\ lease'[r] = lease[r]
    BY <1>5 DEF Finish, TypeOK, RowsOK
  <2> QED
    BY <1>2, <2>1, <2>2
<1> QED
  BY <1>1, <1>3, <1>4, <1>5 DEF Execute

LEMMA KeptStep ==
  ASSUME TypeOK, Kept, [Next]_vars
  PROVE  Kept'
<1> Scheduler \in Proc /\ Api \subseteq Proc /\ Worker \subseteq Proc
  BY DEF Proc
<1> SUFFICES ASSUME Next
             PROVE  Keeps
  <2>1. CASE UNCHANGED vars
    BY <2>1 DEF vars, rowVars, procVars, Kept, Holds
  <2> QED
    BY <2>1, KeepsStep
<1> USE DEF rowVars, procVars
<1>1. CASE SchedulerStep
  <2>1. CASE BeginPass \/ \E j \in Scheduled : PickDue(j)
    BY <2>1, IdleKeeps DEF BeginPass, PickDue, Go, TypeOK, ProcsOK
  <2>2. CASE EndPass
    BY <2>2, ReleaseOthers, IdleKeeps DEF EndPass
  <2> QED
    BY <1>1, <2>1, <2>2, RecoverLeavesKept, EnqueueLeavesKept DEF SchedulerStep
<1>2. ASSUME NEW c \in Api, ApiStep(c)
      PROVE  Keeps
  <2>1. ASSUME NEW kind \in Ops, NEW j \in Job, Request(c, kind, j)
        PROVE  Keeps
    BY <2>1, IdleKeeps DEF Request, Go, TypeOK, ProcsOK
  <2>2. ASSUME NEW r \in Run, RequestDelete(c, r)
        PROVE  Keeps
    <3>1. \A q \in Proc \ {c} : pc'[q] = pc[q] /\ held'[q] = held[q]
      BY <2>2 DEF RequestDelete, Go, TypeOK, ProcsOK
    <3> QED
      BY <2>2, <3>1, IdleKeeps DEF RequestDelete
  <2> QED
    BY <1>2, <2>1, <2>2, RecoverLeavesKept, EnqueueLeavesKept, ExecuteLeavesKept,
       DeleteLeavesKept DEF ApiStep, Handle
<1>3. ASSUME NEW w \in Worker, WorkerStep(w)
      PROVE  Keeps
  <2>1. CASE Select(w)
    <3>1. \A q \in Proc \ {w} : pc'[q] = pc[q] /\ held'[q] = held[q]
      BY <2>1 DEF Select, Go, TypeOK, ProcsOK
    <3> QED
      BY <2>1, <3>1, IdleKeeps DEF Select
  <2> QED
    BY <1>3, <2>1, ExecuteLeavesKept DEF WorkerStep
<1>4. CASE Environment
  <2>1. ASSUME NEW w \in Worker, Start(w)
        PROVE  Keeps
    BY <2>1, IdleKeeps DEF Start, Go, TypeOK, ProcsOK
  <2>2. ASSUME UNCHANGED <<status, owner, jobOf, pc, held>>,
               \A r \in Run : lease'[r] = "none" => lease[r] = "none"
        PROVE  Keeps
    BY <2>2 DEF Keeps, Holds
  <2>3. ASSUME NEW p \in Proc, Crash(p)
        PROVE  Keeps
    <3>1. /\ \A q \in Proc \ {p} : pc'[q] = pc[q] /\ held'[q] = held[q]
          /\ UNCHANGED <<status, owner, jobOf, lease>> /\ pc[p] # "dead"
          /\ p \in Worker => pc'[p] = "dead"
      BY <2>3 DEF Crash, TypeOK, ProcsOK
    <3> QED
      BY <3>1 DEF Keeps, Holds, Proc
  <2>4. ASSUME NEW w \in Worker, Heartbeat(w) \/ Lapse(w)
        PROVE  Keeps
    BY <2>2, <2>4 DEF Heartbeat, Lapse
  <2>5. ASSUME NEW r \in Run, LeaseLapse(r)
        PROVE  Keeps
    BY <2>2, <2>5 DEF LeaseLapse, TypeOK, RowsOK
  <2>6. CASE Tick
    BY <2>2, <2>6 DEF Tick
  <2> QED
    BY <1>4, <2>1, <2>2, <2>3, <2>4, <2>5, <2>6 DEF Environment
<1> QED
  BY <1>1, <1>2, <1>3, <1>4 DEF Next

\* In every interleaving of claims, recoveries, late heartbeats, outlived
\* leases, deletions and crashes, on either database and however many processes
\* enqueue, a run is left "running" with neither an executor nor a recovery to
\* come only by an exception that execute_claimed_run does not catch.
THEOREM OnlyRaisersStrandRuns == Spec => []OnlyRaisersStrand
<1> DEFINE I == TypeOK /\ Kept
<1>1. Init => I
  BY TypeInit DEF Init, Kept
<1>2. I /\ [Next]_vars => I'
  BY TypeStep, KeptStep
<1>3. I => OnlyRaisersStrand
  <2> SUFFICES ASSUME I, NEW r \in Run, status[r] = "running",
                      jobOf[r] \notin Raising \cup Tuning
               PROVE  Attended(r) \/ Recoverable(r)
    BY DEF OnlyRaisersStrand
  <2>1. CASE owner[r] \in Worker /\ Holds(owner[r], r)
    BY <2>1 DEF Attended, Identity, Proc
  <2> QED
    BY <2>1 DEF Kept, Raisers, Recoverable
<1> HIDE DEF I
<1> QED
  BY <1>1, <1>2, <1>3, PTL DEF Spec

-------------------------------------------------------------------------------
(* What RunQueue guarantees while the clocks behave: every live worker's   *)
(* heartbeat is in time and no execution outlives its lease.               *)

ClocksBehave == Postgres /\ ~MayLapse /\ ~LeasesLapse

TInv == IInv /\ Timely

\* The parts of Timely: workers, rows about to be failed, rows in execution.
WorkersTimely ==
  /\ \A r \in Run : /\ lease[r] # "expired"
                    /\ owner[r] \in Worker => pc[owner[r]] # "off"
  /\ \A w \in Worker : pc[w] \notin {"off", "dead"} => w \in fresh

StaleAreDead ==
  \A p \in Proc : \A r \in snap[p] :
    \/ status[r] = "absent"
    \/ /\ status[r] \in {"running", "failed"}
       /\ owner[r] \in Worker /\ pc[owner[r]] = "dead"

HeldAreRunning ==
  /\ \A p \in Proc : \A r \in Run : Holds(p, r) =>
       \/ status[r] = "running" /\ owner[r] = Identity(p)
       \/ status[r] = "absent" /\ pc[p] = "claimed"
  /\ \A p \in Proc : /\ pc[p] \in {"claim", "claimed", "body"} => held[p] \in Run
                     /\ pc[p] = "body" => logged[held[p]]

LEMMA TimelyParts ==
  /\ Timely  <=> WorkersTimely  /\ StaleAreDead  /\ HeldAreRunning
  /\ Timely' <=> WorkersTimely' /\ StaleAreDead' /\ HeldAreRunning'
BY DEF Timely, WorkersTimely, StaleAreDead, HeldAreRunning

LEMMA TimelyInit == Init => Timely
BY ProcAssumption DEF Init, Timely, Holds, Proc

\* A process at work moves on without touching a row: what Timely says stays
\* true as long as it gains no run and no stale row, and a worker's
\* heartbeat is not lost.
LEMMA MoveOn ==
  ASSUME TInv, NEW p \in Proc, pc[p] \notin {"off", "dead"},
         NEW label \in PCs \ {"off", "dead", "claimed", "body"}, Go(p, label),
         label = "claim" => held'[p] \in Run,
         fresh \subseteq fresh',
         \A q \in Proc : snap'[q] \subseteq snap[q],
         \A q \in Proc \ {p} : held'[q] = held[q],
         UNCHANGED <<status, owner, lease>>,
         \A r \in Run : logged[r] => logged'[r]
  PROVE  Timely'
<1> USE DEF TInv, IInv, TypeOK
<1> Worker \subseteq Proc
  BY DEF Proc
<1>1. pc' = [pc EXCEPT ![p] = label] /\ label \notin {"off", "dead", "claimed", "body"}
  BY DEF Go
<1>2. WorkersTimely'
  BY <1>1, TimelyParts DEF RowsOK, ProcsOK, WorkersTimely
<1>3. StaleAreDead'
  BY <1>1, TimelyParts DEF RowsOK, ProcsOK, StaleAreDead
<1>4. HeldAreRunning'
  BY <1>1, TimelyParts DEF RowsOK, ProcsOK, HeldAreRunning, Holds
<1> QED
  BY <1>2, <1>3, <1>4, TimelyParts

LEMMA LetGo ==
  ASSUME TInv, NEW p \in Proc, pc[p] \notin {"off", "dead"}, Release(p),
         UNCHANGED <<status, owner, lease>>,
         \A r \in Run : logged[r] => logged'[r]
  PROVE  Timely'
<1> DEFINE label == IF p \in Worker THEN "poll" ELSE "idle"
<1>1. Go(p, label) /\ label \in PCs \ {"off", "dead", "claimed", "body"}
      /\ label # "claim"
  BY DEF Release, Go, PCs
<1>2. /\ fresh \subseteq fresh'
      /\ \A q \in Proc : snap'[q] \subseteq snap[q]
      /\ \A q \in Proc \ {p} : held'[q] = held[q]
  BY DEF Release, TInv, IInv, TypeOK, ProcsOK
<1> HIDE DEF label
<1> QED
  BY <1>1, <1>2, MoveOn

LEMMA ReturnedTimely ==
  ASSUME TInv, NEW p \in Proc, pc[p] \notin {"off", "dead"}, NEW r \in Run,
         Returned(p, r), UNCHANGED <<status, owner, lease, logged>>
  PROVE  Timely'
<1>1. CASE Release(p)
  BY <1>1, LetGo
<1>2. CASE ~Release(p)
  <2>1. PICK label \in {"claim", "pass"} : Go(p, label)
    BY <1>2 DEF Returned
  <2>2. /\ label = "claim" => held'[p] \in Run
        /\ fresh' = fresh /\ snap' = snap
        /\ \A q \in Proc \ {p} : held'[q] = held[q]
    BY <1>2, <2>1 DEF Returned, Go, TInv, IInv, TypeOK, ProcsOK
  <2> QED
    BY <2>1, <2>2, MoveOn DEF PCs
<1> QED
  BY <1>1, <1>2

LEMMA RecoverTimely ==
  ASSUME ClocksBehave, TInv, NEW p \in Proc, RecoverRead(p) \/ RecoverCommit(p)
  PROVE  Timely'
<1> USE DEF TInv, IInv, TypeOK
<1>0. AfterRecovery(p) \in PCs \ {"off", "dead", "claim", "claimed", "body"}
  BY DEF AfterRecovery, PCs
<1>1. CASE RecoverRead(p)
  <2>1. PICK label \in PCs \ {"off", "dead", "claim", "claimed", "body"} : Go(p, label)
    BY <1>0, <1>1 DEF RecoverRead, PCs
  <2>2. pc' = [pc EXCEPT ![p] = label] /\ pc[p] = "recover"
    BY <1>1, <2>1 DEF RecoverRead, Go
  <2>3. UNCHANGED <<status, owner, lease, logged, fresh, held>>
    BY <1>1 DEF RecoverRead, rowVars
  <2>4. WorkersTimely'
    BY <2>1, <2>2, <2>3, TimelyParts DEF RowsOK, ProcsOK, WorkersTimely, Proc
  <2>5. \A r \in Stale : /\ status[r] = "running"
                         /\ owner[r] \in Worker /\ pc[owner[r]] = "dead"
    BY TimelyParts DEF Stale, RowsOK, ProcsOK, WorkersTimely
  <2>6. StaleAreDead'
    BY <1>1, <2>2, <2>3, <2>5, TimelyParts
       DEF RecoverRead, RowsOK, ProcsOK, StaleAreDead, Proc
  <2>7. HeldAreRunning'
    BY <2>1, <2>2, <2>3, TimelyParts DEF ProcsOK, HeldAreRunning, Holds
  <2> QED
    BY <2>4, <2>6, <2>7, TimelyParts
<1>2. CASE RecoverCommit(p)
  <2>1. CASE Release(p) /\ UNCHANGED rowVars
    BY <1>2, <2>1, LetGo DEF RecoverCommit, rowVars
  <2>2. CASE /\ \A r \in snap[p] : status[r] # "absent"
             /\ status' = [r \in Run |-> IF r \in snap[p] THEN "failed"
                                                          ELSE status[r]]
             /\ snap' = [snap EXCEPT ![p] = {}]
             /\ Go(p, AfterRecovery(p))
             /\ UNCHANGED <<owner, lease, logged, fresh, held>>
    <3>1. pc[p] = "failing" /\ pc' = [pc EXCEPT ![p] = AfterRecovery(p)]
      BY <1>2, <2>2 DEF RecoverCommit, Go
    <3>2. WorkersTimely'
      BY <1>0, <2>2, <3>1, TimelyParts DEF RowsOK, ProcsOK, WorkersTimely, Proc
    <3>3. StaleAreDead'
      BY <1>0, <2>2, <3>1, TimelyParts DEF RowsOK, ProcsOK, StaleAreDead, Proc
    \* A run in execution is not among them: its executor would be dead.
    <3>4. \A q \in Proc : \A r \in Run : Holds(q, r) => r \notin snap[p]
      BY <2>2, TimelyParts, ProcAssumption
         DEF StaleAreDead, HeldAreRunning, Holds, Identity
    <3>5. HeldAreRunning'
      BY <1>0, <2>2, <3>1, <3>4, TimelyParts
         DEF RowsOK, ProcsOK, HeldAreRunning, Holds
    <3> QED
      BY <3>2, <3>3, <3>5, TimelyParts
  <2> QED
    BY <1>2, <2>1, <2>2 DEF RecoverCommit
<1> QED
  BY <1>1, <1>2

LEMMA EnqueueTimely ==
  ASSUME ClocksBehave, TInv, NEW p \in Proc, Check(p) \/ Insert(p)
  PROVE  Timely'
<1> USE DEF TInv, IInv, TypeOK
<1>1. CASE Check(p)
  <2>1. pc[p] = "check" /\ UNCHANGED <<status, owner, lease, logged>>
    BY <1>1 DEF Check, rowVars
  <2>2. Existing(p) \subseteq Run
    BY DEF Existing, InSlot, ActiveTuning, ActiveForJob
  <2>3. CASE Go(p, "insert") /\ UNCHANGED <<fresh, held, snap>>
    BY <2>1, <2>3, MoveOn DEF PCs
  <2>4. ASSUME NEW r \in Existing(p), Returned(p, r)
        PROVE  Timely'
    BY <2>1, <2>2, <2>4, ReturnedTimely
  <2> QED
    BY <1>1, <2>3, <2>4 DEF Check
<1>2. CASE Insert(p)
  <2>1. CASE Release(p) /\ UNCHANGED rowVars
    BY <1>2, <2>1, LetGo DEF Insert, rowVars
  <2>2. CASE /\ NextId \in Run
             /\ created' = NextId
             /\ status' = [status EXCEPT ![NextId] = "queued"]
             /\ Returned(p, NextId)
             /\ UNCHANGED <<owner, lease, logged>>
    <3>1. NextId = created + 1 /\ created \in Nat
      BY DEF ClocksBehave, NextId, RowsOK
    \* Nobody holds the new id or is about to fail it.
    <3>2. \A q \in Proc : /\ snap'[q] \subseteq snap[q] /\ NextId \notin snap[q]
                          /\ ~Holds(q, NextId)
                          /\ \A r \in Run : Holds(q, r)' => Holds(q, r)
      BY <2>2, <3>1, ReturnedGains DEF NothingGained, Guarded, TakenForGood, Run
    <3>3. /\ pc[p] = "insert"
          /\ \E label \in {"claim", "pass", "poll", "idle"} :
               /\ pc' = [pc EXCEPT ![p] = label]
               /\ label = "claim" => held'[p] = NextId
          /\ fresh \subseteq fresh'
          /\ \A q \in Proc \ {p} : held'[q] = held[q]
      BY <1>2, <2>2 DEF Insert, Returned, Release, Go, ProcsOK
    <3>4. WorkersTimely'
      BY <2>2, <3>3, TimelyParts DEF RowsOK, ProcsOK, WorkersTimely, Proc
    <3>5. \A q \in Proc : \A r \in snap[q] : status'[r] = status[r]
      BY <2>2, <3>2 DEF RowsOK
    <3>6. StaleAreDead'
      BY <2>2, <3>2, <3>3, <3>5, TimelyParts
         DEF RowsOK, ProcsOK, StaleAreDead, Proc
    <3>7. HeldAreRunning'
      BY <2>2, <3>2, <3>3, TimelyParts DEF RowsOK, ProcsOK, HeldAreRunning, Holds
    <3> QED
      BY <3>4, <3>6, <3>7, TimelyParts
  <2> QED
    BY <1>2, <2>1, <2>2 DEF Insert
<1> QED
  BY <1>1, <1>2

LEMMA ClaimTimely ==
  ASSUME TInv, NEW p \in Proc, Claim(p)
  PROVE  Timely'
<1> USE DEF TInv, IInv, TypeOK
<1>1. pc[p] = "claim" /\ held[p] \in Run
  BY TimelyParts DEF Claim, HeldAreRunning
<1>2. CASE Take(p, held[p]) /\ Go(p, "claimed") /\ UNCHANGED <<fresh, held, snap>>
  <2>1. pc' = [pc EXCEPT ![p] = "claimed"] /\ UNCHANGED logged
    BY <1>2 DEF Go, Claim
  <2>2. /\ status[held[p]] = "queued" /\ status' = [status EXCEPT ![held[p]] = "running"]
        /\ owner' = [owner EXCEPT ![held[p]] = Identity(p)]
        /\ lease' = [lease EXCEPT ![held[p]] = "held"]
    BY <1>2 DEF Take
  <2>3. \A q \in Proc : held[p] \notin snap[q] /\ ~Holds(q, held[p])
    BY <1>1, <2>2 DEF Guarded, TakenForGood
  <2>4. WorkersTimely'
    BY <1>1, <1>2, <2>1, <2>2, TimelyParts, ProcAssumption
       DEF RowsOK, ProcsOK, WorkersTimely, Identity, Proc
  <2>5. StaleAreDead'
    BY <1>1, <1>2, <2>1, <2>2, <2>3, TimelyParts
       DEF RowsOK, ProcsOK, StaleAreDead, Proc
  <2>6. HeldAreRunning'
    BY <1>1, <1>2, <2>1, <2>2, <2>3, TimelyParts
       DEF RowsOK, ProcsOK, HeldAreRunning, Holds
  <2> QED
    BY <2>4, <2>5, <2>6, TimelyParts
<1>3. CASE Release(p) /\ UNCHANGED <<status, owner, lease, logged>>
  BY <1>1, <1>3, LetGo
<1> QED
  BY <1>2, <1>3 DEF Claim

LEMMA DispatchTimely ==
  ASSUME TInv, NEW p \in Proc, Dispatch(p)
  PROVE  Timely'
<1> USE DEF TInv, IInv, TypeOK
<1>1. /\ pc[p] = "claimed" /\ held[p] \in Run
      /\ UNCHANGED <<status, owner, lease>>
  BY TimelyParts DEF Dispatch, HeldAreRunning
<1>2. \A r \in Run : logged[r] => logged'[r]
  BY DEF Dispatch, RowsOK
<1>3. CASE Release(p)
  BY <1>1, <1>2, <1>3, LetGo
<1>4. CASE /\ status[held[p]] # "absent"
           /\ logged' = [logged EXCEPT ![held[p]] = TRUE]
           /\ Go(p, "body")
           /\ fresh' = fresh \cup ({p} \cap Worker)
           /\ UNCHANGED <<held, snap>>
  <2>1. pc' = [pc EXCEPT ![p] = "body"]
    BY <1>4 DEF Go
  <2>2. WorkersTimely'
    BY <1>1, <1>4, <2>1, TimelyParts DEF RowsOK, ProcsOK, WorkersTimely, Proc
  <2>3. StaleAreDead'
    BY <1>1, <1>4, <2>1, TimelyParts DEF RowsOK, ProcsOK, StaleAreDead, Proc
  <2>4. HeldAreRunning'
    BY <1>1, <1>2, <1>4, <2>1, TimelyParts
       DEF RowsOK, ProcsOK, HeldAreRunning, Holds
  <2> QED
    BY <2>2, <2>3, <2>4, TimelyParts
<1> QED
  BY <1>3, <1>4 DEF Dispatch

\* The executor of a run is alive, so nobody is about to fail the run.
LEMMA FinishTimely ==
  ASSUME TInv, NEW p \in Proc, NEW verdict \in {"completed", "failed"},
         Finish(p, verdict)
  PROVE  Timely'
<1> USE DEF TInv, IInv, TypeOK
<1>1. /\ pc[p] = "body" /\ held[p] \in Run /\ Holds(p, held[p])
      /\ status[held[p]] = "running" /\ owner[held[p]] = Identity(p)
  BY TimelyParts DEF Finish, HeldAreRunning, Holds
<1>2. /\ status' = [status EXCEPT ![held[p]] = verdict]
      /\ lease'  = [lease EXCEPT ![held[p]] = "none"]
      /\ UNCHANGED <<owner, logged>>
  BY <1>1 DEF Finish
<1>3. \A q \in Proc : held[p] \notin snap[q]
  BY <1>1, TimelyParts, ProcAssumption DEF StaleAreDead, Identity
<1>4. \A q \in Proc \ {p} : ~Holds(q, held[p])
  BY <1>1 DEF Guarded, ClaimExclusive
<1>5. /\ \E label \in {"poll", "idle"} : pc' = [pc EXCEPT ![p] = label]
      /\ fresh \subseteq fresh'
      /\ snap' = [snap EXCEPT ![p] = {}]
      /\ held' = [held EXCEPT ![p] = NoRun]
  BY DEF Finish, Release
<1>6. WorkersTimely'
  BY <1>1, <1>2, <1>5, TimelyParts DEF RowsOK, ProcsOK, WorkersTimely, Proc
<1>7. StaleAreDead'
  BY <1>1, <1>2, <1>3, <1>5, TimelyParts DEF RowsOK, ProcsOK, StaleAreDead, Proc
<1>8. HeldAreRunning'
  BY <1>1, <1>2, <1>4, <1>5, TimelyParts DEF RowsOK, ProcsOK, HeldAreRunning, Holds
<1> QED
  BY <1>6, <1>7, <1>8, TimelyParts

\* A run in its body is referred to by other tables and so not deleted.
LEMMA DeleteTimely ==
  ASSUME ClocksBehave, TInv, NEW c \in Proc, NEW force \in BOOLEAN,
         Delete(c, force)
  PROVE  Timely'
<1> USE DEF TInv, IInv, TypeOK
<1>1. pc[c] = "delete" /\ Release(c)
  BY DEF Delete
<1>2. CASE UNCHANGED rowVars
  BY <1>1, <1>2, LetGo DEF rowVars
<1>3. CASE /\ ~logged[held[c]]
           /\ status' = [status EXCEPT ![held[c]] = "absent"]
           /\ owner'  = [owner  EXCEPT ![held[c]] = Nobody]
           /\ lease'  = [lease  EXCEPT ![held[c]] = "none"]
           /\ logged' = [logged EXCEPT ![held[c]] = FALSE]
  <2>1. /\ \E label \in {"poll", "idle"} : pc' = [pc EXCEPT ![c] = label]
        /\ fresh \subseteq fresh'
        /\ snap' = [snap EXCEPT ![c] = {}]
        /\ held' = [held EXCEPT ![c] = NoRun]
    BY <1>1 DEF Release
  <2>2. WorkersTimely'
    BY <1>1, <1>3, <2>1, TimelyParts, ProcAssumption
       DEF RowsOK, ProcsOK, WorkersTimely, Proc
  <2>3. StaleAreDead'
    BY <1>1, <1>3, <2>1, TimelyParts DEF RowsOK, ProcsOK, StaleAreDead, Proc
  <2>4. HeldAreRunning'
    BY <1>1, <1>3, <2>1, TimelyParts DEF RowsOK, ProcsOK, HeldAreRunning, Holds
  <2> QED
    BY <2>2, <2>3, <2>4, TimelyParts
<1> QED
  BY <1>2, <1>3 DEF Delete, ClocksBehave

LEMMA EnvironmentTimely ==
  ASSUME ClocksBehave, TInv, Environment
  PROVE  Timely'
<1> USE DEF TInv, IInv, TypeOK
<1>1. UNCHANGED <<status, owner, logged>> /\ UNCHANGED lease
  BY DEF Environment, Start, Heartbeat, Lapse, Crash, LeaseLapse, Tick, rowVars,
         ClocksBehave
<1>2. ASSUME NEW w \in Worker, Start(w)
      PROVE  Timely'
  <2>1. /\ pc[w] = "off" /\ pc' = [pc EXCEPT ![w] = "poll"]
        /\ fresh' = fresh \cup {w} /\ UNCHANGED <<held, snap>>
    BY <1>2 DEF Start, Go
  <2>2. WorkersTimely'
    BY <1>1, <2>1, TimelyParts DEF RowsOK, ProcsOK, WorkersTimely, Proc
  <2>3. StaleAreDead'
    BY <1>1, <2>1, TimelyParts DEF RowsOK, ProcsOK, StaleAreDead, Proc
  <2>4. HeldAreRunning'
    BY <1>1, <2>1, TimelyParts DEF RowsOK, ProcsOK, HeldAreRunning, Holds, Proc
  <2> QED
    BY <2>2, <2>3, <2>4, TimelyParts
<1>3. ASSUME NEW w \in Worker, Heartbeat(w) \/ Lapse(w)
      PROVE  Timely'
  BY <1>1, <1>3 DEF ClocksBehave, Heartbeat, Lapse, procVars, Timely, Holds
<1>4. ASSUME NEW p \in Proc, Crash(p)
      PROVE  Timely'
  <2>1. /\ pc[p] \notin {"off", "dead"}
        /\ \E label \in {"dead", "idle"} : pc' = [pc EXCEPT ![p] = label]
        /\ held' = [held EXCEPT ![p] = NoRun]
        /\ snap' = [snap EXCEPT ![p] = {}]
        /\ UNCHANGED fresh
    BY <1>4 DEF Crash
  <2>2. WorkersTimely'
    BY <1>1, <2>1, TimelyParts DEF RowsOK, ProcsOK, WorkersTimely, Proc
  <2>3. StaleAreDead'
    BY <1>1, <2>1, TimelyParts DEF RowsOK, ProcsOK, StaleAreDead, Proc
  <2>4. HeldAreRunning'
    BY <1>1, <2>1, TimelyParts DEF RowsOK, ProcsOK, HeldAreRunning, Holds, Proc
  <2> QED
    BY <2>2, <2>3, <2>4, TimelyParts
<1>5. CASE Tick \/ \E r \in Run : LeaseLapse(r)
  BY <1>1, <1>5 DEF Tick, LeaseLapse, procVars, Timely, Holds
<1> QED
  BY <1>2, <1>3, <1>4, <1>5 DEF Environment

LEMMA TimelyStep ==
  ASSUME ClocksBehave, TInv, [Next]_vars
  PROVE  Timely'
<1> USE DEF TInv, IInv, TypeOK
<1> Scheduler \in Proc /\ Api \subseteq Proc /\ Worker \subseteq Proc
  BY DEF Proc
<1>1. ASSUME NEW p \in Proc, Execute(p)
      PROVE  Timely'
  <2>1. CASE EscapeBody(p)
    BY <2>1, LetGo DEF EscapeBody, rowVars
  <2> QED
    BY <1>1, <2>1, ClaimTimely, DispatchTimely, FinishTimely DEF Execute
<1>2. CASE SchedulerStep
  <2>1. CASE EndPass
    BY <2>1, LetGo DEF EndPass, rowVars
  <2>2. CASE BeginPass \/ \E j \in Scheduled : PickDue(j)
    <3>1. /\ pc[Scheduler] \notin {"off", "dead"} /\ Go(Scheduler, "recover")
          /\ UNCHANGED <<status, owner, lease, logged, fresh, held, snap>>
      BY <2>2 DEF BeginPass, PickDue, rowVars
    <3> QED
      BY <3>1, MoveOn DEF PCs
  <2> QED
    BY <1>2, <2>1, <2>2, RecoverTimely, EnqueueTimely DEF SchedulerStep
<1>3. ASSUME NEW c \in Api, ApiStep(c)
      PROVE  Timely'
  <2>1. ASSUME NEW kind \in Ops, NEW j \in Job, Request(c, kind, j)
        PROVE  Timely'
    <3>1. PICK label \in {"insert", "recover"} : Go(c, label)
      BY <2>1 DEF Request
    <3>2. /\ pc[c] \notin {"off", "dead"}
          /\ UNCHANGED <<status, owner, lease, logged, fresh, held, snap>>
      BY <2>1 DEF Request, rowVars
    <3> QED
      BY <3>1, <3>2, MoveOn DEF PCs
  <2>2. ASSUME NEW r \in Run, RequestDelete(c, r)
        PROVE  Timely'
    <3>1. /\ pc[c] \notin {"off", "dead"} /\ Go(c, "recover")
          /\ held' = [held EXCEPT ![c] = r]
          /\ UNCHANGED <<status, owner, lease, logged, fresh, snap>>
      BY <2>2 DEF RequestDelete, rowVars
    <3>2. \A q \in Proc \ {c} : held'[q] = held[q]
      BY <3>1 DEF ProcsOK
    <3> QED
      BY <3>1, <3>2, MoveOn DEF PCs
  <2> QED
    BY <1>1, <1>3, <2>1, <2>2, RecoverTimely, EnqueueTimely, DeleteTimely
       DEF ApiStep, Handle
<1>4. ASSUME NEW w \in Worker, WorkerStep(w)
      PROVE  Timely'
  <2>1. CASE Select(w)
    <3>1. /\ pc[w] \notin {"off", "dead"} /\ Go(w, "claim")
          /\ held'[w] \in Run
          /\ \A q \in Proc \ {w} : held'[q] = held[q]
          /\ UNCHANGED <<status, owner, lease, logged, fresh, snap>>
      BY <2>1 DEF Select, rowVars, ProcsOK
    <3> QED
      BY <3>1, MoveOn DEF PCs
  <2> QED
    BY <1>1, <1>4, <2>1 DEF WorkerStep
<1>5. CASE UNCHANGED vars
  BY <1>5 DEF vars, rowVars, procVars, Timely, Holds
<1> QED
  BY <1>2, <1>3, <1>4, <1>5, EnvironmentTimely DEF Next

\* On Postgres, with heartbeats in time and no lease outlived, the run of a
\* live executor is never about to be failed and stays "running".
THEOREM TimelyHolds ==
  ASSUME ClocksBehave
  PROVE  Spec => [](IInv /\ Timely)
<1>1. Init => TInv
  BY TypeInit, GuardedInit, TimelyInit DEF TInv, IInv
<1>2. TInv /\ [Next]_vars => TInv'
  BY TypeStep, GuardedStep, TimelyStep DEF TInv, IInv, ClocksBehave
<1> QED
  BY <1>1, <1>2, PTL DEF Spec, TInv

-------------------------------------------------------------------------------
(* Verdicts.                                                               *)

VerdictsKept ==
  \A r \in Run : status[r] \in {"completed", "failed"}
                   => status'[r] \in {status[r], "absent"}

LEMMA EnqueueKeeps ==
  ASSUME Postgres, IInv, NEW p \in Proc, Check(p) \/ Insert(p)
  PROVE  VerdictsKept
<1>1. CASE RowsSame
  BY <1>1 DEF RowsSame, VerdictsKept
<1>2. CASE RowInserted
  BY <1>2 DEF RowInserted, VerdictsKept, IInv, TypeOK, RowsOK, Guarded,
              TakenForGood, Run
<1> QED
  BY <1>1, <1>2, EnqueueRows

LEMMA RecoverKeeps ==
  ASSUME TInv, NEW p \in Proc, RecoverRead(p) \/ RecoverCommit(p)
  PROVE  VerdictsKept
<1>1. \A r \in snap[p] : status[r] \notin {"queued", "completed"}
  BY TimelyParts DEF TInv, StaleAreDead
<1>2. \A r \in Run : \/ status'[r] = status[r]
                     \/ r \in snap[p] /\ status'[r] = "failed"
  <2>1. CASE UNCHANGED rowVars
    BY <2>1 DEF rowVars
  <2>2. CASE status' = [r \in Run |-> IF r \in snap[p] THEN "failed" ELSE status[r]]
    BY <2>2
  <2> QED
    BY <2>1, <2>2 DEF RecoverRead, RecoverCommit
<1> QED
  BY <1>1, <1>2 DEF VerdictsKept

LEMMA ExecuteKeeps ==
  ASSUME TInv, NEW p \in Proc, Execute(p)
  PROVE  VerdictsKept
<1> USE DEF TInv, IInv, TypeOK
<1>1. CASE Claim(p)
  BY <1>1 DEF Claim, Take, VerdictsKept, RowsOK
<1>2. CASE Dispatch(p) \/ EscapeBody(p)
  BY <1>2 DEF Dispatch, EscapeBody, rowVars, VerdictsKept
<1>3. ASSUME NEW verdict \in {"completed", "failed"}, Finish(p, verdict)
      PROVE  VerdictsKept
  <2>1. status[held[p]] = "running"
    BY <1>3, TimelyParts DEF Finish, HeldAreRunning, Holds
  <2> QED
    BY <1>3, <2>1 DEF Finish, VerdictsKept, RowsOK
<1> QED
  BY <1>1, <1>2, <1>3 DEF Execute

LEMMA VerdictsStep ==
  ASSUME ClocksBehave, TInv, [Next]_vars
  PROVE  VerdictsKept
<1> Scheduler \in Proc /\ Api \subseteq Proc /\ Worker \subseteq Proc
  BY DEF Proc
<1>1. CASE UNCHANGED status
  BY <1>1 DEF VerdictsKept
<1>2. ASSUME NEW c \in Api, NEW force \in BOOLEAN, Delete(c, force)
      PROVE  VerdictsKept
  BY <1>2 DEF Delete, rowVars, VerdictsKept, TInv, IInv, TypeOK, RowsOK
<1>3. CASE SchedulerStep
  <2>1. CASE BeginPass \/ EndPass \/ \E j \in Scheduled : PickDue(j)
    BY <1>1, <2>1 DEF BeginPass, EndPass, PickDue, rowVars
  <2> QED
    BY <1>3, <2>1, RecoverKeeps, EnqueueKeeps
       DEF SchedulerStep, ClocksBehave, TInv
<1>4. ASSUME NEW c \in Api, ApiStep(c)
      PROVE  VerdictsKept
  <2>1. CASE \/ \E kind \in Ops, j \in Job : Request(c, kind, j)
             \/ \E r \in Run : RequestDelete(c, r)
    BY <1>1, <2>1 DEF Request, RequestDelete, rowVars
  <2> QED
    BY <1>2, <1>4, <2>1, RecoverKeeps, EnqueueKeeps, ExecuteKeeps
       DEF ApiStep, Handle, ClocksBehave, TInv
<1>5. ASSUME NEW w \in Worker, WorkerStep(w)
      PROVE  VerdictsKept
  BY <1>1, <1>5, ExecuteKeeps DEF WorkerStep, Select, rowVars
<1>6. CASE Environment \/ UNCHANGED vars
  BY <1>1, <1>6 DEF Environment, Start, Heartbeat, Lapse, Crash, LeaseLapse,
                    Tick, vars, rowVars
<1> QED
  BY <1>3, <1>4, <1>5, <1>6 DEF Next

\* On Postgres, with heartbeats in time and no lease outlived, a run that has
\* ended keeps its verdict until it is deleted, whoever crashes and whatever
\* recovery was under way when the run ended.
THEOREM VerdictsAreFinal ==
  ASSUME ClocksBehave
  PROVE  Spec => VerdictIsFinal
<1>1. TInv /\ [Next]_vars => [VerdictsKept]_vars
  BY VerdictsStep
<1> QED
  BY <1>1, TimelyHolds, PTL DEF Spec, TInv, VerdictIsFinal, VerdictsKept

-------------------------------------------------------------------------------
(* Tuning runs.                                                            *)

\* Only Dispatch lets a process into a body.
LEMMA BodiesStep ==
  ASSUME TInv, [Next]_vars
  PROVE  \/ \A q \in Proc : pc'[q] = "body" => pc[q] = "body" /\ held'[q] = held[q]
         \/ \E p \in Proc : /\ Dispatch(p)
                            /\ Conflicts(held[p]) = {}
                            /\ \A q \in Proc \ {p} : /\ pc'[q] = pc[q]
                                                     /\ held'[q] = held[q]
                            /\ held'[p] = held[p]
<1> DEFINE NoneEnters ==
      \A q \in Proc : pc'[q] = "body" => pc[q] = "body" /\ held'[q] = held[q]
<1> USE DEF TInv, IInv, TypeOK, ProcsOK
<1> Scheduler \in Proc /\ Api \subseteq Proc /\ Worker \subseteq Proc
  BY DEF Proc
<1>1. ASSUME NEW p \in Proc, Release(p)
      PROVE  NoneEnters
  BY <1>1 DEF Release
<1>2. ASSUME NEW p \in Proc, NEW label, Go(p, label), label # "body",
             \A q \in Proc \ {p} : held'[q] = held[q]
      PROVE  NoneEnters
  BY <1>2 DEF Go
<1>3. ASSUME NEW p \in Proc, RecoverRead(p) \/ RecoverCommit(p)
      PROVE  NoneEnters
  <2>1. AfterRecovery(p) # "body"
    BY DEF AfterRecovery
  <2> QED
    BY <1>1, <1>2, <1>3, <2>1 DEF RecoverRead, RecoverCommit
<1>4. ASSUME NEW p \in Proc, Check(p) \/ Insert(p)
      PROVE  NoneEnters
  <2>1. ASSUME NEW r, Returned(p, r)
        PROVE  NoneEnters
    BY <1>1, <1>2, <2>1 DEF Returned
  <2> QED
    BY <1>1, <1>2, <1>4, <2>1 DEF Check, Insert
<1>5. ASSUME NEW p \in Proc, Execute(p), ~Dispatch(p)
      PROVE  NoneEnters
  BY <1>1, <1>2, <1>5 DEF Execute, Claim, EscapeBody, Finish
<1>6. ASSUME NEW p \in Proc, Dispatch(p)
      PROVE  \/ NoneEnters
             \/ /\ Conflicts(held[p]) = {}
                /\ \A q \in Proc \ {p} : pc'[q] = pc[q] /\ held'[q] = held[q]
                /\ held'[p] = held[p]
  <2>1. CASE Release(p)
    BY <1>1, <2>1
  <2>2. CASE ~Release(p)
    BY <1>6, <2>2 DEF Dispatch, Go
  <2> QED
    BY <2>1, <2>2
<1>7. CASE SchedulerStep
  BY <1>1, <1>2, <1>3, <1>4, <1>7
     DEF SchedulerStep, BeginPass, EndPass, PickDue
<1>8. ASSUME NEW c \in Api, ApiStep(c), ~Dispatch(c)
      PROVE  NoneEnters
  <2>1. ASSUME NEW kind \in Ops, NEW j \in Job, Request(c, kind, j)
        PROVE  NoneEnters
    BY <1>2, <2>1 DEF Request
  <2>2. ASSUME NEW r \in Run, RequestDelete(c, r)
        PROVE  NoneEnters
    BY <1>2, <2>2 DEF RequestDelete
  <2>3. ASSUME NEW force \in BOOLEAN, Delete(c, force)
        PROVE  NoneEnters
    BY <1>1, <2>3 DEF Delete
  <2> QED
    BY <1>3, <1>4, <1>5, <1>8, <2>1, <2>2, <2>3 DEF ApiStep, Handle
<1>9. ASSUME NEW w \in Worker, WorkerStep(w), ~Dispatch(w)
      PROVE  NoneEnters
  BY <1>2, <1>5, <1>9 DEF WorkerStep, Select
<1>10. CASE Environment \/ UNCHANGED vars
  BY <1>10 DEF Environment, Start, Heartbeat, Lapse, Crash, LeaseLapse, Tick,
               Go, vars, procVars
<1> QED
  BY <1>6, <1>7, <1>8, <1>9, <1>10 DEF Next

\* The job of an inserted run does not change while the run is in its body.
LEMMA JobStays ==
  ASSUME ClocksBehave, TInv, [Next]_vars, NEW q \in Proc, pc[q] = "body"
  PROVE  jobOf'[held[q]] = jobOf[held[q]]
<1> USE DEF TInv, IInv, TypeOK, RowsOK
<1> Scheduler \in Proc /\ Api \subseteq Proc /\ Worker \subseteq Proc
  BY DEF Proc
<1>1. held[q] \in Run /\ held[q] <= created /\ logged[held[q]]
  BY TimelyParts DEF HeldAreRunning, Guarded, TakenForGood, Holds
<1>2. CASE UNCHANGED jobOf
  BY <1>2
<1>3. ASSUME NEW p \in Proc, Check(p) \/ Insert(p)
      PROVE  jobOf'[held[q]] = jobOf[held[q]]
  <2>1. CASE NextId \in Run /\ jobOf' = [jobOf EXCEPT ![NextId] = want[p]]
    <3>1. NextId # held[q]
      BY <1>1 DEF NextId, ClocksBehave, Run
    <3> QED
      BY <1>1, <2>1, <3>1
  <2> QED
    BY <1>3, <2>1 DEF Check, Insert, rowVars
<1>4. ASSUME NEW c \in Api, NEW force \in BOOLEAN, Delete(c, force)
      PROVE  jobOf'[held[q]] = jobOf[held[q]]
  BY <1>1, <1>4 DEF Delete, ClocksBehave, rowVars
<1>5. ASSUME NEW p \in Proc, Execute(p) \/ RecoverRead(p) \/ RecoverCommit(p)
      PROVE  UNCHANGED jobOf
  BY <1>5 DEF Execute, Claim, Dispatch, EscapeBody, Finish, RecoverRead,
              RecoverCommit, rowVars
<1>6. CASE SchedulerStep
  BY <1>2, <1>3, <1>5, <1>6
     DEF SchedulerStep, BeginPass, EndPass, PickDue, rowVars
<1>7. ASSUME NEW c \in Api, ApiStep(c)
      PROVE  jobOf'[held[q]] = jobOf[held[q]]
  BY <1>2, <1>3, <1>4, <1>5, <1>7
     DEF ApiStep, Handle, Request, RequestDelete, rowVars
<1>8. ASSUME NEW w \in Worker, WorkerStep(w)
      PROVE  jobOf'[held[q]] = jobOf[held[q]]
  BY <1>2, <1>5, <1>8 DEF WorkerStep, Select, rowVars
<1>9. CASE Environment \/ UNCHANGED vars
  BY <1>2, <1>9 DEF Environment, Start, Heartbeat, Lapse, Crash, LeaseLapse,
                    Tick, vars, rowVars
<1> QED
  BY <1>6, <1>7, <1>8, <1>9 DEF Next

LEMMA TuningStep ==
  ASSUME ClocksBehave, TInv, TuningSerial, [Next]_vars
  PROVE  TuningSerial'
<1> DEFINE Tunes(q) == pc[q] = "body" /\ jobOf[held[q]] \in Tuning
<1>1. TuningSerial <=> \A p, q \in Proc : Tunes(p) /\ Tunes(q) => p = q
  BY DEF TuningSerial
<1>2. TuningSerial' <=> \A p, q \in Proc : Tunes(p)' /\ Tunes(q)' => p = q
  BY DEF TuningSerial
<1>3. ASSUME NEW q \in Proc, pc[q] = "body", held'[q] = held[q], Tunes(q)'
      PROVE  Tunes(q)
  BY <1>3, JobStays
<1>4. CASE \A q \in Proc : pc'[q] = "body" => pc[q] = "body" /\ held'[q] = held[q]
  BY <1>1, <1>2, <1>3, <1>4
<1>5. ASSUME NEW p \in Proc, Dispatch(p), Conflicts(held[p]) = {},
             \A q \in Proc \ {p} : pc'[q] = pc[q] /\ held'[q] = held[q],
             held'[p] = held[p]
      PROVE  TuningSerial'
  \* No other body tunes: its row would be a conflict.
  <2>1. Holds(p, held[p]) /\ held[p] \in Run /\ UNCHANGED jobOf
    BY <1>5, TimelyParts DEF Dispatch, Holds, TInv, HeldAreRunning
  <2>2. ASSUME NEW q \in Proc \ {p}, Tunes(q), jobOf[held[p]] \in Tuning
        PROVE  FALSE
    <3>1. Holds(q, held[q]) /\ held[q] \in Run /\ status[held[q]] = "running"
      BY <2>2, TimelyParts DEF Holds, TInv, HeldAreRunning
    <3>2. held[q] # held[p]
      BY <2>1, <3>1 DEF TInv, IInv, Guarded, ClaimExclusive
    <3>3. held[q] \in Conflicts(held[p])
      BY <2>2, <3>1, <3>2 DEF Conflicts, ActiveTuning, Active
    <3> QED
      BY <1>5, <3>3
  <2>3. \A q \in Proc \ {p} : Tunes(q)' => Tunes(q)
    BY <1>5, <2>1
  <2>4. Tunes(p)' => jobOf[held[p]] \in Tuning
    BY <1>5, <2>1
  <2> QED
    BY <1>1, <1>2, <2>2, <2>3, <2>4
<1> QED
  BY <1>4, <1>5, BodiesStep

\* On Postgres, with heartbeats in time and no lease outlived, at most one
\* tuning run executes its body, however many were enqueued and claimed.
THEOREM TuningIsSerial ==
  ASSUME ClocksBehave
  PROVE  Spec => []TuningSerial
<1>1. Init => TuningSerial
  BY DEF Init, TuningSerial
<1>2. TInv /\ TuningSerial /\ [Next]_vars => TuningSerial'
  BY TuningStep
<1> QED
  BY <1>1, <1>2, TimelyHolds, PTL DEF Spec, TInv
=============================================================================
