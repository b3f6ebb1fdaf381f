---------------------------- MODULE TuningWorkflow ----------------------------
(***************************************************************************)
(* One tuning experiment: from a pool of candidate configurations to a     *)
(* paper promotion.                                                        *)
(*                                                                         *)
(*   services/tuning_workflow.py          the operations and the stages    *)
(*   services/historical_replay.py        a replay batch is made and       *)
(*                                        enqueued slice by slice          *)
(*   repositories/historical_replay.py    the batch's own status           *)
(*                                                                         *)
(* An operation that starts replays commits every batch and every slice it *)
(* enqueues and only then the experiment's metadata; one that fails or     *)
(* dies before leaves batches behind whose names, fixed by experiment and  *)
(* candidate, are taken for good.  Operations come one at a time from the  *)
(* API process; the replay workers go on meanwhile, and a slice whose      *)
(* worker has died may wait for good.  Every answer of the service counts  *)
(* the slices anew, so the statuses kept in the metadata are functions of  *)
(* the slices and of the batch's own row, which the workers' counts write  *)
(* and may leave behind (ReplayBatch).                                     *)
(*                                                                         *)
(* The experiment is set up, audited and has a seeded pool; discovery jobs,*)
(* manual candidates and replays bound from elsewhere are left out.        *)
(***************************************************************************)
EXTENDS Naturals, Sequences, SequencesExt

CONSTANTS
  Cand,         \* the candidates of the pool
  Light,        \* those validated from the frozen inputs of the baseline
  PoolOrder,    \* the candidates in the order of the pool, no more of them than
                \* a shortlist may have
  ReplayDays, HoldoutDays,   \* days of the two windows
  NoCand,
  MaxRequests,  \* bound: operations asked for by hand, but for the approval
  Faults        \* bound: operations that die, slices that are stranded, fail or
                \* are degraded

ASSUME TuningAssumption ==
  /\ Light \subseteq Cand /\ NoCand \notin Cand
  /\ PoolOrder \in Seq(Cand) /\ IsInjective(PoolOrder)
  /\ ReplayDays \in Nat \ {0} /\ HoldoutDays \in Nat \ {0}
  /\ MaxRequests \in Nat /\ Faults \in Nat

Baseline == [kind |-> "baseline", cand |-> NoCand]
ReplayOf(c) == [kind |-> "candidate", cand |-> c]
HoldoutBase(c) == [kind |-> "holdout_baseline", cand |-> c]
HoldoutOf(c) == [kind |-> "holdout", cand |-> c]
Batch == {Baseline} \cup
  UNION {{ReplayOf(c), HoldoutBase(c), HoldoutOf(c)} : c \in Cand}
Days(b) == IF b.kind \in {"baseline", "candidate"} THEN 1..ReplayDays ELSE 1..HoldoutDays

VARIABLES
  slices,    \* the slices of each batch; none before it is created
  warned,    \* batches whose own row says: completed with warnings
  frozen,    \* the baseline has left records to be copied
  meta,      \* the experiment's metadata
  op,        \* the operation that has begun and not recorded its result
  asked,     \* requests made by hand, and faults
  early      \* candidates copied from a baseline that was not complete

tuningVars == <<slices, warned, frozen, meta, op, asked, early>>
replays == <<slices, warned, frozen>>

Ended == {"completed", "degraded", "failed"}
Unmade == << >>
NoOp == [does |-> "nothing", cand |-> NoCand, todo |-> << >>]
NoMeta == [shortlist |-> << >>, rejected |-> {}, baseline |-> FALSE, validated |-> {},
           holdout |-> NoCand, verdict |-> "none", proposal |-> "none", promotion |-> "none"]

----------------------------------------------------------------------------
(* What the metadata says of the replays.                                  *)

Has(b, status) == \E i \in DOMAIN slices[b] : slices[b][i] = status
Waits(b) == Has(b, "planned") \/ Has(b, "queued") \/ Has(b, "stranded")
Done(b) == slices[b] # Unmade /\ \A i \in DOMAIN slices[b] : slices[b][i] = "completed"
\* "queued" stands for planned and running, too: all who ask take them alike.
\* Where slices are degraded and no others wait or failed, the batch's own row
\* is believed, also one that was left behind.
BatchStatus(b) ==
  CASE Has(b, "failed") -> "failed"
    [] ~Has(b, "failed") /\ Waits(b) -> "queued"
    [] Done(b) -> "completed"
    [] OTHER -> IF b \in warned THEN "completed_with_warnings" ELSE "queued"

\* Several batches are complete when all are; a status that is none of these
\* leaves what was shown before, which is queued.
\* Mutant of AsyncStatus: one completed batch makes the validation complete.
AsyncStatusOfAny(statuses) ==
  CASE "failed" \in statuses -> "failed"
    [] "failed" \notin statuses /\ "completed" \in statuses -> "complete"
    [] OTHER -> "queued"
AsyncStatus(statuses) ==
  CASE "failed" \in statuses -> "failed"
    [] statuses = {"completed"} -> "complete"
    [] OTHER -> "queued"

\* A validation from frozen inputs was completed when it was made.
ValidationStatus ==
  AsyncStatus({IF c \in Light THEN "completed" ELSE BatchStatus(ReplayOf(c)) : c \in meta.validated})
HoldoutStatus ==
  AsyncStatus({BatchStatus(HoldoutBase(meta.holdout)), BatchStatus(HoldoutOf(meta.holdout))})
\* A holdout's progress covers the status that was recorded by hand.
StabilityStatus == IF meta.holdout # NoCand THEN HoldoutStatus ELSE meta.verdict

Stage ==
  CASE meta.shortlist = << >> -> "shortlist_needed"
    [] meta.shortlist # << >> /\ ~meta.baseline -> "baseline_needed"
    [] OTHER ->
  CASE BatchStatus(Baseline) = "queued" -> "baseline_replay_running"
    [] BatchStatus(Baseline) = "failed" -> "baseline_replay_failed"
    [] OTHER ->
  CASE meta.validated = {} -> "candidate_replay_needed"
    [] meta.validated # {} /\ ValidationStatus = "queued" -> "candidate_replay_running"
    [] meta.validated # {} /\ ValidationStatus = "failed" -> "candidate_replay_failed"
    [] OTHER ->
  CASE meta.verdict = "none" -> "stability_validation_needed"
    [] meta.verdict # "none" /\ StabilityStatus = "queued" -> "stability_validation_running"
    [] meta.verdict # "none" /\ StabilityStatus = "failed" -> "stability_validation_failed"
    [] OTHER -> IF meta.proposal = "none" THEN "promotion_proposal_needed" ELSE "proposed"

----------------------------------------------------------------------------
(* Operations that commit once.                                            *)

Free == op = NoOp

\* A new pool has no rejected candidates.
GenerateCandidatePool ==
  /\ meta' = [meta EXCEPT !.rejected = {}]
  /\ UNCHANGED <<replays, op, early>>

\* The list of the candidates in S in the order of the pool.
Listings == UNION {[1..n -> Cand] : n \in 0..Len(PoolOrder)}
Position(c) == CHOOSE i \in DOMAIN PoolOrder : PoolOrder[i] = c
Lists(list, S) ==
  /\ ToSet(list) = S
  /\ \A i, j \in DOMAIN list : i < j => Position(list[i]) < Position(list[j])

RejectCandidate(c) ==
  /\ \E list \in Listings :
       /\ Lists(list, ToSet(meta.shortlist) \ {c})
       /\ meta' = [meta EXCEPT !.rejected = @ \cup {c}, !.shortlist = list]
  /\ UNCHANGED <<replays, op, early>>

\* A shortlisted candidate is no longer rejected.
UpdateShortlist(list) ==
  /\ meta' = [meta EXCEPT !.shortlist = list, !.rejected = @ \ ToSet(list)]
  /\ UNCHANGED <<replays, op, early>>

RecordStability(c, verdict) ==
  /\ c \in meta.validated
  /\ meta' = [meta EXCEPT !.verdict = verdict]
  /\ UNCHANGED <<replays, op, early>>

Proposal == IF meta.baseline /\ meta.validated # {} /\ meta.verdict = "pass"
            THEN "recommended" ELSE "blocked"
CreateProposal(c) ==
  /\ c \in ToSet(meta.shortlist)
  /\ meta' = [meta EXCEPT !.proposal = Proposal]
  /\ UNCHANGED <<replays, op, early>>

ExecutePromotion ==
  /\ meta.proposal = "recommended"
  /\ meta' = [meta EXCEPT !.promotion = "paper"]
  /\ UNCHANGED <<replays, op, early>>

Rollback ==
  /\ meta.promotion = "paper"
  /\ meta' = [meta EXCEPT !.promotion = "rolled_back"]
  /\ UNCHANGED <<replays, op, early>>

----------------------------------------------------------------------------
(* Operations that start replays.  The steps they have to take:            *)

\* "make" creates a batch and then enqueues it.
Create(b) == [step |-> "create", batch |-> b]
Make(b) == [step |-> "make", batch |-> b]
Enqueue(b) == [step |-> "enqueue", batch |-> b]
Copy(c) == [step |-> "copy", batch |-> ReplayOf(c)]
Write == [step |-> "write", batch |-> Baseline]

BaselineSteps == <<Make(Baseline), Write>>
\* Mutant of HoldoutSteps: the baseline of the holdout is not enqueued.
HoldoutStepsHalf(c) == <<Create(HoldoutBase(c)), Create(HoldoutOf(c)),
                         Enqueue(HoldoutOf(c)), Write>>
HoldoutSteps(c) == <<Create(HoldoutBase(c)), Create(HoldoutOf(c)),
                     Enqueue(HoldoutBase(c)), Enqueue(HoldoutOf(c)), Write>>
Replays(list) ==
  [i \in DOMAIN list |->
    IF list[i] \in Light THEN Copy(list[i]) ELSE Make(ReplayOf(list[i]))]
\* Mutant of CandidateSteps: the metadata is written before the batches.
CandidateStepsWritten(list) == <<Write>> \o Replays(list)
CandidateSteps(list) == Replays(list) \o <<Write>>

Start(does, c, todo) ==
  /\ op' = [does |-> does, cand |-> c, todo |-> todo]
  /\ UNCHANGED <<replays, meta, early>>

CreateBaseline == Start("baseline", NoCand, BaselineSteps)
CreateHoldout(c) == Start("holdout", c, HoldoutSteps(c))
CreateCandidates ==
  /\ meta.baseline /\ meta.shortlist # << >>
  /\ Start("candidates", NoCand, CandidateSteps(meta.shortlist))

Todo == Head(op.todo)
StepDone == op' = IF Len(op.todo) = 1 THEN NoOp ELSE [op EXCEPT !.todo = Tail(@)]
Fails == op' = NoOp

\* A name that is taken ends the operation.
CreateBatch ==
  /\ ~Free /\ Todo.step \in {"create", "make"}
  /\ \/ /\ slices[Todo.batch] = Unmade
        /\ slices' = [slices EXCEPT ![Todo.batch] = [i \in Days(Todo.batch) |-> "planned"]]
        /\ IF Todo.step = "make" THEN op' = [op EXCEPT !.todo[1] = Enqueue(Todo.batch)]
           ELSE StepDone
     \/ slices[Todo.batch] # Unmade /\ Fails /\ UNCHANGED slices
  /\ UNCHANGED <<warned, frozen, meta, asked, early>>

\* One commit for each slice, in their order.
EnqueueSlice ==
  /\ ~Free /\ Todo.step = "enqueue"
  /\ LET waiting == {i \in DOMAIN slices[Todo.batch] : slices[Todo.batch][i] = "planned"} IN
       \/ /\ waiting = {} /\ StepDone /\ UNCHANGED slices
       \/ \E i \in waiting :
            /\ \A j \in waiting : i <= j
            /\ slices' = [slices EXCEPT ![Todo.batch][i] = "queued"]
            /\ UNCHANGED op
  /\ UNCHANGED <<warned, frozen, meta, asked, early>>

\* The baseline's records so far are copied; without any the operation fails,
\* also if all slices have completed, none with a plan.
CopyBaseline ==
  /\ ~Free /\ Todo.step = "copy"
  /\ \/ /\ frozen
        /\ early' = IF Done(Baseline) THEN early \ {Todo.batch.cand}
                    ELSE early \cup {Todo.batch.cand}
        /\ StepDone
     \/ ~frozen /\ Fails /\ UNCHANGED early
  /\ UNCHANGED <<replays, meta, asked>>

Fault == asked.faults < Faults /\ asked' = [asked EXCEPT !.faults = @ + 1]

\* What the operation read of the metadata when it began is what it writes:
\* no other operation has come between.
WriteMetadata ==
  /\ ~Free /\ Todo.step = "write"
  /\ meta' = CASE op.does = "baseline" -> [meta EXCEPT !.baseline = TRUE]
               [] op.does = "holdout" -> [meta EXCEPT !.holdout = op.cand, !.verdict = "started"]
               [] OTHER -> [meta EXCEPT !.validated = ToSet(meta.shortlist)]
  /\ StepDone
  /\ UNCHANGED <<replays, asked, early>>

OperationStep == CreateBatch \/ EnqueueSlice \/ CopyBaseline \/ WriteMetadata

OperationDies ==
  /\ ~Free /\ Fault
  /\ op' = NoOp
  /\ UNCHANGED <<replays, meta, early>>

----------------------------------------------------------------------------
(* Who acts.                                                               *)

\* Shortlists are asked for in the order of the pool, too.
AskedFor == {<< >>, PoolOrder} \cup {<<c>> : c \in Cand}
ByHand ==
  /\ Free /\ asked.requests < MaxRequests
  /\ asked' = [asked EXCEPT !.requests = @ + 1]
  /\ \/ GenerateCandidatePool \/ CreateBaseline \/ CreateCandidates
     \/ \E list \in AskedFor : UpdateShortlist(list)
     \/ \E c \in Cand : RejectCandidate(c) \/ CreateProposal(c) \/ CreateHoldout(c)
     \/ \E c \in Cand, v \in {"pass", "warning"} : RecordStability(c, v)

Approve == Free /\ (ExecutePromotion \/ Rollback) /\ UNCHANGED asked

Eligible == ToSet(PoolOrder) \ meta.rejected

\* What the autonomous run does at the stage it finds.
Autonomous ==
  /\ Free
  /\ \/ /\ Stage = "shortlist_needed" /\ Eligible # {}
        /\ \E list \in Listings : Lists(list, Eligible) /\ UpdateShortlist(list)
     \/ Stage = "baseline_needed" /\ CreateBaseline
     \/ Stage = "candidate_replay_needed" /\ CreateCandidates
     \/ Stage = "stability_validation_needed" /\ CreateHoldout(Head(meta.shortlist))
     \/ Stage = "promotion_proposal_needed" /\ CreateProposal(Head(meta.shortlist))
  /\ UNCHANGED asked

\* What a slice's run leaves to be copied: for plans, records, whatever came of it
\* later.
LeavesRecords(b) == frozen' \in IF b = Baseline THEN {frozen, TRUE} ELSE {frozen}

\* A replay worker ends a slice.  The count after the last end writes the batch's
\* row, unless an older count of another worker is written over it.
SliceEnds(b) ==
  /\ \E i \in DOMAIN slices[b] : \E end \in Ended :
       /\ slices[b][i] = "queued"
       /\ slices' = [slices EXCEPT ![b][i] = end]
       /\ \/ UNCHANGED warned
          \/ /\ \A j \in DOMAIN slices[b] : slices'[b][j] \in Ended
             /\ \E j \in DOMAIN slices[b] : slices'[b][j] # "completed"
             /\ warned' = warned \cup {b}
       /\ IF end = "completed" THEN UNCHANGED asked ELSE Fault
  /\ LeavesRecords(b)
  /\ UNCHANGED <<meta, op, early>>

\* A worker dies with a slice that nobody takes up again: it is shown as queued or
\* running for good.
SliceStranded(b) ==
  /\ \E i \in DOMAIN slices[b] :
       slices[b][i] = "queued" /\ slices' = [slices EXCEPT ![b][i] = "stranded"]
  /\ Fault
  /\ LeavesRecords(b)
  /\ UNCHANGED <<warned, meta, op, early>>

TuningInit ==
  /\ slices = [b \in Batch |-> Unmade] /\ warned = {} /\ frozen = FALSE
  /\ meta = NoMeta
  /\ op = NoOp
  /\ asked = [requests |-> 0, faults |-> 0]
  /\ early = {}

TuningNext ==
  \/ ByHand \/ Approve \/ Autonomous \/ OperationStep \/ OperationDies
  \/ \E b \in Batch : SliceEnds(b) \/ SliceStranded(b)

\* The autonomous run is asked for again and again, and the workers that live work.
TuningFairness ==
  /\ WF_tuningVars(Autonomous) /\ WF_tuningVars(OperationStep)
  /\ WF_tuningVars(\E b \in Batch : SliceEnds(b))

TuningSpec == TuningInit /\ [][TuningNext]_tuningVars /\ TuningFairness

----------------------------------------------------------------------------
Recorded ==
  {b \in Batch : \/ b = Baseline /\ meta.baseline
                 \/ b.kind = "candidate" /\ b.cand \in meta.validated \ Light
                 \/ b.kind \in {"holdout", "holdout_baseline"} /\ b.cand = meta.holdout}

\* A replay that the experiment's metadata names was made with all its slices
\* and every slice has been enqueued, wherever operations failed or died: what
\* is shown as queued is waited for (create_baseline_replay_batch,
\* create_candidate_replay_batches, create_holdout_replay_batches).
RecordedIsQueued == \A b \in Recorded : slices[b] # Unmade /\ ~Has(b, "planned")

Beyond == {"stability_validation_needed", "stability_validation_running",
           "stability_validation_failed", "promotion_proposal_needed", "proposed"}

\* Past candidate replay, every replayed candidate has completed all days of
\* the window, and one from frozen inputs is compared over all days of the
\* baseline, but for a degraded baseline or a copy that was made too early
\* (_sync_replay_summaries, _aggregate_async_status, _lifecycle).
CompleteIsComplete ==
  Free /\ Stage \in Beyond =>
    \A c \in meta.validated :
      IF c \in Light THEN c \in early \/ Done(Baseline) ELSE Done(ReplayOf(c))

\* What stops an experiment for good: a slice that failed or is stranded; one that
\* is degraded, but for the baseline's if the baseline's row tells so; nothing to be
\* copied for a candidate that is to be; a batch that no metadata names and whose
\* name is taken; no candidate left.
Trouble ==
  \/ \E b \in Batch : \/ Has(b, "failed") \/ Has(b, "stranded")
                      \/ Has(b, "degraded") /\ (b # Baseline \/ b \notin warned)
  \/ ToSet(meta.shortlist) \cap Light # {} /\ meta.baseline /\ ~frozen
  \/ Free /\ \E b \in Batch \ Recorded : slices[b] # Unmade
  \/ Eligible = {}

\* The autonomous run, asked for again and again, brings an experiment to a proposal,
\* or there is trouble that it cannot mend (run_autonomous_until_wait).
AutonomousProposes ==
  []<>(meta.proposal # "none" \/ Trouble)
=============================================================================
