---------------------------- MODULE ServiceProofs ----------------------------
(***************************************************************************)
(* Theorems about Schedule, for any length of the day, any cron expression *)
(* and any change of the clock, and about TuningWorkflow, for any pool,    *)
(* any windows, any requests and any deaths.                               *)
(***************************************************************************)
EXTENDS Schedule, TuningWorkflow, WellFoundedInduction, FiniteSetTheorems, TLAPS

-----------------------------------------------------------------------------
(* The minutes at which a job is due.                                      *)

\* Induction over the naturals, as the existence of a least element.
LEMMA LeastOf ==
  ASSUME NEW S \in SUBSET Nat, S # {}
  PROVE  \E m \in S : \A n \in S : m <= n
<1> DEFINE Upto(m) == S \cap (0..m)
           All == {Upto(m) : m \in S}
<1>1. All \subseteq FiniteSubsetsOf(Nat) /\ All # {}
  <2>1. \A m \in S : IsFiniteSet(Upto(m)) /\ Upto(m) \subseteq Nat
    <3> TAKE m \in S
    <3>1. IsFiniteSet(0..m)
      BY FS_Interval
    <3> QED
      BY <3>1, FS_Subset
  <2> QED
    BY <2>1 DEF FiniteSubsetsOf
<1>2. PICK X \in All : \A Y \in All : ~(<<Y, X>> \in StrictSubsetOrdering(Nat))
  <2> HIDE DEF All
  <2> QED
    BY <1>1, FS_StrictSubsetOrderingWellFounded, WFMin
<1>3. PICK m \in S : X = Upto(m)
  BY <1>2
<1>4. ASSUME NEW n \in S, n < m PROVE FALSE
  <2>1. Upto(n) \in All /\ Upto(n) \subseteq Upto(m) /\ Upto(n) # Upto(m)
    BY <1>4
  <2> QED
    BY <1>2, <1>3, <2>1 DEF StrictSubsetOrdering
<1> QED
  BY <1>4

\* So a set of integers with an upper bound has a largest one.
LEMMA LargestOf ==
  ASSUME NEW S \in SUBSET Int, S # {}, NEW top \in Int, \A w \in S : w <= top
  PROVE  \E m \in S : \A n \in S : n <= m
<1> DEFINE Below == {top - w : w \in S}
<1>0. \A w \in S : w \in Int /\ top - w \in Nat
  OBVIOUS
<1>1. Below \in SUBSET Nat /\ Below # {}
  BY <1>0
<1>2. PICK d \in Below : \A e \in Below : d <= e
  <2> HIDE DEF Below
  <2> QED
    BY <1>1, LeastOf
<1>3. PICK m \in S : d = top - m
  BY <1>2
<1>4. ASSUME NEW n \in S
      PROVE  n <= m
  <2>1. top - m <= top - n
    BY <1>2, <1>3
  <2> QED
    BY <1>0, <2>1
<1> QED
  BY <1>4

\* A minute whose wall time matches is due.
LEMMA MatchIsDue ==
  ASSUME NEW u, MatchesCron(WallTime(u))
  PROVE  DueAt(u)
BY DEF DueAt, LatestDueAt

\* Where the clock repeats wall times, or a wall time is not skipped, the
\* minute that has it is due.
LEMMA WallIsDue ==
  ASSUME shift \in Shifts, NEW w \in 0..WallTime(LastMinute), MatchesCron(w),
         ~Skipped(w)
  PROVE  \E u \in 0..LastMinute : StandsFor(u, w) /\ DueAt(u)
<1> USE ScheduleAssumption
<1> DEFINE u == IF w < Change THEN w ELSE w - shift
<1>1. u \in 0..LastMinute /\ WallTime(u) = w
  BY DEF WallTime, Skipped
<1> HIDE DEF u
<1> QED
  BY <1>1, MatchIsDue DEF StandsFor

\* A wall time that is skipped is made up for within the minutes that follow
\* the change: the latest skipped one is found by the walk back, unless
\* there is a match on the way, and then the minute of that match is due.
LEMMA SkippedIsDue ==
  ASSUME shift \in Shifts, NEW w \in 0..WallTime(LastMinute), MatchesCron(w),
         Skipped(w)
  PROVE  \E u \in 0..LastMinute : StandsFor(u, w) /\ DueAt(u)
<1> USE ScheduleAssumption
<1> DEFINE Gap == Change..(Change + shift - 1)
           Missing == {v \in Gap : MatchesCron(v)}
<1>1. w \in Missing /\ shift > 0 /\ shift \in Int
  BY DEF Skipped
<1>2. Gap \subseteq 0..LastMinute /\ \A u \in Gap : StandsFor(u, w)
  BY DEF Skipped, StandsFor
<1>3. PICK last \in Missing : \A v \in Missing : v <= last
  <2>0. \A v \in Missing : v \in Int /\ v <= Change + shift - 1
    BY <1>1
  <2>1. Missing \in SUBSET Int /\ Missing # {} /\ \A v \in Missing : v <= Change + shift - 1
    BY <1>1, <2>0
  <2>2. Change + shift - 1 \in Int
    BY <1>1
  <2> HIDE DEF Missing
  <2> QED
    BY <2>1, <2>2, LargestOf
<1>4. last \in Int /\ last >= Change /\ last <= Change + shift - 1 /\ MatchesCron(last)
  BY <1>1, <1>3
<1>5. \A u \in Gap : WallTime(u) = u + shift
  BY <1>1 DEF WallTime
<1>6. CASE \E v \in (Change + shift)..(last + shift) : MatchesCron(v)
  <2>1. PICK v \in (Change + shift)..(last + shift) : MatchesCron(v)
    BY <1>6
  <2>2. v - shift \in Gap /\ WallTime(v - shift) = v
    BY <1>1, <1>4, <1>5, <2>1
  <2> QED
    BY <1>2, <2>1, <2>2, MatchIsDue
<1>7. CASE ~ \E v \in (Change + shift)..(last + shift) : MatchesCron(v)
  <2> DEFINE Earlier == {v \in 0..((last + shift) - 1) : MatchesCron(v)}
  <2>1. last \in Gap /\ WallTime(last) = last + shift
    BY <1>1, <1>4, <1>5
  <2>2. ~MatchesCron(last + shift)
    BY <1>1, <1>4, <1>7
  <2>3. last \in Earlier
    BY <1>1, <1>4
  <2>4. \A v \in Earlier : v <= last
    <3> SUFFICES ASSUME NEW v \in Earlier, v > last
                 PROVE  FALSE
      BY <1>1, <1>4
    <3>1. CASE v >= Change + shift
      BY <1>1, <1>4, <1>7, <3>1
    <3>2. CASE v < Change + shift
      <4>1. v \in Missing
        BY <1>1, <1>4, <3>2
      <4> QED
        BY <1>3, <1>4, <4>1
    <3> QED
      BY <1>1, <3>1, <3>2
  <2>5. Max(Earlier) = last
    <3> HIDE DEF Earlier
    <3>1. Earlier \subseteq Int
      BY <1>1, <1>4 DEF Earlier
    <3>2. \A x \in Earlier : (\A y \in Earlier : x >= y) <=> x = last
      BY <1>4, <2>3, <2>4, <3>1
    <3> QED
      BY <2>3, <3>2 DEF Max
  <2>6. UtcOf(last) = last
    BY <1>1, <1>4 DEF UtcOf
  <2>7. LatestDueAt(last) = last
    BY <2>1, <2>2, <2>3, <2>5, <2>6 DEF LatestDueAt
  <2> QED
    BY <1>2, <2>1, <2>7 DEF DueAt
<1> QED
  BY <1>6, <1>7

-----------------------------------------------------------------------------
(* What the scheduler makes of them.                                       *)

ScheduleTypeOK ==
  /\ shift \in Shifts
  /\ clock \in Nat
  /\ at = NoPass \/ (at \in Nat /\ at <= clock)

\* No due minute goes by without a trace.
DueLeavesTrace ==
  \A u \in Nat : u < clock /\ DueAt(u) => u \in queuedFor \cup refused \cup missed \cup {at}

LEMMA TraceInit == ScheduleInit => ScheduleTypeOK /\ DueLeavesTrace
BY ScheduleAssumption DEF ScheduleInit, ScheduleTypeOK, DueLeavesTrace

LEMMA TraceStep ==
  ASSUME ScheduleTypeOK, DueLeavesTrace, [ScheduleNext]_scheduleVars
  PROVE  ScheduleTypeOK' /\ DueLeavesTrace'
<1> USE ScheduleAssumption
<1>1. cron' = cron /\ shift' = shift
  BY DEF ScheduleNext, Poll, EnqueueIfDue, RunSettles, MinutePasses, PassFails,
         scheduleVars
<1>2. \A u : DueAt(u)' <=> DueAt(u)
  BY <1>1 DEF DueAt, LatestDueAt, MatchesCron, UtcOf, WallTime
<1>3. CASE Poll
  BY <1>2, <1>3 DEF Poll, ScheduleTypeOK, DueLeavesTrace
<1>4. CASE EnqueueIfDue
  <2>1. ScheduleTypeOK'
    BY <1>4 DEF EnqueueIfDue, ScheduleTypeOK
  <2>2. /\ queuedFor \subseteq queuedFor' /\ refused \subseteq refused'
        /\ missed' = missed /\ clock' = clock
        /\ DueAt(at) => at \in queuedFor' \cup refused'
    BY <1>4 DEF EnqueueIfDue
  <2> QED
    BY <1>2, <2>1, <2>2 DEF DueLeavesTrace
<1>5. CASE RunSettles
  BY <1>2, <1>5 DEF RunSettles, ScheduleTypeOK, DueLeavesTrace
<1>6. CASE MinutePasses
  <2>1. ScheduleTypeOK'
    BY <1>6 DEF MinutePasses, ScheduleTypeOK
  <2>2. /\ UNCHANGED <<queuedFor, refused, at>> /\ missed \subseteq missed'
        /\ clock' = clock + 1
        /\ DueAt(clock) => clock \in queuedFor' \cup refused' \cup missed' \cup {at'}
    BY <1>6 DEF MinutePasses, Lost
  <2>3. \A u \in Nat : u < clock' => u < clock \/ u = clock
    BY <2>2 DEF ScheduleTypeOK
  <2> QED
    BY <1>2, <2>1, <2>2, <2>3 DEF DueLeavesTrace
<1>7. CASE PassFails
  <2>1. ScheduleTypeOK'
    BY <1>7 DEF PassFails, ScheduleTypeOK
  <2>2. /\ UNCHANGED <<queuedFor, refused, clock>> /\ missed \subseteq missed'
        /\ DueAt(at) /\ at < clock => at \in queuedFor' \cup refused' \cup missed'
    BY <1>7 DEF PassFails, Lost
  <2> QED
    BY <1>2, <2>1, <2>2 DEF DueLeavesTrace
<1>8. CASE UNCHANGED scheduleVars
  BY <1>2, <1>8 DEF scheduleVars, ScheduleTypeOK, DueLeavesTrace
<1> QED
  BY <1>3, <1>4, <1>5, <1>6, <1>7, <1>8 DEF ScheduleNext

\* Every time a cron expression matches gets its run, also one that the change
\* to summer time skips, unless a run was active or no pass read the minute to
\* the end: for any cron expression, any change of the zone's offset and any
\* timing of the scheduler's passes.
THEOREM ScheduledTimesRun == ScheduleSpec => []EveryTimeRuns
<1>1. ScheduleTypeOK /\ DueLeavesTrace /\ [ScheduleNext]_scheduleVars
        => (ScheduleTypeOK /\ DueLeavesTrace)'
  BY TraceStep
<1>2. ScheduleTypeOK /\ DueLeavesTrace => EveryTimeRuns
  <2> SUFFICES ASSUME ScheduleTypeOK, DueLeavesTrace,
                      NEW w \in 0..WallTime(LastMinute), MatchesCron(w),
                      \A u \in 0..LastMinute : StandsFor(u, w) => u < clock
               PROVE  \E u \in queuedFor \cup refused \cup missed \cup {at} :
                        u # NoPass /\ StandsFor(u, w)
    BY DEF EveryTimeRuns
  <2>1. PICK u \in 0..LastMinute : StandsFor(u, w) /\ DueAt(u)
    BY WallIsDue, SkippedIsDue DEF ScheduleTypeOK
  <2>2. u \in Nat /\ u # NoPass /\ u < clock
    BY <2>1, ScheduleAssumption
  <2> QED
    BY <2>1, <2>2 DEF DueLeavesTrace
<1> QED
  BY <1>1, <1>2, TraceInit, PTL DEF ScheduleSpec

-----------------------------------------------------------------------------
(* A tuning experiment. Every slice goes from planned to queued to its end. *)

SliceStatus == {"planned", "queued", "stranded"} \cup Ended
Sliced == {Unmade} \cup [1..ReplayDays -> SliceStatus] \cup [1..HoldoutDays -> SliceStatus]
Metadata ==
  [shortlist : Seq(Cand), rejected : SUBSET Cand, baseline : BOOLEAN,
   validated : SUBSET Cand, holdout : Cand \cup {NoCand},
   verdict : {"none", "started", "pass", "warning"},
   proposal : {"none", "recommended", "blocked"},
   promotion : {"none", "paper", "rolled_back"}]
StepOf == [step : {"create", "make", "enqueue", "write"}, batch : Batch] \cup {Copy(c) : c \in Cand}
Operation ==
  [does : {"baseline", "holdout", "candidates"}, cand : Cand \cup {NoCand}, todo : Seq(StepOf)]

\* An operation has its steps before it, and the last one writes the metadata.
OperationOK ==
  /\ op \in Operation /\ op.todo # << >>
  /\ op.does = "holdout" => op.cand \in Cand
  /\ \A i \in DOMAIN op.todo : op.todo[i].step = "write" <=> i = Len(op.todo)

TuningTypeOK ==
  /\ slices \in [Batch -> Sliced]
  /\ warned \subseteq Batch /\ frozen \in BOOLEAN
  /\ meta \in Metadata
  /\ op = NoOp \/ OperationOK
  /\ early \subseteq Cand

Queued(b) == slices[b] # Unmade /\ ~Has(b, "planned")

\* The batches the operation will name in the metadata.
Aims ==
  CASE op.does = "baseline" -> {Baseline}
    [] op.does = "holdout" -> {HoldoutBase(op.cand), HoldoutOf(op.cand)}
    [] op.does = "candidates" -> {ReplayOf(c) : c \in ToSet(meta.shortlist) \ Light}
    [] OTHER -> {}

\* What is to be enqueued was created, or will be before.
EnqueuesMade ==
  \A i \in DOMAIN op.todo : op.todo[i].step = "enqueue" =>
    \/ slices[op.todo[i].batch] # Unmade
    \/ \E j \in 1..(i - 1) : op.todo[j] = Create(op.todo[i].batch)

\* What the operation will name is queued, or will be.
AimsQueued ==
  \A b \in Aims : Queued(b) \/ \E i \in DOMAIN op.todo : op.todo[i] \in {Enqueue(b), Make(b)}

\* What was copied, was copied too early or from a complete baseline.
Compared(c) == c \in early \/ Done(Baseline)
AimsCopied ==
  op.does = "candidates" =>
    \A c \in ToSet(meta.shortlist) \cap Light :
      Compared(c) \/ \E i \in DOMAIN op.todo : op.todo[i] = Copy(c)
ValidatedCopied == \A c \in meta.validated \cap Light : Compared(c)

UnderWay == op = NoOp \/ (EnqueuesMade /\ AimsQueued /\ AimsCopied)

TuningInv == TuningTypeOK /\ UnderWay /\ RecordedIsQueued /\ ValidatedCopied

\* The states of a batch: no slice, or a slice for each of its days.
LEMMA SlicedFacts ==
  /\ \A x \in Sliced : /\ x = Unmade <=> DOMAIN x = {}
                       /\ \A i \in DOMAIN x : x[i] \in SliceStatus
  /\ \A b \in Batch : [i \in Days(b) |-> "planned"] \in Sliced \ {Unmade}
  /\ \A x \in Sliced, s \in SliceStatus : \A i \in DOMAIN x : [x EXCEPT ![i] = s] \in Sliced
<1> USE TuningAssumption
<1>1. DOMAIN Unmade = {}
  BY DEF Unmade
<1>2. \A n \in {ReplayDays, HoldoutDays} : 1 \in 1..n
  OBVIOUS
<1>3. ASSUME NEW x \in Sliced
      PROVE  /\ x = Unmade <=> DOMAIN x = {}
             /\ \A i \in DOMAIN x : x[i] \in SliceStatus
             /\ \A s \in SliceStatus : \A i \in DOMAIN x : [x EXCEPT ![i] = s] \in Sliced
  <2>1. CASE x = Unmade
    BY <1>1, <2>1
  <2>2. CASE x \in [1..ReplayDays -> SliceStatus]
    BY <1>1, <1>2, <2>2 DEF Sliced
  <2>3. CASE x \in [1..HoldoutDays -> SliceStatus]
    BY <1>1, <1>2, <2>3 DEF Sliced
  <2> QED
    BY <2>1, <2>2, <2>3 DEF Sliced
<1>4. ASSUME NEW b \in Batch
      PROVE  [i \in Days(b) |-> "planned"] \in Sliced \ {Unmade}
  <2> DEFINE x == [i \in Days(b) |-> "planned"]
  <2>1. "planned" \in SliceStatus
    BY DEF SliceStatus
  <2>2. x \in [1..ReplayDays -> SliceStatus] \/ x \in [1..HoldoutDays -> SliceStatus]
    BY <2>1 DEF Days
  <2>3. DOMAIN x # {}
    BY <1>2 DEF Days
  <2>4. x \in Sliced /\ x # Unmade
    <3> HIDE DEF x
    <3> QED
      BY <1>1, <2>2, <2>3 DEF Sliced
  <2> QED
    BY <2>4
<1> QED
  BY <1>3, <1>4

\* What may happen to a batch.
SliceMoves(b) ==
  \/ slices'[b] = slices[b]
  \/ slices[b] = Unmade /\ slices'[b] # Unmade
  \/ \E i \in DOMAIN slices[b] :
       /\ slices[b][i] \in {"planned", "queued"}
       /\ \E s \in SliceStatus \ {"planned"} : slices'[b] = [slices[b] EXCEPT ![i] = s]
SlicesMove ==
  /\ slices' \in [Batch -> Sliced] /\ \A b \in Batch : SliceMoves(b)
  /\ warned' \subseteq Batch /\ frozen' \in BOOLEAN

\* Then a batch that was made stays made, no slice is planned again, and a
\* batch that is done is done for good.
LEMMA MovesKeep ==
  ASSUME slices \in [Batch -> Sliced], SlicesMove, NEW b \in Batch
  PROVE  /\ slices[b] # Unmade => slices'[b] # Unmade
         /\ Queued(b) => Queued(b)'
         /\ Done(b) => Done(b)'
<1>1. CASE slices'[b] = slices[b]
  BY <1>1 DEF Queued, Done, Has
<1>2. CASE slices[b] = Unmade
  BY <1>2 DEF Queued, Done
<1>3. CASE \E i \in DOMAIN slices[b] :
             /\ slices[b][i] \in {"planned", "queued"}
             /\ \E s \in SliceStatus \ {"planned"} : slices'[b] = [slices[b] EXCEPT ![i] = s]
  <2>1. PICK i \in DOMAIN slices[b], s \in SliceStatus \ {"planned"} :
          /\ slices[b][i] \in {"planned", "queued"}
          /\ slices'[b] = [slices[b] EXCEPT ![i] = s]
    BY <1>3
  <2>2. /\ DOMAIN slices'[b] = DOMAIN slices[b]
        /\ \A k \in DOMAIN slices[b] : slices'[b][k] = IF k = i THEN s ELSE slices[b][k]
    BY <2>1
  <2>3. slices'[b] \in Sliced /\ slices[b] \in Sliced
    BY DEF SlicesMove
  <2>4. slices'[b] # Unmade
    BY <2>1, <2>2, <2>3, SlicedFacts
  <2>5. ~Done(b)
    BY <2>1 DEF Done
  <2> QED
    BY <2>2, <2>4, <2>5 DEF Queued, Has
<1> QED
  BY <1>1, <1>2, <1>3 DEF SlicesMove, SliceMoves

LEMMA BatchesMade ==
  /\ Baseline \in Batch
  /\ \A c \in Cand : {ReplayOf(c), HoldoutBase(c), HoldoutOf(c)} \subseteq Batch
BY DEF Batch

LEMMA StepsMade ==
  /\ \A b \in Batch : {Create(b), Make(b), Enqueue(b)} \subseteq StepOf
  /\ \A c \in Cand : Copy(c) \in StepOf
  /\ Write \in StepOf
BY BatchesMade DEF StepOf, Create, Make, Enqueue, Copy, Write

LEMMA StepsAre ==
  ASSUME NEW s \in StepOf
  PROVE  /\ s.batch \in Batch
         /\ s.step = "copy" => s.batch.cand \in Cand
         /\ s.step = "make" => s = Make(s.batch)
<1>1. CASE s \in [step : {"create", "make", "enqueue", "write"}, batch : Batch]
  BY <1>1 DEF Make
<1>2. CASE s \in {Copy(c) : c \in Cand}
  BY <1>2, BatchesMade DEF Copy, ReplayOf
<1> QED
  BY <1>1, <1>2 DEF StepOf

\* Without a step under way and with the replays as they were, all that counts
\* of the metadata is what it names.
LEMMA SameNames ==
  ASSUME TuningInv, SlicesMove, op' = NoOp, early' = early, meta' \in Metadata,
         meta'.baseline = meta.baseline, meta'.validated = meta.validated,
         meta'.holdout = meta.holdout
  PROVE  TuningInv'
<1> USE DEF TuningInv, TuningTypeOK
<1>1. Recorded' = Recorded /\ Recorded \subseteq Batch
  BY DEF Recorded
<1>2. RecordedIsQueued'
  <2>1. \A b \in Recorded : Queued(b)
    BY DEF RecordedIsQueued, Queued
  <2>2. \A b \in Recorded : Queued(b)'
    BY <1>1, <2>1, MovesKeep
  <2> QED
    BY <1>1, <2>2 DEF RecordedIsQueued, Queued
<1>3. ValidatedCopied'
  BY MovesKeep, BatchesMade DEF ValidatedCopied, Compared
<1>4. TuningTypeOK' /\ UnderWay'
  BY DEF SlicesMove, UnderWay
<1> QED
  BY <1>2, <1>3, <1>4

LEMMA SlicesStay == TuningTypeOK /\ UNCHANGED replays => SlicesMove /\ slices' = slices
BY DEF TuningTypeOK, SlicesMove, SliceMoves, replays

LEMMA ListingsTyped == \A list \in Listings : list \in Seq(Cand)
<1>1. \A n \in Nat : [1..n -> Cand] \subseteq Seq(Cand)
  OBVIOUS
<1> QED
  BY <1>1, TuningAssumption DEF Listings

LEMMA AskedForTyped == \A list \in AskedFor : list \in Seq(Cand)
<1>1. << >> \in Seq(Cand) /\ \A c \in Cand : <<c>> \in Seq(Cand)
  OBVIOUS
<1> QED
  BY <1>1, TuningAssumption DEF AskedFor

\* The operations that commit once.
LEMMA OneCommitKeeps ==
  ASSUME TuningInv, op = NoOp,
         \/ GenerateCandidatePool \/ ExecutePromotion \/ Rollback
         \/ \E list \in Seq(Cand) : UpdateShortlist(list)
         \/ \E c \in Cand : RejectCandidate(c) \/ CreateProposal(c)
         \/ \E c \in Cand : \E v \in {"pass", "warning"} : RecordStability(c, v)
  PROVE  TuningInv'
<1> DEFINE Named == /\ meta' \in Metadata /\ meta'.baseline = meta.baseline
                    /\ meta'.validated = meta.validated /\ meta'.holdout = meta.holdout
<1>0. meta \in Metadata /\ slices \in [Batch -> Sliced]
  BY DEF TuningInv, TuningTypeOK
<1>1. SlicesMove /\ op' = op /\ early' = early
  <2>1. TuningTypeOK
    BY DEF TuningInv
  <2> QED
    BY <2>1, SlicesStay
       DEF GenerateCandidatePool, ExecutePromotion, Rollback, UpdateShortlist, RejectCandidate,
           CreateProposal, RecordStability
<1>2. Named
  <2>1. CASE GenerateCandidatePool \/ ExecutePromotion \/ Rollback
    BY <1>0, <2>1 DEF GenerateCandidatePool, ExecutePromotion, Rollback, Metadata
  <2>2. ASSUME NEW list \in Seq(Cand), UpdateShortlist(list)
        PROVE  Named
    BY <1>0, <2>2 DEF UpdateShortlist, Metadata
  <2>3. ASSUME NEW c \in Cand, RejectCandidate(c)
        PROVE  Named
    <3>1. PICK list \in Listings :
            meta' = [meta EXCEPT !.rejected = @ \cup {c}, !.shortlist = list]
      BY <2>3 DEF RejectCandidate
    <3>2. list \in Seq(Cand)
      BY <3>1, ListingsTyped
    <3> QED
      BY <1>0, <3>1, <3>2 DEF Metadata
  <2>4. ASSUME NEW c \in Cand, CreateProposal(c)
        PROVE  Named
    BY <1>0, <2>4 DEF CreateProposal, Proposal, Metadata
  <2>5. ASSUME NEW c \in Cand, NEW v \in {"pass", "warning"}, RecordStability(c, v)
        PROVE  Named
    BY <1>0, <2>5 DEF RecordStability, Metadata
  <2> HIDE DEF Named
  <2> QED
    BY <2>1, <2>2, <2>3, <2>4, <2>5
<1> QED
  BY <1>0, <1>1, <1>2, SameNames

\* The steps of an operation that starts end with the write.
LEMMA ReplaysTyped ==
  ASSUME NEW list \in Seq(Cand)
  PROVE  /\ CandidateSteps(list) \in Seq(StepOf)
         /\ Len(CandidateSteps(list)) = Len(list) + 1
         /\ \A i \in 1..Len(list) : CandidateSteps(list)[i] =
              IF list[i] \in Light THEN Copy(list[i]) ELSE Make(ReplayOf(list[i]))
         /\ CandidateSteps(list)[Len(list) + 1] = Write
<1>1. \A i \in DOMAIN list : list[i] \in Cand
  OBVIOUS
<1>2. \A i \in DOMAIN list :
        (IF list[i] \in Light THEN Copy(list[i]) ELSE Make(ReplayOf(list[i]))) \in StepOf
  BY <1>1, StepsMade, BatchesMade
<1>3. DOMAIN list = 1..Len(list) /\ Len(list) \in Nat
  OBVIOUS
<1>4. /\ Replays(list) \in Seq(StepOf) /\ Len(Replays(list)) = Len(list)
      /\ \A i \in 1..Len(list) : Replays(list)[i] =
           IF list[i] \in Light THEN Copy(list[i]) ELSE Make(ReplayOf(list[i]))
  BY <1>2, <1>3 DEF Replays
<1> HIDE DEF Replays
<1>5. <<Write>> \in Seq(StepOf) /\ Len(<<Write>>) = 1 /\ <<Write>>[1] = Write
  BY StepsMade
<1> QED
  BY <1>3, <1>4, <1>5 DEF CandidateSteps

LEMMA StartKeeps ==
  ASSUME TuningInv, op = NoOp,
         CreateBaseline \/ CreateCandidates \/ \E c \in Cand : CreateHoldout(c)
  PROVE  TuningInv'
<1>1. slices' = slices /\ meta' = meta /\ early' = early /\ UNCHANGED replays
  BY DEF CreateBaseline, CreateCandidates, CreateHoldout, Start, replays
<1>2. /\ slices' \in [Batch -> Sliced] /\ meta' \in Metadata /\ early' \subseteq Cand
      /\ warned' \subseteq Batch /\ frozen' \in BOOLEAN
      /\ RecordedIsQueued' /\ ValidatedCopied'
  BY <1>1 DEF TuningInv, TuningTypeOK, RecordedIsQueued, Recorded, Has, ValidatedCopied,
              Compared, Done, replays
<1>3. OperationOK' /\ EnqueuesMade' /\ AimsQueued' /\ AimsCopied'
  <2>1. CASE CreateBaseline
    <3>1. /\ op' = [does |-> "baseline", cand |-> NoCand, todo |-> BaselineSteps]
          /\ BaselineSteps = <<Make(Baseline), Write>>
      BY <2>1 DEF CreateBaseline, Start, BaselineSteps
    <3>2. /\ op'.does = "baseline" /\ op'.cand = NoCand /\ op'.todo \in Seq(StepOf)
          /\ Len(op'.todo) = 2 /\ op'.todo[1] = Make(Baseline) /\ op'.todo[2] = Write
      BY <3>1, StepsMade, BatchesMade
    <3>3. op' \in Operation
      BY <3>1, <3>2 DEF Operation
    <3>4. OperationOK'
      BY <3>2, <3>3 DEF OperationOK, Make, Write
    <3>5. EnqueuesMade'
      BY <3>2 DEF EnqueuesMade, Make, Write
    <3>6. AimsQueued' /\ AimsCopied'
      BY <3>2 DEF AimsQueued, AimsCopied, Aims
    <3> QED
      BY <3>4, <3>5, <3>6
  <2>2. ASSUME NEW c \in Cand, CreateHoldout(c)
        PROVE  OperationOK' /\ EnqueuesMade' /\ AimsQueued' /\ AimsCopied'
    <3>1. /\ op' = [does |-> "holdout", cand |-> c, todo |-> HoldoutSteps(c)]
          /\ HoldoutSteps(c) = <<Create(HoldoutBase(c)), Create(HoldoutOf(c)),
                     Enqueue(HoldoutBase(c)), Enqueue(HoldoutOf(c)), Write>>
      BY <2>2 DEF CreateHoldout, Start, HoldoutSteps
    <3>2. /\ op'.does = "holdout" /\ op'.cand = c /\ op'.todo \in Seq(StepOf)
          /\ Len(op'.todo) = 5
          /\ op'.todo[1] = Create(HoldoutBase(c)) /\ op'.todo[2] = Create(HoldoutOf(c))
          /\ op'.todo[3] = Enqueue(HoldoutBase(c)) /\ op'.todo[4] = Enqueue(HoldoutOf(c))
          /\ op'.todo[5] = Write
      BY <3>1, StepsMade, BatchesMade
    <3>3. op' \in Operation
      BY <3>1, <3>2 DEF Operation
    <3>0. DOMAIN op'.todo = 1..5
      BY <3>2
    <3>4. OperationOK'
      BY <3>0, <3>2, <3>3 DEF OperationOK, Create, Enqueue, Write
    <3>5. EnqueuesMade'
      BY <3>0, <3>2 DEF EnqueuesMade, Create, Enqueue, Write
    <3>6. AimsQueued'
      <4>1. Aims' = {HoldoutBase(c), HoldoutOf(c)}
        BY <3>2 DEF Aims
      <4> QED
        BY <3>0, <3>2, <4>1 DEF AimsQueued
    <3>7. AimsCopied'
      BY <3>2 DEF AimsCopied
    <3> QED
      BY <3>4, <3>5, <3>6, <3>7
  <2>3. CASE CreateCandidates
    <3> DEFINE list == meta.shortlist
    <3>1. /\ op' = [does |-> "candidates", cand |-> NoCand, todo |-> CandidateSteps(list)]
          /\ list \in Seq(Cand)
      BY <2>3 DEF CreateCandidates, Start, TuningInv, TuningTypeOK, Metadata
    <3>2. /\ op'.does = "candidates" /\ op'.cand = NoCand /\ op'.todo = CandidateSteps(list)
      BY <3>1
    <3> HIDE DEF list
    <3>3. /\ op'.todo \in Seq(StepOf) /\ Len(op'.todo) = Len(list) + 1 /\ Len(list) \in Nat
          /\ \A i \in 1..Len(list) : op'.todo[i] =
               IF list[i] \in Light THEN Copy(list[i]) ELSE Make(ReplayOf(list[i]))
          /\ op'.todo[Len(list) + 1] = Write
      BY <3>1, <3>2, ReplaysTyped
    <3>4. op' \in Operation
      BY <3>1, <3>3 DEF Operation
    <3>5. \A i \in 1..Len(list) : op'.todo[i].step \in {"copy", "make"}
      <4>1. \A x : Copy(x).step = "copy" /\ Make(x).step = "make"
        BY DEF Copy, Make
      <4> QED
        BY <3>3, <4>1
    <3>6. op'.todo[Len(list) + 1].step = "write"
      BY <3>3 DEF Write
    <3>7. DOMAIN op'.todo = 1..(Len(list) + 1)
      BY <3>3
    <3>8. OperationOK'
      BY <3>2, <3>3, <3>4, <3>5, <3>6, <3>7 DEF OperationOK
    <3>9. EnqueuesMade'
      BY <3>3, <3>5, <3>6, <3>7 DEF EnqueuesMade
    <3>10. ToSet(list) = {list[i] : i \in 1..Len(list)}
      BY <3>1 DEF ToSet
    <3>11. AimsQueued'
      <4>1. Aims' = {ReplayOf(c) : c \in ToSet(list) \ Light}
        BY <1>1, <3>2 DEF Aims, list
      <4> QED
        BY <3>3, <3>7, <3>10, <4>1 DEF AimsQueued
    <3>12. AimsCopied'
      <4>1. ToSet(meta'.shortlist) = ToSet(list)
        BY <1>1 DEF list
      <4> QED
        BY <3>3, <3>7, <3>10, <4>1 DEF AimsCopied
    <3> QED
      BY <3>8, <3>9, <3>11, <3>12
  <2> QED
    BY <2>1, <2>2, <2>3
<1> QED
  BY <1>2, <1>3 DEF TuningInv, TuningTypeOK, UnderWay

LEMMA TailFacts ==
  ASSUME NEW S, NEW t \in Seq(S), t # << >>
  PROVE  /\ Len(t) \in Nat /\ Len(t) > 0 /\ DOMAIN t = 1..Len(t)
         /\ \A i \in 1..Len(t) : t[i] \in S
         /\ Head(t) = t[1] /\ Tail(t) \in Seq(S)
         /\ Len(Tail(t)) = Len(t) - 1 /\ DOMAIN Tail(t) = 1..(Len(t) - 1)
         /\ \A i \in 1..(Len(t) - 1) : Tail(t)[i] = t[i + 1]
         /\ Len(t) > 1 => Tail(t) # << >>
OBVIOUS

\* Steps that end with the only write still do without the first, the others
\* are there, and in their order.
LEMMA TailSteps ==
  ASSUME NEW t \in Seq(StepOf), t # << >>, t[1].step # "write",
         \A i \in DOMAIN t : t[i].step = "write" <=> i = Len(t)
  PROVE  /\ Len(t) # 1 /\ Head(t) = t[1] /\ t[1] \in StepOf
         /\ Tail(t) \in Seq(StepOf) /\ Tail(t) # << >>
         /\ \A i \in DOMAIN Tail(t) : Tail(t)[i].step = "write" <=> i = Len(Tail(t))
         /\ \A s : (\E i \in DOMAIN t : t[i] = s) =>
                s = t[1] \/ \E i \in DOMAIN Tail(t) : Tail(t)[i] = s
         /\ \A i \in DOMAIN Tail(t) : \E k \in DOMAIN t :
                /\ Tail(t)[i] = t[k]
                /\ \A j \in 1..(k - 1) : t[j] = t[1] \/ \E l \in 1..(i - 1) : Tail(t)[l] = t[j]
<1> DEFINE n == Len(t)
           u == Tail(t)
<1>1. /\ n \in Nat /\ n > 0 /\ DOMAIN t = 1..n /\ Head(t) = t[1]
      /\ \A i \in 1..n : t[i] \in StepOf
      /\ u \in Seq(StepOf) /\ Len(u) = n - 1 /\ DOMAIN u = 1..(n - 1)
      /\ \A i \in 1..(n - 1) : u[i] = t[i + 1]
      /\ n > 1 => u # << >>
  BY TailFacts
<1>2. \A i \in 1..n : t[i].step = "write" <=> i = n
  BY <1>1
<1> HIDE DEF n, u
<1>3. n > 1
  BY <1>1, <1>2
<1>4. \A i \in 1..(n - 1) : i + 1 \in 1..n /\ u[i] = t[i + 1]
  BY <1>1
<1>5. \A i \in 1..n : i = 1 \/ (i - 1 \in 1..(n - 1) /\ u[i - 1] = t[i])
  BY <1>1
<1>6. \A i \in DOMAIN u : u[i].step = "write" <=> i = Len(u)
  BY <1>1, <1>2, <1>4
<1>7. \A s : (\E i \in DOMAIN t : t[i] = s) => s = t[1] \/ \E i \in DOMAIN u : u[i] = s
  BY <1>1, <1>5
<1>8. ASSUME NEW i \in DOMAIN u
      PROVE  \E k \in DOMAIN t :
                /\ u[i] = t[k]
                /\ \A j \in 1..(k - 1) : t[j] = t[1] \/ \E l \in 1..(i - 1) : u[l] = t[j]
  <2>1. i \in 1..(n - 1) /\ i + 1 \in DOMAIN t /\ u[i] = t[i + 1]
    BY <1>1, <1>4
  <2>2. ASSUME NEW j \in 1..((i + 1) - 1), j # 1
        PROVE  \E l \in 1..(i - 1) : u[l] = t[j]
    <3>1. j \in 1..n /\ j - 1 \in 1..(i - 1)
      BY <1>1, <2>1, <2>2
    <3> QED
      BY <1>5, <2>2, <3>1
  <2> QED
    BY <2>1, <2>2
<1>9. n # 1 /\ Head(t) = t[1] /\ t[1] \in StepOf /\ u \in Seq(StepOf) /\ u # << >>
  BY <1>1, <1>3
<1> QED
  BY <1>6, <1>7, <1>8, <1>9 DEF n, u

\* A step of an operation that does not write the metadata is taken off it.
LEMMA TailKeeps ==
  ASSUME TuningInv, op # NoOp, Todo.step \in {"create", "enqueue", "copy"}, StepDone,
         SlicesMove, meta' = meta, early' \subseteq Cand,
         \A b \in Batch : Todo = Create(b) => slices'[b] # Unmade,
         \A b \in Batch : Todo = Enqueue(b) => Queued(b)',
         \A c \in Cand : Compared(c) \/ Todo = Copy(c) => Compared(c)'
  PROVE  TuningInv'
<1>1. /\ OperationOK /\ EnqueuesMade /\ AimsQueued /\ AimsCopied
      /\ slices \in [Batch -> Sliced] /\ meta \in Metadata
      /\ RecordedIsQueued /\ ValidatedCopied
  BY DEF TuningInv, TuningTypeOK, UnderWay
<1>2. PICK t \in Seq(StepOf) : t = op.todo /\ t # << >>
  BY <1>1 DEF OperationOK, Operation
<1>3. Todo = t[1] /\ \A i \in DOMAIN t : t[i].step = "write" <=> i = Len(t)
  BY <1>1, <1>2, TailFacts DEF OperationOK, Todo
<1> DEFINE u == Tail(t)
<1>4. /\ Len(t) # 1 /\ u \in Seq(StepOf) /\ u # << >>
      /\ \A i \in DOMAIN u : u[i].step = "write" <=> i = Len(u)
      /\ \A s : (\E i \in DOMAIN t : t[i] = s) =>
              s = t[1] \/ \E i \in DOMAIN u : u[i] = s
      /\ \A i \in DOMAIN u : \E k \in DOMAIN t :
              /\ u[i] = t[k]
              /\ \A j \in 1..(k - 1) : t[j] = t[1] \/ \E l \in 1..(i - 1) : u[l] = t[j]
  <2>1. t[1].step # "write"
    BY <1>3
  <2>2. t \in Seq(StepOf) /\ t # << >> /\ \A i \in DOMAIN t : t[i].step = "write" <=> i = Len(t)
    BY <1>2, <1>3
  <2>3. ~(t[1].step = "write")
    BY <2>1
  <2> QED
    BY <2>2, <2>3, TailSteps, Zenon
<1>5. /\ op'.does = op.does /\ op'.cand = op.cand /\ op'.todo = u
      /\ op' \in Operation
  <2>1. op \in Operation /\ op' = [op EXCEPT !.todo = u]
    BY <1>1, <1>2, <1>4 DEF OperationOK, StepDone
  <2> HIDE DEF u
  <2> QED
    BY <1>4, <2>1 DEF Operation
<1> HIDE DEF u
<1>6. OperationOK'
  BY <1>1, <1>4, <1>5 DEF OperationOK
<1>7. EnqueuesMade'
  <2> SUFFICES ASSUME NEW i \in DOMAIN u, u[i].step = "enqueue"
               PROVE  \/ slices'[u[i].batch] # Unmade
                      \/ \E j \in 1..(i - 1) : u[j] = Create(u[i].batch)
    BY <1>5 DEF EnqueuesMade
  <2>1. PICK k \in DOMAIN t :
          /\ u[i] = t[k]
          /\ \A j \in 1..(k - 1) : t[j] = t[1] \/ \E l \in 1..(i - 1) : u[l] = t[j]
    BY <1>4
  <2>2. u[i].batch \in Batch
    <3>1. u[i] \in StepOf
      BY <1>4, TailFacts
    <3> QED
      BY <3>1, StepsAre
  <2>3. \/ slices[u[i].batch] # Unmade
        \/ \E j \in 1..(k - 1) : t[j] = Create(u[i].batch)
    BY <1>1, <1>2, <2>1 DEF EnqueuesMade
  <2> QED
    BY <1>1, <1>3, <2>1, <2>2, <2>3, MovesKeep
<1>8. Aims' = Aims /\ Aims \subseteq Batch
  <2>1. Aims' = Aims
    BY <1>5 DEF Aims
  <2>2. \A c \in ToSet(meta.shortlist) : c \in Cand
    BY <1>1 DEF Metadata, ToSet
  <2> QED
    BY <1>1, <2>1, <2>2, BatchesMade DEF Aims, OperationOK
<1>9. AimsQueued'
  <2> SUFFICES ASSUME NEW b \in Aims
               PROVE  Queued(b)' \/ \E i \in DOMAIN u : u[i] \in {Enqueue(b), Make(b)}
    BY <1>5, <1>8 DEF AimsQueued
  <2>1. b \in Batch
    BY <1>8
  <2>2. CASE Queued(b)
    BY <1>1, <2>1, <2>2, MovesKeep
  <2>3. ASSUME NEW s \in {Enqueue(b), Make(b)}, \E i \in DOMAIN t : t[i] = s
        PROVE  Queued(b)' \/ \E i \in DOMAIN u : u[i] \in {Enqueue(b), Make(b)}
    <3>1. Todo # Make(b)
      BY DEF Make
    <3>2. s = Todo \/ \E i \in DOMAIN u : u[i] = s
      BY <1>3, <1>4, <2>3
    <3>3. s = Todo => Queued(b)'
      BY <2>1, <3>1
    <3> QED
      BY <3>2, <3>3
  <2> QED
    BY <1>1, <1>2, <2>2, <2>3 DEF AimsQueued
<1>10. AimsCopied'
  <2> SUFFICES ASSUME op.does = "candidates", NEW c \in ToSet(meta.shortlist) \cap Light
               PROVE  Compared(c)' \/ \E i \in DOMAIN u : u[i] = Copy(c)
    BY <1>5 DEF AimsCopied
  <2>1. c \in Cand
    BY TuningAssumption
  <2>2. Compared(c) \/ \E i \in DOMAIN t : t[i] = Copy(c)
    BY <1>1, <1>2 DEF AimsCopied
  <2> QED
    BY <1>3, <1>4, <2>1, <2>2
<1>11. RecordedIsQueued' /\ ValidatedCopied'
  <2>1. Recorded' = Recorded /\ Recorded \subseteq Batch
    BY DEF Recorded
  <2>2. \A b \in Recorded : Queued(b)
    BY <1>1 DEF RecordedIsQueued, Queued
  <2>3. \A b \in Recorded : Queued(b)'
    BY <1>1, <2>1, <2>2, MovesKeep
  <2>4. \A c \in meta.validated \cap Light : Compared(c)'
    BY <1>1, TuningAssumption DEF ValidatedCopied
  <2> QED
    BY <2>1, <2>3, <2>4 DEF RecordedIsQueued, Queued, ValidatedCopied
<1> QED
  BY <1>1, <1>6, <1>7, <1>9, <1>10, <1>11
     DEF TuningInv, TuningTypeOK, UnderWay, SlicesMove

\* Slices that move on leave an operation with as much to do as before.
LEMMA OpStays ==
  ASSUME TuningInv, SlicesMove, UNCHANGED <<op, meta, early>>
  PROVE  TuningInv'
<1>1. CASE op = NoOp
  <2>1. meta \in Metadata
    BY DEF TuningInv, TuningTypeOK
  <2> QED
    BY <1>1, <2>1, SameNames
<1>2. CASE op # NoOp
  <2>1. /\ OperationOK /\ EnqueuesMade /\ AimsQueued /\ AimsCopied
        /\ slices \in [Batch -> Sliced] /\ meta \in Metadata /\ early \subseteq Cand
        /\ RecordedIsQueued /\ ValidatedCopied
    BY <1>2 DEF TuningInv, TuningTypeOK, UnderWay
  <2>2. OperationOK'
    BY <2>1 DEF OperationOK
  <2>3. EnqueuesMade'
    <3> SUFFICES ASSUME NEW i \in DOMAIN op.todo, op.todo[i].step = "enqueue"
                 PROVE  \/ slices'[op.todo[i].batch] # Unmade
                        \/ \E j \in 1..(i - 1) : op.todo[j] = Create(op.todo[i].batch)
      BY DEF EnqueuesMade
    <3>1. PICK t \in Seq(StepOf) : t = op.todo /\ t # << >>
      BY <2>1 DEF OperationOK, Operation
    <3>2. t[i].batch \in Batch
      <4>1. t[i] \in StepOf
        BY <3>1, TailFacts
      <4> QED
        BY <4>1, StepsAre
    <3> QED
      BY <2>1, <3>1, <3>2, MovesKeep DEF EnqueuesMade
  <2>4. Aims' = Aims /\ Aims \subseteq Batch
    <3>1. Aims' = Aims
      BY DEF Aims
    <3>2. \A c \in ToSet(meta.shortlist) : c \in Cand
      BY <2>1 DEF Metadata, ToSet
    <3> QED
      BY <2>1, <3>1, <3>2, BatchesMade DEF Aims, OperationOK
  <2>5. AimsQueued'
    <3>1. \A b \in Aims : Queued(b) => Queued(b)'
      BY <2>1, <2>4, MovesKeep
    <3> QED
      BY <2>1, <2>4, <3>1 DEF AimsQueued
  <2>6. \A c : Compared(c) => Compared(c)'
    BY <2>1, MovesKeep, BatchesMade DEF Compared
  <2>7. AimsCopied' /\ ValidatedCopied'
    BY <2>1, <2>6 DEF AimsCopied, ValidatedCopied
  <2>8. RecordedIsQueued'
    <3>1. Recorded' = Recorded /\ Recorded \subseteq Batch
      BY DEF Recorded
    <3>2. \A b \in Recorded : Queued(b)
      BY <2>1 DEF RecordedIsQueued, Queued
    <3>3. \A b \in Recorded : Queued(b)'
      BY <2>1, <3>1, <3>2, MovesKeep
    <3> QED
      BY <3>1, <3>3 DEF RecordedIsQueued, Queued
  <2> QED
    BY <2>1, <2>2, <2>3, <2>5, <2>7, <2>8 DEF TuningInv, TuningTypeOK, UnderWay, SlicesMove
<1> QED
  BY <1>1, <1>2

\* What an operation under way knows of its next step.
LEMMA NextStep ==
  ASSUME TuningInv, op # NoOp
  PROVE  /\ op \in Operation /\ op.todo \in Seq(StepOf) /\ op.todo # << >>
         /\ Todo = op.todo[1] /\ Todo \in StepOf /\ Todo.batch \in Batch
         /\ DOMAIN op.todo = 1..Len(op.todo) /\ Len(op.todo) \in Nat \ {0}
         /\ Todo.step = "write" <=> Len(op.todo) = 1
         /\ Todo.step = "enqueue" => slices[Todo.batch] # Unmade
<1>1. OperationOK /\ EnqueuesMade
  BY DEF TuningInv, TuningTypeOK, UnderWay
<1>2. PICK t \in Seq(StepOf) : t = op.todo /\ t # << >>
  BY <1>1 DEF OperationOK, Operation
<1>3. /\ Head(t) = t[1] /\ t[1] \in StepOf /\ DOMAIN t = 1..Len(t) /\ Len(t) \in Nat \ {0}
  BY <1>2, TailFacts
<1>4. t[1].batch \in Batch
  BY <1>3, StepsAre
<1>5. /\ t[1].step = "write" <=> Len(t) = 1
      /\ t[1].step = "enqueue" => slices[t[1].batch] # Unmade
  <2>1. 1 \in DOMAIN t /\ ~ \E j \in 1..(1 - 1) : TRUE
    BY <1>3
  <2> QED
    BY <1>1, <1>2, <2>1 DEF OperationOK, EnqueuesMade
<1> QED
  BY <1>1, <1>2, <1>3, <1>4, <1>5 DEF OperationOK, Todo

\* A batch that was created to be enqueued at once.
LEMMA MadeKeeps ==
  ASSUME TuningInv, op # NoOp, SlicesMove, UNCHANGED <<meta, early>>,
         NEW b \in Batch, Todo = Make(b), slices'[b] # Unmade,
         op' = [op EXCEPT !.todo[1] = Enqueue(b)]
  PROVE  TuningInv'
<1>1. /\ OperationOK /\ EnqueuesMade /\ AimsQueued /\ AimsCopied
      /\ slices \in [Batch -> Sliced] /\ meta \in Metadata /\ early \subseteq Cand
      /\ RecordedIsQueued /\ ValidatedCopied
  BY DEF TuningInv, TuningTypeOK, UnderWay
<1>2. PICK t \in Seq(StepOf) : t = op.todo
  BY NextStep
<1>3. /\ t[1] = Make(b) /\ 1 \in 1..Len(t) /\ DOMAIN t = 1..Len(t) /\ Len(t) \in Nat
      /\ op \in Operation /\ t # << >>
  BY <1>2, NextStep
<1>4. \A i \in 1..Len(t) : t[i].step = "write" <=> i = Len(t)
  BY <1>1, <1>2, <1>3 DEF OperationOK
<1> DEFINE u == [t EXCEPT ![1] = Enqueue(b)]
<1>5. /\ u \in Seq(StepOf) /\ Len(u) = Len(t) /\ DOMAIN u = 1..Len(t) /\ u[1] = Enqueue(b)
      /\ \A i \in 1..Len(t) : i # 1 => u[i] = t[i]
  BY <1>3, StepsMade
<1>6. op' = [op EXCEPT !.todo = u]
  BY <1>2, <1>3 DEF Operation
<1> HIDE DEF u
<1>7. op'.does = op.does /\ op'.cand = op.cand /\ op'.todo = u /\ op' \in Operation
  BY <1>3, <1>5, <1>6 DEF Operation
<1>8. OperationOK'
  <2>1. u # << >>
    BY <1>3, <1>5
  <2>2. \A i \in DOMAIN u : u[i].step = "write" <=> i = Len(u)
    <3>1. u[1].step # "write" /\ Len(t) # 1
      BY <1>3, <1>4, <1>5 DEF Enqueue, Make
    <3> QED
      BY <1>4, <1>5, <3>1
  <2> QED
    BY <1>1, <1>7, <2>1, <2>2 DEF OperationOK
<1>9. EnqueuesMade'
  <2> SUFFICES ASSUME NEW i \in DOMAIN u, u[i].step = "enqueue"
               PROVE  \/ slices'[u[i].batch] # Unmade
                      \/ \E j \in 1..(i - 1) : u[j] = Create(u[i].batch)
    BY <1>7 DEF EnqueuesMade
  <2>1. CASE i = 1
    BY <1>5, <2>1 DEF Enqueue
  <2>2. CASE i # 1
    <3>1. u[i] = t[i] /\ i \in 1..Len(t)
      BY <1>5, <2>2
    <3>2. t[i].batch \in Batch
      <4>1. t[i] \in StepOf
        BY <1>3, <3>1, TailFacts
      <4> QED
        BY <4>1, StepsAre
    <3>3. CASE slices[t[i].batch] # Unmade
      BY <1>1, <3>1, <3>2, <3>3, MovesKeep
    <3>4. ASSUME NEW j \in 1..(i - 1), t[j] = Create(t[i].batch)
          PROVE  u[j] = Create(u[i].batch)
      <4>1. j # 1 /\ j \in 1..Len(t)
        BY <1>3, <3>1, <3>4 DEF Make, Create
      <4> QED
        BY <1>5, <3>1, <3>4, <4>1
    <3> QED
      BY <1>1, <1>2, <1>3, <3>1, <3>3, <3>4 DEF EnqueuesMade
  <2> QED
    BY <2>1, <2>2
<1>10. Aims' = Aims /\ Aims \subseteq Batch
  <2>1. Aims' = Aims
    BY <1>7 DEF Aims
  <2>2. \A c \in ToSet(meta.shortlist) : c \in Cand
    BY <1>1 DEF Metadata, ToSet
  <2> QED
    BY <1>1, <2>1, <2>2, BatchesMade DEF Aims, OperationOK
<1>11. AimsQueued'
  <2> SUFFICES ASSUME NEW a \in Aims
               PROVE  Queued(a)' \/ \E i \in DOMAIN u : u[i] \in {Enqueue(a), Make(a)}
    BY <1>7, <1>10 DEF AimsQueued
  <2>1. CASE Queued(a)
    BY <1>1, <1>10, <2>1, MovesKeep
  <2>2. ASSUME NEW i \in DOMAIN t, t[i] \in {Enqueue(a), Make(a)}
        PROVE  \E k \in DOMAIN u : u[k] \in {Enqueue(a), Make(a)}
    <3>1. CASE i = 1
      <4>1. a = b
        BY <1>3, <2>2, <3>1 DEF Make, Enqueue
      <4> QED
        BY <1>3, <1>5, <4>1
    <3>2. CASE i # 1
      BY <1>3, <1>5, <2>2, <3>2
    <3> QED
      BY <3>1, <3>2
  <2> QED
    BY <1>1, <1>2, <2>1, <2>2 DEF AimsQueued
<1>12. \A c : Compared(c) => Compared(c)'
  BY <1>1, MovesKeep, BatchesMade DEF Compared
<1>13. AimsCopied'
  <2> SUFFICES ASSUME op.does = "candidates", NEW c \in ToSet(meta.shortlist) \cap Light
               PROVE  Compared(c)' \/ \E i \in DOMAIN u : u[i] = Copy(c)
    BY <1>7 DEF AimsCopied
  <2>1. Compared(c) \/ \E i \in DOMAIN t : t[i] = Copy(c)
    BY <1>1, <1>2 DEF AimsCopied
  <2>2. t[1] # Copy(c)
    BY <1>3 DEF Make, Copy
  <2> QED
    BY <1>3, <1>5, <1>12, <2>1, <2>2
<1>14. RecordedIsQueued' /\ ValidatedCopied'
  <2>1. Recorded' = Recorded /\ Recorded \subseteq Batch
    BY DEF Recorded
  <2>2. \A a \in Recorded : Queued(a)
    BY <1>1 DEF RecordedIsQueued, Queued
  <2>3. \A a \in Recorded : Queued(a)'
    BY <1>1, <2>1, <2>2, MovesKeep
  <2> QED
    BY <1>1, <1>12, <2>1, <2>3 DEF RecordedIsQueued, Queued, ValidatedCopied
<1> QED
  BY <1>1, <1>8, <1>9, <1>11, <1>13, <1>14 DEF TuningInv, TuningTypeOK, UnderWay, SlicesMove

LEMMA CreateKeeps ==
  ASSUME TuningInv, CreateBatch
  PROVE  TuningInv'
<1>1. /\ op # NoOp /\ meta' = meta /\ early' = early /\ UNCHANGED <<warned, frozen>>
      /\ slices \in [Batch -> Sliced] /\ meta \in Metadata /\ early \subseteq Cand
      /\ TuningTypeOK /\ warned' \subseteq Batch /\ frozen' \in BOOLEAN
  BY DEF CreateBatch, Free, TuningInv, TuningTypeOK
<1>2. Todo \in StepOf /\ Todo.batch \in Batch
  BY <1>1, NextStep
<1>3. CASE /\ slices[Todo.batch] = Unmade
           /\ slices' = [slices EXCEPT ![Todo.batch] = [i \in Days(Todo.batch) |-> "planned"]]
  <2>1. PICK b \in Batch : b = Todo.batch
    BY <1>2
  <2>2. PICK x \in Sliced \ {Unmade} : x = [i \in Days(b) |-> "planned"]
    BY SlicedFacts
  <2>3. slices' = [slices EXCEPT ![b] = x]
    BY <1>3, <2>1, <2>2
  <2>4. SlicesMove /\ slices'[b] # Unmade
    BY <1>1, <1>3, <2>1, <2>2, <2>3 DEF SlicesMove, SliceMoves
  <2>5. CASE Todo.step = "make"
    <3>1. Todo = Make(b)
      BY <1>2, <2>1, <2>5, StepsAre
    <3>2. op' = [op EXCEPT !.todo[1] = Enqueue(b)]
      BY <1>3, <2>1, <2>5 DEF CreateBatch
    <3> QED
      BY <1>1, <2>4, <3>1, <3>2, MadeKeeps
  <2>6. CASE Todo.step = "create"
    <3>1. StepDone
      BY <1>3, <2>6 DEF CreateBatch
    <3>2. \A a \in Batch : Todo = Create(a) => a = b
      BY <2>1 DEF Create
    <3>3. \A a \in Batch : Todo = Enqueue(a) => Queued(a)'
      BY <2>6 DEF Enqueue
    <3>4. \A c \in Cand : Compared(c) \/ Todo = Copy(c) => Compared(c)'
      <4>1. \A c : Todo # Copy(c)
        BY <2>6 DEF Copy
      <4> QED
        BY <1>1, <2>4, <4>1, MovesKeep, BatchesMade DEF Compared
    <3> QED
      BY <1>1, <2>4, <2>6, <3>1, <3>2, <3>3, <3>4, TailKeeps
  <2> QED
    BY <2>5, <2>6 DEF CreateBatch
<1>4. CASE Fails /\ UNCHANGED slices
  BY <1>1, <1>4, SlicesStay, SameNames DEF Fails, replays
<1> QED
  BY <1>3, <1>4 DEF CreateBatch

LEMMA EnqueueKeeps ==
  ASSUME TuningInv, EnqueueSlice
  PROVE  TuningInv'
<1>1. /\ op # NoOp /\ meta' = meta /\ early' = early /\ Todo.step = "enqueue"
      /\ slices \in [Batch -> Sliced] /\ meta \in Metadata /\ early \subseteq Cand
      /\ UNCHANGED <<warned, frozen>>
      /\ TuningTypeOK /\ warned' \subseteq Batch /\ frozen' \in BOOLEAN
  BY DEF EnqueueSlice, Free, TuningInv, TuningTypeOK
<1>2. Todo.batch \in Batch /\ slices[Todo.batch] # Unmade
  BY <1>1, NextStep
<1>3. ASSUME {i \in DOMAIN slices[Todo.batch] : slices[Todo.batch][i] = "planned"} = {},
             StepDone, UNCHANGED slices
      PROVE  TuningInv'
  <2>1. SlicesMove
    BY <1>1, <1>3, SlicesStay DEF replays
  <2>2. \A a \in Batch : Todo = Enqueue(a) => Queued(a)'
    <3>1. \A a \in Batch : Todo = Enqueue(a) => a = Todo.batch
      BY DEF Enqueue
    <3>2. PICK b : b = Todo.batch
      OBVIOUS
    <3>3. slices'[b] # Unmade /\ \A i \in DOMAIN slices'[b] : slices'[b][i] # "planned"
      BY <1>2, <1>3, <3>2
    <3> QED
      BY <3>1, <3>2, <3>3 DEF Queued, Has
  <2>3. \A a \in Batch : Todo # Create(a)
    BY <1>1 DEF Create
  <2>4. \A c \in Cand : Compared(c) \/ Todo = Copy(c) => Compared(c)'
    <3>1. \A c : Todo # Copy(c)
      BY <1>1 DEF Copy
    <3> QED
      BY <1>1, <2>1, <3>1, MovesKeep, BatchesMade DEF Compared
  <2> QED
    BY <1>1, <1>3, <2>1, <2>2, <2>3, <2>4, TailKeeps
<1>4. ASSUME NEW i \in DOMAIN slices[Todo.batch], slices[Todo.batch][i] = "planned",
             slices' = [slices EXCEPT ![Todo.batch][i] = "queued"], UNCHANGED op
      PROVE  TuningInv'
  <2>1. PICK b \in Batch : b = Todo.batch
    BY <1>2
  <2>2. PICK x : x = [slices[b] EXCEPT ![i] = "queued"]
    OBVIOUS
  <2>3. "queued" \in SliceStatus \ {"planned"}
    BY DEF SliceStatus
  <2>4. x \in Sliced
    BY <1>1, <1>4, <2>1, <2>2, <2>3, SlicedFacts
  <2>5. slices' = [slices EXCEPT ![b] = x]
    BY <1>4, <2>1, <2>2
  <2>6. SlicesMove
    BY <1>1, <1>4, <2>1, <2>2, <2>3, <2>4, <2>5 DEF SlicesMove, SliceMoves
  <2> QED
    BY <1>1, <1>4, <2>6, OpStays
<1> QED
  BY <1>3, <1>4 DEF EnqueueSlice

LEMMA CopyKeeps ==
  ASSUME TuningInv, CopyBaseline
  PROVE  TuningInv'
<1>1. /\ op # NoOp /\ meta' = meta /\ slices' = slices /\ Todo.step = "copy"
      /\ slices \in [Batch -> Sliced] /\ meta \in Metadata /\ early \subseteq Cand
      /\ TuningTypeOK /\ UNCHANGED replays
  BY DEF CopyBaseline, Free, TuningInv, TuningTypeOK, replays
<1>2. SlicesMove
  BY <1>1, SlicesStay
<1>3. CASE Fails /\ UNCHANGED early
  BY <1>1, <1>2, <1>3, SameNames DEF Fails
<1>4. CASE /\ early' = IF Done(Baseline) THEN early \ {Todo.batch.cand}
                       ELSE early \cup {Todo.batch.cand}
           /\ StepDone
  <2>1. Done(Baseline) => Done(Baseline)'
    BY <1>1 DEF Done
  <2>2. \A a \in Batch : Todo # Create(a) /\ Todo # Enqueue(a)
    BY <1>1 DEF Create, Enqueue
  <2>3. \A c \in Cand : Compared(c) \/ Todo = Copy(c) => Compared(c)'
    <3>1. \A c : Todo = Copy(c) => Todo.batch.cand = c
      BY DEF Copy, ReplayOf
    <3> QED
      BY <1>4, <2>1, <3>1 DEF Compared
  <2>4. early' \subseteq Cand
    <3>1. Todo.batch.cand \in Cand
      BY <1>1, NextStep, StepsAre
    <3> QED
      BY <1>1, <1>4, <3>1
  <2> QED
    BY <1>1, <1>2, <1>4, <2>2, <2>3, <2>4, TailKeeps
<1> QED
  BY <1>3, <1>4 DEF CopyBaseline

\* What the metadata names afterwards, it named before or the operation aimed at.
LEMMA WriteKeeps ==
  ASSUME TuningInv, WriteMetadata
  PROVE  TuningInv'
<1>1. /\ op # NoOp /\ slices' = slices /\ early' = early /\ Todo.step = "write"
      /\ slices \in [Batch -> Sliced] /\ meta \in Metadata /\ early \subseteq Cand
      /\ warned' \subseteq Batch /\ frozen' \in BOOLEAN
  BY DEF WriteMetadata, Free, TuningInv, TuningTypeOK, replays
<1>2. /\ OperationOK /\ AimsQueued /\ AimsCopied /\ RecordedIsQueued /\ ValidatedCopied
  BY <1>1 DEF TuningInv, TuningTypeOK, UnderWay
<1>3. op' = NoOp /\ Len(op.todo) = 1
  BY <1>1, NextStep DEF WriteMetadata, StepDone
<1>4. \A i \in DOMAIN op.todo : op.todo[i].step = "write"
  BY <1>1, <1>3, NextStep
<1>5. \A b \in Aims : Queued(b)
  <2>1. \A b : Enqueue(b).step # "write" /\ Make(b).step # "write"
    BY DEF Enqueue, Make
  <2> QED
    BY <1>2, <1>4, <2>1 DEF AimsQueued
<1>6. op.does = "candidates" => \A c \in ToSet(meta.shortlist) \cap Light : Compared(c)
  <2>1. \A c : Copy(c).step # "write"
    BY DEF Copy
  <2> QED
    BY <1>2, <1>4, <2>1 DEF AimsCopied
<1>7. \A b \in Recorded : Queued(b)
  BY <1>2 DEF RecordedIsQueued, Queued
<1>8. /\ \A b \in Batch : Queued(b) => Queued(b)'
      /\ \A c : Compared(c) => Compared(c)'
  BY <1>1 DEF Queued, Has, Compared, Done
<1>9. /\ ToSet(meta.shortlist) \subseteq Cand
      /\ op.does \in {"baseline", "holdout", "candidates"}
      /\ op.does = "holdout" => op.cand \in Cand
  BY <1>1, <1>2 DEF Metadata, ToSet, OperationOK, Operation
<1>10. \A b \in Batch : /\ b.kind = "candidate" => b = ReplayOf(b.cand)
                        /\ b.kind = "holdout" => b = HoldoutOf(b.cand)
                        /\ b.kind = "holdout_baseline" => b = HoldoutBase(b.cand)
  BY DEF Batch, Baseline, ReplayOf, HoldoutOf, HoldoutBase
<1>11. ASSUME op.does = "baseline"
       PROVE  meta' \in Metadata /\ Recorded' \subseteq Recorded \cup Aims /\ ValidatedCopied'
  <2>1. meta' = [meta EXCEPT !.baseline = TRUE]
    BY <1>11 DEF WriteMetadata
  <2>2. /\ meta' \in Metadata /\ meta'.baseline = TRUE /\ meta'.validated = meta.validated
        /\ meta'.holdout = meta.holdout
    BY <1>1, <2>1 DEF Metadata
  <2>3. Aims = {Baseline}
    BY <1>11 DEF Aims
  <2>4. Recorded' \subseteq Recorded \cup Aims
    BY <2>2, <2>3 DEF Recorded
  <2>5. ValidatedCopied'
    BY <1>2, <1>8, <2>2 DEF ValidatedCopied
  <2> QED
    BY <2>2, <2>4, <2>5
<1>12. ASSUME op.does = "holdout"
       PROVE  meta' \in Metadata /\ Recorded' \subseteq Recorded \cup Aims /\ ValidatedCopied'
  <2>1. meta' = [meta EXCEPT !.holdout = op.cand, !.verdict = "started"]
    BY <1>12 DEF WriteMetadata
  <2>2. /\ meta' \in Metadata /\ meta'.baseline = meta.baseline
        /\ meta'.validated = meta.validated /\ meta'.holdout = op.cand
    BY <1>1, <1>9, <1>12, <2>1 DEF Metadata
  <2>3. Aims = {HoldoutBase(op.cand), HoldoutOf(op.cand)}
    BY <1>12 DEF Aims
  <2>4. Recorded' \subseteq Recorded \cup Aims
    BY <1>10, <2>2, <2>3 DEF Recorded
  <2>5. ValidatedCopied'
    BY <1>2, <1>8, <2>2 DEF ValidatedCopied
  <2> QED
    BY <2>2, <2>4, <2>5
<1>13. ASSUME op.does = "candidates"
       PROVE  meta' \in Metadata /\ Recorded' \subseteq Recorded \cup Aims /\ ValidatedCopied'
  <2>1. meta' = [meta EXCEPT !.validated = ToSet(meta.shortlist)]
    BY <1>13 DEF WriteMetadata
  <2>2. /\ meta' \in Metadata /\ meta'.baseline = meta.baseline
        /\ meta'.validated = ToSet(meta.shortlist) /\ meta'.holdout = meta.holdout
    BY <1>1, <1>9, <2>1 DEF Metadata
  <2>3. Aims = {ReplayOf(c) : c \in ToSet(meta.shortlist) \ Light}
    BY <1>13 DEF Aims
  <2>4. Recorded' \subseteq Recorded \cup Aims
    BY <1>10, <2>2, <2>3 DEF Recorded
  <2>5. ValidatedCopied'
    BY <1>6, <1>8, <1>13, <2>2 DEF ValidatedCopied
  <2> QED
    BY <2>2, <2>4, <2>5
<1>14. meta' \in Metadata /\ Recorded' \subseteq Recorded \cup Aims /\ ValidatedCopied'
  BY <1>9, <1>11, <1>12, <1>13
<1>15. RecordedIsQueued'
  <2>1. Recorded' \subseteq Batch
    BY DEF Recorded
  <2>2. \A b \in Recorded' : Queued(b)'
    BY <1>5, <1>7, <1>8, <1>14, <2>1
  <2> QED
    BY <2>2 DEF RecordedIsQueued, Queued
<1> QED
  BY <1>1, <1>3, <1>14, <1>15 DEF TuningInv, TuningTypeOK, UnderWay

\* A slice that ends or is stranded.
LEMMA EndKeeps ==
  ASSUME TuningInv, NEW b \in Batch, SliceEnds(b) \/ SliceStranded(b)
  PROVE  TuningInv'
<1>1. /\ slices \in [Batch -> Sliced] /\ UNCHANGED <<meta, op, early>>
      /\ warned \subseteq Batch /\ frozen \in BOOLEAN
  BY DEF SliceEnds, SliceStranded, TuningInv, TuningTypeOK
<1>2. PICK i \in DOMAIN slices[b], end \in Ended \cup {"stranded"} :
        slices[b][i] = "queued" /\ slices' = [slices EXCEPT ![b][i] = end]
  BY DEF SliceEnds, SliceStranded
<1>3. PICK x : x = [slices[b] EXCEPT ![i] = end]
  OBVIOUS
<1>4. end \in SliceStatus \ {"planned"}
  BY DEF SliceStatus, Ended
<1>5. x \in Sliced
  BY <1>1, <1>3, <1>4, SlicedFacts
<1>6. slices' = [slices EXCEPT ![b] = x]
  BY <1>2, <1>3
<1>7. slices' \in [Batch -> Sliced] /\ slices'[b] = x /\ \A a \in Batch \ {b} : slices'[a] = slices[a]
  BY <1>1, <1>5, <1>6
<1>8. warned' \subseteq Batch
  BY <1>1 DEF SliceEnds, SliceStranded
<1>9. frozen' \in BOOLEAN
  <2>1. LeavesRecords(b)
    BY DEF SliceEnds, SliceStranded
  <2> QED
    BY <1>1, <2>1 DEF LeavesRecords
<1>10. SlicesMove
  BY <1>2, <1>3, <1>4, <1>7, <1>8, <1>9 DEF SlicesMove, SliceMoves
<1> QED
  BY <1>1, <1>10, OpStays

LEMMA TuningStarts == TuningInit => TuningInv
<1> SUFFICES ASSUME TuningInit
             PROVE  TuningInv
  OBVIOUS
<1>1. /\ slices \in [Batch -> Sliced] /\ early = {} /\ op = NoOp /\ meta = NoMeta
      /\ warned = {} /\ frozen = FALSE
  BY DEF TuningInit, Sliced
<1>2. meta \in Metadata
  <2>1. << >> \in Seq(Cand)
    OBVIOUS
  <2> QED
    BY <1>1, <2>1 DEF NoMeta, Metadata
<1>3. Recorded = {}
  <2>1. \A b \in Batch : b.kind \in {"holdout", "holdout_baseline"} => b.cand \in Cand
    BY DEF Batch, Baseline, ReplayOf, HoldoutOf, HoldoutBase
  <2> QED
    BY <1>1, <2>1, TuningAssumption DEF Recorded, NoMeta
<1> QED
  BY <1>1, <1>2, <1>3
     DEF TuningInv, TuningTypeOK, UnderWay, RecordedIsQueued, ValidatedCopied, NoMeta

LEMMA TuningKept == TuningInv /\ [TuningNext]_tuningVars => TuningInv'
<1> SUFFICES ASSUME TuningInv, [TuningNext]_tuningVars
             PROVE  TuningInv'
  OBVIOUS
<1>1. meta \in Metadata /\ TuningTypeOK
  BY DEF TuningInv, TuningTypeOK
<1>2. CASE ByHand
  <2>1. op = NoOp
    BY <1>2 DEF ByHand, Free
  <2>2. ASSUME NEW list \in AskedFor, UpdateShortlist(list)
        PROVE  TuningInv'
    BY <2>1, <2>2, AskedForTyped, OneCommitKeeps
  <2> QED
    BY <1>2, <2>1, <2>2, OneCommitKeeps, StartKeeps DEF ByHand
<1>3. CASE Approve
  BY <1>3, OneCommitKeeps DEF Approve, Free
<1>4. CASE Autonomous
  <2>1. op = NoOp
    BY <1>4 DEF Autonomous, Free
  <2>2. ASSUME NEW list \in Listings, UpdateShortlist(list)
        PROVE  TuningInv'
    BY <2>1, <2>2, ListingsTyped, OneCommitKeeps
  <2>3. meta.shortlist # << >> => Head(meta.shortlist) \in Cand
    <3>1. PICK t \in Seq(Cand) : t = meta.shortlist
      BY <1>1 DEF Metadata
    <3> QED
      BY <3>1, TailFacts
  <2>4. Stage \in {"stability_validation_needed", "promotion_proposal_needed"}
          => meta.shortlist # << >>
    BY DEF Stage
  <2> QED
    BY <1>4, <2>1, <2>2, <2>3, <2>4, OneCommitKeeps, StartKeeps DEF Autonomous
<1>5. CASE OperationStep
  BY <1>5, CreateKeeps, EnqueueKeeps, CopyKeeps, WriteKeeps DEF OperationStep
<1>6. CASE OperationDies
  BY <1>1, <1>6, SlicesStay, SameNames DEF OperationDies
<1>7. CASE \E b \in Batch : SliceEnds(b) \/ SliceStranded(b)
  BY <1>7, EndKeeps
<1>8. CASE UNCHANGED tuningVars
  BY <1>1, <1>8, SlicesStay, OpStays DEF tuningVars, replays
<1> QED
  BY <1>2, <1>3, <1>4, <1>5, <1>6, <1>7, <1>8 DEF TuningNext

LEMMA TuningInvHolds == TuningSpec => []TuningInv
BY TuningStarts, TuningKept, PTL DEF TuningSpec

\* The type invariant: the replays are in slices of their windows, and an
\* operation under way has steps, of which the last and only the last writes the
\* metadata, whatever failed or died before (create_baseline_replay_batch,
\* create_candidate_replay_batches, create_holdout_replay_batches).
THEOREM TuningTypeCorrect == TuningSpec => []TuningTypeOK
BY TuningInvHolds, PTL DEF TuningInv

\* A replay that the metadata names was made, with every slice enqueued, for any
\* pool, any windows and any failures.
THEOREM NamedReplaysAreQueued == TuningSpec => []RecordedIsQueued
BY TuningInvHolds, PTL DEF TuningInv

\* Past candidate replay every validated candidate has been replayed over all
\* days, or compared with the whole baseline, but for copies made too early.
THEOREM ValidationIsComplete == TuningSpec => []CompleteIsComplete
<1>1. TuningInv => CompleteIsComplete
  <2> SUFFICES ASSUME TuningInv, Free, Stage \in Beyond, NEW c \in meta.validated
               PROVE  IF c \in Light THEN c \in early \/ Done(Baseline) ELSE Done(ReplayOf(c))
    BY DEF CompleteIsComplete
  <2>1. CASE c \in Light
    BY <2>1 DEF TuningInv, ValidatedCopied, Compared
  <2>2. CASE c \notin Light
    <3>1. ValidationStatus \notin {"queued", "failed"}
      BY DEF Stage, Beyond
    <3> DEFINE statuses ==
          {IF a \in Light THEN "completed" ELSE BatchStatus(ReplayOf(a)) : a \in meta.validated}
    <3>2. statuses = {"completed"}
      BY <3>1 DEF ValidationStatus, AsyncStatus
    <3>3. BatchStatus(ReplayOf(c)) \in statuses
      BY <2>2
    <3>4. BatchStatus(ReplayOf(c)) = "completed"
      <4> HIDE DEF statuses
      <4> QED
        BY <3>2, <3>3
    <3> QED
      BY <2>2, <3>4 DEF BatchStatus, Done
  <2> QED
    BY <2>1, <2>2
<1> QED
  BY <1>1, TuningInvHolds, PTL
=============================================================================
