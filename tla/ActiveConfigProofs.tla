-------------------------- MODULE ActiveConfigProofs --------------------------
(***************************************************************************)
(* Theorems about ActiveConfig, for any list limit and any number of       *)
(* versions and of deaths.                                                 *)
(***************************************************************************)
EXTENDS ActiveConfig, TLAPS

Operation == [step : Steps, searches : BOOLEAN, target : Nat, saw : Nat, overlooked : BOOLEAN]

ActiveTypeOK ==
  /\ versions \in Seq(Kinds) /\ activeId \in 0..Len(versions) /\ newestEvent \in Nat
  /\ searched \in BOOLEAN /\ doing \in [Actors -> Operation]
  /\ kills \in Nat /\ torn \in BOOLEAN

\* What is about to be made active, and what was active, exists.
TargetsExist ==
  \A p \in Actors :
    /\ doing[p].saw <= Len(versions)
    /\ doing[p].step \in {"seat", "activate", "note", "record"} =>
         doing[p].target \in 1..Len(versions)

\* Nothing is promoted before there is a baseline.
HasBaseline == \E i \in 1..Len(versions) : versions[i] \in Baselines
BaselineFirst ==
  /\ searched \/ (\E i \in 1..Len(versions) : versions[i] = "promoted") => HasBaseline
  /\ \A p \in Actors :
       doing[p].step \in {"judge", "upgrade", "seat", "note", "store", "promoted"} => HasBaseline

\* A seeder that has listed every version saw none active that was promoted.
SeedsOverNone ==
  \A p \in Actors :
    /\ doing[p].step = "judge" =>
         doing[p].target \in 1..Len(versions) /\ versions[doing[p].target] = "legacy"
    /\ /\ doing[p].step \in Seeds /\ doing[p].saw # None
       /\ versions[doing[p].saw] = "promoted"
       => doing[p].overlooked

\* Who still has to record the last activation is the only one, and will name it.
OneToNote ==
  ~torn => \A p \in Actors : Noting(p) =>
             /\ doing[p].target = activeId
             /\ \A q \in Actors : Noting(q) => q = p

ActiveInv == ActiveTypeOK /\ TargetsExist /\ BaselineFirst /\ SeedsOverNone
               /\ OneToNote /\ HistoryTellsActive

-----------------------------------------------------------------------------
(* What the helpers do.                                                    *)

LEMMA NoOperationTyped == NoOperation \in Operation /\ NoOperation.step = "idle"
BY DEF NoOperation, Operation, Steps, NoStep, None

\* An operation moves on and leaves the others alone.
LEMMA BecomesFacts ==
  ASSUME doing \in [Actors -> Operation], NEW p \in Actors, NEW op \in Operation,
         Becomes(p, op)
  PROVE  /\ doing' \in [Actors -> Operation]
         /\ doing'[p] = IF op.step = "idle" THEN NoOperation ELSE op
         /\ \A q \in Actors \ {p} : doing'[q] = doing[q]
BY NoOperationTyped DEF Becomes, NoStep

\* Two fields replaced at once.
LEMMA SawAndStep ==
  ASSUME NEW op \in Operation, NEW saw \in Nat, NEW step \in Steps
  PROVE  [op EXCEPT !.saw = saw, !.step = step] =
           [step |-> step, searches |-> op.searches, target |-> op.target, saw |-> saw,
            overlooked |-> op.overlooked]
<1> DEFINE new == [op EXCEPT !.saw = saw, !.step = step]
<1>1. op = [f \in DOMAIN op |-> op[f]] /\ DOMAIN op = {"step", "searches", "target", "saw", "overlooked"}
  BY DEF Operation
<1>2. new = [f \in DOMAIN op |-> IF f = "step" THEN step ELSE IF f = "saw" THEN saw ELSE op[f]]
  BY <1>1
<1> QED
  BY <1>1, <1>2

LEMMA StepAndTarget ==
  ASSUME NEW op \in Operation, NEW step \in Steps, NEW target \in Nat
  PROVE  [op EXCEPT !.step = step, !.target = target] =
           [step |-> step, searches |-> op.searches, target |-> target, saw |-> op.saw,
            overlooked |-> op.overlooked]
<1> DEFINE new == [op EXCEPT !.step = step, !.target = target]
<1>1. op = [f \in DOMAIN op |-> op[f]] /\ DOMAIN op = {"step", "searches", "target", "saw", "overlooked"}
  BY DEF Operation
<1>2. new = [f \in DOMAIN op |-> IF f = "step" THEN step ELSE IF f = "target" THEN target ELSE op[f]]
  BY <1>1
<1> QED
  BY <1>1, <1>2

LEMMA AppendFacts ==
  ASSUME versions \in Seq(Kinds), NEW kind \in Kinds, versions' = Append(versions, kind)
  PROVE  /\ versions' \in Seq(Kinds) /\ Len(versions') = Len(versions) + 1
         /\ Len(versions) \in Nat
         /\ versions'[Len(versions) + 1] = kind
         /\ \A i \in 1..Len(versions) : versions'[i] = versions[i]
OBVIOUS

-----------------------------------------------------------------------------
(* Steps that only move an operation on.                                   *)

\* What a step may make of an operation while the versions stay as they are.
Fits(op) ==
  /\ op.saw <= Len(versions) /\ op.step \notin {"note", "record"}
  /\ op.step \in {"seat", "activate"} => op.target \in 1..Len(versions)
  /\ op.step \in {"judge", "upgrade", "seat", "store", "promoted"} => HasBaseline
  /\ op.step = "judge" => op.target \in 1..Len(versions) /\ versions[op.target] = "legacy"
  /\ op.step \in Seeds /\ op.saw # None /\ versions[op.saw] = "promoted" => op.overlooked

LEMMA OperationMoves ==
  ASSUME ActiveInv, NEW p \in Actors, ~Noting(p), NEW op \in Operation, Fits(op),
         Becomes(p, op), searched' \in BOOLEAN, searched' => searched \/ HasBaseline,
         UNCHANGED <<versions, activeId, newestEvent, kills, torn>>
  PROVE  ActiveInv'
<1>1. /\ doing' \in [Actors -> Operation]
      /\ doing'[p] = NoOperation \/ doing'[p] = op
      /\ \A q \in Actors \ {p} : doing'[q] = doing[q]
  BY BecomesFacts DEF ActiveInv, ActiveTypeOK
<1>2. Fits(NoOperation)
  BY DEF Fits, NoOperation, NoStep, None, Seeds, ActiveInv, ActiveTypeOK
<1>3. Fits(doing'[p])
  BY <1>1, <1>2
<1>4. ActiveTypeOK'
  BY <1>1 DEF ActiveInv, ActiveTypeOK
<1>5. TargetsExist'
  BY <1>1, <1>3 DEF ActiveInv, TargetsExist, Fits
<1>6. BaselineFirst'
  BY <1>1, <1>3 DEF ActiveInv, BaselineFirst, HasBaseline, Fits
<1>7. SeedsOverNone'
  BY <1>1, <1>3 DEF ActiveInv, SeedsOverNone, Fits
<1>8. \A q \in Actors : Noting(q)' => q # p /\ Noting(q)
  BY <1>1, <1>3 DEF Noting, At, Fits
<1>9. \A q \in Actors : Noting(q) => Noting(q)' /\ doing'[q] = doing[q]
  BY <1>1 DEF Noting, At
<1>10. OneToNote'
  BY <1>8, <1>9 DEF ActiveInv, OneToNote
<1>11. HistoryTellsActive'
  BY <1>9 DEF ActiveInv, HistoryTellsActive
<1> QED
  BY <1>4, <1>5, <1>6, <1>7, <1>10, <1>11 DEF ActiveInv

LEMMA OnwardFits ==
  ASSUME ActiveInv, NEW p \in Actors, HasBaseline
  PROVE  Onward(p) \in {"store", "idle"}
BY DEF Onward, NoStep

LEMMA AskKeeps ==
  ASSUME ActiveInv, NEW p \in Actors, NEW step \in {"list", "promoted", "activate"},
         NEW searches \in BOOLEAN, NEW v \in Nat, Ask(p, step, searches, v),
         step = "promoted" => searched, step = "activate" => v \in 1..Len(versions)
  PROVE  ActiveInv'
<1> DEFINE op == [step |-> step, searches |-> searches, target |-> v, saw |-> None,
                 overlooked |-> FALSE]
<1>2. op \in Operation
  BY DEF Operation, Steps, None
<1>3. Fits(op)
  BY DEF Fits, Seeds, None, ActiveInv, ActiveTypeOK, BaselineFirst
<1>4. ~Noting(p)
  BY NoOperationTyped DEF Ask, Noting, At
<1> QED
  BY <1>2, <1>3, <1>4, OperationMoves DEF Ask, ActiveInv, ActiveTypeOK

LEMMA ListVersionsKeeps ==
  ASSUME ActiveInv, NEW p \in Actors, ListVersions(p)
  PROVE  ActiveInv'
<1>1. PICK first \in {None} \cup Listed :
        /\ IsFirst(first)
        /\ LET next == IF first = None THEN "baseline"
                       ELSE IF versions[first] = "legacy" THEN "judge" ELSE Onward(p)
           IN Becomes(p, [step |-> next, searches |-> doing[p].searches, target |-> first,
                          saw |-> activeId, overlooked |-> Len(versions) > VersionLimit])
  BY DEF ListVersions
<1> DEFINE next == IF first = None THEN "baseline"
                   ELSE IF versions[first] = "legacy" THEN "judge" ELSE Onward(p)
           op == [step |-> next, searches |-> doing[p].searches, target |-> first,
                  saw |-> activeId, overlooked |-> Len(versions) > VersionLimit]
<1>2. /\ versions \in Seq(Kinds) /\ Len(versions) \in Nat /\ activeId \in 0..Len(versions)
      /\ doing[p] \in Operation /\ VersionLimit \in Nat
  BY ConfigAssumption DEF ActiveInv, ActiveTypeOK
<1>3. first \in 0..Len(versions)
  BY <1>2 DEF Listed, None
<1>4. next \in {"baseline", "judge", "store", "idle"}
  BY DEF Onward, NoStep
<1>5. op \in Operation
  <2> HIDE DEF next
  <2> QED
    BY <1>2, <1>3, <1>4 DEF Operation, Steps, NoStep
<1>6. CASE first = None
  <2>1. Found = {}
    BY <1>1, <1>6 DEF IsFirst, Found, Listed, None
  <2>2. activeId # None /\ versions[activeId] = "promoted" => Len(versions) > VersionLimit
    <3> SUFFICES ASSUME activeId # None, versions[activeId] = "promoted",
                        ~(Len(versions) > VersionLimit)
                 PROVE  FALSE
      OBVIOUS
    <3>1. PICK i \in 1..Len(versions) : versions[i] \in Baselines
      BY <1>2 DEF ActiveInv, BaselineFirst, HasBaseline, None
    <3>2. i \in Found
      BY <1>2, <3>1 DEF Found, Listed
    <3> QED
      BY <2>1, <3>2
  <2>3. next = "baseline"
    BY <1>6
  <2>4. /\ op.step = next /\ op.saw = activeId /\ op.target = first
        /\ Len(versions) > VersionLimit => op.overlooked
    OBVIOUS
  <2>5. Fits(op)
    <3> HIDE DEF next, op
    <3> QED
      BY <1>2, <2>2, <2>3, <2>4 DEF Fits, Seeds
  <2> QED
    BY <1>1, <1>5, <2>5, OperationMoves DEF ListVersions, At, Noting, ActiveInv, ActiveTypeOK
<1>7. CASE first # None
  <2>1. first \in Found /\ first \in 1..Len(versions)
    BY <1>1, <1>7 DEF IsFirst, Found, Listed
  <2>2. HasBaseline
    BY <2>1 DEF Found, Listed, HasBaseline
  <2>3. next \in {"judge", "store", "idle"} /\ (next = "judge" => versions[first] = "legacy")
    BY <1>7 DEF Onward, NoStep
  <2>4. Fits(op)
    BY <1>2, <2>1, <2>2, <2>3 DEF Fits, Seeds
  <2> QED
    BY <1>1, <1>5, <2>4, OperationMoves DEF ListVersions, At, Noting, ActiveInv, ActiveTypeOK
<1> QED
  BY <1>6, <1>7

LEMMA JudgeKeeps ==
  ASSUME ActiveInv, NEW p \in Actors, Judge(p)
  PROVE  ActiveInv'
<1> DEFINE next == IF Upgradable(p) THEN "upgrade" ELSE Onward(p)
           op == [doing[p] EXCEPT !.saw = activeId, !.step = next]
<1>1. /\ doing[p] \in Operation /\ activeId \in 0..Len(versions) /\ Len(versions) \in Nat
      /\ doing[p].step = "judge"
      /\ doing[p].target \in 1..Len(versions) /\ versions[doing[p].target] = "legacy"
      /\ HasBaseline
  BY DEF ActiveInv, ActiveTypeOK, SeedsOverNone, BaselineFirst, Judge, At
<1>2. next \in {"upgrade", "store", "idle"}
  BY DEF Onward, NoStep
<1>3. /\ op \in Operation /\ op.saw = activeId /\ op.step = next
      /\ op.target = doing[p].target
  <2> HIDE DEF next
  <2>1. next \in Steps /\ activeId \in Nat
    BY <1>1, <1>2 DEF Steps, NoStep
  <2>2. op = [step |-> next, searches |-> doing[p].searches, target |-> doing[p].target,
              saw |-> activeId, overlooked |-> doing[p].overlooked]
    BY <1>1, <2>1, SawAndStep
  <2> HIDE DEF op
  <2> QED
    BY <1>1, <2>1, <2>2 DEF Operation
<1>4. next = "upgrade" => activeId = None \/ versions[activeId] = "legacy"
  BY <1>1 DEF Upgradable, Onward, NoStep
<1>5. Fits(op)
  BY <1>1, <1>2, <1>3, <1>4 DEF Fits, Seeds
<1>6. ~Noting(p)
  BY <1>1 DEF Noting, At
<1> QED
  BY <1>3, <1>5, <1>6, OperationMoves DEF Judge, ActiveInv, ActiveTypeOK

LEMMA StoreKeeps ==
  ASSUME ActiveInv, NEW p \in Actors, Store(p)
  PROVE  ActiveInv'
<1> DEFINE op == [doing[p] EXCEPT !.step = "promoted"]
<1>1. /\ doing[p] \in Operation /\ Len(versions) \in Nat /\ doing[p].step = "store"
      /\ doing[p].saw <= Len(versions) /\ HasBaseline
  BY DEF ActiveInv, ActiveTypeOK, TargetsExist, BaselineFirst, Store, At
<1>2. op \in Operation /\ op.saw = doing[p].saw /\ op.step = "promoted"
  BY <1>1 DEF Operation, Steps
<1>3. Fits(op)
  BY <1>1, <1>2 DEF Fits, Seeds
<1>4. ~Noting(p)
  BY <1>1 DEF Noting, At
<1> QED
  BY <1>1, <1>2, <1>3, <1>4, OperationMoves DEF Store, MovesTo

LEMMA NoWinnerKeeps ==
  ASSUME ActiveInv, NoWinner
  PROVE  ActiveInv'
<1>1. Fits(NoOperation)
  BY DEF Fits, NoOperation, NoStep, None, Seeds, ActiveInv, ActiveTypeOK
<1>2. ~Noting(Tuner) /\ Tuner \in Actors
  BY DEF NoWinner, Noting, At, Actors
<1> QED
  BY <1>1, <1>2, NoOperationTyped, OperationMoves DEF NoWinner, ActiveInv, ActiveTypeOK

-----------------------------------------------------------------------------
(* Steps that make a version, make it active, and record the event.        *)

LEMMA CreateKeeps ==
  ASSUME ActiveInv, NEW p \in Actors, NEW kind \in {"baseline", "upgrade", "promoted"},
         NEW next \in {"seat", "activate"}, CreateKind(p, kind, next),
         next = "seat" <=> kind # "promoted"
  PROVE  ActiveInv'
<1> DEFINE new == Len(versions) + 1
           op == [doing[p] EXCEPT !.step = next, !.target = new]
<1>1. /\ versions \in Seq(Kinds) /\ Len(versions) \in Nat /\ activeId \in 0..Len(versions)
      /\ doing[p] \in Operation /\ doing[p].step = kind /\ kind \in Kinds
  BY DEF ActiveInv, ActiveTypeOK, CreateKind, At, Kinds
<1>2. /\ versions' \in Seq(Kinds) /\ Len(versions') = new /\ versions'[new] = kind
      /\ \A i \in 1..Len(versions) : versions'[i] = versions[i]
      /\ UNCHANGED <<activeId, newestEvent, searched, kills, torn>>
  <2>1. /\ versions' = Append(versions, kind)
        /\ UNCHANGED <<activeId, newestEvent, searched, kills, torn>>
    BY DEF CreateKind
  <2> QED
    BY <1>1, <2>1, AppendFacts
<1>3. op = [step |-> next, searches |-> doing[p].searches, target |-> new,
            saw |-> doing[p].saw, overlooked |-> doing[p].overlooked]
  <2>1. next \in Steps /\ new \in Nat
    BY <1>1 DEF Steps
  <2> HIDE DEF new
  <2> QED
    BY <1>1, <2>1, StepAndTarget
<1>4. /\ op \in Operation /\ op.step = next /\ op.target = new /\ op.saw = doing[p].saw
      /\ op.overlooked = doing[p].overlooked
  <2> HIDE DEF op
  <2> QED
    BY <1>1, <1>3 DEF Operation, Steps
<1>5. /\ doing' \in [Actors -> Operation] /\ doing'[p] = op
      /\ \A q \in Actors \ {p} : doing'[q] = doing[q]
  <2>1. Becomes(p, op)
    BY DEF CreateKind
  <2> HIDE DEF op
  <2> QED
    BY <1>4, <2>1, BecomesFacts DEF ActiveInv, ActiveTypeOK
<1> HIDE DEF op
<1>6. ActiveTypeOK'
  BY <1>1, <1>2, <1>5 DEF ActiveInv, ActiveTypeOK
<1>7. TargetsExist'
  <2> SUFFICES ASSUME NEW q \in Actors
               PROVE  /\ doing'[q].saw <= Len(versions')
                      /\ doing'[q].step \in {"seat", "activate", "note", "record"} =>
                           doing'[q].target \in 1..Len(versions')
    BY DEF TargetsExist
  <2>1. doing[q].saw \in Nat /\ doing[q].saw <= Len(versions) /\ doing[p].saw \in Nat
        /\ doing[p].saw <= Len(versions)
    BY DEF ActiveInv, ActiveTypeOK, TargetsExist, Operation
  <2>2. CASE q = p
    BY <1>1, <1>2, <1>4, <1>5, <2>1, <2>2
  <2>3. CASE q # p
    BY <1>1, <1>2, <1>5, <2>1, <2>3 DEF ActiveInv, TargetsExist
  <2> QED
    BY <2>2, <2>3
<1>8. HasBaseline => HasBaseline'
  BY <1>1, <1>2 DEF HasBaseline
<1>9. BaselineFirst'
  <2>1. CASE kind = "baseline"
    <3>1. HasBaseline'
      BY <1>1, <1>2, <2>1 DEF HasBaseline, Baselines
    <3> QED
      BY <3>1 DEF BaselineFirst
  <2>2. CASE kind # "baseline"
    <3>1. HasBaseline
      BY <1>1, <2>2 DEF ActiveInv, BaselineFirst
    <3> QED
      BY <1>8, <3>1 DEF BaselineFirst
  <2> QED
    BY <2>1, <2>2
<1>10. SeedsOverNone'
  <2> SUFFICES ASSUME NEW q \in Actors
               PROVE  /\ doing'[q].step = "judge" =>
                           /\ doing'[q].target \in 1..Len(versions')
                           /\ versions'[doing'[q].target] = "legacy"
                      /\ /\ doing'[q].step \in Seeds /\ doing'[q].saw # None
                         /\ versions'[doing'[q].saw] = "promoted"
                         => doing'[q].overlooked
    BY DEF SeedsOverNone
  <2>1. doing[q].saw \in Nat /\ doing[q].saw <= Len(versions)
    BY DEF ActiveInv, ActiveTypeOK, TargetsExist, Operation
  <2>2. CASE q = p
    BY <1>1, <1>2, <1>4, <1>5, <2>1, <2>2 DEF ActiveInv, SeedsOverNone, Seeds, None
  <2>3. CASE q # p
    BY <1>1, <1>2, <1>5, <2>1, <2>3 DEF ActiveInv, SeedsOverNone, None
  <2> QED
    BY <2>2, <2>3
<1>11. \A q \in Actors : (Noting(q)' <=> Noting(q)) /\ (Noting(q) => doing'[q] = doing[q])
  BY <1>1, <1>4, <1>5 DEF Noting, At
<1>12. OneToNote' /\ HistoryTellsActive'
  BY <1>2, <1>11 DEF ActiveInv, OneToNote, HistoryTellsActive
<1> QED
  BY <1>6, <1>7, <1>9, <1>10, <1>12 DEF ActiveInv

LEMMA SetActiveKeeps ==
  ASSUME ActiveInv, NEW p \in Actors, SetActive(p)
  PROVE  ActiveInv'
<1> PICK step \in {"note", "record"} :
      /\ step = "note" => doing[p].step = "seat"
      /\ step = "record" => doing[p].step = "activate"
      /\ Becomes(p, [doing[p] EXCEPT !.step = step])
  BY DEF SetActive, MovesTo, At
<1> DEFINE op == [doing[p] EXCEPT !.step = step]
<1>1. /\ Len(versions) \in Nat /\ doing[p] \in Operation /\ doing[p].step \in {"seat", "activate"}
      /\ doing[p].target \in 1..Len(versions) /\ doing[p].saw <= Len(versions)
  BY DEF ActiveInv, ActiveTypeOK, TargetsExist
<1>2. /\ op \in Operation /\ op.step = step /\ op.target = doing[p].target
      /\ op.saw = doing[p].saw
  BY <1>1 DEF Operation, Steps
<1>3. /\ doing' \in [Actors -> Operation] /\ doing'[p] = op
      /\ \A q \in Actors \ {p} : doing'[q] = doing[q]
  <2>1. Becomes(p, op)
    OBVIOUS
  <2> HIDE DEF op
  <2> QED
    BY <1>2, <2>1, BecomesFacts DEF ActiveInv, ActiveTypeOK
<1> HIDE DEF op
<1>4. /\ activeId' = doing[p].target /\ torn' \in BOOLEAN
      /\ torn' <=> \E q \in Actors \ {p} : Noting(q)
      /\ UNCHANGED <<versions, newestEvent, searched, kills>>
  BY DEF SetActive
<1>5. ActiveTypeOK'
  BY <1>1, <1>3, <1>4 DEF ActiveInv, ActiveTypeOK
<1>6. TargetsExist'
  BY <1>1, <1>2, <1>3, <1>4 DEF ActiveInv, TargetsExist
<1>7. BaselineFirst'
  BY <1>2, <1>3, <1>4 DEF ActiveInv, BaselineFirst, HasBaseline
<1>8. SeedsOverNone'
  BY <1>2, <1>3, <1>4 DEF ActiveInv, SeedsOverNone, Seeds
<1>9. Noting(p)'
  BY <1>2, <1>3 DEF Noting, At
<1>10. \A q \in Actors \ {p} : Noting(q)' => Noting(q)
  BY <1>3 DEF Noting, At
<1>11. OneToNote'
  BY <1>2, <1>3, <1>4, <1>10 DEF OneToNote
<1> QED
  BY <1>5, <1>6, <1>7, <1>8, <1>9, <1>11 DEF ActiveInv, HistoryTellsActive

LEMMA RecordEventKeeps ==
  ASSUME ActiveInv, NEW p \in Actors, RecordEvent(p)
  PROVE  ActiveInv'
<1> PICK step \in {"store", "idle"} :
      /\ step = "store" => doing[p].step = "note"
      /\ Becomes(p, [doing[p] EXCEPT !.step = step])
  BY DEF RecordEvent, MovesTo, At, Onward, NoStep
<1> DEFINE op == [doing[p] EXCEPT !.step = step]
<1>1. /\ Noting(p) /\ Len(versions) \in Nat /\ doing[p] \in Operation
      /\ doing[p].target \in 1..Len(versions) /\ doing[p].saw <= Len(versions)
      /\ step = "store" => HasBaseline
  BY DEF ActiveInv, ActiveTypeOK, TargetsExist, BaselineFirst, RecordEvent, Noting, At
<1>2. op \in Operation /\ op.step = step /\ op.saw = doing[p].saw
  BY <1>1 DEF Operation, Steps, NoStep
<1>3. /\ doing' \in [Actors -> Operation] /\ doing'[p] \in {op, NoOperation}
      /\ \A q \in Actors \ {p} : doing'[q] = doing[q]
  <2>1. Becomes(p, op)
    OBVIOUS
  <2> HIDE DEF op
  <2> QED
    BY <1>2, <2>1, BecomesFacts DEF ActiveInv, ActiveTypeOK
<1> HIDE DEF op
<1>4. /\ newestEvent' = doing[p].target
      /\ UNCHANGED <<versions, activeId, searched, kills, torn>>
  BY DEF RecordEvent, Noted
<1>5. /\ doing'[p].step \in {"store", "idle"} /\ doing'[p].saw <= Len(versions)
      /\ doing'[p].step = "store" => HasBaseline
  BY <1>1, <1>2, <1>3, NoOperationTyped DEF NoOperation, None
<1>6. ActiveTypeOK'
  BY <1>1, <1>3, <1>4 DEF ActiveInv, ActiveTypeOK
<1>7. TargetsExist'
  BY <1>1, <1>3, <1>4, <1>5 DEF ActiveInv, TargetsExist
<1>8. BaselineFirst'
  BY <1>3, <1>4, <1>5 DEF ActiveInv, BaselineFirst, HasBaseline
<1>9. SeedsOverNone'
  BY <1>3, <1>4, <1>5 DEF ActiveInv, SeedsOverNone, Seeds
<1>10. \A q \in Actors : Noting(q)' => q # p /\ Noting(q) /\ doing'[q] = doing[q]
  BY <1>3, <1>5 DEF Noting, At
<1>11. OneToNote'
  BY <1>4, <1>10 DEF ActiveInv, OneToNote
<1>12. HistoryTellsActive'
  BY <1>1, <1>4 DEF ActiveInv, OneToNote, HistoryTellsActive
<1> QED
  BY <1>6, <1>7, <1>8, <1>9, <1>11, <1>12 DEF ActiveInv

LEMMA OperationLostKeeps ==
  ASSUME ActiveInv, NEW p \in Actors, OperationLost(p)
  PROVE  ActiveInv'
<1>1. /\ doing' \in [Actors -> Operation] /\ doing'[p] = NoOperation
      /\ \A q \in Actors \ {p} : doing'[q] = doing[q]
  BY BecomesFacts, NoOperationTyped DEF OperationLost, ActiveInv, ActiveTypeOK
<1>2. /\ torn' \in BOOLEAN /\ (torn' <=> torn \/ Noting(p)) /\ kills' \in Nat
      /\ UNCHANGED <<versions, activeId, newestEvent, searched>>
  <2>1. /\ torn' = (torn \/ Noting(p)) /\ kills' = kills + 1
        /\ UNCHANGED <<versions, activeId, newestEvent, searched>>
    BY DEF OperationLost
  <2>2. kills' \in Nat
    BY <2>1 DEF ActiveInv, ActiveTypeOK
  <2>3. torn' \in BOOLEAN /\ (torn' <=> torn \/ Noting(p))
    BY <2>1, Zenon
  <2> QED
    BY <2>1, <2>2, <2>3
<1>3. /\ doing'[p].step = "idle" /\ doing'[p].saw = 0 /\ Len(versions) \in Nat
  BY <1>1 DEF NoOperation, NoStep, None, ActiveInv, ActiveTypeOK
<1>4. ActiveTypeOK'
  BY <1>1, <1>2 DEF ActiveInv, ActiveTypeOK
<1>5. TargetsExist'
  BY <1>1, <1>2, <1>3 DEF ActiveInv, TargetsExist
<1>6. BaselineFirst'
  BY <1>1, <1>2, <1>3 DEF ActiveInv, BaselineFirst, HasBaseline
<1>7. SeedsOverNone'
  BY <1>1, <1>2, <1>3 DEF ActiveInv, SeedsOverNone, Seeds
<1>8. \A q \in Actors : Noting(q)' => Noting(q) /\ doing'[q] = doing[q]
  BY <1>1, <1>3 DEF Noting, At
<1>9. \A q \in Actors : Noting(q) => q = p \/ Noting(q)'
  BY <1>1 DEF Noting, At
<1>10. OneToNote'
  BY <1>2, <1>8 DEF ActiveInv, OneToNote
<1>11. HistoryTellsActive'
  BY <1>2, <1>9 DEF ActiveInv, HistoryTellsActive
<1> QED
  BY <1>4, <1>5, <1>6, <1>7, <1>10, <1>11 DEF ActiveInv

-----------------------------------------------------------------------------
(* The invariant and what follows from it.                                 *)

LEMMA ActiveInitInv ==
  ASSUME ActiveInit
  PROVE  ActiveInv
<1>1. PICK db \in Databases : versions = db.versions /\ searched = db.searched
  BY DEF ActiveInit
<1>2. /\ versions \in Seq(Kinds) /\ Len(versions) \in Nat /\ searched \in BOOLEAN
      /\ searched \/ (\E i \in 1..Len(versions) : versions[i] = "promoted") => HasBaseline
  <2>1. CASE db = [versions |-> <<>>, searched |-> FALSE]
    BY <1>1, <2>1
  <2>2. CASE db = [versions |-> <<"baseline">>, searched |-> FALSE]
    BY <1>1, <2>2 DEF Kinds
  <2>3. CASE db = [versions |-> <<"legacy">>, searched |-> FALSE]
    BY <1>1, <2>3 DEF Kinds
  <2>4. CASE db = [versions |-> <<"legacy", "promoted">>, searched |-> TRUE]
    <3>1. versions \in Seq(Kinds) /\ Len(versions) = 2 /\ versions[1] = "legacy"
      BY <1>1, <2>4 DEF Kinds
    <3>2. searched \in BOOLEAN
      BY <1>1, <2>4
    <3> QED
      BY <3>1, <3>2 DEF HasBaseline, Baselines
  <2> QED
    BY <1>1, <2>1, <2>2, <2>3, <2>4 DEF Databases
<1>3. /\ activeId = Len(versions) /\ newestEvent = activeId /\ kills = 0 /\ torn = FALSE
      /\ doing = [p \in Actors |-> NoOperation]
  BY DEF ActiveInit
<1>4. \A p \in Actors : doing[p].step = "idle" /\ doing[p].saw = 0
  BY <1>3 DEF NoOperation, NoStep, None
<1>5. ActiveTypeOK
  <2>1. doing \in [Actors -> Operation]
    BY <1>3, NoOperationTyped
  <2>2. activeId \in 0..Len(versions) /\ newestEvent \in Nat /\ kills \in Nat
    BY <1>2, <1>3
  <2>3. torn \in BOOLEAN
    BY <1>3
  <2> QED
    BY <1>2, <2>1, <2>2, <2>3 DEF ActiveTypeOK
<1>6. TargetsExist /\ BaselineFirst /\ SeedsOverNone
  BY <1>2, <1>4 DEF TargetsExist, BaselineFirst, SeedsOverNone, Seeds
<1>7. OneToNote
  BY <1>4 DEF OneToNote, Noting, At
<1>8. HistoryTellsActive
  BY <1>3 DEF HistoryTellsActive
<1> QED
  BY <1>5, <1>6, <1>7, <1>8 DEF ActiveInv

LEMMA ActiveNextKeeps ==
  ASSUME ActiveInv, [ActiveNext]_activeVars
  PROVE  ActiveInv'
<1>1. CASE Look
  BY <1>1, AskKeeps DEF Look, Actors, None
<1>2. CASE PromoteCandidate
  BY <1>2, AskKeeps DEF PromoteCandidate, Actors, None
<1>3. CASE PromoteVersion
  <2>1. PICK v \in 1..Len(versions) : Ask(Desk, "activate", FALSE, v)
    BY <1>3 DEF PromoteVersion
  <2>2. v \in Nat /\ Desk \in Actors
    BY DEF ActiveInv, ActiveTypeOK, Actors
  <2> QED
    BY <2>1, <2>2, AskKeeps
<1>4. CASE TuningRun
  BY <1>4, AskKeeps DEF TuningRun, Actors, None
<1>5. CASE NoWinner
  BY <1>5, NoWinnerKeeps
<1>6. CASE \E p \in Actors : ActorStep(p)
  <2>1. PICK p \in Actors : ActorStep(p)
    BY <1>6
  <2>2. CASE CreateVersion(p)
    BY <2>2, CreateKeeps DEF CreateVersion
  <2> QED
    BY <2>1, <2>2, ListVersionsKeeps, JudgeKeeps, StoreKeeps, SetActiveKeeps,
       RecordEventKeeps, OperationLostKeeps DEF ActorStep
<1>7. CASE UNCHANGED activeVars
  BY <1>7 DEF activeVars, ActiveInv, ActiveTypeOK, TargetsExist, BaselineFirst, HasBaseline,
              SeedsOverNone, OneToNote, HistoryTellsActive, Noting, At
<1> QED
  BY <1>1, <1>2, <1>3, <1>4, <1>5, <1>6, <1>7 DEF ActiveNext

THEOREM ActiveInvariant == ActiveSpec => []ActiveInv
<1>1. ActiveInit => ActiveInv
  BY ActiveInitInv
<1>2. ActiveInv /\ [ActiveNext]_activeVars => ActiveInv'
  BY ActiveNextKeeps
<1> QED
  BY <1>1, <1>2, PTL DEF ActiveSpec

\* The newest promotion event names the active version, but for an overlap or a
\* death between an activation and its event.
THEOREM NewestEventIsActive == ActiveSpec => []HistoryTellsActive
<1>1. ActiveInv => HistoryTellsActive
  BY DEF ActiveInv
<1> QED
  BY <1>1, ActiveInvariant, PTL

\* A seeding displaces no promoted version, unless that was promoted after the
\* seeder looked or the seeder's look left versions out, whatever the list's limit.
THEOREM SeedingDisplacesNone == ActiveSpec => PromotedStays
<1> DEFINE Stays == \A p \in Actors :
       /\ At(p, "seat") /\ doing'[p].step = "note"
       /\ activeId # None /\ versions[activeId] = "promoted"
       => activeId # doing[p].saw \/ doing[p].overlooked
<1>1. ActiveInv /\ [ActiveNext]_activeVars => [Stays]_activeVars
  BY DEF ActiveInv, SeedsOverNone, Seeds, At
<1> QED
  BY <1>1, ActiveInvariant, PTL DEF ActiveSpec, PromotedStays

=============================================================================
