------------------------------ MODULE MCServices ------------------------------
(***************************************************************************)
(* Small instances of five services, checked one at a time, for they share *)
(* no state: which of them runs is chosen at the start.                    *)
(***************************************************************************)
EXTENDS PlanResolution, EtoroBook, TuningWorkflow, Schedule, ActiveConfig, TLC

VARIABLE service

vars == <<planVars, etoroVars, tuningVars, scheduleVars, activeVars, service>>

\* A bar that touches nothing, one in the entry zone, one that reaches the target
\* only, and one that spans all levels, as do the bars before the plan, which must
\* not count.
Spanning == {"entry", "stop", "take"}
Bars == {{}, {"entry"}, {"take"}, Spanning}

Results == 1 :> "gain" @@ 2 :> "loss"

CONSTANTS C1, C2
Pool == <<C1, C2>>

\* Jobs with one time a day, skipped or not, and with two, skipped or repeated.
SomeCrons == {{2}, {3}, {3, 4}, {1, 3}}
SummerAndWinter == {2, -2}

\* Two deals and the worker alone, or one deal and an operator's pass beside it.
DealsOrPasses ==
  /\ deal[Max(Deals)] = "waiting"
  /\ IF spent.passes = 0 THEN \A d \in Deals : deal[d] = "waiting" => d = Max(Deals)
     ELSE spent.passes = OperatorPasses /\ \A d \in Deals : deal[d] = "waiting"

Init ==
  /\ service \in {"plans", "etoro", "tuning", "schedule", "configs"}
  /\ PlanInit /\ EtoroInit /\ TuningInit /\ ScheduleInit /\ ActiveInit /\ DealsOrPasses
  /\ \A i \in 1..Computed : market[i] = Spanning
  /\ service # "plans" => market[FirstBar] = {}
  /\ service # "etoro" => spent.passes = 0
  /\ service # "schedule" => cron = {2} /\ shift = 2
  /\ IF service = "configs" THEN Len(versions) = 2 ELSE versions = <<>>

Next ==
  /\ UNCHANGED service
  /\ \/ /\ service = "plans" /\ PlanNext
        /\ UNCHANGED <<etoroVars, tuningVars, scheduleVars, activeVars>>
     \/ /\ service = "etoro" /\ EtoroNext
        /\ UNCHANGED <<planVars, tuningVars, scheduleVars, activeVars>>
     \/ /\ service = "tuning" /\ TuningNext
        /\ UNCHANGED <<planVars, etoroVars, scheduleVars, activeVars>>
     \/ /\ service = "schedule" /\ ScheduleNext
        /\ UNCHANGED <<planVars, etoroVars, tuningVars, activeVars>>
     \/ /\ service = "configs" /\ ActiveNext
        /\ UNCHANGED <<planVars, etoroVars, tuningVars, scheduleVars>>

\* The fairness of a service while it runs (EtoroFairness, TuningFairness).
Etoro(A) == service = "etoro" /\ A
Tuning(A) == service = "tuning" /\ A
Fairness ==
  /\ WF_etoroVars(Etoro(Begin(Steering)))
  /\ WF_etoroVars(Etoro(\E p \in Passes : SaveOrder(p) \/ SavePosition(p)))
  /\ WF_etoroVars(Etoro(ReadPositions(Steering) \/ NothingBooked(Steering)))
  /\ SF_etoroVars(Etoro(ReadPortfolio(Steering)))
  /\ SF_etoroVars(Etoro(ReadHistory(Steering, ListedDeals)))
  /\ \A d \in Deals : SF_etoroVars(Etoro(LookUp(Steering, d)))
  /\ WF_etoroVars(Etoro(\E d \in Deals : Visit(Steering, d)))
  /\ WF_tuningVars(Tuning(Autonomous)) /\ WF_tuningVars(Tuning(OperationStep))
  /\ WF_tuningVars(Tuning(\E b \in Batch : SliceEnds(b)))

Spec == Init /\ [][Next]_vars /\ Fairness

\* Where the experiment is the service that acts, the autonomous run brings it to a
\* proposal, or there is trouble that it cannot mend (run_autonomous_until_wait).
ExperimentProposes == service = "tuning" => AutonomousProposes

=============================================================================
