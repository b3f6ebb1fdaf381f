\* One plan, two deals at eToro, one experiment, one job and the active
\* configuration, one service at a time.
SPECIFICATION Spec
CONSTANTS
  Bar <- Bars
  Span = 2
  Computed = 2
  Horizon = 3
  LastBar = 3
  Scheduled = scheduled
  Requested = requested
  Deals = {1, 2}
  Result <- Results
  Steering = steering
  Operator = operator
  OperatorPasses = 1
  Crashes = 1
  C1 = c1
  C2 = c2
  Cand = {c1, c2}
  Light = {c2}
  PoolOrder <- Pool
  ReplayDays = 2
  HoldoutDays = 1
  NoCand = none
  MaxRequests = 1
  Faults = 2
  DayMinutes = 6
  Crons <- SomeCrons
  Change = 3
  Shifts <- SummerAndWinter
  LastMinute = 9
  NoPass = none
  Tuner = tuner
  Desk = desk
  VersionLimit = 2
  MaxVersions = 4
  Mortal = {tuner}
  MaxKills = 1
INVARIANTS
  DecidedIsTrue
  EtoroOutcomeIsTrue
  RecordedIsQueued
  CompleteIsComplete
  EveryTimeRuns
  HistoryTellsActive
PROPERTIES
  DecidedStays
  DecidedStaysAlone
  EtoroSettles
  ExperimentProposes
  PromotedStays
CHECK_DEADLOCK FALSE
