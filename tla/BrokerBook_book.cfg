\* One order and a resubmission; the worker and an operator. Processes may die anywhere.
SPECIFICATION FairSpec
CONSTANTS
  Rules <- RuleNames
  Trigger = 3
  Lock = 1
  Cushion = 1
  TpCushion = 2
  MinTpGap = 1
  Chase = 4
  PendingMinConf = 2
  HoldMinConf = 2
  CloseMinConf = 1
  PendingSignals = 2
  HoldSignals = 2
  CloseSignals = 3
  NoLevel = none
  Rows = 2
  Worker = worker
  Api = api
  Entry = 4
  Stop0 = 1
  Tp0 = 10
  Price = {7}
  Evidence <- SomeEvidence
  Enabled = {own, default}
  Own = own
  Default = default
  Unlisted = {"pending_new"}
  MaxRequests = 1
INVARIANTS
  OutcomeIsTrue
  SettledTogether
  OneLive
PROPERTIES
  NeverLoosened
  ExitIsRecorded
CHECK_DEADLOCK FALSE
