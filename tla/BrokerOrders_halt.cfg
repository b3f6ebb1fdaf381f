\* One pass; an operator may halt trading on the risk page.
SPECIFICATION Spec
CONSTANTS
  r1 = r1
  r2 = r2
  p1 = p1
  p2 = p2
  a1 = a1
  Run = {r1}
  Plan = {p1, p2}
  Account = {a1}
  Wanted <- Pairs
  Cap = 2
  ListLimit = 3
  MaxPasses = 1
  Crashing = {}
  Manual = manual
  Halting = {manual}
  NoOrder = none
INVARIANTS
  ManualHaltStopsLaterPasses
CHECK_DEADLOCK FALSE
