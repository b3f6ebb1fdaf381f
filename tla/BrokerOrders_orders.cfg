\* Two passes at once, one repeated, operators, a halt, crashes.
SPECIFICATION Spec
CONSTANTS
  r1 = r1
  r2 = r2
  p1 = p1
  p2 = p2
  a1 = a1
  Run = {r1, r2}
  Plan = {p1, p2}
  Account = {a1}
  Wanted <- Pairs
  Cap = 1
  ListLimit = 3
  MaxPasses = 3
  Crashing = {r1}
  Manual = manual
  Halting = {a1}
  NoOrder = none
INVARIANTS
  NoSilentOrder
  AuditIsComplete
  UnknownClosesAccount
  NoSendAfterUnknown
  CapNeedsOverlap
  OpenIsKnown
  HaltStopsLaterPasses
PROPERTIES
  SubmitsOnce
CHECK_DEADLOCK FALSE
