SPECIFICATION FairSpec
CONSTANTS
  h1 = h1
  h2 = h2
  p1 = p1
  p2 = p2
  NoPlan = NoPlan
  Handlers <- MCHandlers
  Plans <- MCPlans
  Commands <- SettlingRun
  MaxRevision = 5
  MaxPreviews = 2
  StoreFaults = {"load"}
  MayRestart = FALSE
INVARIANTS
  PlannedIsHeld
PROPERTIES
  ExecutingSettles
CHECK_DEADLOCK FALSE
