SPECIFICATION Spec
CONSTANTS
  h1 = h1
  h2 = h2
  p1 = p1
  p2 = p2
  NoPlan = NoPlan
  Handlers <- MCHandlers
  Plans <- MCPlans
  Commands <- StartupRun
  MaxRevision = 5
  MaxPreviews = 2
  StoreFaults = {}
  MayRestart = FALSE
SYMMETRY Symmetric
INVARIANT EnumerationFitsSelection
CHECK_DEADLOCK FALSE
