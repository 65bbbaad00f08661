SPECIFICATION Spec
CONSTANTS
  h1 = h1
  h2 = h2
  p1 = p1
  p2 = p2
  NoPlan = NoPlan
  Handlers <- MCHandlers
  Plans <- MCPlans
  Commands <- EveryCommand
  MaxRevision = 4
  MaxPreviews = 2
  StoreFaults = {"lost", "durable"}
  MayRestart = TRUE
SYMMETRY Symmetric
INVARIANTS
  TypeOK
  DiagnosisFitsContext
  PreviewFitsDiagnosis
  OneUse
  RecordedWhileWriting
  RestoreIsAccounted
PROPERTIES
  EndIsFinal
CHECK_DEADLOCK FALSE
