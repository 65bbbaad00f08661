SPECIFICATION Spec
CONSTANTS
  c1 = c1
  c2 = c2
  d1 = d1
  d2 = d2
  NoCall = NoCall
  Calls <- MCCalls
  Devices <- MCDevices
  Intents <- EveryIntent
  Errors = {"adb", "device", "other"}
  MaxRevision = 4
  MaxPreviews = 2
SYMMETRY Symmetric
INVARIANTS
  TypeOK
  ParentsAreCurrent
  ResolvingIsAwaited
PROPERTIES
  OutcomeIsShown
  TwoConfirmations
  ApplyingIsHeld
CHECK_DEADLOCK FALSE
