SPECIFICATION Spec
CONSTANTS
  c1 = c1
  c2 = c2
  d1 = d1
  d2 = d2
  NoCall = NoCall
  Calls <- MCCalls
  Devices <- MCDevices
  Intents <- CancelRun
  Errors = {}
  MaxRevision = 5
  MaxPreviews = 1
SYMMETRY Symmetric
INVARIANTS
  SwitchIsBlockedWhileWriting
CHECK_DEADLOCK FALSE
