SPECIFICATION FairSpec
CONSTANTS
  missing = missing
  old = old
  target = target
  Unavailable = Unavailable
  Values <- MCValues
INVARIANTS
  TypeOK
  VerifiedBeforeTouch
  PrimaryStaysEnabled
  RecoveryCoversBothKeys
  RecoveredObservationIsTrue
PROPERTIES
  KeepsPromise
  Returns
CHECK_DEADLOCK FALSE
