SPECIFICATION FairSpec
CONSTANTS
  MaxScopes = 3
  MaxSkips = 1
INVARIANTS
  TypeOK
  OneSession
PROPERTIES
  WriteIsKept
  SettlesOnce
  TransitionEnds
CHECK_DEADLOCK FALSE
