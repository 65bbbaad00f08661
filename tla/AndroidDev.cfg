SPECIFICATION FairSpec
CONSTANTS
  Serials = {phone}
  Users <- MCUsers
  Nobody = Nobody
  MaxTransport = 2
  MaxEdits = 3
INVARIANT InstallIsChecked
PROPERTY EveryEditIsDeployed
CHECK_DEADLOCK FALSE
