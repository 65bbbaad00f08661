SPECIFICATION FairSpec
CONSTANTS
  Labels <- MCLabels
  MaxCeremonies = 3
  MaxGeneration = 5
INVARIANTS
  TypeOK
  CredentialIsOfTheShownUser
  ResultIsEarned
PROPERTY Settles
CHECK_DEADLOCK FALSE
