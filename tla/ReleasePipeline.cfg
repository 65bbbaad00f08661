SPECIFICATION Spec
CONSTANTS
  b1 = b1
  b2 = b2
  s1 = s1
  r1 = r1
  r2 = r2
  beta = beta
  final = final
  NoCommit = NoCommit
  NoRun = NoRun
  Damaged = Damaged
  Commits <- MCCommits
  Versions <- MCVersions
  Version <- MCVersion
  Stable <- MCStable
  SignedBy <- MCSignedBy
  Runs <- MCRuns
  Newer <- MCNewer
  HandTags <- MCHandTags
  Inputs <- MCInputs
SYMMETRY Symmetric
INVARIANTS
  TypeOK
PROPERTIES
  TagsStay
  KeepsReleasePromise
CHECK_DEADLOCK FALSE
