SPECIFICATION FairSpec
CONSTANTS
  Servers = {1, 2}
  Jobs = {j}
  MaxRuns = 2
  MaxEdits = 1
  Lingering = {"failed"}
  None = None
INVARIANTS ManifestTrue StatusNeverAhead DurableSealed DurableVerified
PROPERTIES AnsweredOnceReleased
CHECK_DEADLOCK FALSE
