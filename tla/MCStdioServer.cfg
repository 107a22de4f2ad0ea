SPECIFICATION ServerSpec
CONSTANTS
  Contents = {1, 2}
  Fit = {1}
  MaxCalls = 2
  MaxEdits = 1
  Absent = Absent
  Messages <- MCMessages
  CallKinds <- MCCallKinds
  MaxSent = 2
  MaxKills = 1
INVARIANTS
  OkReplyTrue
  ManifestMatchesFigure
  NoWorkerLeftBehind
PROPERTIES
  ImplementsService
  EveryMessageHandled
CHECK_DEADLOCK FALSE
