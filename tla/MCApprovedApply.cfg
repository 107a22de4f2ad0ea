SPECIFICATION GatedSpec
CONSTANTS
  copy1 = copy1
  copy2 = copy2
  Copies <- MCCopies
  SecureCopies <- MCSecure
  Orig = Orig
  New = New
  Before = Before
  After = After
  Source = Source
  MaxMeddling = 3
  SecureMeddling = 1
  Plan = Plan
  Other = Other
  Hosts = {h1}
  Windows <- MCWindows
  MaxTime = 1
  MaxRecords = 3
  None = None
INVARIANTS UserBytesKept CleanRollback RefusedTouchesNothing OneSuccessor
PROPERTIES NoEditOverlooked FirstPublicationApproved
CHECK_DEADLOCK FALSE
