SPECIFICATION ReadSpec
CONSTANTS
  p1 = p1
  p2 = p2
  png = png
  Promoters = {p1, p2}
  Payloads = {png}
  Bytes <- SameBytes
  Alien = Alien
  NoFile = NoFile
  Faults = {"crash", "interrupt", "lease", "unavailable", "refuse", "source", "staging", "retain"}
  MaxMeddling = 1
SYMMETRY Symmetric
CHECK_DEADLOCK FALSE
INVARIANTS
  EvidenceOrder
  SuccessBacked
  FailureAccounted
  VerifiedPairCoexisted
PROPERTIES
  ImplementsStore
