SPECIFICATION Spec
CONSTANTS
  raw = raw
  spec = spec
  low = low
  high = high
  Variants <- MCVariants
  Base = Base
  Expanded = {"D"}
  Runs = {r1}
  Requests <- MCRequests
  Pipeline <- MCPipeline
  Kind <- MCKind
  Reads <- MCReads
  Sources <- MCSources
  Versions = {v1, v2}
  Configs = {c1, c2}
  MaxEvents = 2
  Uncached = {}
  Missing = Missing
  Foreign = Foreign
  None = None
INVARIANTS VariantsSeparate SuccessIsCurrent NothingRebuilt
SYMMETRY MCSymmetry
