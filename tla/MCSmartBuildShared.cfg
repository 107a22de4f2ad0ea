SPECIFICATION Spec
CONSTANTS
  raw = raw
  spec = spec
  low = low
  high = high
  Variants <- MCVariants1
  Base = Base
  Expanded = {}
  Runs = {r1, r2}
  Requests <- MCRequestsShared
  Pipeline <- MCPipeline2
  Kind <- MCKind2
  Reads <- MCReads2
  Sources <- MCSources2
  Versions = {v1, v2}
  Configs = {c1}
  MaxEvents = 2
  Uncached = {}
  Missing = Missing
  Foreign = Foreign
  None = None
PROPERTY SkipSound
SYMMETRY MCSymmetry
