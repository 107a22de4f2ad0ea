SPECIFICATION Spec
CONSTANTS
  raw = raw
  spec = spec
  low = low
  high = high
  Variants <- MCVariants
  Base = Base
  Expanded = {}
  Runs = {r1}
  Requests <- MCRequestsFull
  Pipeline <- MCPipeline
  Kind <- MCKind
  Reads <- MCReads
  Sources <- MCSources
  Versions = {v1, v2}
  Configs = {c1, c2}
  MaxEvents = 1
  Uncached = {}
  Missing = Missing
  Foreign = Foreign
  None = None
PROPERTY ConfigChangeRebuilds
SYMMETRY MCSymmetry
