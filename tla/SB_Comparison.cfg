SPECIFICATION Spec
CONSTANTS
  raw = raw
  spec = spec
  low = low
  high = high
  Variants <- MCVariants
  Base = Base
  Expanded = {}
  Runs = {r1}
  Requests <- MCRequestsComparison
  Pipeline <- MCPipeline
  Kind <- MCKind
  Reads <- MCReads
  Sources <- MCSources
  Versions = {v1, v2}
  Configs = {c1}
  MaxEvents = 1
  Uncached = {"D"}
  Missing = Missing
  Foreign = Foreign
  None = None
INVARIANT VariantsSeparate
SYMMETRY MCSymmetry
