SPECIFICATION GatesSpec
CONSTANTS
  proj1 = proj1
  proj2 = proj2
  fig1 = fig1
  fig2 = fig2
  like1 = like1
  like2 = like2
  unlike = unlike
  r1 = r1
  r2 = r2
  b1 = b1
  b2 = b2
  c1 = c1
  Checkers = {c1}
  Projects <- MCProjects
  Declared <- MCDeclared
  Contents = {like1, like2, unlike}
  Near <- MCNear
  MaxMishaps = 2
  MaxSpoiled = 2
  Missing = Missing
  Torn = Torn
  None = None
  Keepers = {c1}
  Tables <- MCTables
  Values = {like1, like2, unlike}
  Close <- MCClose
  NoTable = NoTable
  HalfFile = HalfFile
  NoHash = NoHash
  Order <- MCOrder
  Under <- MCUnder
  Batches = {b1, b2}
  Flags <- MCFlags
  MostProjects = 2
  MaxTrouble = 1
  Gone = Gone
  NoBatch = NoBatch
  Half = Half
  d1 = d1
  d2 = d2
  d3 = d3
  fine = fine
  poor = poor
  strict = strict
  free = free
  s1 = s1
  Renders = {d1, d2, d3}
  BytesOf <- MCBytesOf
  Qualified = {d1, d2}
  Reports = {fine, poor}
  Readiness <- MCReadiness
  Policies = {strict, free}
  Signoff <- MCSignoff
  Scopes = {"scientific", "visual"}
  Asked = "scientific"
  Opinions <- MCOpinions
  Bindings <- MCBindings
  Waivers = {"known"}
  Shelves = {s1}
  LastTick = 1
  MaxReviews = 1
  MaxChanges = 2
  Unset = Unset
  opt1 = opt1
  opt2 = opt2
  Sources = {"operator", "lab", "project", "render"}
  Parameters <- MCParameters
  Operator <- MCOperator
  Preset <- MCPreset
  Supported <- MCSupported
  Yielding = {"require_canonical_docs"}
  Kernel = {"no_replace_promotion"}
  Options = {opt1, opt2, Null}
  Lists = {opt1, Null}
  Largest = 2
  Null = Null
  Silent = Silent
  Absent = Absent
  Unknown = Unknown
SYMMETRY Interchangeable
INVARIANTS
  CompleteMeansValidated
  FreezeVerifies
  PromotedAsReviewed
PROPERTIES
  VerdictBacked
  FrozenStaysAccepted
  PassedAsFrozen
CHECK_DEADLOCK FALSE
