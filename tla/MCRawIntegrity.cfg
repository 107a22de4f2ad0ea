SPECIFICATION FilesSpec
CONSTANTS
  file1 = file1
  file2 = file2
  out1 = out1
  out2 = out2
  Raw = {file1, file2}
  AllRaw = AllRaw
  Outside = Outside
  Known = Known
  Unknown = Unknown
  Configs <- MCConfigs
  MaxEdits = 2
  Gone = Gone
  Torn = Torn
  None = None
  build1 = build1
  build2 = build2
  Builds = {build1, build2}
  Digests = {1, 2}
  MaxStirs = 2
  NoContent = NoContent
  Kinds = {"csv", "project"}
  Shades = {1, 2}
  Heavy <- MCHeavy
  MaxTurns = 4
  NoFile = NoFile
INVARIANTS
  AcceptedWasAsSealed
  NamedInputsSealed
  FreshSealVerifies
  BytesAsDescribed
  PreviewAsSealed
CHECK_DEADLOCK FALSE
