SPECIFICATION ChainSpec
CONSTANTS
  r1 = r1
  proj1 = proj1
  proj2 = proj2
  proj3 = proj3
  b1 = b1
  b2 = b2
  Order <- MCOrder
  Under <- MCUnder
  Batches = {b1, b2}
  Flags <- MCFlags
  MostProjects = 1
  MaxTrouble = 0
  Gone = Gone
  NoBatch = NoBatch
  Half = Half
PROPERTY ChainCovers
