SPECIFICATION Spec
CONSTANTS
  a = a
  b = b
  c = c
  d = d
  Candidates <- MCCandidates
  Place <- MCPlace
  Score <- MCScore
  Shape <- MCShape
  Defects <- MCDefects
  NMembers = 2
  Chunks = 2
  MaxHits = 2
  MayFailLimit = 2
  MaxTrouble = 3
INVARIANTS
  NothingForgotten
  ExitZeroIsOnePass
  DumpKeepsItsCandidate
PROPERTIES
  ScansComplete
