SPECIFICATION Spec
CONSTANTS
  Guids = {1, 2}
  Late = {2}
  Guests = {2}
  NBlocks = 2
  NSlots = 14
  NMetaslabs = 2
  MaxTxg = 5
  MaxRot = 1
  Bases <- ManyBases
  Packings <- ManyPackings
  Labels = 4
  MaxShift = 3
  DefaultShift = 1
  Window = 8
  Chunk = 4
  Screen = 2
  Confirmations = 8
  Keep = 2
  MaxHits = 6
  MaxRoots = 2
INVARIANTS
  TrueBaseIsListed
  RootsAreThePast
  CandidatesAreToldRight
