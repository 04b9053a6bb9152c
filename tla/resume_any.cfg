SPECIFICATION FairSpec
CONSTANTS
  a = a
  b = b
  NoImage = NoImage
  Images = {a, b}
  N = 3
  Total <- MCTotal
  Holes <- MCHoles
  Modes = {TRUE, FALSE}
  Resumes = {TRUE, FALSE}
  Faults = {"interrupt", "kill", "unreadable", "salvage", "medium", "sink", "state"}
INVARIANTS
  ClaimHolds
  ExitZeroLosesNothingNew
PROPERTIES
  StateRewindsOnlyToABadBlock
  KeepsThePromise
  InterruptedRunsComplete
