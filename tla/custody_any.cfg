SPECIFICATION Spec
CONSTANTS
  Evidence = {21}
  Outputs = {11, 12}
  Base <- MCBase
  NLogs = 2
  Tools = {t1, t2}
  t1 = t1
  t2 = t2
  Works <- MCWorks
  MaxRuns = 2
  MaxBuilds = 1
  MaxClock = 1
  MaxTrouble = 1
INVARIANTS
  NothingLeftOut
  AlarmsAreReal
  PassIsGenuine
SYMMETRY Symmetry
