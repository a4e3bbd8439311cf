SPECIFICATION FairSpec
CONSTANTS
  a = a
  b = b
  g1 = g1
  g2 = g2
  pod = pod
  lif = lif
  Absent = Absent
  NoGen = NoGen
  CRs <- OneCR
  Specs <- OnOrPaused
  Gens <- TwoGens
  Resources <- Nothing
  Counted <- Nothing
  Probed <- Nothing
  Flaky = FALSE
  MaxEdits = 2
  MaxRestarts = 0
PROPERTIES SuspendStopsChecks
CHECK_DEADLOCK FALSE
