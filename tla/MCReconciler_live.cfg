SPECIFICATION FairSpec
CONSTANTS
  a = a
  b = b
  g1 = g1
  g2 = g2
  pod = pod
  lif = lif
  Absent = Absent
  NoGen = NoGen
  CRs <- OneCR
  Specs <- OnMutedHub
  Gens <- TwoGens
  Resources <- JustPod
  Counted <- JustPod
  Probed <- Nothing
  Flaky = FALSE
  MaxEdits = 2
  MaxRestarts = 1
PROPERTIES SpecTakesEffect ReadyInTheEnd FailuresShow RecoveryShows SpecStays MutedIsSilent
CHECK_DEADLOCK FALSE
