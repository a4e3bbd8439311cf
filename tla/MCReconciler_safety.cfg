SPECIFICATION Spec
CONSTANTS
  a = a
  b = b
  g1 = g1
  g2 = g2
  pod = pod
  lif = lif
  Absent = Absent
  NoGen = NoGen
  CRs <- TwoCRs
  Specs <- AllSpecs
  Gens <- TwoGens
  Resources <- PodAndLif
  Counted <- JustPod
  Probed <- JustLif
  Flaky = TRUE
  MaxEdits = 2
  MaxRestarts = 1
SYMMETRY Symmetry
INVARIANTS TypeOK FactoryDiscipline NothingForgotten
PROPERTIES StatusIsCurrent FailureStaysShown RecoveryStaysShown
CHECK_DEADLOCK FALSE
