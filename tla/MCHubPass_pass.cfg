SPECIFICATION Spec
CONSTANTS
  a = a
  b = b
  n1 = n1
  n2 = n2
  main = main
  Items <- TwoItems
  KindChoices <- Mixed
  Rank <- AThenB
  Lanes <- TwoLanes
  Main = main
  LaneOf <- Apart
  Matches <- AInB
  NodeStatuses <- SomeNodes
  PoolStatuses <- SomePools
INVARIANTS TypeOK ReportIsRight

PROPERTIES AlertStands SilenceStands
