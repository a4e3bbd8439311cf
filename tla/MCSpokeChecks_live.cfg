SPECIFICATION FairSpec
CONSTANTS
  r = r
  Resource = r
  WatchedKinds <- SpokeKinds
  NodeStatuses <- SomeNodes
  PoolStatuses <- SomePools
  MaxInbox = 1
INVARIANTS TypeOK
PROPERTIES BrokenIsAlerted FineIsResolved SilenceIsAnnounced LookSettles SettledStays AnnouncedStays NoFalseAlarm
