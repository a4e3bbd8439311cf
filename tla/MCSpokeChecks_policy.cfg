SPECIFICATION FairSpec
CONSTANTS
  r = r
  Resource = r
  WatchedKinds <- JustPolicies
  NodeStatuses <- SomeNodes
  PoolStatuses <- SomePools
  MaxInbox = 1
PROPERTIES DeletedPolicyResolved
