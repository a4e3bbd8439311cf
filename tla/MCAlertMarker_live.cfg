SPECIFICATION FairSpec
CONSTANTS
  NoFile = NoFile
  h1 = h1
  h2 = h2
  h3 = h3
  co = co
  csv = csv
  pod = pod
  Files <- OneFile
  Handlers <- MCHandlers
  Callers <- SharedCallers
  Faults <- NoFaults
  MaxRestarts = 1
INVARIANTS TypeOK MarkerTruth UnfinishedHasWriter
PROPERTIES PersistentFaultAlerted PersistentRecoveryClears
