SPECIFICATION FairSpec
CONSTANTS
  NoFile = NoFile
  h1 = h1
  h2 = h2
  h3 = h3
  co = co
  csv = csv
  pod = pod
  Files <- ThreeFiles
  Handlers <- MCHandlers
  Callers <- SerialCallers
  Faults <- AllButRemove
  MaxRestarts = 1
INVARIANTS SettledAgreement
PROPERTIES LedgerSafe Ledger
