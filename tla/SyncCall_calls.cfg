SPECIFICATION FairSyncSpec
CONSTANTS
  a = a
  b = b
  NoJob = NoJob
  Jobs = {1, 2, 3}
  Callers = {a, b}
  Repeatable = {b}
  Retention = TRUE
INVARIANTS SyncInv CommittedTimeoutIsHonest
PROPERTY CallReturns
CHECK_DEADLOCK FALSE
