SPECIFICATION SyncSpec
CONSTANTS
  a = a
  b = b
  NoJob = NoJob
  Jobs = {1, 2, 3}
  Callers = {a, b}
  Repeatable = {b}
  Retention = FALSE
INVARIANT TimeoutMeansUnfinished
CHECK_DEADLOCK FALSE
