SPECIFICATION FairStartSpec
CONSTANTS
  Half = 4
  Positive = {"dimensions", "max_size_mb"}
  NonNegative = {"n_gpu_layers"}
  Defaults <- Zeroes
  Raws <- Numbers
  Purges <- Intervals
  Widths = {1, 2}
INVARIANTS UsableInLoop RetentionHonoured FreedOnce RefusalIsReported
PROPERTIES StopsWhenAsked
CHECK_DEADLOCK FALSE
