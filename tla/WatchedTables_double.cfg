SPECIFICATION WatchSpec
CONSTANTS
  w1 = w1
  w2 = w2
  Workers = {w1}
  Generators = {w1}
  Jobs = {1, 2, 3}
  Kinds <- MappedKinds
  BatchSize = 1
  Retention = FALSE
  MaxFaults = 0
  Sources = {"docs"}
  EmbedColumns = {"vec"}
  TextColumns = {"txt"}
  MaxWatches = 2
INVARIANTS OneJobPerChange
