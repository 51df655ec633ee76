SPECIFICATION WatchSpec
CONSTANTS
  w1 = w1
  w2 = w2
  Workers = {w1, w2}
  Generators = {w1, w2}
  Jobs = {1, 2}
  Kinds <- MappedKinds
  BatchSize = 1
  Retention = FALSE
  MaxFaults = 0
  Sources = {"docs"}
  EmbedColumns = {"vec"}
  TextColumns = {"txt"}
  MaxWatches = 1
SYMMETRY WorkerSymmetry
INVARIANTS NewestTextWins
