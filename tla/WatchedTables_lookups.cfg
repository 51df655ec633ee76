SPECIFICATION WatchSpec
CONSTANTS
  w1 = w1
  w2 = w2
  Workers = {w1}
  Generators = {w1}
  Jobs = {1, 2, 3, 4}
  Kinds <- SomeKinds
  BatchSize = 2
  Retention = FALSE
  MaxFaults = 1
  Sources = {"docs"}
  EmbedColumns = {"vec"}
  TextColumns = {"txt"}
  MaxWatches = 2
INVARIANTS WatchInv MissingCost ApartNewestWins ReachesWatchedColumn DoublesAreEmbeds
