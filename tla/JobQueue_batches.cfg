SPECIFICATION Spec
CONSTANTS
  w1 = w1
  w2 = w2
  Workers = {w1, w2}
  Generators = {w1, w2}
  Jobs = {1, 2, 3}
  Kinds <- TwoKinds
  BatchSize = 2
  Retention = TRUE
  MaxFaults = 1
SYMMETRY WorkerSymmetry
INVARIANTS QueueInv ExclusiveHold
PROPERTIES ImplementsLedger BoundedBypass BatchAdvances
