SPECIFICATION FairSpec
CONSTANTS
  w1 = w1
  w2 = w2
  Workers = {w1, w2}
  Generators = {w1}
  Jobs = {1, 2}
  Kinds <- ThreeKinds
  BatchSize = 1
  Retention = TRUE
  MaxFaults = 2
INVARIANTS OutcomeMatchesEffect FaultCost
PROPERTIES PendingIsClaimed ClaimedIsFinished
