SPECIFICATION EmbedSpec
CONSTANTS
  MaxTexts <- Texts
  MaxLength <- Length
  NCtx = 4
  MaxSeqs = 2
  Capacity = 3
INVARIANTS EmbedInv AllocationMatches OwnVectors
