SPECIFICATION FairGenSpec
CONSTANTS
  NCtx = 4
  IntMax = 7
  MaxPrompt = 5
  Requests <- Requested
INVARIANTS GenInv Stateless PreflightSuffices
PROPERTIES KeepsContract RoundsAdvance CallEnds
