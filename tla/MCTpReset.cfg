SPECIFICATION ResetSpec
CONSTANTS
  Rank = {r1, r2}
  NCalls = 6
  MaxBlocks = 2
  Calls <- MCCalls
  Cell <- MCCell
  Chunk <- MCChunk
  ResetAfter = {2, 4}
INVARIANT ReleaseSurvivesReset
CHECK_DEADLOCK FALSE
