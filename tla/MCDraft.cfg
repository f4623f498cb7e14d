\* Two turns of one slot, with a prefix store.
CONSTANTS
  Nobody = nobody
  Sliding = 2
  AttnBatch = 3
  Ratio = 2
  Proposals = 2
  SpecTok = 2
  Arena = 3
  Stores = {TRUE}
  StoreBlock = 2
  Lengths = {1, 3, 6}
  Turns = 2
  Reach = 9
SPECIFICATION DraftSpec
INVARIANT ConditioningIsSaved
CHECK_DEADLOCK FALSE
