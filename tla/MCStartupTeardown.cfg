CONSTANTS
  Options <- MCOptions
  Rank <- MCRank
  DraftRank <- MCDraftRank
  NExpert = 2
  DraftRing = 2
  kMinDraftSlots = 1
  Memory = {1, 5, 12}
  Reserve = 1
  Connection = {"a", "b"}
SPECIFICATION StartupSpec
INVARIANT RequestsEndBeforeTeardown
CHECK_DEADLOCK FALSE
