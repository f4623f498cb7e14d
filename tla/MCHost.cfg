SPECIFICATION HostProgram
CONSTANTS
  TokenizerJson <- MCTokenizerJson
  Requests <- MCRequests
  Turns <- MCTurns
  Followups <- MCFollowups
  TokenSizes = {1, 2}
  PacketSizes = {1, 400}
  Quantiser = {1, 2}
  Order <- MCOrder
  Jobs <- MCJobs
  Checkpoints <- MCCheckpoints
  Thread = {1, 2}
  Options <- MCOptions
  Rank <- MCRank
  DraftRank <- MCDraftRank
  NExpert = 2
  DraftRing = 2
  kMinDraftSlots = 1
  Memory = {1, 5, 12}
  Reserve = 1
  Connection = {"a", "b"}
  Expert = {a, b, d}
  None = none
  NCard = 2
  NSlot = 2
  Dispatches = 3
  FetchMayFail = TRUE
  GrowMayFail = TRUE
  Wide = {"W"}
  Marks = {"m"}
  Sizes = {4, 5}
  Height = 2
  Frames <- MCFrames
  PaneMax = 2
  MaxSaid = 2
INVARIANTS RequestReadsBack ReplayExtendsTranscript 
INVARIANTS AcceptedIsWhole FinishedContainerLoads  DraftIsWhole
INVARIANTS SlotHoldsItsExpert EveryCardRunsAll
INVARIANTS ScreenShowsCanvas GivenBack
PROPERTY DispatchEnds
CHECK_DEADLOCK FALSE
