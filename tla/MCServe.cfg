\* A window of two positions, three a sub-batch, rows of two, proposals of two.
\* Two layers: the first routes by a table, the second has a compressor.
CONSTANTS
  c1 = c1
  c2 = c2
  c3 = c3
  Conn = {c1, c2, c3}
  Nobody = nobody
  Sliding = 2
  AttnBatch = 3
  Ratio = 2
  SlotCounts = {1, 2}
  Drafts = {TRUE, FALSE}
  Block = 2
  Asks <- Three
  Cap = 4
  BlockTokens = 2
  Faulty = TRUE
  Depth = 2
  HashLayers = {0}
  CompLayers = {1}
  CompRows = 2
  TapLayers = {0, 1}
  Routable = {1, 2}
  PerToken = 1
  OnDisk = {2}
  Rigs <- MCRigs
  Passes <- MCPasses
  Proposals = 2
  SpecTok = 2
  Arena = 3
  Stores = {TRUE, FALSE}
  StoreBlock = 2
  Lengths = {1, 3, 6}
  Turns = 2
  Reach = 9
SPECIFICATION PartsSpec
INVARIANTS SlotIsOwn TranscriptIsTarget PublishedIsTranscript AttendsOnlyToOwn ChunksDoNotShow EachPairOnce DraftSeesTarget
PROPERTY EveryoneAnswered
CHECK_DEADLOCK FALSE
