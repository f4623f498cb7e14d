\* The shipped compressor and draft: rows of four pooled from eight positions,
\* five proposals a block.
CONSTANTS
  c1 = c1
  Conn = {c1}
  Nobody = nobody
  Sliding = 8
  AttnBatch = 8
  Ratio = 4
  SlotCounts = {1}
  Drafts = {TRUE}
  Block = 5
  Asks <- One
  Cap = 8
  BlockTokens = 4
  Faulty = FALSE
SPECIFICATION ServeSpec
INVARIANT PoolsOnlyCommitted
