\* The cache: prompts that fit what is backed at load, both threads growing the same
\* spans, and the request thread's driver calls failing.
CONSTANTS
  Worker = {w1, w2, w3}
  Caller = main
  Regions = 2
  MaxSpurious = 1
  Rank = {r1, r2, r3}
  NCalls = 6
  MaxBlocks = 2
  Calls <- MCCalls
  Cell <- MCCell
  Chunk <- MCChunk
  NSpans = 2
  Ratio <- TwoRatios
  MaxPos = 16
  InitPos = 6
  Margin = 4
  DraftLen = 2
  Room = 5
  PrefillLen = 4
  Vram = 99
  Hits <- OneHit
  PrefixOn = TRUE
  MaxIds = 5
  MaxReqs = 2
  Faulty = {"serve"}
SPECIFICATION ThreadsSpec
INVARIANTS SumIsOfThisCall  BackedIsMapped
PROPERTIES FJSpec PoolEnds AllReducesFinish GrowerKeepsUp
CHECK_DEADLOCK FALSE
