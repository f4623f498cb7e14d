SPECIFICATION CacheSpec
CONSTANTS
  B = 2
  Turns <- MCTwo
  NSlots <- MCTight
  Buf = {u1, u2}
  MaxPublish = 2
  MaxFail = 0
  MaxRefuse = 0
  MaxClose = 1
  MaxCrash = 1
INVARIANT ServedIsThePrefix
CHECK_DEADLOCK FALSE
