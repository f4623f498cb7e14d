SPECIFICATION CacheFairSpec
CONSTANTS
  B = 2
  Turns <- MCThree
  NSlots <- MCTight
  Buf = {u1, u2}
  MaxPublish = 3
  MaxFail = 1
  MaxRefuse = 1
  MaxClose = 1
  MaxCrash = 1
INVARIANTS ServedUnlessKilled IndexTellsTheTruth DeepEndGoesFirst
CHECK_DEADLOCK FALSE
PROPERTY PublishEnds
