SPECIFICATION EngineSpec
CONSTANTS
  NLayer = 2
  NExpert = 3
  Decay <- Half
  Hysteresis <- FiveFourths
  MinGain = 6
  Credit = 4
  Warmup = 1
  Expert <- Idx
  SlabSlot = {s1, s2, s3, s4}
  PoolSlot = {p1, p2, p3}
  Record = {r1, r2}
  None = None
  NDispatch = 6
  Slots = 3
  Lead = 1
  Wide <- LastTwo
  Tier0 <- TierOf
  Routed <- CardRoutes
  HostRouted <- HostRoutes
  Strategies = {"heat", "demand"}
  MovesPerTick = 2
INVARIANTS HeatSeesEveryDispatch HeatAgreesWithTables SlotsAccounted
PROPERTIES LedgerSpec AddressNeverLost
CHECK_DEADLOCK FALSE
