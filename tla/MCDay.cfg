\* Two signals of one day whose cascades overlap, with a trade limit of 1.
SPECIFICATION Spec
CONSTANTS
  s1 = s1
  s2 = s2
  d1 = d1
  k1 = k1
  k2 = k2
  Amount <- MCAmount
  Tolerance = 0
  Expiration = 2
  GaleStep = 2
  Signals = {s1, s2}
  Dates = {d1}
  Trigger <- MCTrigger
  DateOf <- MCDateOf
  Slots = {k1}
  Grace = 1
  LossLimit = 0
  TradeLimit = 1
  DrawdownLimit = 0
  PlaceOutcomes = {"ok", "unsupported"}
  WaitResults = {"win", "loss", "error"}
  DbMayFail = FALSE
  PastTolerance = 1
  FutureTolerance = 1
  StageWindow = 3
  QueueSize = 1
  MaxDeliveries = 1
  MaxCrashes = 0
  MaxNow = 4
INVARIANTS
  DailyExact
  PendingHeld
  NoOpenRowAfterEnd
PROPERTIES
  TradeLimitHolds
CHECK_DEADLOCK FALSE
