SPECIFICATION Spec
CONSTANTS
  s1 = s1
  s2 = s2
  d1 = d1
  k1 = k1
  k2 = k2
  Amount <- MCAmount
  Tolerance = 0
  Expiration = 2
  GaleStep = 2
  Signals = {s1}
  Dates = {d1}
  Trigger <- MCTriggerOne
  DateOf <- MCDateOfOne
  Slots = {k1}
  Grace = 1
  LossLimit = 0
  TradeLimit = 0
  DrawdownLimit = 0
  PlaceOutcomes = {"ok"}
  WaitResults = {"win", "loss"}
  DbMayFail = FALSE
  PastTolerance = 1
  FutureTolerance = 1
  StageWindow = 3
  QueueSize = 2
  MaxDeliveries = 1
  MaxCrashes = 0
  MaxNow = 6
INVARIANTS
  TimeoutContinues
CHECK_DEADLOCK FALSE
