\* One signal, everything that can go wrong: two crashes, repeated deliveries,
\* database errors, every broker outcome, and a tolerance beyond the slack of the
\* recovery window, so that a timeout at boot may advance the cascade.
SPECIFICATION Spec
CONSTANTS
  s1 = s1
  s2 = s2
  d1 = d1
  k1 = k1
  k2 = k2
  Amount <- MCAmount
  Tolerance = 2
  Expiration = 2
  GaleStep = 2
  Signals = {s1}
  Dates = {d1}
  Trigger <- MCTriggerOne
  DateOf <- MCDateOfOne
  Slots = {k1, k2}
  Grace = 1
  LossLimit = 0
  TradeLimit = 0
  DrawdownLimit = 0
  PlaceOutcomes = {"ok", "unsupported", "raised", "raised_executed"}
  WaitResults = {"win", "loss", "error"}
  DbMayFail = TRUE
  PastTolerance = 1
  FutureTolerance = 6
  StageWindow = 3
  QueueSize = 2
  MaxDeliveries = 2
  MaxCrashes = 2
  MaxNow = 9
SYMMETRY SlotSymmetry
INVARIANTS
  TypeOK
  Safe
  NoDuplicateTrade
  WriteAhead
  NoGaleWithoutLoss
  OneSupervisor
  DailyNeverOver
  ToldTheTruth
PROPERTIES
  FinalIsFinal
  Implements
  ClosedStagesTimedOut
  NoEarlyTrade
  ImplementsLife
CHECK_DEADLOCK FALSE
