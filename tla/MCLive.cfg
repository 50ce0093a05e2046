\* Two signals of one time that share a queue with room for one, a trade limit of
\* 1, and a broker that may never answer: a cascade of up to three stages for the
\* first, the same or a rejection for the second.
SPECIFICATION FairSpec
CONSTANTS
  s1 = s1
  s2 = s2
  d1 = d1
  k1 = k1
  k2 = k2
  Amount <- MCAmount
  Tolerance = 0
  Expiration = 1
  GaleStep = 1
  Signals = {s1, s2}
  Dates = {d1}
  Trigger <- MCTriggerSame
  DateOf <- MCDateOf
  Slots = {k1}
  Grace = 1
  LossLimit = 0
  TradeLimit = 1
  DrawdownLimit = 0
  PlaceOutcomes = {"ok", "unsupported"}
  WaitResults = {"win", "loss"}
  DbMayFail = FALSE
  PastTolerance = 0
  FutureTolerance = 1
  StageWindow = 2
  QueueSize = 1
  MaxDeliveries = 1
  MaxCrashes = 0
  MaxNow = 4
PROPERTIES
  EverySignalEnds
  EverySignalToldEnd
CHECK_DEADLOCK FALSE
