\* One bet, and a terminal that answers everything.
SPECIFICATION Spec
CONSTANTS
  b1 = b1
  b2 = b2
  Bets = {b1}
  Workers = 2
  Cached <- MCCached
  Hung = {}
  Closable = {}
  Profits <- MCProfits
INVARIANTS
  ResultIsProfit
CHECK_DEADLOCK FALSE
