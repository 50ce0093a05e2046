\* Two bets, one of a pair that is not cached; the polls of the other may hang
\* and hold one of the two threads for ever.
SPECIFICATION FairSpec
CONSTANTS
  b1 = b1
  b2 = b2
  Bets <- MCBets
  Workers = 2
  Cached <- MCCached
  Hung <- MCHung
  Closable <- MCClosable
  Profits <- MCProfits
INVARIANTS
  TypeOK
  QueuedSendsAwaited
PROPERTIES
  ImplementsContract
  CallsReturn
CHECK_DEADLOCK FALSE
