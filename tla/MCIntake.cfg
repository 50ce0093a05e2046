\* Two events, every kind of origin and of text, one row of an earlier life; the clock runs over a midnight
\* in UTC and over one in local time.
SPECIFICATION FairSpec
CONSTANTS
  Day = 8
  Zone <- MCZone
  PastTolerance = 1
  FutureTolerance = 2
  Pairs <- MCPairs
  Posts <- MCPosts
  Events = {1, 2}
  Earlier <- MCEarlier
  Start = 6
  MaxNow = 11
INVARIANTS
  TypeOK
  OneRowPerBet
  
  GenuineKept
  QueuedOnce
  ToldWhy
PROPERTIES
  DuplicateQueued
CHECK_DEADLOCK FALSE
