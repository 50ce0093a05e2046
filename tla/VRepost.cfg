\* The message of a row that an earlier life left pending comes again.
SPECIFICATION FairSpec
CONSTANTS
  Day = 8
  Zone <- MCZone
  PastTolerance = 1
  FutureTolerance = 2
  Pairs <- MCPairs
  Posts <- MCPosts
  Events = {1}
  Earlier <- MCEarlier
  Start = 6
  MaxNow = 11
PROPERTIES
  RepostsCaught
CHECK_DEADLOCK FALSE
