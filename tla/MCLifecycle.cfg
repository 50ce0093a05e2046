\* The whole life: every way to fail, SIGINT at every await, three attempts at
\* the broker, two reconnects, two restarts by the platform, two supervisors of each kind.
SPECIFICATION FairSpec
CONSTANTS
  MaxAttempts = 3
  MaxDrops = 2
  MaxRestarts = 2
  MaxSupervisors = 2
INVARIANTS
  TypeOK
  DriversConnected
  ExitsClean
PROPERTIES
  ImplementsLife
  InterruptEnds
  FailureRestarts
