\* A budget of two reconnects for the life of the program.
SPECIFICATION Spec
CONSTANTS
  MaxAttempts = 1
  MaxDrops = 2
  MaxRestarts = 0
  MaxSupervisors = 0
INVARIANTS
  GivesUpOnOutage
