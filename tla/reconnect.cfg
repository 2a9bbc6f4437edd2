SPECIFICATION HarnessSpec
CONSTANTS
  Server = {0, 1}
  ElectionBudget <- OneEach
  MaxOrphans = 1
  UnreliableRPC = TRUE
  MaxOps = 2
  Movable = {0}
INVARIANTS
  HarnessTypeOK
  TimerAlive
  FlagsHonest
PROPERTIES
  OutdatedStepsDown
  ShutdownReturns
\* Budgets run out and the servers are shut down.
CHECK_DEADLOCK FALSE
