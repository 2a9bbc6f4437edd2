SPECIFICATION Spec
CONSTANTS
  Server = {0, 1, 2}
  ElectionBudget <- OneEach
  MaxOrphans = 0
  UnreliableRPC = FALSE
INVARIANTS
  ElectionSafety
\* Budgets run out: the system may stop.
CHECK_DEADLOCK FALSE
CONSTRAINT RivalsOfALeader
