SPECIFICATION Spec
CONSTANTS
  a = a
  b = b
  c = c
  d = d
  e = e
  Server = {a, b, c, d, e}
  None = None
  ElectionBudget <- Budget111
  MaxCommands = 2
  Slots = 1
  MaxAppendCalls = 3
  MaxVoteCalls = 2
  MaxOrphans = 0
  Stoppable = {}
  PromptReplies = TRUE
  TornReads = FALSE
INVARIANTS
  StateMachineSafety

\* Budgets run out, and a majority may be stopped: the system may stop.
CHECK_DEADLOCK FALSE
CONSTRAINT LateHeartbeatOfA
