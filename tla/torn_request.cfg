SPECIFICATION Spec
CONSTANTS
  a = a
  b = b
  c = c
  d = d
  e = e
  Server = {a, b, c, d, e}
  None = None
  ElectionBudget <- Budget120
  MaxCommands = 4
  Slots = 1
  MaxAppendCalls = 2
  MaxVoteCalls = 2
  MaxOrphans = 0
  Stoppable = {}
  PromptReplies = TRUE
  TornReads = TRUE
INVARIANTS
  LogMatching

\* Budgets run out, and a majority may be stopped: the system may stop.
CHECK_DEADLOCK FALSE
CONSTRAINT SlowRequestsOfA
