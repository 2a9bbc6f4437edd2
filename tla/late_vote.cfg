SPECIFICATION Spec
CONSTANTS
  a = a
  b = b
  c = c
  d = d
  e = e
  Server = {a, b, c}
  None = None
  ElectionBudget <- Budget201
  MaxCommands = 0
  Slots = 1
  MaxAppendCalls = 1
  MaxVoteCalls = 3
  MaxOrphans = 0
  Stoppable = {}
  PromptReplies = FALSE
  TornReads = FALSE
INVARIANTS
  ElectionSafety

\* Budgets run out, and a majority may be stopped: the system may stop.
CHECK_DEADLOCK FALSE
