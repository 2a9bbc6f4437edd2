SPECIFICATION Spec
CONSTANTS
  a = a
  b = b
  c = c
  d = d
  e = e
  Server = {a, b, c}
  None = None
  ElectionBudget <- Budget210
  MaxCommands = 0
  Slots = 1
  MaxAppendCalls = 1
  MaxVoteCalls = 2
  MaxOrphans = 1
  Stoppable = {a}
  PromptReplies = TRUE
  TornReads = FALSE
INVARIANTS
  TypeOK
  ElectionSafety
  ElectionInv
PROPERTIES
  TermMonotone

\* Budgets run out, and a majority may be stopped: the system may stop.
CHECK_DEADLOCK FALSE
