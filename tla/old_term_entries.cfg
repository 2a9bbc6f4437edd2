SPECIFICATION Spec
CONSTANTS
  a = a
  b = b
  c = c
  d = d
  e = e
  Server = {a, b, c}
  None = None
  ElectionBudget <- Budget220
  MaxCommands = 2
  Slots = 1
  MaxAppendCalls = 1
  MaxVoteCalls = 1
  MaxOrphans = 0
  Stoppable = {}
  PromptReplies = TRUE
  TornReads = FALSE
INVARIANTS
  LeaderCompleteness
  StateMachineSafety
  CommittedDurable
PROPERTIES
  ImplementsCommittedLog

\* Budgets run out, and a majority may be stopped: the system may stop.
CHECK_DEADLOCK FALSE
CONSTRAINT OneCallAtATime
SYMMETRY SwapAB
