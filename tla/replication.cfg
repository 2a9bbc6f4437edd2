SPECIFICATION Spec
CONSTANTS
  a = a
  b = b
  c = c
  d = d
  e = e
  Server = {a, b, c}
  None = None
  ElectionBudget <- Budget110
  MaxCommands = 3
  Slots = 2
  MaxAppendCalls = 2
  MaxVoteCalls = 1
  MaxOrphans = 0
  Stoppable = {}
  PromptReplies = TRUE
  TornReads = FALSE
INVARIANTS
  LogMatching
  MatchIndexHonest
  NextIndexInRange
PROPERTIES
  CommittedPrefixStable

\* Budgets run out, and a majority may be stopped: the system may stop.
CHECK_DEADLOCK FALSE
SYMMETRY SwapAB
CONSTRAINT VotesAndPairsToC
