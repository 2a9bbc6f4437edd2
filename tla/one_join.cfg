SPECIFICATION FairSpec
CONSTANTS
  Initial = 3
  MaxServers = 4
  StandsIn <- ZeroAndTheNewOne
  MaxVoteCalls = 2
  MaxHeartbeats = 1
  MaxLateVotes = 1
  MaxLateBeats = 0
  Stoppable = {0, 1}
  PromptReplies = TRUE
INVARIANTS
  TypeOK
  ElectionSafety
  ElectionInv
PROPERTIES
  TermMonotone
  StopEnds
\* Terms run out, and the election timers of some servers never expire.
CHECK_DEADLOCK FALSE
