SPECIFICATION Spec
CONSTANTS
  s1 = s1
  Capacity = 1
  MaxCommands = 4
  MaxTerm = 3
  Submitters = {s1}
  ShutsDown = TRUE
INVARIANTS
  ReceivedInOrder
  NoLostWakeup
  QuietShutdown
  PipelineInv
PROPERTIES
  CommittedDelivered
  ImplementsCommittedLog
\* Commands and terms run out, and the CM may be stopped.
CHECK_DEADLOCK FALSE
