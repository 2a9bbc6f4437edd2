SPECIFICATION Spec
CONSTANTS
  s1 = s1
  Capacity = 1
  MaxCommands = 3
  MaxTerm = 2
  Submitters = {s1}
  ShutsDown = FALSE
PROPERTIES
  SubmitReturns
\* Commands and terms run out, and the CM may be stopped.
CHECK_DEADLOCK FALSE
