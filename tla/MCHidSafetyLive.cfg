\* Two links, two authentications on each, an operator, and memory for every task.
SPECIFICATION LiveSpec
CONSTANTS
  MaxAttempts = 2
  GenLimit = 5
  Tasks = {t1, t2}
  MaxLinks = 2
  MaxAuths = 2
  AllocationFails = FALSE
  EventLoopLags = TRUE
  Retries = TRUE
PROPERTIES
  AttemptsAreUsed
  UnsettledEnds
\* A host may go for good, and nothing is left to do.
CHECK_DEADLOCK FALSE
