\* One link and an operator who may retry once.
SPECIFICATION LiveSpec
CONSTANTS
  MaxAttempts = 2
  GenLimit = 8
  Tasks = {t1}
  MaxLinks = 1
  MaxAuths = 1
  AllocationFails = FALSE
  EventLoopLags = FALSE
  Retries = TRUE
PROPERTY
  EveryReleaseSettles
\* A host may go for good, and nothing is left to do.
CHECK_DEADLOCK FALSE
