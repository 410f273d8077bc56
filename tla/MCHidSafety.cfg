\* Every interleaving of two links, repeated authentication, retries and
\* allocation failures, with a lagging event loop.
SPECIFICATION Spec
CONSTANTS
  MaxAttempts = 2
  GenLimit = 8
  Tasks = {t1, t2, t3}
  MaxLinks = 2
  MaxAuths = 2
  AllocationFails = TRUE
  EventLoopLags = TRUE
  Retries = TRUE
SYMMETRY TaskSymmetry
INVARIANTS
  TypeOK
  ReadyMeansReleased
  OneTaskPerGeneration
  ReleasingHasOwner
PROPERTIES
  ImplementsReadiness
\* A host may go for good, and nothing is left to do.
CHECK_DEADLOCK FALSE
