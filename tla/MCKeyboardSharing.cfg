\* Two runs of any kinds over two links.
SPECIFICATION Spec
CONSTANTS
  Characters = 2
  MaxStarts = 2
  MaxLinks = 2
INVARIANTS
  TypeOK
  KeyAccounted
  BusyHasOwner
  ConsoleRunsExclusive
  StrayKeysBounded
\* Nothing is left to do when the runs have ended and the host has gone.
CHECK_DEADLOCK FALSE
