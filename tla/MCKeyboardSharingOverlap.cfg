\* Two runs that test the flag before either sets it.
SPECIFICATION Spec
CONSTANTS
  Characters = 1
  MaxStarts = 2
  MaxLinks = 1
INVARIANT
  OneRunAtATime
\* Nothing is left to do when the runs have ended and the host has gone.
CHECK_DEADLOCK FALSE
