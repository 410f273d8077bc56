\* A STOP answered before the run is armed.
SPECIFICATION Spec
CONSTANTS
  Records = 2
  MaxJobs = 1
  MaxLinks = 1
  MaxResets = 0
  NvsFails = FALSE
INVARIANT
  StopSilences
