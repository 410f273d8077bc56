\* Two jobs, a link that comes and goes, NVS failures and a reset at any moment.
SPECIFICATION LiveSpec
CONSTANTS
  Records = 2
  MaxJobs = 2
  MaxLinks = 1
  MaxResets = 1
  NvsFails = TRUE
INVARIANTS
  TypeOK
  ActiveIffOwned
  FlagSilences
  ReportIsTrue
PROPERTIES
  InterruptionReported
  ImplementsLifecycle
  RunEnds
