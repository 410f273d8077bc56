\* A command, a job and a loss of the hotspot.
SPECIFICATION LiveSpec
CONSTANTS
  Retries = 1
  MaxCommands = 1
  MaxJobs = 1
  MaxLosses = 1
  MaxQueue = 2
INVARIANTS
  TypeOK
  RecoveryUnderWay
  OnlineServes
PROPERTIES
  JobKeepsMode
  StationRecovers
\* The access point waits for a phone.
CHECK_DEADLOCK FALSE
