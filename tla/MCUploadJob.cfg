\* Two jobs under one or two identities, garbled requests, failing flash, a reset,
\* and phones that go on sending.
SPECIFICATION LiveSpec
CONSTANTS
  ChunkBytes = 2
  MaxChunks = 3
  Bits = {b}
  Schedules <- MCSchedules
  Accepted <- MCAccepted
  Crc <- MCCrc
  Sha <- MCSha
  JobIds = {j1, j2}
  None = None
  MaxJobs = 2
  MaxResets = 1
INVARIANTS
  TypeOK
  RecordedIsStaged
PROPERTIES
  AcknowledgedKept
  ImplementsStaging
  UploadDecided
\* The board is idle when no phone has a job for it.
CHECK_DEADLOCK FALSE
