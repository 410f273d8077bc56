\* Files of up to six records, of which u32 holds the length of five, with delays
\* of up to five ticks; a slice is two ticks, a countdown one second of three.
SPECIFICATION Spec
CONSTANTS
  HeaderBytes = 15
  RecordBytes = 5
  MaxEncodedBytes = 45
  MaxRecords = 6
  MaxDelay = 20
  U32Max = 25
  U64Max = 79
  HoldUs = 8
  Keycodes <- MCKeycodes
  Modifiers = {{}, {"ctrl"}, {"shift"}, {"ctrl", "shift"}}
  Cleanup <- MCCleanup
  TickUs = 4
  SliceTicks = 2
  SecondTicks = 3
  Countdown = 1
  Images <- MCImages
INVARIANTS
  TypeOK
  VerdictIsRight
  TypedAsVerified
  CompletedInTime
  StopIsPrompt
