\* Saves, resets, drops and restarts over an NVS that fails and power that goes.
SPECIFICATION Spec
CONSTANTS
  desk = desk
  s1 = s1
  Names = {board, desk}
  DefaultName = board
  Serials = {s0, s1}
  ChipSerial = s0
  NoText = NoText
  MaxPercent = 2
  DefaultLow = 1
  DefaultHigh = 2
  Interval = 2
  MaxDelta = 3
  Requests <- MCRequests
  MaxChanges = 2
  MaxBoots = 1
INVARIANTS
  TypeOK
  ConfigValid
  RecordIsStored
  LevelIsShown
  HostCanConnect
PROPERTY
  RestartBonds
