\* A save and a boot under the new identity, then two resets.
SPECIFICATION Spec
CONSTANTS
  desk = desk
  s1 = s1
  Names = {board, desk}
  DefaultName = board
  Serials = {s0, s1}
  ChipSerial = s0
  NoText = NoText
  MaxPercent = 2
  DefaultLow = 1
  DefaultHigh = 2
  Interval = 2
  MaxDelta = 3
  Requests <- MCNamedRequests
  MaxChanges = 3
  MaxBoots = 1
INVARIANT
  ChangeNeedsRestart
