SPECIFICATION Spec
CONSTANTS
  a = a
  eof = eof
  t1 = t1
  t2 = t2
  Uses <- MCUses
  Chars = {a}
  EOF = eof
  Keystrokes <- MCKeystrokes
  SectorsPerTrack = 3
  NumTracks = 2
  SeekTime = 3
  RotationTime = 2
  Clients = {t1, t2}
  Tester = tester
  NoThread = none
  SectorsUsed = {2, 4}
  Delays = {0, 3}
  MaxOps = 1
INVARIANTS
  InputInOrder
  ReturnsAfterInterrupt
  DiskTimes
PROPERTIES
  CallsReturn
CHECK_DEADLOCK FALSE
