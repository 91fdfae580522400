SPECIFICATION Spec
CONSTANTS
  MAX_FILE = 4
  FirstFd = 3
  LastFd = 5
  Inodes = {1, 2, 3}
  Names <- MCNames
  HostFiles <- MCHostFiles
  Heaps <- MCHeaps
  IntBits = 8
  maxNumLen = 4
  MinNumeral <- MCMinNumeral
  Byte = {0, 1, 2}
  UserSize = 2
  Texts <- MCTexts
  Garbage = {2}
  Typed = {1}
  Lines <- MCLines
  FileIds <- MCFileIds
  Sizes <- MCSizes
  Positions <- MCPositions
  Nums <- MCNums
  MaxCalls = 4
  ConsoleTurns = {0, 1}
  NumberTurns = {0}
INVARIANTS
  HandlesConsistent
  NumbersNotMisread
PROPERTIES
  ImplementsFiles
CHECK_DEADLOCK FALSE
