SPECIFICATION Spec
CONSTANTS
  NumSectors = 9
  SectorSize = 3
  NumDirEntries = 2
  FieldsPerSector = 3
  FileNames = {"a", "b"}
  FileSizes = {2, 5}
  Raw = 9
  Texts <- MCTexts
  Offsets = {0, 1}
  MaxOps = 7
  MaxCrashes = 1
INVARIANTS
  MapMatchesFiles
  EntriesHaveHeaders
  ContentsKept
CHECK_DEADLOCK FALSE
