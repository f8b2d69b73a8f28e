CONSTANTS
  SectorUnits = 2
  SectorsPerCluster = 2
  Clusters = {2, 3, 4, 5}
  FreeSets <- MCFreeSets
  Modes <- MCModes
  Lengths = {1, 3, 8}
  MaxSize = 9
  FatFails = TRUE
  DiskFails = TRUE
  MayCut = TRUE
SPECIFICATION Spec
CONSTRAINT NotAstray
INVARIANTS TypeOK CursorInSyncUnlessAstray BytesAreInPlace ReadsFindWhatWasWritten LengthIsKnown
PROPERTIES EntryIsServable NoClusterToSpare
