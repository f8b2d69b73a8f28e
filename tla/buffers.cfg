SPECIFICATION Spec
CONSTANTS
  Clients = {c1, c2}
  CacheSize = 2
  Cached = {0, 1}
  Asked = {"READ", "WRITE", "WR_ONLY"}
  Direct = {}
  Partition = {0, 1}
  Values = {0, 1}
  Zero = 0
  WriteThrough = FALSE
  DriverFails = TRUE
  Reentrant = FALSE
  LoopCount = 2
  Nobody = Nobody
  NoBuffer = NoBuffer
SYMMETRY Symmetry
INVARIANTS
  TypeOK
  OneBufferPerSector
  HandlesMatchHolders
  HeldBufferIsTheOneAskedFor
  ExclusiveWriter
  CleanIsOnDisk
PROPERTIES
  ReaderIsUndisturbed
  FlushMakesDurable
  ImplementsStore
