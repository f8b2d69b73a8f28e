SPECIFICATION Spec
CONSTANTS
  Clients = {c1}
  CacheSize = 2
  Cached = {0, 1}
  Asked = {"READ", "WRITE"}
  Direct = {}
  Partition = {0, 1}
  Values = {0, 1}
  Zero = 0
  WriteThrough = FALSE
  DriverFails = TRUE
  Reentrant = FALSE
  LoopCount = 2
  Nobody = Nobody
  NoBuffer = NoBuffer
PROPERTIES
  FlushSuccessIsDurable
