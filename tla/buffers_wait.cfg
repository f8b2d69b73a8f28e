SPECIFICATION FairSpec
CONSTANTS
  Clients = {c1, c2, c3}
  CacheSize = 2
  Cached = {0, 1, 2}
  Asked = {"WRITE"}
  Direct = {3}
  Partition = {0, 3}
  Values = {0, 1}
  Zero = 0
  WriteThrough = TRUE
  DriverFails = FALSE
  Reentrant = TRUE
  LoopCount = 3
  Nobody = Nobody
  NoBuffer = NoBuffer
INVARIANTS ReleasedIsDurable
PROPERTIES GetBufferReturns
