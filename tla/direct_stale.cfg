SPECIFICATION Spec
CONSTANTS
  Clients = {c1}
  CacheSize = 2
  Cached = {0, 1}
  Asked = {"READ", "WRITE"}
  Direct = {0}
  Partition = {0, 1}
  Values = {0, 1}
  Zero = 0
  WriteThrough = FALSE
  DriverFails = FALSE
  Reentrant = FALSE
  LoopCount = 2
  Nobody = Nobody
  NoBuffer = NoBuffer
PROPERTIES
  DirectWriteIsRead
