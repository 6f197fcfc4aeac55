CONSTANTS
  Listen = 1
  SD = {2, 4}
  CLIENTS = 1
  MaxConn = 3
  MaxData = 3
  MaxSpurious = 1
  PoolSize = 1
  MaxParser = 5
  MaxEvents = 3
  None = None
SPECIFICATION Spec
INVARIANT MalformedIsClosed
