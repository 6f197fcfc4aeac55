CONSTANTS
  Builds <- StrictRequests
  WordLen = 3
  Radix = 2
  MaxHeader = 2
  MaxLength = 2
  MaxCall = 2
  None = None
SPECIFICATION Spec
INVARIANT KeepAliveIsLast
