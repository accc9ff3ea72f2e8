SPECIFICATION Spec
CONSTANTS
  Bytes = {0, 1}
  Zero = 0
  CheapPrepend = 2
  InitialSize = 3
  ExtraBuf = 2
  MaxReadable = 5
INVARIANTS
  RetrievesReadable
