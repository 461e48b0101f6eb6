CONSTANTS
  Byte = {0, 1}
  Sent = {1}
  Received = {0, 1}
  Zero = 0
  None = None
  RxSize = 3
  TxSize = 3
  WholeFrames = 0
SPECIFICATION Spec
INVARIANTS TypeOK AvailableIsHonest
PROPERTIES RxFifo ReadReturnsOldest
