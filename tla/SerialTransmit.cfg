CONSTANTS
  Byte = {0, 1}
  Sent = {0, 1}
  Received = {}
  Zero = 0
  None = None
  RxSize = 3
  TxSize = 3
  WholeFrames = 0
SPECIFICATION FairSpec
INVARIANTS FlushDrains
PROPERTIES TxFifo CallsReturn
