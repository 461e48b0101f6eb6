CONSTANTS
  Byte = {0, 1}
  Sent = {1}
  Received = {}
  Zero = 0
  None = None
  RxSize = 3
  TxSize = 3
  WholeFrames = 1
SPECIFICATION FairSpec
PROPERTIES FlushReturns
CHECK_DEADLOCK FALSE
