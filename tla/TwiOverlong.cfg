\* The constants need no module: the sketch asks for one byte while another
\* master may send up to two more than fit.
SPECIFICATION FairSpec
CONSTANTS
  Byte = {b1, b2}
  Zero = b1
  None = None
  BufLen = 2
  Messages = {}
  ReadLengths = {1}
  Replies = {}
  Stops = {TRUE, FALSE}
  OtherMasters = TRUE
  Faults = {}
  Foreign = {b1, b2}
  Answers = {b1, b2}
  ForeignBytes = 4
PROPERTIES CallReturns
CHECK_DEADLOCK FALSE
