SPECIFICATION WireSpec
CONSTANTS
  b1 = b1
  b2 = b2
  Byte <- Bytes
  Zero = b1
  None = None
  BufLen = 1
  Messages <- OneByte
  ReadLengths = {1}
  Replies <- OneReply
  Stops = {TRUE}
  OtherMasters = TRUE
  Faults = {"arbitration"}
  Foreign <- OnlyB1
  Answers <- OnlyB2
  ForeignBytes = 2
  Answering = TRUE
  Listening = TRUE
INVARIANTS WireTypeOK UnreadKept NodeIsReady
