SPECIFICATION WireSpec
CONSTANTS
  b1 = b1
  b2 = b2
  Byte <- Bytes
  Zero = b1
  None = None
  BufLen = 2
  Messages <- BothBytes
  ReadLengths = {1,3}
  Replies <- NoReply
  Stops = {TRUE, FALSE}
  OtherMasters = FALSE
  Faults = {"nack", "arbitration", "error"}
  Foreign <- Bytes
  Answers <- Bytes
  ForeignBytes = 0
  Answering = FALSE
  Listening = FALSE
INVARIANTS SentWhatWasAccepted RequestIntact
