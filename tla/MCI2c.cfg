SPECIFICATION FairSpec
CONSTANTS
  s1 = s1
  s2 = s2
  NoByte = NoByte
  Byte <- MCByte
  RegCount = 4
  Capacity = 4
  CounterMod = 2
  DefaultFill = 0
  Default <- MCDefault
  Writable = {0}
  AutoIncrement = FALSE
  EmbeddedData <- MCEmbeddedData
  StreamAddr <- MCStreamAddr
  ReadChunk = 2
  PreviewBytes = 3
  DataPreviewBytes = 3
  LenMod = 4
  GeneralCallReset = 0
  Messages <- MCFewMessages
  FeedData <- MCFeedData
  MaxRead = 4
  FeedLimit = 2
  HostMayReset = FALSE
INVARIANT RoomForRollback
PROPERTIES RollbackRestores ReadLogTruthful ReadsAreExact ResetServed
