SPECIFICATION FirmwareSpec
CONSTANTS
  s1 = s1
  s2 = s2
  NoByte = NoByte
  Byte <- MCByte
  RegCount = 4
  Capacity = 3
  CounterMod = 2
  DefaultFill = 0
  Default <- MCDefault
  Writable = {0}
  AutoIncrement = TRUE
  EmbeddedData <- MCEmbeddedData
  StreamAddr <- MCStreamAddr
  ReadChunk = 1
  PreviewBytes = 2
  DataPreviewBytes = 3
  LenMod = 4
  GeneralCallReset = 0
  Messages <- MCOneMessage
  FeedData <- MCOneFeed
  MaxRead = 2
  FeedLimit = 2
  HostMayReset = FALSE
PROPERTY ResetServed
