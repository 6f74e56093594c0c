SPECIFICATION FairSpec
CONSTANTS
  NoByte = NoByte
  Byte <- MCByte
  Capacity = 1
  CounterMod = 1
  EmbeddedData <- MCEmbeddedData
  StreamAddr <- MCStreamAddr
  MaxPacket = 4
  HeaderBytes = 3
  AccumBytes = 8
  LenBase = 4
  Frames <- MCFrames
  Window = 2
  PipeBytes = 9
  ReadAhead = 1
INVARIANTS FramingKept FreeIsCurrent TypeOK
PROPERTIES EveryFrameAnswered ChannelSpec OnlyLongFramesRejected
