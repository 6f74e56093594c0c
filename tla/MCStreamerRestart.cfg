SPECIFICATION Spec
CONSTANTS
  NoByte = NoByte
  Byte <- MCByte
  Capacity = 5
  CounterMod = 1
  EmbeddedData <- MCEmbeddedData
  StreamAddr <- MCStreamAddr
  ReadAhead = 1
  Samples <- MCSamples
  FeedChunk = 2
  MaxStarts = 3
INVARIANT NeverFails
