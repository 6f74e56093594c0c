SPECIFICATION Spec
CONSTANTS
  Byte = {0, 1}
  Capacity = 4
  FeedData <- MCFeedData
  NoByte = NoByte
INVARIANT TypeOK
PROPERTY QueueSpec
