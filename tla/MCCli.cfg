SPECIFICATION FairSpec
CONSTANTS
  Event = {e1}
  NoEvent = NoEvent
  Capacity = 2
  SeqLimit = 3
  Lines <- MCLines
  CmdBytes = 2
  MaxPacket = 3
  Window = 2
  LineEnd <- MCLineEnd
  TextLines <- MCTextLines
INVARIANTS TypeOK DumpIsConsecutive
PROPERTIES LogSpec HandledAsTyped ResetRequested
