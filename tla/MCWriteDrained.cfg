CONSTANTS
  BlockSize = 1
  NBlocks = 1
  Data = {z}
  Zero = z
  DirectWrite = FALSE
  Image0 <- MCImage
  InquiryData <- MCReply
  SenseData <- MCSense
  CapacityData <- MCReply
  ModeData <- MCReply
  Channels = {0}
  MemSize = 2
  Desc <- MCDesc
  PioWrites <- LongPioWrites
  PioReads <- MCPioReads
  BcWrites <- MCBcWrites
  CtrlWrites <- MCCtrlWrites
  NoPump = NoPump
SPECIFICATION Spec
PROPERTY WriteDrained
