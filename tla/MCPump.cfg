CONSTANTS
  BlockSize = 1
  NBlocks = 1
  Data = {z}
  Zero = z
  DirectWrite = FALSE
  Image0 <- MCImage
  InquiryData <- MCReply
  SenseData <- MCSense
  CapacityData <- MCReply
  ModeData <- MCReply
  Channels = {0}
  MemSize = 1
  Desc <- RingDesc
  PioWrites <- RingPioWrites
  PioReads <- MCPioReads
  BcWrites <- MCBcWrites
  CtrlWrites <- CmdCtrlWrites
  NoPump = NoPump
SPECIFICATION Spec
PROPERTY PumpReturns
