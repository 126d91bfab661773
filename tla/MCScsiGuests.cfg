CONSTANTS
  BlockSize = 1
  NBlocks = 1
  Data = {z}
  Zero = z
  DirectWrite = TRUE
  Image0 <- MCImage
  InquiryData <- MCReply
  SenseData <- MCSense
  CapacityData <- MCReply
  ModeData <- MCReply
  Channels = {0, 1}
  MemSize = 2
  Desc <- MCDesc
  PioWrites <- MCPioWrites
  PioReads <- MCPioReads
  BcWrites <- MCBcWrites
  CtrlWrites <- MCCtrlWrites
  NoPump = NoPump
SPECIFICATION MCSpec
INVARIANTS TypeOK DataPhase ActiveAgree NoLostDrq
PROPERTIES NoSilentEnd ResumeContinues
