CONSTANTS
  BlockSize = 2
  NBlocks = 2
  Data = {0, 1}
  Zero = 0
  DirectWrite = FALSE
  Image0 <- MCImage
  InquiryData <- MCReply
  SenseData <- MCSense
  CapacityData <- MCReply
  ModeData <- MCReply
  Channels = {0}
  MemSize = 4
  Desc <- MCDesc
  PioWrites = {}
  PioReads = {}
  BcWrites = {}
  CtrlWrites = {}
  NoPump = NoPump
  Requests <- MCRequests
  Layout <- MCLayout
  Fills = {3}
  None = None
SPECIFICATION DrvSpec
INVARIANTS ChunksSuffice CleanIdle
PROPERTIES ImplementsBlockDevice RequestEnds
