CONSTANTS
  RxFifo = 2
  TX_DRAIN_TICKS = 2
  RxPollTicks = 2
  Chars = {a, b}
  NoChar = NoChar
  MaxTyped = 3
  Keys = {"k", "up"}
  ExtKeys = {"up"}
  PacketMax = 3
  Motions <- MCMotions
  CtlCmds = {32, 96, 173, 174, 212}
  DataBytes = {3, 240, 244, 255}
  Script <- MCScript
  Retrace = 1
  MaxEvents = 1
  Base = 4
  T2_RATIO = 2
  CountMod = 64
  Loads = {0, 3, 4, 9, 15}
  StartAt = {60}
  NRx = 2
  NTx = 3
  BufSize = 4
  MinFrame = 2
  EthMin = 3
  Frames <- MCFrames
  Shapes <- MCShapes
  Options <- MCOptions
  MaxRx = 2
  MaxTx = 2
  SccBytes = {1, 26}
  DrivenSets <- MCDriven
  Configs <- MCConfigs
  MaxOps <- MCMaxOps
  FB_W = 6
  FB_H = 6
  DISP_H = 5
  DISP_W = 5
  Half = 16
  Bias = 4
  SPAN_MAX = 8
  Length32 = 4
  VC2_RAM_SIZE = 64
  DCB_TIMEOUT_ICNT = 2
  Region = 64
  DrawCommand <- do_command
  PageSize = 16
  Ptes <- MCPtes
  MemSize = 256
  Planes = {0,1,2,3,4,5,6,7,8,9,10,11,12,13,14,15,16,17,18,19,20,21,22,23}
  Jobs <- MCJobs
  MaxSteps = 3
  Limits = {2, 3}
  MemN = 2
  MemStart = 0
  Lbas = {1, 2}
  Contents <- MCContents
  Image <- MCImage
  MaxWrites = 3
  MaxStops = 2
  Pages = {1, 2, 3}
  Guest <- MCGuest
  Vector = 8
  BootMem <- MCBoot
  CkptAt = {0, 4, 7}
  CkptEvery <- MCEvery
  CkptIcnt = {0, 3, 9}
  MaxIcnt = 24
  Succ <- MCSucc
  Width = 4
  PollTurns = 2
  BreakAt = {1}
  MaxCommands <- MCCommands
  MaxBreaks <- MCBreaks
SPECIFICATION MachineSpec
INVARIANTS ConsoleInOrder KeysInOrder PointerTracks CalibrationExact RxStream TxInOrder
INVARIANTS KernelAgrees BlitExact LineExact FrameExact
INVARIANTS LockstepExact DeltaExact CheckpointExact DebuggerExact
PROPERTIES NoStorm PacketsLeave
CHECK_DEADLOCK FALSE
