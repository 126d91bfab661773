CONSTANTS
  FB_W = 6
  FB_H = 6
  DISP_H = 5
  DISP_W = 5
  Half = 16
  Bias = 4
  SPAN_MAX = 8
  Length32 = 4
  VC2_RAM_SIZE = 32
  DCB_TIMEOUT_ICNT = 2
  Region = 64
  DrawCommand <- do_command
  PageSize = 16
  Ptes <- MCPtes
  MemSize = 128
  Planes = {0, 1, 2, 3, 4, 5, 6, 7}
  Jobs <- MCJobs
SPECIFICATION GfxSpec
INVARIANT KernelExact
CHECK_DEADLOCK FALSE
