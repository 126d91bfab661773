CONSTANTS
  Pc <- MCPc
  After <- MCAfter
  Code <- LoopCode
  User <- MCUser
  Effects <- MCEffects
  Vector <- MCVector
  Entry = 0
  ErrorEPC = 0
  INT_POLL = 2
  Modulus = 8
  Devices = {2}
  Pokes = {2}
SPECIFICATION Spec
PROPERTIES InterruptTaken
