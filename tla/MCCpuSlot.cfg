CONSTANTS
  Pc <- MCPc
  After <- MCAfter
  Code <- SlotCode
  User <- MCUser
  Effects <- MCEffects
  Vector <- MCVector
  Entry = 0
  ErrorEPC = 0
  INT_POLL = 1
  Modulus = 8
  Devices = {2}
  Pokes = {2}
SPECIFICATION Spec
INVARIANTS FaultVectors
