CONSTANTS
  Pc <- MCPc
  After <- MCAfter
  Code <- MCCode
  User <- MCUser
  Effects <- MCEffects
  Vector <- MCVector
  Entry = 0
  ErrorEPC = 0
  INT_POLL = 1
  Modulus = 4
  Devices = {2}
  Pokes = {2}
SPECIFICATION Spec
INVARIANTS ReservationHolds
PROPERTIES ImplementsSequential InterruptTaken TimerComes
