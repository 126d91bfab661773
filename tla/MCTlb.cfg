CONSTANTS
  NUM_TLB_ENTRIES = 2
  UTLB_SZ = 2
  VA <- MCVA
  KSEG <- MCKseg
  KSEG0 <- MCKseg
  Hi <- MCHi
  Lo <- MCLo
  Pairs = {2, 8}
  IndexMax = 3
  HiWrites <- NextAsid
  Lo0Writes <- Even
  Lo1Writes <- Odd
  PairWrites = {8}
  IndexWrites <- Anything
  RandomWrites = {0, 3}
  WiredWrites = {0, 1, 2, 3}
SPECIFICATION MCSpec
INVARIANTS UtlbCoherent TranslateExact FaultProbe ProbeMirrors
PROPERTIES WiredKept
