CONSTANTS
  Lines = {0, 4, 6}
  Offsets = {0, 1}
  Val = {0, 1}
  Sets = {0}
  SetOf <- MCSetOf
  Alias <- MCAlias
  SpecDma = TRUE
  CoherentDma = TRUE
SPECIFICATION Spec
INVARIANT CleanMatches
PROPERTIES CpuCoherent StoresKept DmaSeen
