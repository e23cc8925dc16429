SPECIFICATION Spec
CONSTANTS
  F = 4
  PAGE_SIZE = 2
  NumFrames = 17
  Memmaps <- MCMemmaps
  Image <- MCImage
  Spaces = {"u"}
  LowVirt = {6, 70}
  LowPhys = {40}
  Mmio = {2, 33}
INVARIANTS
  TablesConserved
  KernelShared
PROPERTIES
  MapsExactly
