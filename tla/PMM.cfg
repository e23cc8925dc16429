SPECIFICATION Spec
CONSTANTS
  PAGE_SIZE = 2
  MemMaps <- MCMemMaps
  MaxCount = 3
  Firmware = {1, 30}
INVARIANTS
  BitmapExact
  HeldDisjoint
  HeldInRam
  SinglePageServed
PROPERTIES
  FrameAllocatorSpec
