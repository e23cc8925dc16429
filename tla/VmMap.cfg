SPECIFICATION Spec
CONSTANTS
  PAGE_SIZE = 2
  VM_ALLOC_BASE = 2
  Limit = 10
  Sizes = {2, 5}
  f1 = f1
  f2 = f2
  Frames = {f1, f2}
  w1 = w1
  w2 = w2
  NoFrame = NoFrame
  HugePage = HugePage
  Firmware <- FirmwarePages
  Identity <- IdentityMap
INVARIANTS
  AreasOrdered
  MappedInAreas
  FramesConserved
PROPERTIES
  RegionsExact
