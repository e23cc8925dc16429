SPECIFICATION KmallocFairSpec
CONSTANTS
  NUM_SIZES = 26
  kmalloc_sizes <- MCSizes
  PAGE_SIZE = 4096
  Requests <- MCRequests
INVARIANTS
  SmallestClass
  BlockFits
PROPERTIES
  SearchEnds
