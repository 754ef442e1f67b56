CONSTANTS
  HEAP_UNITS <- MC_HEAP_UNITS
  CHUNK_UNITS <- MC_CHUNK_UNITS
  ALIGN_UNITS <- MC_ALIGN_UNITS
  Requests <- MC_Requests
  NULL = NULL

SPECIFICATION Spec

INVARIANT TypeOK
INVARIANT MainChainSorted
INVARIANT FreeChainExact
INVARIANT Coalesced
INVARIANT FreeBlocksHoldLinks
INVARIANT LiveBlocksOwned
VIEW AllocatorView
PROPERTY AllocatorRefinement
