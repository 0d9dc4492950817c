SPECIFICATION Spec
CONSTANTS
  PAGE_SIZE = 4
  ByteBits = 3
  MemMaps <- ScaledMemMaps
  MaxPages = 3
  MaxLive = 3
INVARIANT
  AllocWithinBitmap
