SPECIFICATION Spec
CONSTANTS
  Names = {1, 2, 3}
  Values <- MCValues
  Lengths = {1, 3}
  ChunkSize = 4
  Wrap = 64
  IdWrap = 16
  Limits <- MCLimits
  NameBytes = 2
  Buffers = {0, 2, 3, 4}
INVARIANTS
  TypeOK
  TreeKept
  SearchRight
  LookupRight
  ListingComplete
  XattrsRight
  ReadsOwnBytes
