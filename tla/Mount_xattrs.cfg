SPECIFICATION Spec
CONSTANTS
  Names = {2}
  Values <- OneValue
  Lengths = {1, 3}
  ChunkSize = 4
  Wrap = 64
  IdWrap = 16
  Limits <- OneXattr
  NameBytes = 2
  Buffers = {0, 3}
INVARIANT FindsEveryEntry
