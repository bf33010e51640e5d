SPECIFICATION Spec
CONSTANTS
  Names = {1, 2}
  Values <- NoValues
  Lengths = {1, 3}
  ChunkSize = 1
  Wrap = 64
  IdWrap = 64
  Limits <- NoXattrs
  NameBytes = 2
  Buffers = {0, 2}
INVARIANT ReadsNothingElse
