SPECIFICATION Spec
CONSTANTS
  ChunkSize = 2
  x = x
  y = y
  Bytes = {x, y}
  MetaLength = 3
  MaxFiles = 1
  MaxFileLength = 3
  MaxFailures = 0
  MaxReadErrors = 0
  Incompressible <- Alternating
  Torn = Torn
  None = None
INVARIANT
  CompleteWhenReported
