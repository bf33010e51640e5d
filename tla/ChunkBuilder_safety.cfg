SPECIFICATION Spec
CONSTANTS
  ChunkSize = 2
  x = x
  y = y
  Bytes = {x, y}
  MetaLength = 5
  MaxFiles = 2
  MaxFileLength = 2
  MaxFailures = 1
  MaxReadErrors = 1
  Incompressible <- NoChunks
  Torn = Torn
  None = None
SYMMETRY Symmetry
INVARIANTS
  TypeOK
  FilesKept
  CompleteIfUndisturbed
  Servable
  LeftoversAreFailures
