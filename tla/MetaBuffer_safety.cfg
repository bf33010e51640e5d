SPECIFICATION BufferSpec
CONSTANTS
  BufferSize = 64
  Lens <- MCLens
  MaxAdded = 2
  MaxStrings = 2
INVARIANT Reserved
