SPECIFICATION Spec
CONSTANTS
  p1 = p1
  p2 = p2
  Main = main
  Readers = {}
  None = None
  Peers = {p1}
  Ids <- OneId
  Image <- OneImage
  ImageOf <- OneImageOf
  Old = {}
  Width = 3
  Parts = 1
  MaxFaults = 0
INVARIANT MirrorComplete
