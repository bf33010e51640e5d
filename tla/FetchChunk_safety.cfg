SPECIFICATION Spec
CONSTANTS
  p1 = p1
  p2 = p2
  Main = main
  Readers = {r1}
  None = None
  Peers = {p1, p2}
  Ids <- MCIds
  Image <- MCImage
  ImageOf <- MCImageOf
  Old <- MCOld
  Width = 3
  Parts = 2
  MaxFaults = 1
INVARIANTS
  TypeOK
  AllButTheTop
  OnlyGenuine
  PartsFit
  GapsAreKnown
PROPERTY MissedIsUnheard
