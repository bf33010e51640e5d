SPECIFICATION FairSpec
CONSTANTS
  own = own
  u1 = u1
  u2 = u2
  u3 = u3
  n1 = n1
  n2 = n2
  self = self
  c1 = c1
  w = w
  h1 = h1
  None = None
  Urls = {own, u1, u2, u3}
  OwnUrls = {own}
  Bootstrap = u1
  Nodes = {n1, n2}
  Self = self
  Chunks = {c1}
  Worker = w
  Handlers = {h1}
  ConnectionLimit = 2
  CandidateLimit = 2
  ExpandTurns = 2
  ExploreTurns = 2
INVARIANTS
  TypeOK
  PeersAreConnections
  OnePerUrl
  WithinLimit
  PoorestFirst
  NoLoop
PROPERTIES
  CallsAreServed
  RoundsEnd
