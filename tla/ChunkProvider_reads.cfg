\* Two readers of two chunks with room for one: every call evicts, hits and
\* misses on the same entry, and failing loads overlap.
SPECIFICATION FairSpec
CONSTANTS
  t1 = t1
  t2 = t2
  a = a
  b = b
  Threads = {t1, t2}
  Chunks = {a, b}
  Entry = {1, 2, 3, 4, 5}
  CacheSize = 1
  None = None
  Error = Error
INVARIANTS
  TypeOK
  ReadIntegrity
  ExclusiveFill
  NoAbandonedEntry
  CacheBound
PROPERTIES
  ImplementsReadService
  EveryReadReturns
