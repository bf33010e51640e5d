\* A full store of one file: every write evicts, system calls fail, the
\* process is killed between any two steps.
SPECIFICATION Spec
CONSTANTS
  t1 = t1
  t2 = t2
  Threads = {t1, t2}
  Chunks = {1, 2}
  Inode = {1, 2, 3, 4}
  Parts = 2
  Size = 1
  MaxFailures = 2
  MaxCrashes = 1
  None = None
SYMMETRY Symmetry
INVARIANTS
  TypeOK
  Tracked
  StoreBound
  NoHiddenChunk
  AdvertisedOnDisk
  WholeFiles
