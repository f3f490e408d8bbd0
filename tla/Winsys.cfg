\* Three buffers of sizes 1 and 2 in three pages, or two and a syncobj, or one and
\* two syncobjs; two threads.
SPECIFICATION Spec
CONSTANTS
  Threads = {t1, t2}
  None = None
  Handles <- MCHandles
  Syncs <- MCSyncs
  Requests <- MCRequests
  WaitLists <- MCWaitLists
  Sizes = {1, 2}
  VirtualSize = 3
  MemoryLimit = 3
  MaxBuffers = 3
  MaxCached = 2
  ReclaimBatch = 1
  MaxMade = 3
SYMMETRY ThreadSymmetry
INVARIANTS
  TableMatchesKernel DisjointLayoutAccepted NoLostWakeup
PROPERTY
  RefusedOnlyWhenCacheEmpty
