SPECIFICATION FairSpec
CONSTANTS
  r1 = r1
  r2 = r2
  f1 = f1
  Readers = {r1, r2}
  Files = {f1}
  FileOf <- Shared
  Raw <- MCRaw
  TextLen <- MCTextLen
  Counts = {6}
  MaxUpdates = 2
  MaxSeconds = 2
INVARIANTS SemaphoreInv SnapshotInv NoLostWakeup MissesOnlySameSecond
PROPERTIES ImplementsFeed SleeperServed SemaphoreFreed
