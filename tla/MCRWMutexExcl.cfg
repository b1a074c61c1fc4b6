CONSTANTS
  G = {g1, g2, g3}
  MaxOps = 2
  Parts = {"rwmutex"}
  Writers = {g1, g2}
  Readers = {g3}
  Waiters = {g1, g2}
  Tasks = {t1, t2, t3}
  MaxWaits = 2
  MaxMisuse = 1
SPECIFICATION SyncSpec
CHECK_DEADLOCK FALSE
INVARIANT
  RWExclusion
