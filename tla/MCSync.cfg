CONSTANTS
  G = {g1, g2, g3, g4}
  MaxOps = 2
  Parts = {"mutex", "once", "rwmutex", "waitgroup"}
  Writers = {g1, g2, g3}
  Readers = {g2, g3, g4}
  Waiters = {g1, g2}
  Tasks = {t1, t2, t3}
  MaxWaits = 2
  MaxMisuse = 2
SPECIFICATION FairSyncSpec
CHECK_DEADLOCK FALSE
INVARIANTS
  MutualExclusion
  OnceAgrees
  NobodyStranded
  WaitCovers
PROPERTIES
  HandOverInOrder
  EveryCallReturns
