SPECIFICATION FairSpec
CONSTANTS
  Handles = {1, 2}
  Tasks = {t1, t2, t3}
  MaxStarts = 4
  Loads = {"mints", "close_alls"}
CHECK_DEADLOCK FALSE
INVARIANTS ReadersExact CloseExcludesOps DestroyHitsItsSession
PROPERTIES CloseEnds
