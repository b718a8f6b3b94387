SPECIFICATION Spec
CONSTANTS
  Handles = {1}
  Tasks = {t1, t2, t3}
  MaxStarts = 5
  Loads = {"none"}
CHECK_DEADLOCK FALSE
PROPERTIES EvictionSparesLive
