SPECIFICATION Spec
CONSTANTS
  Emitters = {e1}
  Capacity = 3
  Reserve = 2
  RotateMax = 2
  CheckpointInterval = 5
  MaxEmits = 4
  MaxStarts = 1
  Faults = {"unreadable"}
INVARIANTS SeqNeverReissued
CHECK_DEADLOCK FALSE
