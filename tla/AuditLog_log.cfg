SPECIFICATION FairSpec
CONSTANTS
  Emitters = {e1, e2}
  Capacity = 3
  Reserve = 2
  RotateMax = 2
  CheckpointInterval = 2
  MaxEmits = 3
  MaxStarts = 2
  Faults = {"none", "torn", "errors"}
INVARIANTS ReadableNeverReissued VerifierAccepts ShutdownSeals ReserveErosionBounded
PROPERTIES WriterEnds
CHECK_DEADLOCK FALSE
