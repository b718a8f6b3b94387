SPECIFICATION FairSpec
CONSTANTS
  Ops = {o1, o2}
  Controls = {c1, c2}
  MaxEpoch = 6
  MaxGen = 3
CHECK_DEADLOCK FALSE
INVARIANTS NoDeadBindings
PROPERTIES ImplementsModuleUse TransientEnds WaitingWriterAcquires
