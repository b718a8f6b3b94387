SPECIFICATION FairSpec
CONSTANTS
  a = a
  b = b
  b1 = b1
  Contexts = {a, b}
  Sessions = {a1, b1}
  Owner <- MCOwner
  Tasks = {t1, t2}
  None = None
  MaxLate = 1
  Loads = {{"timeouts"}, {"close_alls"}}
CHECK_DEADLOCK FALSE
INVARIANTS TypeOK
PROPERTIES OnlyCloseAllStrands AwaitedLogoutSpares CarrierNeverSteals SlotLockReleased
