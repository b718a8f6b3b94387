SPECIFICATION Spec
CONSTANTS
  k1 = k1  k2 = k2  k3 = k3  pid1 = pid1  pid2 = pid2
  Conns = {k1, k2, k3}
  Peer <- PeerOf
  user = user
  Identity <- IdentityOf
  Contexts = {c1, c2}
  Tasks = {t1, t2}
  MaxContexts = 1
  MaxInFlight = 2
  None = None
SYMMETRY Perms
INVARIANTS CapHolds OpenConnectionRegistered OrphansSeen
PROPERTIES BusyNeverRemoved LiveClientSpared
CHECK_DEADLOCK FALSE
