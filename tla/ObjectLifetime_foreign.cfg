SPECIFICATION Spec
CONSTANTS
  Handles = {h1, h2}
  Sessions = {s1, s2}
  Mints = {m1, m2}
  MaxOpens = 2
  MaxForeign = 1
SYMMETRY Symmetry
INVARIANTS DestroyHitsItsObject
