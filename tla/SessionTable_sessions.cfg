SPECIFICATION FairSpec
CONSTANTS
  Contexts = {c1, c2}
  Raw = {r1, r2}
  MaxId = 2
  MaxOpens = 3
  Providers <- MCProviders
CHECK_DEADLOCK FALSE
INVARIANTS TypeOK MapsWellFormed HandleNamesItsSession NoSessionForgotten
PROPERTIES GoneIsStable TeardownSparesLive DepartedSessionsReaped LateOpenSettled
