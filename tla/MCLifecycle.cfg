\* One start() and stop() by a caller that awaits them, three peers.
CONSTANTS
  Conns = {c1, c2, c3}
  MaxStarts = 1
  Overlap = FALSE
SPECIFICATION LiveSpec
INVARIANTS
  TypeOK
  StopReleases
PROPERTY ConnectionsServed
CHECK_DEADLOCK FALSE
