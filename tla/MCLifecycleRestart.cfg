\* The same server is started again after stop().
CONSTANTS
  Conns = {c1}
  MaxStarts = 2
  Overlap = FALSE
SPECIFICATION LiveSpec
PROPERTY ConnectionsServed
CHECK_DEADLOCK FALSE
