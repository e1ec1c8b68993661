\* Two peers that save, receive, and resolve conflicts in any way.
CONSTANTS
  Nothing = Nothing
  n1 = n1
  n2 = n2
  x = x
  y = y
  z = z
  Nodes = {n1, n2}
  Contents = {x, y, z}
  Peers = {1, 2}
  MaxSaves = 3
SPECIFICATION Spec
INVARIANTS TypeOK BaselineIsTree OneWritebackPerWindow
PROPERTY AlarmsAreOwn
CHECK_DEADLOCK FALSE
