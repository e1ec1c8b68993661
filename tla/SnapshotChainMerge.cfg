\* Two peers that act concurrently, every call allowed.
CONSTANTS
  n1 = n1
  n2 = n2
  x = x
  y = y
  Nothing = Nothing
  Nodes = {n1}
  Contents = {x, y}
  Peers = {1, 2}
  MaxSnapshots = 2
  KeyframeInterval = 2
  MaxSaves = 2
  Features = {"concurrent", "restart", "resync", "undo", "delete"}
  MaxWrites = 2
SPECIFICATION Spec
INVARIANTS BaselineIsTree
