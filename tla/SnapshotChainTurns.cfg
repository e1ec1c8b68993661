\* Two peers that take turns: eviction, re-rooting, keyframes, restarts.  The chain
\* implements the plain history.
CONSTANTS
  n1 = n1
  n2 = n2
  x = x
  y = y
  Nothing = Nothing
  Nodes = {n1}
  Contents = {x, y}
  Peers = {1, 2}
  MaxSnapshots = 2
  KeyframeInterval = 2
  MaxSaves = 4
  Features = {"restart", "resync"}
  MaxWrites = 9
SPECIFICATION Spec
INVARIANTS TypeOK LoadsWhatWasSaved
PROPERTY ImplementsHistory
