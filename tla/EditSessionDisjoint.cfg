\* Two users edit disjoint nodes at any time.
CONSTANTS
  Nothing = Nothing
  n1 = n1
  n2 = n2
  x = x
  y = y
  Nodes = {n1, n2}
  Contents = {x, y}
  Peers = {1, 2}
  Root = Root
  ItemOf <- Flat
  Grant <- TwoEditors
  AsyncHosts = {}
  Late = {}
  Drafts <- NoDraft
  Fresh = FALSE
  MaxEdits = 3
  MaxRemounts = 0
SPECIFICATION Spec
INVARIANT DisjointEditsSurvive
CHECK_DEADLOCK FALSE
