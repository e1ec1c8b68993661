\* Two users insert, remove and reorder the children of the root; any update may
\* have something of the page as a whole in it.
CONSTANTS
  Nothing = Nothing
  n1 = n1
  n2 = n2
  n3 = n3
  Nodes = {n1, n2, n3}
  Peers = {1, 2}
  Root = Root
  Grant <- Half
  Shapes <- Flat
  PageData = TRUE
  MaxSaves = 3
SPECIFICATION Spec
INVARIANTS TypeOK CacheFollowsTree PlacesSurvive
SYMMETRY Alike
CHECK_DEADLOCK FALSE
