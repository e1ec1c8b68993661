\* Two users edit anything at any time, a third one watches, on a host that
\* reports changes late.
CONSTANTS
  Nothing = Nothing
  n1 = n1
  n2 = n2
  x = x
  y = y
  Nodes = {n1, n2}
  Contents = {x, y}
  Peers = {1, 2, 3}
  Root = Root
  ItemOf <- Flat
  Grant <- OneWatches
  AsyncHosts = {3}
  Late = {}
  Drafts <- NoDraft
  Fresh = FALSE
  MaxEdits = 2
  MaxRemounts = 0
SPECIFICATION Spec
INVARIANTS TypeOK WatchersFollow BaselineIsTree NoEcho
CHECK_DEADLOCK FALSE
