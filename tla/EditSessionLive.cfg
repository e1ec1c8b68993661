\* One user edits, another comes in at any time, both may be mounted again: every
\* edit that was not taken down unsaved arrives.
CONSTANTS
  Nothing = Nothing
  n1 = n1
  n2 = n2
  x = x
  y = y
  Nodes = {n1, n2}
  Contents = {x, y}
  Peers = {1, 2}
  Root = Root
  ItemOf <- Flat
  Grant <- OneEditor
  AsyncHosts = {2}
  Late = {2}
  Drafts <- NoDraft
  Fresh = TRUE
  MaxEdits = 2
  MaxRemounts = 1
SPECIFICATION FairSpec
INVARIANT BaselineIsTree
PROPERTY EveryoneSees
CHECK_DEADLOCK FALSE
