\* A user comes into a room while the editor shows a page already.
CONSTANTS
  Nothing = Nothing
  n1 = n1
  n2 = n2
  x = x
  y = y
  Nodes = {n1, n2}
  Contents = {x, y}
  Peers = {1, 2}
  Root = Root
  ItemOf <- Flat
  Grant <- OneEditor
  AsyncHosts = {}
  Late = {2}
  Drafts <- AnyDraft
  Fresh = FALSE
  MaxEdits = 0
  MaxRemounts = 0
SPECIFICATION Spec
INVARIANT EntryChangesNothing
CHECK_DEADLOCK FALSE
