\* Two users come, move, leave and come back.
CONSTANTS
  Peers = {1, 2}
  States = {here, there}
  Malformed = Malformed
  Gone = Gone
  Capacity = 1
  Tidy = TRUE
  MaxCalls = 5
SPECIFICATION FairSpec
INVARIANTS TypeOK ViewFollows NoLateCallback
PROPERTY PresenceSettles
CHECK_DEADLOCK FALSE
