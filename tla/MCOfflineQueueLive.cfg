\* One tab, transactions that finish: the size shadow, edits made during a
\* compaction, and the way to the store.
CONSTANTS
  t1 = t1
  e1 = e1
  e2 = e2
  e3 = e3
  Tabs = {t1}
  Edits = {e1, e2, e3}
  CompactEvery = 2
  MaxPending = 2
  MaxSeq = 4
  UseDrain = FALSE
  UseReplay = TRUE
  CountMayFail = TRUE
SPECIFICATION FairSpec
INVARIANTS SizeMatchesStore DurableEditsStored
PROPERTY EditsReachStore
