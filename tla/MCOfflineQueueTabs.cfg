\* Two tabs over one store: crashes, faults and both tabs' compactions.
CONSTANTS
  t1 = t1
  t2 = t2
  e1 = e1
  e2 = e2
  Tabs = {t1, t2}
  Edits = {e1, e2}
  CompactEvery = 2
  MaxPending = 1
  MaxSeq = 4
  UseDrain = TRUE
  UseReplay = FALSE
  CountMayFail = FALSE
SPECIFICATION Spec
SYMMETRY Symmetry
INVARIANTS TypeOK DurableEditsStored NoEditDropped RestartRecovers QueueIInv
PROPERTY ImplementsStore
