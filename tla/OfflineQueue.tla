---------------------------- MODULE OfflineQueue ----------------------------
(***************************************************************************)
(* The durable queue of outbound updates: createOfflineQueue over the      *)
(* IndexedDB backend (src/src/persistence).  Every tab of an origin that   *)
(* opens the same room shares ONE object store, because the database name  *)
(* is derived from dbName and mapName only.  A tab reaches the store by    *)
(* asynchronous transactions; between two of them other tabs act, and the  *)
(* page may be closed at any point.                                        *)
(*                                                                         *)
(* An update payload is the set of edits it carries: Y.mergeUpdatesV2 is   *)
(* the union of payloads and applying an update twice is harmless.         *)
(***************************************************************************)
EXTENDS Naturals, Sequences, FiniteSets

CONSTANTS
  Tabs,          \* adapter instances that open the same room
  Edits,         \* the edits users make, each made once
  CompactEvery,  \* appends after which the queue compacts itself (200)
  MaxPending,    \* bound of the buffer used before the store is open (1024)
  MaxSeq,        \* bound on the autoincrement key, to keep instances finite
  UseDrain,      \* whether a caller uses drain(); the adapter never does
  UseReplay,     \* whether a document may lack edits that its store holds
  CountMayFail   \* whether the count of the rows at the open may fail

ASSUME QueueAssumption ==
  /\ IsFiniteSet(Edits)
  /\ CompactEvery \in Nat \ {0}
  /\ MaxPending \in Nat \ {0}
  /\ MaxSeq \in Nat
  /\ UseDrain \in BOOLEAN
  /\ UseReplay \in BOOLEAN
  /\ CountMayFail \in BOOLEAN

VARIABLES
  rows,          \* the object store: a set of [seq, edits] records
  nextSeq,       \* its autoincrement counter, never reused
  life,          \* "down" (no page), "up", or "destroyed" (adapter.destroy ran)
  boot,          \* "opening" (open and count), "hydrating" (readAll), "ready"
  handle,        \* the backend holds an open IDBDatabase (db # undefined)
  fault,         \* onFault was called: the backend downgraded or never opened
  pending,       \* pendingAppends, the buffer filled before ready
  inflight,      \* updates whose append transaction has not finished
  sinceCompact,  \* appendsSinceCompaction
  folding,       \* compaction: "idle", "reading", "committing", "deleting"
  source,        \* the rows a compaction read and will delete
  cachedSize,    \* the backend's synchronous shadow of the row count
  hydrated       \* what ready resolved with: edits recovered from the store

(* History, read by properties only. *)
VARIABLES
  accepted,      \* edits handed to append in this session of the tab
  durable,       \* edits whose append committed and that no drain returned
  drained,       \* edits a drain returned to its caller
  owed,          \* edits durable when the tab's session began
  counted        \* the count of the rows at the open succeeded

storeVars == <<rows, nextSeq>>
bootVars  == <<life, boot, hydrated, owed, counted>>
queueVars == <<pending, inflight, sinceCompact, accepted>>
foldVars  == <<folding, source>>
keptVars  == <<durable, drained>>
vars == <<rows, nextSeq, life, boot, handle, fault, pending, inflight,
          sinceCompact, folding, source, cachedSize, hydrated,
          accepted, durable, drained, owed, counted>>

Updates == SUBSET Edits
Row     == [seq : 1 .. MaxSeq, edits : Updates]

EditsOf(rs) == UNION {r.edits : r \in rs}
Flat(s)     == UNION {s[i] : i \in DOMAIN s}

TypeOK ==
  /\ rows \in SUBSET Row
  /\ nextSeq \in 1 .. (MaxSeq + 1)
  /\ life \in [Tabs -> {"down", "up", "destroyed"}]
  /\ boot \in [Tabs -> {"opening", "hydrating", "ready"}]
  /\ handle \in [Tabs -> BOOLEAN]
  /\ fault \in [Tabs -> BOOLEAN]
  /\ pending \in [Tabs -> Seq(Updates)]
  /\ inflight \in [Tabs -> SUBSET Updates]
  /\ sinceCompact \in [Tabs -> Nat]
  /\ folding \in [Tabs -> {"idle", "reading", "committing", "deleting"}]
  /\ source \in [Tabs -> SUBSET Row]
  /\ cachedSize \in [Tabs -> Nat]
  /\ hydrated \in [Tabs -> Updates]
  /\ accepted \in [Tabs -> Updates]
  /\ durable \in Updates
  /\ drained \in Updates
  /\ owed \in [Tabs -> Updates]
  /\ counted \in [Tabs -> BOOLEAN]

Init ==
  /\ rows = {}
  /\ nextSeq = 1
  /\ life = [t \in Tabs |-> "down"]
  /\ boot = [t \in Tabs |-> "opening"]
  /\ handle = [t \in Tabs |-> FALSE]
  /\ fault = [t \in Tabs |-> FALSE]
  /\ pending = [t \in Tabs |-> << >>]
  /\ inflight = [t \in Tabs |-> {}]
  /\ sinceCompact = [t \in Tabs |-> 0]
  /\ folding = [t \in Tabs |-> "idle"]
  /\ source = [t \in Tabs |-> {}]
  /\ cachedSize = [t \in Tabs |-> 0]
  /\ hydrated = [t \in Tabs |-> {}]
  /\ accepted = [t \in Tabs |-> {}]
  /\ durable = {}
  /\ drained = {}
  /\ owed = [t \in Tabs |-> {}]
  /\ counted = [t \in Tabs |-> FALSE]

-----------------------------------------------------------------------------
(* Session boundaries. *)

(* createPersistence: the module is built and the database open is issued. *)
Open(t) ==
  /\ life[t] = "down"
  /\ life' = [life EXCEPT ![t] = "up"]
  /\ owed' = [owed EXCEPT ![t] = durable]
  /\ UNCHANGED <<storeVars, boot, handle, fault, queueVars, foldVars,
                 cachedSize, hydrated, keptVars, counted>>

(* The open and the count finish; the backend replaces the null one and    *)
(* hydrate() issues its read.                                              *)
OpenSucceeds(t) ==
  /\ life[t] # "down"
  /\ boot[t] = "opening"
  /\ boot' = [boot EXCEPT ![t] = "hydrating"]
  /\ handle' = [handle EXCEPT ![t] = TRUE]
  /\ cachedSize' = [cachedSize EXCEPT ![t] = Cardinality(rows)]
  /\ counted' = [counted EXCEPT ![t] = TRUE]
  /\ UNCHANGED <<storeVars, life, fault, queueVars, foldVars, hydrated,
                 keptVars, owed>>

(* The open succeeds but the count fails: the database stays open, nobody  *)
(* is told, and the size starts from 0 whatever the store holds.           *)
OpenUncounted(t) ==
  /\ CountMayFail
  /\ life[t] # "down"
  /\ boot[t] = "opening"
  /\ boot' = [boot EXCEPT ![t] = "hydrating"]
  /\ handle' = [handle EXCEPT ![t] = TRUE]
  /\ cachedSize' = [cachedSize EXCEPT ![t] = 0]
  /\ counted' = [counted EXCEPT ![t] = FALSE]
  /\ UNCHANGED <<storeVars, life, fault, queueVars, foldVars, hydrated,
                 keptVars, owed>>

(* compact(): nothing while one is running or without a database, else the *)
(* read of the rows is issued.                                             *)
StartCompaction(t) ==
  folding' = [folding EXCEPT ![t] =
                IF @ = "idle" /\ handle[t] THEN "reading" ELSE @]

(* append() counts each update and compacts when the count is reached.      *)
CountAppend(t) ==
  IF sinceCompact[t] + 1 >= CompactEvery
  THEN /\ sinceCompact' = [sinceCompact EXCEPT ![t] = 0]
       /\ StartCompaction(t)
  ELSE /\ sinceCompact' = [sinceCompact EXCEPT ![t] = @ + 1]
       /\ UNCHANGED folding

(* Faulty variant: the ready callback forgets the buffer. *)
FlushForgotten(t, open, more) ==
  /\ inflight' = IF open THEN [inflight EXCEPT ![t] = @ \cup more] ELSE inflight
  /\ UNCHANGED pending

(* The queue's ready callback: every buffered update is appended through   *)
(* the current backend, which ignores it when it has no database.  "more"   *)
(* is what is appended right after it.                                     *)
Flush(t, open, more) ==
  /\ inflight' = IF open
                 THEN [inflight EXCEPT ![t] = @ \cup more \cup
                         {pending[t][i] : i \in DOMAIN pending[t]}]
                 ELSE inflight
  /\ pending' = [pending EXCEPT ![t] = << >>]

(* open() fails (quota, newer schema, blocked): the null backend stays, its *)
(* hydrate answers [] at once and the flush reaches a backend that drops.   *)
OpenFails(t) ==
  /\ life[t] # "down"
  /\ boot[t] = "opening"
  /\ boot' = [boot EXCEPT ![t] = "ready"]
  /\ fault' = [fault EXCEPT ![t] = TRUE]
  /\ Flush(t, FALSE, {})
  /\ UNCHANGED <<storeVars, life, handle, sinceCompact, foldVars, cachedSize,
                 hydrated, accepted, keptVars, owed, counted>>

(* The adapter applies the recovered rows to its document in one            *)
(* transaction with the local origin: whatever part u of them the document *)
(* did not have yet counts as an update of the local user and is appended  *)
(* again, unless the adapter was destroyed.                                *)
Replay(t, u) ==
  /\ life[t] = "destroyed" \/ ~UseReplay => u = {}
  /\ accepted' = [accepted EXCEPT ![t] = @ \cup u]
  /\ IF u = {} THEN UNCHANGED <<sinceCompact, folding>>
     ELSE CountAppend(t)

(* Faulty variant: startup drains the store, as its rows are appended again. *)
HydrateByDraining(t, u) ==
  /\ life[t] # "down"
  /\ boot[t] = "hydrating"
  /\ boot' = [boot EXCEPT ![t] = "ready"]
  /\ hydrated' = [hydrated EXCEPT ![t] = EditsOf(rows)]
  /\ rows' = {}
  /\ Flush(t, handle[t], {u} \ {{}})
  /\ Replay(t, u)
  /\ UNCHANGED <<nextSeq, life, handle, fault, source, cachedSize, keptVars,
                 owed, counted>>

(* readAll answers: ready resolves with every row, the flush runs, and the *)
(* adapter replays the rows right after it.                                *)
Hydrate(t, u) ==
  /\ life[t] # "down"
  /\ boot[t] = "hydrating"
  /\ boot' = [boot EXCEPT ![t] = "ready"]
  /\ hydrated' = [hydrated EXCEPT ![t] = EditsOf(rows)]
  /\ Flush(t, handle[t], {u} \ {{}})
  /\ Replay(t, u)
  /\ UNCHANGED <<storeVars, life, handle, fault, source, cachedSize, keptVars,
                 owed, counted>>

(* readAll fails: downgrade, hydrate answers [], the flush drops.          *)
HydrateFails(t) ==
  /\ life[t] # "down"
  /\ boot[t] = "hydrating"
  /\ boot' = [boot EXCEPT ![t] = "ready"]
  /\ handle' = [handle EXCEPT ![t] = FALSE]
  /\ fault' = [fault EXCEPT ![t] = TRUE]
  /\ Flush(t, FALSE, {})
  /\ UNCHANGED <<storeVars, life, sinceCompact, foldVars, cachedSize,
                 hydrated, accepted, keptVars, owed, counted>>

(* OfflineQueue.destroy: the buffer is cleared and the CURRENT backend is   *)
(* closed; transactions already issued still finish.                       *)
Destroy(t) ==
  /\ life[t] = "up"
  /\ life' = [life EXCEPT ![t] = "destroyed"]
  /\ pending' = [pending EXCEPT ![t] = << >>]
  /\ handle' = [handle EXCEPT ![t] = FALSE]
  /\ UNCHANGED <<storeVars, boot, fault, inflight, sinceCompact, foldVars,
                 cachedSize, hydrated, accepted, keptVars, owed, counted>>

(* The page is closed, reloaded or crashes: all memory of the tab is gone,  *)
(* transactions that have not committed abort.                             *)
Crash(t) ==
  /\ life[t] # "down"
  /\ life' = [life EXCEPT ![t] = "down"]
  /\ boot' = [boot EXCEPT ![t] = "opening"]
  /\ handle' = [handle EXCEPT ![t] = FALSE]
  /\ fault' = [fault EXCEPT ![t] = FALSE]
  /\ pending' = [pending EXCEPT ![t] = << >>]
  /\ inflight' = [inflight EXCEPT ![t] = {}]
  /\ sinceCompact' = [sinceCompact EXCEPT ![t] = 0]
  /\ folding' = [folding EXCEPT ![t] = "idle"]
  /\ source' = [source EXCEPT ![t] = {}]
  /\ cachedSize' = [cachedSize EXCEPT ![t] = 0]
  /\ hydrated' = [hydrated EXCEPT ![t] = {}]
  /\ accepted' = [accepted EXCEPT ![t] = {}]
  /\ owed' = [owed EXCEPT ![t] = {}]
  /\ counted' = [counted EXCEPT ![t] = FALSE]
  /\ UNCHANGED <<storeVars, keptVars>>

-----------------------------------------------------------------------------
(* Appends. *)

(* Faulty variant: an overflow drops the oldest half of the buffer. *)
BufferedDropping(buffer, u) ==
  LET grown == Append(buffer, u)
  IN  IF Len(grown) > MaxPending
      THEN SubSeq(grown, (Len(grown) \div 2) + 1, Len(grown)) ELSE grown

(* The buffer after one more push: an overflow folds it into one update.   *)
(* (Should that merge throw, the code drops the older half and says that   *)
(* this should never happen; merging updates is total here.)               *)
Buffered(buffer, u) ==
  LET grown == Append(buffer, u)
  IN  IF Len(grown) > MaxPending THEN << Flat(grown) >> ELSE grown

(* append() before ready: buffer the update. *)
AppendBuffered(t, u) ==
  /\ life[t] = "up"
  /\ boot[t] # "ready"
  /\ pending' = [pending EXCEPT ![t] = Buffered(@, u)]
  /\ accepted' = [accepted EXCEPT ![t] = @ \cup u]
  /\ UNCHANGED <<storeVars, bootVars, handle, fault, inflight, sinceCompact,
                 foldVars, cachedSize, keptVars>>

(* append() after ready: issue the transaction, count it, and compact when *)
(* the count reaches CompactEvery.                                         *)
AppendReady(t, u) ==
  /\ life[t] = "up"
  /\ boot[t] = "ready"
  /\ inflight' = IF handle[t] THEN [inflight EXCEPT ![t] = @ \cup {u}]
                              ELSE inflight
  /\ CountAppend(t)
  /\ accepted' = [accepted EXCEPT ![t] = @ \cup u]
  /\ UNCHANGED <<storeVars, bootVars, handle, fault, pending, source,
                 cachedSize, keptVars>>

(* An append transaction commits: the row gets the next key. *)
CommitAppend(t, u) ==
  /\ u \in inflight[t]
  /\ nextSeq <= MaxSeq
  /\ rows' = rows \cup {[seq |-> nextSeq, edits |-> u]}
  /\ nextSeq' = nextSeq + 1
  /\ inflight' = [inflight EXCEPT ![t] = @ \ {u}]
  /\ cachedSize' = [cachedSize EXCEPT ![t] = @ + 1]
  /\ durable' = durable \cup u
  /\ UNCHANGED <<drained, bootVars, handle, fault, pending, sinceCompact,
                 foldVars, accepted>>

(* downgrade(): report the fault, close the database. *)
Downgrade(t) ==
  /\ handle' = [handle EXCEPT ![t] = FALSE]
  /\ fault' = [fault EXCEPT ![t] = TRUE]

(* An append transaction aborts (quota): the backend downgrades. *)
FailAppend(t, u) ==
  /\ u \in inflight[t]
  /\ inflight' = [inflight EXCEPT ![t] = @ \ {u}]
  /\ Downgrade(t)
  /\ UNCHANGED <<storeVars, bootVars, pending, sinceCompact, foldVars,
                 cachedSize, accepted, keptVars>>

-----------------------------------------------------------------------------
(* Compaction: read, commit the merged row, then delete the rows read. *)

(* The transport reports synced: onSynced calls compact(). *)
Synced(t) ==
  /\ life[t] = "up"
  /\ StartCompaction(t)
  /\ UNCHANGED <<storeVars, bootVars, handle, fault, pending, inflight,
                 sinceCompact, source, cachedSize, accepted, keptVars>>

(* Faulty variant: the rows are taken out when they are read ("never        *)
(* drain-then-append", indexed-db.ts).                                     *)
CompactDraining(t) ==
  /\ folding[t] = "reading"
  /\ IF Cardinality(rows) <= 1 \/ ~handle[t]
     THEN /\ folding' = [folding EXCEPT ![t] = "idle"]
          /\ UNCHANGED <<source, rows>>
     ELSE /\ folding' = [folding EXCEPT ![t] = "committing"]
          /\ source' = [source EXCEPT ![t] = rows]
          /\ rows' = {}
  /\ UNCHANGED <<nextSeq, handle, fault, bootVars, queueVars, cachedSize,
                 keptVars>>

(* The rows are read.  One row or none: done.  Otherwise the commit is      *)
(* issued; without a database that call throws and the backend downgrades.  *)
CompactRead(t) ==
  /\ folding[t] = "reading"
  /\ IF Cardinality(rows) <= 1
     THEN /\ folding' = [folding EXCEPT ![t] = "idle"]
          /\ UNCHANGED <<source, handle, fault>>
     ELSE IF handle[t]
     THEN /\ folding' = [folding EXCEPT ![t] = "committing"]
          /\ source' = [source EXCEPT ![t] = rows]
          /\ UNCHANGED <<handle, fault>>
     ELSE /\ folding' = [folding EXCEPT ![t] = "idle"]
          /\ UNCHANGED source
          /\ Downgrade(t)
  /\ UNCHANGED <<storeVars, bootVars, queueVars, cachedSize, keptVars>>

(* Faulty variant: the merged row is not counted in the size shadow. *)
CompactUncounted(t) ==
  /\ folding[t] = "committing"
  /\ nextSeq <= MaxSeq
  /\ rows' = rows \cup {[seq |-> nextSeq, edits |-> EditsOf(source[t])]}
  /\ nextSeq' = nextSeq + 1
  /\ IF handle[t]
     THEN /\ folding' = [folding EXCEPT ![t] = "deleting"]
          /\ UNCHANGED <<source, handle, fault>>
     ELSE /\ folding' = [folding EXCEPT ![t] = "idle"]
          /\ source' = [source EXCEPT ![t] = {}]
          /\ Downgrade(t)
  /\ UNCHANGED <<cachedSize, bootVars, queueVars, keptVars>>

(* The merged row commits; the delete is issued if the database is open. *)
CompactCommit(t) ==
  /\ folding[t] = "committing"
  /\ nextSeq <= MaxSeq
  /\ rows' = rows \cup {[seq |-> nextSeq, edits |-> EditsOf(source[t])]}
  /\ nextSeq' = nextSeq + 1
  /\ cachedSize' = [cachedSize EXCEPT ![t] = @ + 1]
  /\ IF handle[t]
     THEN /\ folding' = [folding EXCEPT ![t] = "deleting"]
          /\ UNCHANGED <<source, handle, fault>>
     ELSE /\ folding' = [folding EXCEPT ![t] = "idle"]
          /\ source' = [source EXCEPT ![t] = {}]
          /\ Downgrade(t)
  /\ UNCHANGED <<bootVars, queueVars, keptVars>>

(* Faulty variant: the store is cleared instead of deleting the rows read. *)
CompactClear(t) ==
  /\ folding[t] = "deleting"
  /\ rows' = {r \in rows : r.seq = nextSeq - 1}
  /\ cachedSize' = [cachedSize EXCEPT ![t] = 1]
  /\ folding' = [folding EXCEPT ![t] = "idle"]
  /\ source' = [source EXCEPT ![t] = {}]
  /\ UNCHANGED <<nextSeq, bootVars, handle, fault, queueVars, keptVars>>

(* Faulty variant: the size shadow is not clamped at zero. *)
CompactUnclamped(t) ==
  /\ folding[t] = "deleting"
  /\ rows' = rows \ source[t]
  /\ cachedSize' = [cachedSize EXCEPT ![t] = @ - Cardinality(source[t])]
  /\ folding' = [folding EXCEPT ![t] = "idle"]
  /\ source' = [source EXCEPT ![t] = {}]
  /\ UNCHANGED <<nextSeq, bootVars, handle, fault, queueVars, keptVars>>

(* The delete commits: exactly the rows read, by key. *)
CompactDelete(t) ==
  /\ folding[t] = "deleting"
  /\ rows' = rows \ source[t]
  /\ cachedSize' = [cachedSize EXCEPT ![t] =
                      IF @ >= Cardinality(source[t])
                      THEN @ - Cardinality(source[t]) ELSE 0]
  /\ folding' = [folding EXCEPT ![t] = "idle"]
  /\ source' = [source EXCEPT ![t] = {}]
  /\ UNCHANGED <<nextSeq, bootVars, handle, fault, queueVars, keptVars>>

(* Any transaction of the compaction aborts. *)
CompactFails(t) ==
  /\ folding[t] # "idle"
  /\ folding' = [folding EXCEPT ![t] = "idle"]
  /\ source' = [source EXCEPT ![t] = {}]
  /\ Downgrade(t)
  /\ UNCHANGED <<storeVars, bootVars, queueVars, cachedSize, keptVars>>

(* drain(): one transaction reads and deletes every row. *)
Drain(t) ==
  /\ UseDrain
  /\ life[t] = "up"
  /\ handle[t]
  /\ rows' = {}
  /\ cachedSize' = [cachedSize EXCEPT ![t] = 0]
  /\ durable' = durable \ EditsOf(rows)
  /\ drained' = drained \cup EditsOf(rows)
  /\ UNCHANGED <<nextSeq, bootVars, handle, fault, queueVars, foldVars>>

(* That transaction fails: the backend downgrades and drain() gives nothing. *)
DrainFails(t) ==
  /\ UseDrain
  /\ life[t] = "up"
  /\ handle[t]
  /\ Downgrade(t)
  /\ UNCHANGED <<storeVars, bootVars, queueVars, foldVars, cachedSize, keptVars>>

-----------------------------------------------------------------------------
(* Edits no tab has made yet: not queued, stored or waiting anywhere. *)
Unmade == Edits \ (durable \cup drained \cup EditsOf(rows)
                      \cup UNION {accepted[t] : t \in Tabs})

AppendEdit(t) ==
  \E e \in Unmade : AppendBuffered(t, {e}) \/ AppendReady(t, {e})

Environment(t) ==
  \/ Open(t) \/ AppendEdit(t) \/ Synced(t) \/ Drain(t) \/ DrainFails(t)
  \/ Destroy(t) \/ Crash(t)

Boot(t) ==
  \/ OpenSucceeds(t) \/ OpenUncounted(t) \/ OpenFails(t) \/ HydrateFails(t)
  \/ \E u \in SUBSET EditsOf(rows) : Hydrate(t, u)
Finish(t, u) == CommitAppend(t, u) \/ FailAppend(t, u)
Compact(t) ==
  CompactRead(t) \/ CompactCommit(t) \/ CompactDelete(t) \/ CompactFails(t)

Store(t) == Boot(t) \/ (\E u \in inflight[t] : Finish(t, u)) \/ Compact(t)

Next == \E t \in Tabs : Environment(t) \/ Store(t)

Spec == Init /\ [][Next]_vars

(* The browser runs the transactions of a store in the order they were     *)
(* created, so each one finishes, one way or the other.                    *)
FairSpec ==
  /\ Spec
  /\ \A t \in Tabs :
       /\ WF_vars(Boot(t))
       /\ WF_vars(Compact(t))
       /\ \A u \in Updates : WF_vars(Finish(t, u))

-----------------------------------------------------------------------------
(* Properties. *)

(* An edit whose append committed stays in the store, whatever the         *)
(* compactions of all tabs, crashes and faults do.  "A crash mid-compaction *)
(* leaves merged + originals, never the empty store" and a row appended     *)
(* meanwhile survives (compact in indexed-db.ts).                          *)
DurableEditsStored == durable \subseteq EditsOf(rows)

(* While the tab lives and no fault was reported, every edit it handed to  *)
(* the queue is buffered, on its way to the store, or was committed: the   *)
(* switch from the buffer to the store and the buffer's overflow lose none *)
(* (append and the ready callback in offline-queue.ts).                    *)
NoEditDropped ==
  \A t \in Tabs :
    life[t] = "up" /\ ~fault[t] =>
      accepted[t] \subseteq
        Flat(pending[t]) \cup (UNION inflight[t]) \cup durable \cup drained

(* A new session recovers every edit that was durable when it began, even  *)
(* when another tab compacts the store while this one reads it.            *)
RestartRecovers ==
  \A t \in Tabs :
    life[t] # "down" /\ boot[t] = "ready" /\ ~fault[t] =>
      owed[t] \subseteq hydrated[t] \cup drained

(* With one tab the synchronous shadow size() never counts a row that is   *)
(* not stored, and it is the row count as long as the database is open and *)
(* was counted when it was opened, through all appends, compactions and    *)
(* their failures: queuedEdits is then not a guess (indexed-db.ts).  After *)
(* a count that failed it may stay too low for the whole session.          *)
SizeMatchesStore ==
  \A t \in Tabs : handle[t] =>
    /\ cachedSize[t] <= Cardinality(rows)
    /\ counted[t] => cachedSize[t] = Cardinality(rows)

(* An accepted edit reaches the store, unless the backend reported a fault *)
(* or the tab is gone.                                                     *)
EditsReachStore ==
  \A t \in Tabs, e \in Edits :
    e \in accepted[t] ~> (e \in durable \/ fault[t] \/ life[t] # "up")

(* The invariant the durability proof rests on: a durable edit is in some  *)
(* row that no delete under way will remove, and the rows a compaction read *)
(* are older than any key still to be given out.                           *)
Doomed(r) == \E t \in Tabs : folding[t] = "deleting" /\ r \in source[t]

SourcesAreOld ==
  /\ \A r \in rows : r.seq < nextSeq
  /\ \A t \in Tabs : \A r \in source[t] : r.seq < nextSeq

DurableEditsSafe ==
  \A e \in durable : \E r \in rows : e \in r.edits /\ ~Doomed(r)

QueueInv == SourcesAreOld /\ DurableEditsSafe

(* What the two session invariants rest on: a session starts clean; a tab   *)
(* without a fault has its database once startup left "opening"; until     *)
(* ready, the edits owed to the session are still stored.                  *)
SessionInv ==
  \A t \in Tabs :
    /\ life[t] = "down" => boot[t] = "opening" /\ accepted[t] = {}
    /\ life[t] = "up" /\ boot[t] # "opening" /\ ~fault[t] => handle[t]
    /\ life[t] # "down" /\ boot[t] # "ready" =>
         owed[t] \subseteq durable \cup drained

(* The inductive invariant behind the theorems of OfflineQueueProofs.       *)
QueueIInv == QueueInv /\ SessionInv

(* What a tab handed over that is buffered or on its way. *)
Waiting(t) == Flat(pending[t]) \cup UNION inflight[t]

(* What startup found in the store, as a set; empty while it goes on. *)
Found(t) == IF boot[t] = "ready" THEN {hydrated[t]} ELSE {}

Promise ==
  INSTANCE EditStore WITH
    stored    <- EditsOf(rows),
    taken     <- drained,
    broken    <- fault,
    waiting   <- [t \in Tabs |-> Waiting(t)],
    recovered <- [t \in Tabs |-> Found(t)]

(* The rows, buffers, compactions and transactions of all tabs together     *)
(* behave as one durable set of edits: no step of a compaction shows, no   *)
(* accepted edit is lost without a fault, what is recovered is all there   *)
(* is ("never the empty store", indexed-db.ts; "lossless",                 *)
(* offline-queue.ts).                                                      *)
ImplementsStore == Promise!Spec

(* OfflineQueue.size(). *)
QueueSize(t) == Len(pending[t]) + (IF boot[t] = "opening" THEN 0
                                                          ELSE cachedSize[t])

-----------------------------------------------------------------------------
(* Statements of the documentation that no run checks, because the code     *)
(* does not keep them: README.md, "Disagreements", says how.                *)

(* types.ts says queuedEdits "Resets to 0 on the next synced transition":  *)
(* a synced status compacts the queue, and when that compaction has deleted *)
(* the rows it read, with no append on its way, the depth an offline        *)
(* status reports is 0.                                                    *)
QueuedEditsReset ==
  [][\A t \in Tabs :
       /\ folding[t] = "deleting" /\ folding'[t] = "idle"
       /\ handle'[t] /\ inflight[t] = {}
       => QueueSize(t)' = 0]_vars

(* storage-backend.ts says destroy releases "any underlying handles": a     *)
(* destroyed adapter holds no open database once its startup has finished. *)
DestroyReleasesHandle ==
  \A t \in Tabs : life[t] = "destroyed" /\ boot[t] = "ready" => ~handle[t]
=============================================================================
