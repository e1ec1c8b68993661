------------------------- MODULE OfflineQueueProofs -------------------------
(***************************************************************************)
(* Proofs about OfflineQueue, for any number of tabs, any finite set of    *)
(* edits and any limits.                                                   *)
(***************************************************************************)
EXTENDS OfflineQueue, FiniteSetTheorems, TLAPS

(* Row sets stay finite, so the size shadow is a number. *)
FiniteOK ==
  /\ IsFiniteSet(rows)
  /\ \A t \in Tabs : IsFiniteSet(source[t])

TypeInv == TypeOK /\ FiniteOK

-----------------------------------------------------------------------------
(* Lemmas about the operators. *)

(* The payload of a set of rows is an update. *)
LEMMA EditsOfType ==
  ASSUME NEW rs \in SUBSET Row PROVE EditsOf(rs) \in Updates
BY DEF EditsOf, Row, Updates

(* Merging a buffer of updates gives an update. *)
LEMMA FlatType ==
  ASSUME NEW s \in Seq(Updates) PROVE Flat(s) \in Updates
BY DEF Flat, Updates

(* A push keeps the buffer a sequence of updates. *)
LEMMA BufferedType ==
  ASSUME NEW s \in Seq(Updates), NEW u \in Updates
  PROVE  Buffered(s, u) \in Seq(Updates)
<1> DEFINE g == Append(s, u)
<1>1. g \in Seq(Updates)
  OBVIOUS
<1>2. << Flat(g) >> \in Seq(Updates)
  <2>1. Flat(g) \in Updates
    BY <1>1, FlatType
  <2> HIDE DEF g
  <2> QED
    BY <2>1
<1>3. Buffered(s, u) = << Flat(g) >> \/ Buffered(s, u) = g
  BY DEF Buffered
<1> QED
  BY <1>1, <1>2, <1>3

(* A push loses nothing: every edit of the buffer and of the new update is *)
(* in the new buffer, also when it overflows.                              *)
LEMMA BufferedKeeps ==
  ASSUME NEW s \in Seq(Updates), NEW u \in Updates
  PROVE  Flat(s) \cup u \subseteq Flat(Buffered(s, u))
<1> DEFINE g == Append(s, u)
<1>1. /\ g \in Seq(Updates)
      /\ DOMAIN g = 1 .. Len(s) + 1
      /\ g[Len(s) + 1] = u
      /\ \A i \in DOMAIN s : i \in DOMAIN g /\ g[i] = s[i]
  OBVIOUS
<1>2. Flat(s) \cup u \subseteq Flat(g)
  <2>1. Len(s) + 1 \in DOMAIN g
    BY <1>1
  <2> QED
    BY <1>1, <2>1 DEF Flat
<1>3. Flat(<< Flat(g) >>) = Flat(g)
  BY DEF Flat
<1>4. Buffered(s, u) = << Flat(g) >> \/ Buffered(s, u) = g
  BY DEF Buffered
<1> QED
  BY <1>2, <1>3, <1>4

-----------------------------------------------------------------------------
(* Type correctness. *)

LEMMA TypeInit == Init => TypeInv
BY FS_EmptySet, QueueAssumption
   DEF Init, TypeInv, TypeOK, FiniteOK, Row, Updates, QueueAssumption

LEMMA TypeStep == TypeInv /\ [Next]_vars => TypeInv'
<1> SUFFICES ASSUME TypeInv, [Next]_vars PROVE TypeInv'
  OBVIOUS
<1> USE QueueAssumption DEF TypeInv, TypeOK, FiniteOK, QueueAssumption
<1>1. ASSUME NEW t \in Tabs, Open(t) PROVE TypeInv'
  BY <1>1 DEF Open, storeVars, queueVars, foldVars, keptVars
<1>2. ASSUME NEW t \in Tabs, OpenSucceeds(t) PROVE TypeInv'
  <2>1. Cardinality(rows) \in Nat
    BY FS_CardinalityType
  <2> QED
    BY <1>2, <2>1 DEF OpenSucceeds, storeVars, queueVars, foldVars, keptVars
<1>21. ASSUME NEW t \in Tabs, OpenUncounted(t) PROVE TypeInv'
  BY <1>21 DEF OpenUncounted, storeVars, queueVars, foldVars, keptVars
<1>22. ASSUME NEW t \in Tabs, DrainFails(t) PROVE TypeInv'
  BY <1>22 DEF DrainFails, Downgrade, storeVars, bootVars, queueVars, foldVars, keptVars
<1>3. ASSUME NEW t \in Tabs, OpenFails(t) PROVE TypeInv'
  BY <1>3 DEF OpenFails, Flush, storeVars, foldVars, keptVars
<1>4. ASSUME NEW t \in Tabs, NEW open, NEW more \in SUBSET Updates,
             Flush(t, open, more)
      PROVE /\ pending' \in [Tabs -> Seq(Updates)]
            /\ inflight' \in [Tabs -> SUBSET Updates]
  <2>1. {pending[t][i] : i \in DOMAIN pending[t]} \subseteq Updates
    OBVIOUS
  <2> QED
    BY <1>4, <2>1 DEF Flush
<1>0. ASSUME NEW t \in Tabs, CountAppend(t)
      PROVE  /\ sinceCompact' \in [Tabs -> Nat]
             /\ folding' \in
                  [Tabs -> {"idle", "reading", "committing", "deleting"}]
  <2>1. sinceCompact[t] + 1 \in Nat
    OBVIOUS
  <2>2. CASE sinceCompact[t] + 1 >= CompactEvery
    <3>1. /\ sinceCompact' = [sinceCompact EXCEPT ![t] = 0]
          /\ folding' = [folding EXCEPT ![t] =
               IF @ = "idle" /\ handle[t] THEN "reading" ELSE @]
      BY <1>0, <2>2 DEF CountAppend, StartCompaction
    <3> QED
      BY <3>1
  <2>3. CASE ~(sinceCompact[t] + 1 >= CompactEvery)
    BY <1>0, <2>1, <2>3 DEF CountAppend
  <2> QED
    BY <2>2, <2>3
<1>5. ASSUME NEW t \in Tabs, NEW u \in SUBSET EditsOf(rows), Hydrate(t, u)
      PROVE  TypeInv'
  <2>1. EditsOf(rows) \in Updates /\ u \in Updates
    BY EditsOfType DEF Updates
  <2>2. /\ pending' \in [Tabs -> Seq(Updates)]
        /\ inflight' \in [Tabs -> SUBSET Updates]
    <3>1. {u} \ {{}} \in SUBSET Updates
      BY <2>1
    <3> QED
      BY <1>4, <1>5, <3>1 DEF Hydrate
  <2>3. /\ sinceCompact' \in [Tabs -> Nat]
        /\ folding' \in
             [Tabs -> {"idle", "reading", "committing", "deleting"}]
    BY <1>0, <1>5 DEF Hydrate, Replay
  <2>4. accepted[t] \cup u \in Updates
    BY <2>1 DEF Updates
  <2> QED
    BY <1>5, <2>1, <2>2, <2>3, <2>4 DEF Hydrate, Replay, storeVars, keptVars
<1>6. ASSUME NEW t \in Tabs, HydrateFails(t) PROVE TypeInv'
  BY <1>6 DEF HydrateFails, Flush, storeVars, foldVars, keptVars
<1>7. ASSUME NEW t \in Tabs, Destroy(t) PROVE TypeInv'
  BY <1>7 DEF Destroy, storeVars, foldVars, keptVars
<1>8. ASSUME NEW t \in Tabs, Crash(t) PROVE TypeInv'
  BY <1>8, FS_EmptySet DEF Crash, storeVars, keptVars, Updates
<1>9. ASSUME NEW t \in Tabs, NEW u \in Updates, AppendBuffered(t, u)
      PROVE TypeInv'
  <2>1. Buffered(pending[t], u) \in Seq(Updates)
    BY BufferedType
  <2>2. accepted[t] \cup u \in Updates
    BY DEF Updates
  <2> QED
    BY <1>9, <2>1, <2>2
       DEF AppendBuffered, storeVars, bootVars, foldVars, keptVars
<1>10. ASSUME NEW t \in Tabs, NEW u \in Updates, AppendReady(t, u)
       PROVE TypeInv'
  <2>1. accepted[t] \cup u \in Updates
    BY DEF Updates
  <2>2. inflight' \in [Tabs -> SUBSET Updates]
    BY <1>10 DEF AppendReady
  <2>3. /\ sinceCompact' \in [Tabs -> Nat]
        /\ folding' \in
             [Tabs -> {"idle", "reading", "committing", "deleting"}]
    BY <1>0, <1>10 DEF AppendReady
  <2> QED
    BY <1>10, <2>1, <2>2, <2>3 DEF AppendReady, storeVars, bootVars, keptVars
<1>11. ASSUME NEW t \in Tabs, NEW u, CommitAppend(t, u) PROVE TypeInv'
  <2>1. u \in Updates
    BY <1>11 DEF CommitAppend
  <2>2. [seq |-> nextSeq, edits |-> u] \in Row
    BY <1>11, <2>1 DEF CommitAppend, Row
  <2>3. IsFiniteSet(rows')
    BY <1>11, FS_AddElement DEF CommitAppend
  <2>4. durable \cup u \in Updates
    BY <2>1 DEF Updates
  <2> QED
    BY <1>11, <2>2, <2>3, <2>4 DEF CommitAppend, bootVars, foldVars
<1>12. ASSUME NEW t \in Tabs, NEW u, FailAppend(t, u) PROVE TypeInv'
  BY <1>12 DEF FailAppend, Downgrade, storeVars, bootVars, foldVars, keptVars
<1>13. ASSUME NEW t \in Tabs, Synced(t) PROVE TypeInv'
  BY <1>13 DEF Synced, StartCompaction, storeVars, bootVars, keptVars
<1>14. ASSUME NEW t \in Tabs, CompactRead(t) PROVE TypeInv'
  BY ZenonT(40), <1>14
     DEF CompactRead, Downgrade, storeVars, bootVars, queueVars, keptVars
<1>15. ASSUME NEW t \in Tabs, CompactCommit(t) PROVE TypeInv'
  <2>1. EditsOf(source[t]) \in Updates
    BY EditsOfType
  <2>2. [seq |-> nextSeq, edits |-> EditsOf(source[t])] \in Row
    BY <1>15, <2>1 DEF CompactCommit, Row
  <2>3. IsFiniteSet(rows')
    BY <1>15, FS_AddElement DEF CompactCommit
  <2>4. /\ rows' \in SUBSET Row
        /\ nextSeq' \in 1 .. (MaxSeq + 1)
        /\ cachedSize' \in [Tabs -> Nat]
    <3>1. rows' \in SUBSET Row
      BY <1>15, <2>2 DEF CompactCommit
    <3>2. nextSeq' \in 1 .. (MaxSeq + 1)
      BY <1>15 DEF CompactCommit
    <3>3. cachedSize' \in [Tabs -> Nat]
      BY <1>15 DEF CompactCommit
    <3> QED
      BY <3>1, <3>2, <3>3
  <2>5. CASE handle[t]
    BY <1>15, <2>3, <2>4, <2>5
       DEF CompactCommit, bootVars, queueVars, keptVars
  <2>6. CASE ~handle[t]
    <3>1. /\ folding' = [folding EXCEPT ![t] = "idle"]
          /\ source' = [source EXCEPT ![t] = {}]
          /\ handle' = [handle EXCEPT ![t] = FALSE]
          /\ fault' = [fault EXCEPT ![t] = TRUE]
      BY <1>15, <2>6 DEF CompactCommit, Downgrade
    <3>2. /\ folding' \in
               [Tabs -> {"idle", "reading", "committing", "deleting"}]
          /\ source' \in [Tabs -> SUBSET Row]
          /\ \A x \in Tabs : IsFiniteSet(source'[x])
          /\ handle' \in [Tabs -> BOOLEAN]
          /\ fault' \in [Tabs -> BOOLEAN]
      BY <3>1, FS_EmptySet
    <3> QED
      BY <1>15, <2>3, <2>4, <3>2
         DEF CompactCommit, bootVars, queueVars, keptVars
  <2> QED
    BY <2>5, <2>6
<1>16. ASSUME NEW t \in Tabs, CompactDelete(t) PROVE TypeInv'
  <2>1. Cardinality(source[t]) \in Nat
    BY FS_CardinalityType
  <2>2. IsFiniteSet(rows')
    BY <1>16, FS_Subset DEF CompactDelete
  <2> QED
    BY <1>16, <2>1, <2>2, FS_EmptySet
       DEF CompactDelete, bootVars, queueVars, keptVars
<1>17. ASSUME NEW t \in Tabs, CompactFails(t) PROVE TypeInv'
  BY <1>17, FS_EmptySet
     DEF CompactFails, Downgrade, storeVars, bootVars, queueVars, keptVars
<1>18. ASSUME NEW t \in Tabs, Drain(t) PROVE TypeInv'
  <2>1. EditsOf(rows) \in Updates
    BY EditsOfType
  <2> QED
    BY <1>18, <2>1, FS_EmptySet
       DEF Drain, bootVars, queueVars, foldVars, Updates
<1>19. CASE UNCHANGED vars
  BY <1>19 DEF vars
<1>20. \A e \in Unmade : {e} \in Updates
  BY DEF Unmade, Updates
<1> QED
  BY <1>1, <1>2, <1>3, <1>5, <1>6, <1>7, <1>8, <1>9, <1>10, <1>11, <1>12,
     <1>13, <1>14, <1>15, <1>16, <1>17, <1>18, <1>19, <1>20, <1>21, <1>22
     DEF Next, Environment, Store, AppendEdit, Boot, Finish, Compact

(* Every variable keeps its type, whatever the tabs, faults and crashes.   *)
THEOREM TypeCorrect == Spec => []TypeOK
<1>1. TypeInv => TypeOK
  BY DEF TypeInv
<1> QED
  BY TypeInit, TypeStep, <1>1, PTL DEF Spec

-----------------------------------------------------------------------------
(* Durability. *)

LEMMA QueueInvInit == Init => QueueInv
BY DEF Init, QueueInv, SourcesAreOld, DurableEditsSafe

(* What most steps do: the store and the durable edits stay, no delete     *)
(* begins, and a compaction may only pick up rows of the store.            *)
StoreUntouched ==
  /\ rows' = rows
  /\ nextSeq' = nextSeq
  /\ durable' = durable
  /\ \A t \in Tabs :
       /\ source'[t] \subseteq source[t] \cup rows
       /\ folding'[t] = "deleting" =>
            folding[t] = "deleting" /\ source'[t] = source[t]

LEMMA UntouchedKeepsInv == QueueInv /\ StoreUntouched => QueueInv'
BY DEF QueueInv, StoreUntouched, SourcesAreOld, DurableEditsSafe, Doomed

(* The steps other than the commits and the drain leave the store alone.   *)
LEMMA UntouchedSteps ==
  ASSUME TypeInv, NEW t \in Tabs,
         \/ Open(t) \/ OpenSucceeds(t) \/ OpenUncounted(t)
         \/ OpenFails(t) \/ HydrateFails(t)
         \/ Destroy(t) \/ Crash(t) \/ Synced(t) \/ DrainFails(t)
         \/ CompactRead(t) \/ CompactFails(t)
         \/ \E u : Hydrate(t, u)
         \/ \E u : AppendBuffered(t, u) \/ AppendReady(t, u) \/ FailAppend(t, u)
  PROVE  StoreUntouched
<1> USE DEF TypeInv, TypeOK, StoreUntouched, storeVars, keptVars, foldVars
<1>1. CASE Open(t)
  BY <1>1 DEF Open
<1>2. CASE OpenSucceeds(t)
  BY <1>2 DEF OpenSucceeds
<1>14. CASE OpenUncounted(t)
  BY <1>14 DEF OpenUncounted
<1>15. CASE DrainFails(t)
  BY <1>15 DEF DrainFails
<1>3. CASE OpenFails(t)
  BY <1>3 DEF OpenFails
<1>4. ASSUME NEW u, Hydrate(t, u) PROVE StoreUntouched
  BY <1>4 DEF Hydrate, Replay, CountAppend, StartCompaction
<1>5. CASE HydrateFails(t)
  BY <1>5 DEF HydrateFails
<1>6. CASE Destroy(t)
  BY <1>6 DEF Destroy
<1>7. CASE Crash(t)
  BY <1>7 DEF Crash
<1>8. CASE Synced(t)
  BY <1>8 DEF Synced, StartCompaction
<1>9. CASE CompactRead(t)
  BY ZenonT(40), <1>9 DEF CompactRead
<1>10. CASE CompactFails(t)
  BY <1>10 DEF CompactFails
<1>11. ASSUME NEW u, AppendBuffered(t, u) PROVE StoreUntouched
  BY <1>11 DEF AppendBuffered
<1>12. ASSUME NEW u, AppendReady(t, u) PROVE StoreUntouched
  BY <1>12 DEF AppendReady, CountAppend, StartCompaction
<1>13. ASSUME NEW u, FailAppend(t, u) PROVE StoreUntouched
  BY <1>13 DEF FailAppend
<1> QED
  BY <1>1, <1>2, <1>3, <1>4, <1>5, <1>6, <1>7, <1>8, <1>9, <1>10, <1>11,
     <1>12, <1>13, <1>14, <1>15

(* A committed append: the new row is too young for any compaction. *)
LEMMA CommitKeepsInv ==
  ASSUME TypeInv, QueueInv, NEW t \in Tabs, NEW u, CommitAppend(t, u)
  PROVE  QueueInv'
<1>n. PICK new : new = [seq |-> nextSeq, edits |-> u]
  OBVIOUS
<1> USE DEF QueueInv, SourcesAreOld, DurableEditsSafe
<1>1. /\ rows' = rows \cup {new} /\ nextSeq' = nextSeq + 1
      /\ durable' = durable \cup u
      /\ folding' = folding /\ source' = source
  BY <1>n DEF CommitAppend, foldVars
<1>2. /\ nextSeq \in Nat
      /\ \A r \in rows : r.seq \in Nat
      /\ \A x \in Tabs : \A r \in source[x] : r.seq \in Nat
  BY QueueAssumption DEF TypeInv, TypeOK, Row, QueueAssumption
<1>3. SourcesAreOld'
  <2>1. \A r \in rows' : r.seq < nextSeq'
    BY <1>1, <1>2, <1>n
  <2>2. \A x \in Tabs : \A r \in source'[x] : r.seq < nextSeq'
    BY <1>1, <1>2
  <2> QED
    BY <2>1, <2>2
<1>4. ~Doomed(new)
  BY <1>2, <1>n DEF Doomed
<1>5. ASSUME NEW r PROVE Doomed(r)' <=> Doomed(r)
  BY <1>1 DEF Doomed
<1>6. DurableEditsSafe'
  BY <1>1, <1>n, <1>4, <1>5
<1> QED
  BY <1>3, <1>6

(* A committed merge: an edit whose row the compaction is about to delete  *)
(* is in the merged row, which no compaction has read yet.                 *)
LEMMA MergeKeepsInv ==
  ASSUME TypeInv, QueueInv, NEW t \in Tabs, CompactCommit(t)
  PROVE  QueueInv'
<1>n. PICK new : new = [seq |-> nextSeq, edits |-> EditsOf(source[t])]
  OBVIOUS
<1> USE DEF QueueInv, SourcesAreOld, DurableEditsSafe
<1>1. /\ rows' = rows \cup {new} /\ nextSeq' = nextSeq + 1
      /\ durable' = durable
  BY <1>n DEF CompactCommit, keptVars
<1>2. /\ nextSeq \in Nat
      /\ \A r \in rows : r.seq \in Nat
      /\ \A x \in Tabs : \A r \in source[x] : r.seq \in Nat
  BY QueueAssumption DEF TypeInv, TypeOK, Row, QueueAssumption
<1>3. \A x \in Tabs :
        /\ source'[x] \subseteq source[x]
        /\ folding'[x] = "deleting" =>
             source'[x] = source[x] /\ (x = t \/ folding[x] = "deleting")
  BY DEF CompactCommit, TypeInv, TypeOK
<1>4. SourcesAreOld'
  <2>1. \A r \in rows' : r.seq < nextSeq'
    BY <1>1, <1>2, <1>n
  <2>2. \A x \in Tabs : \A r \in source'[x] : r.seq < nextSeq'
    BY <1>1, <1>2, <1>3
  <2> QED
    BY <2>1, <2>2
<1>5. ~Doomed(new)'
  <2>1. \A x \in Tabs : new \notin source[x]
    BY <1>2, <1>n
  <2> QED
    BY <2>1, <1>3 DEF Doomed
<1>6. ASSUME NEW r, Doomed(r)', ~Doomed(r) PROVE r \in source[t]
  BY <1>3, <1>6 DEF Doomed
<1>7. ASSUME NEW e \in durable
      PROVE  \E r \in rows' : e \in r.edits /\ ~Doomed(r)'
  <2>1. PICK r \in rows : e \in r.edits /\ ~Doomed(r)
    OBVIOUS
  <2>2. CASE Doomed(r)'
    <3>1. e \in EditsOf(source[t])
      BY <1>6, <2>1, <2>2 DEF EditsOf
    <3>2. e \in new.edits
      BY <3>1, <1>n
    <3> QED
      BY <1>1, <1>5, <3>2
  <2>3. CASE ~Doomed(r)'
    BY <1>1, <2>1, <2>3
  <2> QED
    BY <2>2, <2>3
<1>8. DurableEditsSafe'
  BY <1>1, <1>7
<1> QED
  BY <1>4, <1>8

(* A delete removes only rows that were doomed. *)
LEMMA DeleteKeepsInv ==
  ASSUME TypeInv, QueueInv, NEW t \in Tabs, CompactDelete(t)
  PROVE  QueueInv'
<1> USE DEF QueueInv, SourcesAreOld, DurableEditsSafe
<1>1. /\ rows' = rows \ source[t] /\ nextSeq' = nextSeq
      /\ durable' = durable /\ folding[t] = "deleting"
  BY DEF CompactDelete, keptVars
<1>2. \A x \in Tabs :
        /\ source'[x] \subseteq source[x]
        /\ folding'[x] = "deleting" =>
             source'[x] = source[x] /\ folding[x] = "deleting"
  BY DEF CompactDelete, TypeInv, TypeOK
<1>3. SourcesAreOld'
  BY <1>1, <1>2
<1>4. ASSUME NEW r, ~Doomed(r) PROVE ~Doomed(r)' /\ r \notin source[t]
  BY <1>1, <1>2, <1>4 DEF Doomed
<1>5. DurableEditsSafe'
  BY <1>1, <1>4
<1> QED
  BY <1>3, <1>5

(* A drain returns every durable edit, so none is left to keep. *)
LEMMA DrainKeepsInv ==
  ASSUME TypeInv, QueueInv, NEW t \in Tabs, Drain(t)
  PROVE  QueueInv'
<1> USE DEF QueueInv, SourcesAreOld, DurableEditsSafe
<1>1. durable' = {} /\ rows' = {}
  BY DEF Drain, EditsOf
<1> QED
  BY <1>1 DEF Drain, foldVars

LEMMA QueueInvStep == TypeInv /\ QueueInv /\ [Next]_vars => QueueInv'
<1> SUFFICES ASSUME TypeInv, QueueInv, [Next]_vars PROVE QueueInv'
  OBVIOUS
<1>1. CASE UNCHANGED vars
  BY <1>1 DEF vars, QueueInv, SourcesAreOld, DurableEditsSafe, Doomed
<1>2. CASE Next
  <2>1. PICK t \in Tabs : Environment(t) \/ Store(t)
    BY <1>2 DEF Next
  <2>2. CASE StoreUntouched
    BY <2>2, UntouchedKeepsInv
  <2>3. CASE ~StoreUntouched
    <3>1. \/ CompactCommit(t) \/ CompactDelete(t) \/ Drain(t)
          \/ \E u : CommitAppend(t, u)
      BY <2>1, <2>3, UntouchedSteps
         DEF Environment, Store, AppendEdit, Boot, Finish, Compact
    <3> QED
      BY <3>1, CommitKeepsInv, MergeKeepsInv, DeleteKeepsInv, DrainKeepsInv
  <2> QED
    BY <2>2, <2>3
<1> QED
  BY <1>1, <1>2

(* An edit whose append committed stays in the store, whatever any number  *)
(* of tabs compacting, crashing and restarting do, until a drain returns   *)
(* it: compact in indexed-db.ts never leaves a moment without a row that   *)
(* holds the edit and that no pending delete will remove.                  *)
THEOREM Durability == Spec => []DurableEditsStored
<1>1. QueueInv => DurableEditsStored
  BY DEF QueueInv, DurableEditsSafe, DurableEditsStored, EditsOf
<1> QED
  BY TypeInit, TypeStep, QueueInvInit, QueueInvStep, <1>1, PTL DEF Spec

-----------------------------------------------------------------------------
(* Sessions: nothing is dropped, a restart recovers. *)

(* Edits that were durable stay durable or were drained. *)
LEMMA KeptGrows ==
  [Next]_vars => durable \cup drained \subseteq durable' \cup drained'
<1> SUFFICES ASSUME [Next]_vars
             PROVE  durable \cup drained \subseteq durable' \cup drained'
  OBVIOUS
<1> USE DEF keptVars
<1>1. ASSUME NEW t \in Tabs, Environment(t)
      PROVE  durable \cup drained \subseteq durable' \cup drained'
  <2>1. CASE Drain(t)
    BY <2>1 DEF Drain
  <2>2. CASE ~Drain(t)
    BY <1>1, <2>2 DEF Environment, Open, AppendEdit, AppendBuffered,
       AppendReady, Synced, DrainFails, Destroy, Crash
  <2> QED
    BY <2>1, <2>2
<1>2. ASSUME NEW t \in Tabs, Boot(t) \/ Compact(t)
      PROVE  durable \cup drained \subseteq durable' \cup drained'
  BY <1>2 DEF Boot, OpenSucceeds, OpenUncounted, OpenFails, Hydrate, HydrateFails, Compact,
     CompactRead, CompactCommit, CompactDelete, CompactFails
<1>3. ASSUME NEW t \in Tabs, NEW u, Finish(t, u)
      PROVE  durable \cup drained \subseteq durable' \cup drained'
  BY <1>3 DEF Finish, CommitAppend, FailAppend
<1>4. CASE UNCHANGED vars
  BY <1>4 DEF vars
<1> QED
  BY <1>1, <1>2, <1>3, <1>4 DEF Next, Store

LEMMA SessionInit == Init => SessionInv /\ NoEditDropped /\ RestartRecovers
BY DEF Init, SessionInv, NoEditDropped, RestartRecovers

(* What a step of one tab may do to another tab's session: nothing. *)
LEMMA SessionStep ==
  TypeInv /\ SessionInv /\ [Next]_vars => SessionInv'
<1> SUFFICES ASSUME TypeInv, SessionInv, [Next]_vars PROVE SessionInv'
  OBVIOUS
<1> USE KeptGrows DEF TypeInv, TypeOK, SessionInv, bootVars, queueVars
<1>1. ASSUME NEW t \in Tabs, Open(t) PROVE SessionInv'
  BY <1>1 DEF Open
<1>2. ASSUME NEW t \in Tabs, OpenSucceeds(t) \/ OpenUncounted(t) PROVE SessionInv'
  BY <1>2 DEF OpenSucceeds, OpenUncounted
<1>3. ASSUME NEW t \in Tabs, OpenFails(t) PROVE SessionInv'
  BY <1>3 DEF OpenFails
<1>4. ASSUME NEW t \in Tabs, NEW u, Hydrate(t, u) PROVE SessionInv'
  BY <1>4 DEF Hydrate, Replay
<1>5. ASSUME NEW t \in Tabs, HydrateFails(t) PROVE SessionInv'
  BY <1>5 DEF HydrateFails
<1>6. ASSUME NEW t \in Tabs, Destroy(t) PROVE SessionInv'
  BY <1>6 DEF Destroy
<1>7. ASSUME NEW t \in Tabs, Crash(t) PROVE SessionInv'
  BY <1>7 DEF Crash
<1>8. ASSUME NEW t \in Tabs, Synced(t) \/ Drain(t) PROVE SessionInv'
  BY <1>8 DEF Synced, Drain
<1>9. ASSUME NEW t \in Tabs, NEW u, AppendBuffered(t, u) \/ AppendReady(t, u)
      PROVE  SessionInv'
  BY ZenonT(40), <1>9 DEF AppendBuffered, AppendReady
<1>10. ASSUME NEW t \in Tabs, NEW u, CommitAppend(t, u) PROVE SessionInv'
  BY <1>10 DEF CommitAppend
<1>11. ASSUME NEW t \in Tabs, NEW u, FailAppend(t, u) PROVE SessionInv'
  BY <1>11 DEF FailAppend, Downgrade
<1>12. ASSUME NEW t \in Tabs, CompactRead(t) PROVE SessionInv'
  BY <1>12 DEF CompactRead, Downgrade
<1>13. ASSUME NEW t \in Tabs, CompactCommit(t) PROVE SessionInv'
  BY <1>13 DEF CompactCommit, Downgrade
<1>14. ASSUME NEW t \in Tabs, CompactDelete(t) PROVE SessionInv'
  BY <1>14 DEF CompactDelete
<1>15. ASSUME NEW t \in Tabs, CompactFails(t) PROVE SessionInv'
  BY <1>15 DEF CompactFails, Downgrade
<1>17. ASSUME NEW t \in Tabs, DrainFails(t) PROVE SessionInv'
  BY <1>17 DEF DrainFails, Downgrade
<1>16. CASE UNCHANGED vars
  BY <1>16 DEF vars
<1> QED
  BY <1>1, <1>2, <1>3, <1>4, <1>5, <1>6, <1>7, <1>8, <1>9, <1>10, <1>11,
     <1>12, <1>13, <1>14, <1>15, <1>16, <1>17
     DEF Next, Environment, Store, AppendEdit, Boot, Finish, Compact

(* Only Hydrate fills what a session recovered, and the store then holds   *)
(* every durable edit.                                                     *)
LEMMA RecoverStep ==
  TypeInv /\ SessionInv /\ DurableEditsStored /\ RestartRecovers
    /\ [Next]_vars => RestartRecovers'
<1> SUFFICES ASSUME TypeInv, SessionInv, DurableEditsStored, RestartRecovers,
                    [Next]_vars
             PROVE  RestartRecovers'
  OBVIOUS
<1> USE KeptGrows DEF TypeInv, TypeOK, RestartRecovers, bootVars
<1>0. drained \subseteq drained'
  BY ZenonT(40) DEF Next, Environment, Store, AppendEdit, Boot, Finish, Compact, Open,
     OpenSucceeds, OpenUncounted, OpenFails, Hydrate, HydrateFails, Destroy, Crash,
     Synced, Drain, DrainFails, AppendBuffered, AppendReady, CommitAppend, FailAppend,
     CompactRead, CompactCommit, CompactDelete, CompactFails, keptVars, vars
<1>1. ASSUME NEW t \in Tabs, NEW u, Hydrate(t, u) PROVE RestartRecovers'
  <2>1. owed[t] \subseteq EditsOf(rows) \cup drained
    BY <1>1 DEF Hydrate, SessionInv, DurableEditsStored
  <2> QED
    BY <1>0, <1>1, <2>1 DEF Hydrate
<1>2. ASSUME NEW t \in Tabs, Open(t) \/ OpenSucceeds(t) \/ OpenUncounted(t)
                             \/ OpenFails(t) \/ HydrateFails(t) \/ Crash(t) \/ Destroy(t)
      PROVE  RestartRecovers'
  <2>1. CASE Open(t)
    BY <1>0, <2>1 DEF Open, SessionInv
  <2>2. CASE OpenSucceeds(t) \/ OpenUncounted(t)
    BY <1>0, <2>2 DEF OpenSucceeds, OpenUncounted
  <2>3. CASE OpenFails(t)
    BY <1>0, <2>3 DEF OpenFails
  <2>4. CASE HydrateFails(t)
    BY <1>0, <2>4 DEF HydrateFails
  <2>5. CASE Crash(t)
    BY <1>0, <2>5 DEF Crash
  <2>6. CASE Destroy(t)
    BY <1>0, <2>6 DEF Destroy
  <2> QED
    BY <1>2, <2>1, <2>2, <2>3, <2>4, <2>5, <2>6
<1>3. ASSUME UNCHANGED bootVars,
             \A x \in Tabs : fault[x] => fault'[x]
      PROVE  RestartRecovers'
  BY <1>0, <1>3
<1>4. ASSUME NEW t \in Tabs,
             \/ Synced(t) \/ Drain(t) \/ DrainFails(t) \/ Compact(t)
             \/ \E u : AppendBuffered(t, u) \/ AppendReady(t, u) \/ Finish(t, u)
      PROVE  RestartRecovers'
  <2>1. /\ UNCHANGED bootVars
        /\ \A x \in Tabs : fault[x] => fault'[x]
    BY <1>4 DEF Synced, Drain, DrainFails, AppendBuffered, AppendReady, Finish,
       CommitAppend, FailAppend, Compact, CompactRead, CompactCommit,
       CompactDelete, CompactFails, Downgrade
  <2> QED
    BY <1>3, <2>1
<1>5. CASE UNCHANGED vars
  BY <1>3, <1>5 DEF vars
<1> QED
  BY <1>1, <1>2, <1>4, <1>5 DEF Next, Environment, Store, AppendEdit, Boot

(* A new session of any tab recovers every edit that was durable when the  *)
(* session began, whatever the other tabs compact in between, unless its   *)
(* backend reported a fault or a drain returned the edit.                  *)
THEOREM Recovery == Spec => []RestartRecovers
<1>1. QueueInv => DurableEditsStored
  BY DEF QueueInv, DurableEditsSafe, DurableEditsStored, EditsOf
<1> QED
  BY TypeInit, TypeStep, QueueInvInit, QueueInvStep, SessionInit, SessionStep,
     RecoverStep, <1>1, PTL DEF Spec

-----------------------------------------------------------------------------
(* Where an edit of a tab may be: buffered, on its way, or in the store.   *)
Kept(t) == Flat(pending[t]) \cup (UNION inflight[t]) \cup durable \cup drained

(* A step that changes no queue of another tab preserves NoEditDropped if  *)
(* it keeps the edits of its own tab.                                      *)
LEMMA OwnQueueOnly ==
  ASSUME TypeInv, NoEditDropped, [Next]_vars, NEW t \in Tabs,
         \A x \in Tabs \ {t} :
           /\ life'[x] = life[x] /\ fault'[x] = fault[x]
           /\ accepted'[x] = accepted[x] /\ pending'[x] = pending[x]
           /\ inflight'[x] = inflight[x],
         life'[t] = "up" /\ ~fault'[t] => accepted'[t] \subseteq Kept(t)'
  PROVE  NoEditDropped'
BY KeptGrows DEF NoEditDropped, Kept

LEMMA DropStep ==
  TypeInv /\ SessionInv /\ NoEditDropped /\ [Next]_vars => NoEditDropped'
<1> SUFFICES ASSUME TypeInv, SessionInv, NoEditDropped, [Next]_vars
             PROVE  NoEditDropped'
  OBVIOUS
<1> DEFINE
      Others(t) == \A x \in Tabs \ {t} :
        /\ life'[x] = life[x] /\ fault'[x] = fault[x]
        /\ accepted'[x] = accepted[x] /\ pending'[x] = pending[x]
        /\ inflight'[x] = inflight[x]
      Own(t) == life'[t] = "up" /\ ~fault'[t] => accepted'[t] \subseteq Kept(t)'
<1>0. ASSUME NEW t \in Tabs, Others(t), Own(t) PROVE NoEditDropped'
  BY <1>0, OwnQueueOnly
<1> USE KeptGrows DEF TypeInv, TypeOK, NoEditDropped, Kept, bootVars,
        queueVars, foldVars
<1>1. ASSUME NEW t \in Tabs,
             Open(t) \/ Destroy(t) \/ Crash(t) \/ OpenFails(t) \/ HydrateFails(t)
      PROVE  Others(t) /\ Own(t)
  <2>1. CASE Open(t)
    BY <2>1 DEF Open, SessionInv
  <2>2. CASE Destroy(t)
    BY <2>2 DEF Destroy
  <2>3. CASE Crash(t)
    BY <2>3 DEF Crash
  <2>4. CASE OpenFails(t)
    BY <2>4 DEF OpenFails, Flush
  <2>5. CASE HydrateFails(t)
    BY <2>5 DEF HydrateFails, Flush
  <2> QED
    BY <1>1, <2>1, <2>2, <2>3, <2>4, <2>5
<1>2. ASSUME NEW t \in Tabs, NEW u, Hydrate(t, u) PROVE Others(t) /\ Own(t)
  <2>1. Others(t)
    BY <1>2 DEF Hydrate, Replay, Flush
  <2>2. ASSUME life[t] = "up", ~fault[t] PROVE accepted'[t] \subseteq Kept(t)'
    <3>1. handle[t]
      BY <1>2, <2>2 DEF Hydrate, SessionInv
    <3>2. inflight'[t] = inflight[t] \cup ({u} \ {{}}) \cup
                           {pending[t][i] : i \in DOMAIN pending[t]}
      BY <1>2, <3>1 DEF Hydrate, Flush
    <3>3. /\ Flat(pending[t]) \cup (UNION inflight[t]) \subseteq UNION inflight'[t]
          /\ u \subseteq UNION inflight'[t]
      BY <3>2 DEF Flat
    <3>4. accepted'[t] = accepted[t] \cup u
      BY <1>2 DEF Hydrate, Replay
    <3>5. accepted[t] \subseteq
            Flat(pending[t]) \cup (UNION inflight[t]) \cup durable \cup drained
      BY <2>2
    <3> QED
      BY <3>3, <3>4, <3>5
  <2> QED
    BY <1>2, <2>1, <2>2 DEF Hydrate, Replay
<1>3. ASSUME NEW t \in Tabs, NEW u \in Updates, AppendBuffered(t, u)
      PROVE  Others(t) /\ Own(t)
  <2>1. Others(t)
    BY <1>3 DEF AppendBuffered
  <2>2. pending'[t] = Buffered(pending[t], u) /\ accepted'[t] = accepted[t] \cup u
    BY <1>3 DEF AppendBuffered
  <2>3. Flat(pending[t]) \cup u \subseteq Flat(pending'[t])
    BY <2>2, BufferedKeeps
  <2> QED
    BY <1>3, <2>1, <2>2, <2>3 DEF AppendBuffered
<1>4. ASSUME NEW t \in Tabs, NEW u \in Updates, AppendReady(t, u)
      PROVE  Others(t) /\ Own(t)
  <2>1. Others(t)
    BY <1>4 DEF AppendReady
  <2>2. ASSUME life[t] = "up", ~fault[t] PROVE accepted'[t] \subseteq Kept(t)'
    <3>1. handle[t]
      BY <1>4, <2>2 DEF AppendReady, SessionInv
    <3>2. /\ inflight'[t] = inflight[t] \cup {u}
          /\ accepted'[t] = accepted[t] \cup u
          /\ pending' = pending
      BY <1>4, <3>1 DEF AppendReady
    <3>3. (UNION inflight[t]) \cup u \subseteq UNION inflight'[t]
      BY <3>2
    <3>4. accepted[t] \subseteq
            Flat(pending[t]) \cup (UNION inflight[t]) \cup durable \cup drained
      BY <2>2
    <3> QED
      BY <3>2, <3>3, <3>4
  <2> QED
    BY <1>4, <2>1, <2>2 DEF AppendReady
<1>5. ASSUME NEW t \in Tabs, NEW u, CommitAppend(t, u)
      PROVE  Others(t) /\ Own(t)
  <2>1. Others(t)
    BY <1>5 DEF CommitAppend
  <2>2. UNION inflight[t] \subseteq (UNION inflight'[t]) \cup durable'
    BY <1>5 DEF CommitAppend
  <2>3. life'[t] = "up" /\ ~fault'[t] => accepted[t] \subseteq
          Flat(pending[t]) \cup (UNION inflight[t]) \cup durable \cup drained
    BY <1>5 DEF CommitAppend
  <2> QED
    BY <1>5, <2>1, <2>2, <2>3 DEF CommitAppend
<1>6. ASSUME NEW t \in Tabs, NEW u, FailAppend(t, u)
      PROVE  Others(t) /\ Own(t)
  BY <1>6 DEF FailAppend, Downgrade
<1>7. ASSUME NEW t \in Tabs,
             \/ Synced(t) \/ Drain(t) \/ DrainFails(t)
             \/ OpenSucceeds(t) \/ OpenUncounted(t) \/ Compact(t)
      PROVE  Others(t) /\ Own(t)
  <2>1. /\ UNCHANGED <<life, accepted, pending, inflight>>
        /\ \A x \in Tabs : fault[x] => fault'[x]
        /\ \A x \in Tabs \ {t} : fault'[x] = fault[x]
    BY <1>7 DEF Synced, Drain, DrainFails, OpenSucceeds, OpenUncounted, Compact, CompactRead,
       CompactCommit, CompactDelete, CompactFails, Downgrade
  <2> QED
    BY <2>1
<1>8. CASE UNCHANGED vars
  BY <1>8 DEF vars
<1>9. \A e \in Unmade : {e} \in Updates
  BY DEF Unmade, Updates
<1> HIDE DEF Others, Own
<1> QED
  BY <1>0, <1>1, <1>2, <1>3, <1>4, <1>5, <1>6, <1>7, <1>8, <1>9
     DEF Next, Environment, Store, AppendEdit, Boot, Finish

(* While a tab lives and reported no fault, every edit handed to append is *)
(* still buffered, in flight or stored (or a drain returned it): overflow  *)
(* of the buffer and the hand-over at ready lose nothing.                  *)
THEOREM NothingDropped == Spec => []NoEditDropped
BY TypeInit, TypeStep, SessionInit, SessionStep, DropStep, PTL DEF Spec

-----------------------------------------------------------------------------
(* The inductive invariant and the size shadow. *)

(* Committed edits are in rows no compaction will delete, and every session *)
(* starts clean, keeps its database while it has no fault, and finds what   *)
(* it is owed.                                                             *)
THEOREM QueueSafe == Spec => []QueueIInv
<1>1. QueueInv /\ SessionInv => QueueIInv
  BY DEF QueueIInv
<1> QED
  BY <1>1, TypeInit, TypeStep, QueueInvInit, QueueInvStep, SessionInit,
     SessionStep, PTL DEF Spec

(* One tab at most, and its host never drains the queue. *)
Lone == UseDrain = FALSE /\ \A t, u \in Tabs : t = u

(* The rows a lone tab's compaction read are still there when they are      *)
(* deleted.                                                                *)
SizeInv ==
  \A t \in Tabs :
    /\ handle[t] => cachedSize[t] <= Cardinality(rows)
    /\ handle[t] /\ counted[t] => cachedSize[t] = Cardinality(rows)
    /\ folding[t] \in {"committing", "deleting"} => source[t] \subseteq rows

LEMMA SizeStep ==
  ASSUME Lone, TypeInv, QueueInv, SizeInv, [Next]_vars
  PROVE  SizeInv'
<1> USE DEF Lone, TypeInv, TypeOK, SizeInv
<1>1. IsFiniteSet(rows) /\ Cardinality(rows) \in Nat
  BY FS_CardinalityType DEF FiniteOK
<1>2. \A r : r.seq = nextSeq => r \notin rows
  BY DEF QueueInv, SourcesAreOld, Row
<1>3. ASSUME NEW t \in Tabs,
             \/ Open(t) \/ OpenFails(t) \/ HydrateFails(t)
             \/ Destroy(t) \/ Crash(t) \/ Synced(t) \/ CompactFails(t) \/ DrainFails(t)
             \/ \E u : Hydrate(t, u)
             \/ \E u : AppendBuffered(t, u) \/ AppendReady(t, u) \/ FailAppend(t, u)
      PROVE  SizeInv'
  <2>1. rows' = rows
    BY <1>3 DEF Open, OpenFails, Hydrate, HydrateFails, Destroy, Crash, Synced,
       CompactFails, DrainFails, AppendBuffered, AppendReady, FailAppend, storeVars
  <2>2. handle'[t] => /\ handle[t] /\ cachedSize'[t] = cachedSize[t]
                     /\ counted'[t] = counted[t]
    BY <1>3 DEF Open, OpenFails, Hydrate, HydrateFails, Destroy, Crash, Synced,
       CompactFails, DrainFails, AppendBuffered, AppendReady, FailAppend, Downgrade,
       bootVars
  <2>3. folding'[t] \in {"committing", "deleting"} =>
          folding'[t] = folding[t] /\ source'[t] = source[t]
    <3>1. CASE Crash(t) \/ CompactFails(t)
      BY <3>1 DEF Crash, CompactFails
    <3>2. CASE Synced(t)
      BY <3>2 DEF Synced, StartCompaction
    <3>3. ASSUME NEW u, AppendReady(t, u) \/ Hydrate(t, u)
          PROVE  /\ source' = source
                 /\ folding'[t] \in {folding[t], "reading"}
      BY <3>3 DEF AppendReady, Hydrate, Replay, CountAppend, StartCompaction
    <3>4. CASE \/ Open(t) \/ OpenFails(t) \/ HydrateFails(t) \/ Destroy(t)
               \/ DrainFails(t)
               \/ \E u : AppendBuffered(t, u) \/ FailAppend(t, u)
      BY <3>4 DEF Open, OpenFails, HydrateFails, Destroy, DrainFails,
         AppendBuffered, FailAppend, foldVars
    <3> QED
      BY <1>3, <3>1, <3>2, <3>3, <3>4
  <2> QED
    BY <1>3, <2>1, <2>2, <2>3
<1>4. ASSUME NEW t \in Tabs, OpenSucceeds(t) \/ OpenUncounted(t) PROVE SizeInv'
  <2>1. /\ rows' = rows /\ folding' = folding /\ source' = source
        /\ \/ cachedSize'[t] = Cardinality(rows)
           \/ cachedSize'[t] = 0 /\ ~counted'[t]
    BY <1>4 DEF OpenSucceeds, OpenUncounted, storeVars, foldVars
  <2> QED
    BY <1>1, <2>1
<1>5. ASSUME NEW t \in Tabs, NEW u, CommitAppend(t, u) PROVE SizeInv'
  <2>1. PICK new : new = [seq |-> nextSeq, edits |-> u]
    OBVIOUS
  <2>2. /\ rows' = rows \cup {new} /\ new \notin rows
        /\ cachedSize'[t] = cachedSize[t] + 1
        /\ UNCHANGED <<handle, folding, source, counted>>
    BY <1>2, <1>5, <2>1 DEF CommitAppend, foldVars, bootVars
  <2>3. Cardinality(rows') = Cardinality(rows) + 1
    BY <1>1, <2>2, FS_AddElement
  <2>4. \A x \in Tabs : x = t
    OBVIOUS
  <2>5. handle'[t] => cachedSize'[t] <= Cardinality(rows')
    BY <1>1, <2>2, <2>3
  <2>6. handle'[t] /\ counted'[t] => cachedSize'[t] = Cardinality(rows')
    BY <1>1, <2>2, <2>3
  <2> QED
    BY <2>2, <2>4, <2>5, <2>6
<1>6. ASSUME NEW t \in Tabs, CompactRead(t) PROVE SizeInv'
  <2>1. rows' = rows /\ cachedSize' = cachedSize /\ counted' = counted
    BY <1>6 DEF CompactRead, storeVars, bootVars
  <2>2. handle'[t] => handle[t]
    BY <1>6 DEF CompactRead, Downgrade
  <2>3. folding'[t] \in {"committing", "deleting"} => source'[t] = rows
    BY <1>6 DEF CompactRead
  <2> QED
    BY <1>6, <2>1, <2>2, <2>3
<1>7. ASSUME NEW t \in Tabs, CompactCommit(t) PROVE SizeInv'
  <2>1. PICK new : new = [seq |-> nextSeq, edits |-> EditsOf(source[t])]
    OBVIOUS
  <2>2. /\ rows' = rows \cup {new} /\ new \notin rows
        /\ cachedSize'[t] = cachedSize[t] + 1 /\ counted' = counted
    BY <1>2, <1>7, <2>1 DEF CompactCommit, bootVars
  <2>3. Cardinality(rows') = Cardinality(rows) + 1
    BY <1>1, <2>2, FS_AddElement
  <2>4. handle'[t] => handle[t]
    BY <1>7 DEF CompactCommit, Downgrade
  <2>5. folding'[t] \in {"committing", "deleting"} => source'[t] \subseteq rows
    BY <1>7 DEF CompactCommit
  <2>6. \A x \in Tabs : x = t
    OBVIOUS
  <2>7. handle'[t] => cachedSize'[t] <= Cardinality(rows')
    BY <1>1, <2>2, <2>3, <2>4
  <2>8. handle'[t] /\ counted'[t] => cachedSize'[t] = Cardinality(rows')
    BY <1>1, <2>2, <2>3, <2>4
  <2> QED
    BY <2>2, <2>5, <2>6, <2>7, <2>8
<1>8. ASSUME NEW t \in Tabs, CompactDelete(t) PROVE SizeInv'
  <2>1. source[t] \subseteq rows /\ rows' = rows \ source[t]
    BY <1>8 DEF CompactDelete
  <2>2. /\ IsFiniteSet(source[t]) /\ Cardinality(source[t]) \in Nat
        /\ Cardinality(source[t]) <= Cardinality(rows)
    BY <1>1, <2>1, FS_Subset, FS_CardinalityType
  <2>3. Cardinality(rows') = Cardinality(rows) - Cardinality(source[t])
    <3>1. rows \cap source[t] = source[t]
      BY <2>1
    <3>2. Cardinality(rows \ source[t]) = Cardinality(rows) - Cardinality(rows \cap source[t])
      BY <1>1, FS_Difference
    <3> QED
      BY <2>1, <3>1, <3>2
  <2>4. /\ handle' = handle /\ folding'[t] = "idle" /\ counted' = counted
        /\ cachedSize'[t] = IF cachedSize[t] >= Cardinality(source[t])
                            THEN cachedSize[t] - Cardinality(source[t]) ELSE 0
    BY <1>8 DEF CompactDelete, bootVars
  <2>5. handle[t] => /\ cachedSize'[t] <= Cardinality(rows')
                     /\ counted[t] => cachedSize'[t] = Cardinality(rows')
    BY <1>1, <2>2, <2>3, <2>4
  <2> QED
    BY <1>8, <2>4, <2>5
<1>9. CASE UNCHANGED vars
  BY <1>9 DEF vars
<1> QED
  BY <1>3, <1>4, <1>5, <1>6, <1>7, <1>8, <1>9
     DEF Next, Environment, Store, AppendEdit, Boot, Finish, Compact, Drain

(* While the store has one tab and nobody drains it, the synchronous size   *)
(* never exceeds the number of rows, and is that number whenever the       *)
(* database is open and the count at its opening succeeded: the deletes of *)
(* merged rows are then never clamped.                                     *)
THEOREM SizeExact == Lone /\ Spec => []SizeMatchesStore
<1>1. Init => SizeInv
  BY DEF Init, SizeInv
<1>2. SizeInv => SizeMatchesStore
  BY DEF SizeInv, SizeMatchesStore
<1>3. CASE Lone
  <2>1. TypeInv /\ QueueInv /\ SizeInv /\ [Next]_vars => SizeInv'
    BY <1>3, SizeStep
  <2> QED
    BY <1>1, <1>2, <2>1, TypeInit, TypeStep, QueueInvInit, QueueInvStep, PTL
       DEF Spec
<1> QED
  BY <1>3

-----------------------------------------------------------------------------
(* The queue implements one durable set of edits. *)

(* What is stored is in a row no delete under way will remove, also after a *)
(* drain; a compaction read what is stored or was drained.                 *)
RowsSafe ==
  \A e \in EditsOf(rows) : \E r \in rows : e \in r.edits /\ ~Doomed(r)

SourcesKnown == \A t \in Tabs : EditsOf(source[t]) \subseteq EditsOf(rows) \cup drained

(* What waits was accepted; a tab has nothing under way before it is there, *)
(* nothing buffered once it was taken down, and found nothing before it is *)
(* ready.                                                                  *)
TabsClean ==
  \A t \in Tabs :
    /\ Waiting(t) \subseteq accepted[t]
    /\ life[t] = "down" => inflight[t] = {} /\ folding[t] = "idle"
    /\ life[t] # "up" => pending[t] = << >>
    /\ boot[t] # "ready" => hydrated[t] = {}

StoreInv == RowsSafe /\ SourcesKnown /\ TabsClean

(* A push keeps exactly what the buffer and the update hold. *)
LEMMA BufferedExact ==
  ASSUME NEW s \in Seq(Updates), NEW u \in Updates
  PROVE  Flat(Buffered(s, u)) = Flat(s) \cup u
<1> DEFINE g == Append(s, u)
<1>1. /\ g \in Seq(Updates)
      /\ DOMAIN g = DOMAIN s \cup {Len(s) + 1}
      /\ g[Len(s) + 1] = u
      /\ \A i \in DOMAIN s : g[i] = s[i]
  OBVIOUS
<1>2. Flat(g) = Flat(s) \cup u
  <2> HIDE DEF g
  <2> QED
    BY <1>1 DEF Flat
<1>3. Flat(<< Flat(g) >>) = Flat(g)
  BY DEF Flat
<1>4. Buffered(s, u) = << Flat(g) >> \/ Buffered(s, u) = g
  BY DEF Buffered
<1> QED
  BY <1>2, <1>3, <1>4

LEMMA NothingBuffered == Flat(<< >>) = {}
BY DEF Flat

(* The ready callback: what was buffered is under way, or gone. *)
LEMMA FlushMoves ==
  ASSUME TypeOK, NEW t \in Tabs, NEW open, NEW more, Flush(t, open, more)
  PROVE  /\ \A x \in Tabs \ {t} : Waiting(x)' = Waiting(x)
         /\ pending'[t] = << >>
         /\ open => Waiting(t)' = Waiting(t) \cup UNION more
         /\ ~open => Waiting(t)' = UNION inflight[t]
<1>1. pending' = [pending EXCEPT ![t] = << >>] /\ pending'[t] = << >>
  BY DEF Flush, TypeOK
<1>2. \A x \in Tabs \ {t} : pending'[x] = pending[x] /\ inflight'[x] = inflight[x]
  BY <1>1 DEF Flush, TypeOK
<1>3. Waiting(t)' = UNION inflight'[t]
  BY <1>1, NothingBuffered DEF Waiting
<1>4. ASSUME open PROVE Waiting(t)' = Waiting(t) \cup UNION more
  <2>1. inflight'[t] = inflight[t] \cup more \cup {pending[t][i] : i \in DOMAIN pending[t]}
    BY <1>4 DEF Flush, TypeOK
  <2> QED
    BY <1>3, <2>1 DEF Waiting, Flat
<1>5. ASSUME ~open PROVE Waiting(t)' = UNION inflight[t]
  BY <1>3, <1>5 DEF Flush
<1>6. \A x \in Tabs \ {t} : Waiting(x)' = Waiting(x)
  BY <1>2 DEF Waiting
<1> QED
  BY <1>1, <1>4, <1>5, <1>6

LEMMA StoreInit == Init => StoreInv
<1> SUFFICES ASSUME Init PROVE StoreInv
  OBVIOUS
<1>1. EditsOf({}) = {}
  BY DEF EditsOf
<1>2. \A t \in Tabs : Waiting(t) = {}
  BY NothingBuffered DEF Init, Waiting
<1>3. RowsSafe
  BY <1>1 DEF Init, RowsSafe
<1>4. SourcesKnown
  BY <1>1 DEF Init, SourcesKnown
<1>5. TabsClean
  BY <1>2 DEF Init, TabsClean
<1> QED
  BY <1>3, <1>4, <1>5 DEF StoreInv

LEMMA OnlyDrainTakes ==
  ASSUME NEW t \in Tabs, Environment(t) \/ Store(t), ~Drain(t)
  PROVE  drained' = drained
BY ZenonT(40) DEF Environment, Store, AppendEdit, Boot, Finish, Compact, Open,
   OpenSucceeds, OpenUncounted, OpenFails, Hydrate, HydrateFails, Destroy, Crash,
   Synced, DrainFails, AppendBuffered, AppendReady, CommitAppend, FailAppend,
   CompactRead, CompactCommit, CompactDelete, CompactFails, keptVars

LEMMA UntouchedKeepsStore ==
  ASSUME RowsSafe, SourcesKnown, StoreUntouched, drained' = drained
  PROVE  RowsSafe' /\ SourcesKnown'
<1>1. EditsOf(rows)' = EditsOf(rows)
  BY DEF StoreUntouched
<1>2. \A r : ~Doomed(r) => ~Doomed(r)'
  BY DEF StoreUntouched, Doomed
<1>3. RowsSafe'
  BY <1>1, <1>2 DEF RowsSafe, StoreUntouched
<1>4. ASSUME NEW t \in Tabs PROVE EditsOf(source[t])' \subseteq EditsOf(rows)' \cup drained'
  <2>1. EditsOf(source[t])' \subseteq EditsOf(source[t]) \cup EditsOf(rows)
    BY DEF StoreUntouched, EditsOf
  <2> QED
    BY <1>1, <2>1 DEF SourcesKnown
<1> QED
  BY <1>3, <1>4 DEF SourcesKnown

(* A new row is too young for any compaction; it holds what its edits were  *)
(* taken from.                                                             *)
LEMMA NewRowKeepsStore ==
  ASSUME TypeInv, QueueInv, RowsSafe, SourcesKnown, NEW new, NEW t,
         new.seq = nextSeq,
         rows' = rows \cup {new}, drained' = drained,
         \A x \in Tabs : source'[x] \subseteq source[x],
         \A x \in Tabs : folding'[x] = "deleting" =>
           source'[x] = source[x] /\ (x = t \/ folding[x] = "deleting"),
         \A x \in Tabs : x = t /\ folding'[x] = "deleting" /\ folding[x] # "deleting"
           => EditsOf(source[x]) \subseteq new.edits
  PROVE  RowsSafe' /\ SourcesKnown' /\ EditsOf(rows)' = EditsOf(rows) \cup new.edits
<1>1. EditsOf(rows)' = EditsOf(rows) \cup new.edits
  BY DEF EditsOf
<1>2. \A x \in Tabs : new \notin source[x]
  <2>1. \A x \in Tabs : \A r \in source[x] : r.seq < nextSeq
    BY DEF QueueInv, SourcesAreOld
  <2>2. nextSeq \in Nat
    BY QueueAssumption DEF TypeInv, TypeOK, QueueAssumption
  <2> QED
    BY <2>1, <2>2
<1>3. ~Doomed(new)'
  BY <1>2 DEF Doomed
<1>4. ASSUME NEW e \in EditsOf(rows)'
      PROVE  \E r \in rows' : e \in r.edits /\ ~Doomed(r)'
  <2>1. CASE e \in new.edits
    BY <1>3, <2>1
  <2>2. CASE e \notin new.edits
    <3>1. PICK r \in rows : e \in r.edits /\ ~Doomed(r)
      BY <1>1, <1>4, <2>2 DEF RowsSafe
    <3>2. ASSUME Doomed(r)' PROVE FALSE
      <4>1. PICK x \in Tabs : folding'[x] = "deleting" /\ r \in source'[x]
        BY <3>2 DEF Doomed
      <4>2. x = t /\ folding[x] # "deleting" /\ r \in source[x]
        BY <3>1, <4>1 DEF Doomed
      <4>3. e \in EditsOf(source[x])
        BY <3>1, <4>2 DEF EditsOf
      <4> QED
        BY <2>2, <4>1, <4>2, <4>3
    <3> QED
      BY <3>1, <3>2
  <2> QED
    BY <2>1, <2>2
<1>5. ASSUME NEW x \in Tabs PROVE EditsOf(source[x])' \subseteq EditsOf(rows)' \cup drained'
  <2>1. EditsOf(source[x])' \subseteq EditsOf(source[x])
    BY DEF EditsOf
  <2> QED
    BY <1>1, <2>1 DEF SourcesKnown
<1> QED
  BY <1>1, <1>4, <1>5 DEF RowsSafe, SourcesKnown

LEMMA CommitKeepsStore ==
  ASSUME TypeInv, QueueInv, RowsSafe, SourcesKnown, NEW t \in Tabs, NEW u,
         CommitAppend(t, u)
  PROVE  RowsSafe' /\ SourcesKnown' /\ EditsOf(rows)' = EditsOf(rows) \cup u
<1>1. PICK new : new = [seq |-> nextSeq, edits |-> u]
  OBVIOUS
<1>2. /\ rows' = rows \cup {new} /\ drained' = drained
      /\ folding' = folding /\ source' = source
  BY <1>1 DEF CommitAppend, foldVars
<1>3. new.seq = nextSeq /\ new.edits = u
  BY <1>1
<1> HIDE DEF CommitAppend
<1> QED
  BY <1>2, <1>3, NewRowKeepsStore

LEMMA MergeKeepsStore ==
  ASSUME TypeInv, QueueInv, RowsSafe, SourcesKnown, NEW t \in Tabs,
         CompactCommit(t)
  PROVE  /\ RowsSafe' /\ SourcesKnown'
         /\ EditsOf(rows)' = EditsOf(rows) \cup EditsOf(source[t])
<1>1. PICK new : new = [seq |-> nextSeq, edits |-> EditsOf(source[t])]
  OBVIOUS
<1>2. rows' = rows \cup {new} /\ drained' = drained
  BY <1>1 DEF CompactCommit, keptVars
<1>3. \A x \in Tabs :
        /\ source'[x] \subseteq source[x]
        /\ folding'[x] = "deleting" =>
             source'[x] = source[x] /\ (x = t \/ folding[x] = "deleting")
  BY DEF CompactCommit, TypeInv, TypeOK
<1>4. new.seq = nextSeq /\ new.edits = EditsOf(source[t])
  BY <1>1
<1> QED
  BY <1>2, <1>3, <1>4, NewRowKeepsStore

(* A delete takes only rows whose edits are in others. *)
LEMMA DeleteKeepsStore ==
  ASSUME TypeInv, RowsSafe, SourcesKnown, NEW t \in Tabs, CompactDelete(t)
  PROVE  RowsSafe' /\ SourcesKnown' /\ EditsOf(rows)' = EditsOf(rows)
<1>1. /\ rows' = rows \ source[t] /\ drained' = drained /\ folding[t] = "deleting"
  BY DEF CompactDelete, keptVars
<1>2. \A x \in Tabs :
        /\ source'[x] \subseteq source[x]
        /\ folding'[x] = "deleting" =>
             source'[x] = source[x] /\ folding[x] = "deleting"
  BY DEF CompactDelete, TypeInv, TypeOK
<1>3. ASSUME NEW r, ~Doomed(r) PROVE ~Doomed(r)' /\ r \notin source[t]
  BY <1>1, <1>2, <1>3 DEF Doomed
<1>4. \A e \in EditsOf(rows) : \E r \in rows' : e \in r.edits /\ ~Doomed(r)'
  BY <1>1, <1>3 DEF RowsSafe
<1>5. EditsOf(rows)' = EditsOf(rows)
  BY <1>1, <1>4 DEF EditsOf
<1>6. \A x \in Tabs : EditsOf(source[x])' \subseteq EditsOf(source[x])
  BY <1>2 DEF EditsOf
<1> QED
  BY <1>1, <1>4, <1>5, <1>6 DEF RowsSafe, SourcesKnown

LEMMA DrainKeepsStore ==
  ASSUME SourcesKnown, NEW t \in Tabs, Drain(t)
  PROVE  RowsSafe' /\ SourcesKnown' /\ EditsOf(rows)' = {}
<1>1. /\ EditsOf(rows)' = {} /\ source' = source
      /\ drained' = drained \cup EditsOf(rows)
  BY DEF Drain, EditsOf, foldVars
<1> QED
  BY <1>1 DEF RowsSafe, SourcesKnown

LEMMA StoreSafeStep ==
  ASSUME TypeInv, QueueInv, RowsSafe, SourcesKnown, [Next]_vars
  PROVE  RowsSafe' /\ SourcesKnown'
<1>1. CASE UNCHANGED vars
  BY <1>1 DEF vars, RowsSafe, SourcesKnown, Doomed
<1>2. CASE Next
  <2>1. PICK t \in Tabs : Environment(t) \/ Store(t)
    BY <1>2 DEF Next
  <2>2. CASE StoreUntouched /\ ~Drain(t)
    BY <2>1, <2>2, UntouchedKeepsStore, OnlyDrainTakes
  <2>3. CASE ~StoreUntouched \/ Drain(t)
    <3>1. \/ CompactCommit(t) \/ CompactDelete(t) \/ Drain(t)
          \/ \E u : CommitAppend(t, u)
      BY <2>1, <2>3, UntouchedSteps
         DEF Environment, Store, AppendEdit, Boot, Finish, Compact
    <3> QED
      BY <3>1, CommitKeepsStore, MergeKeepsStore, DeleteKeepsStore, DrainKeepsStore
  <2> QED
    BY <2>2, <2>3
<1> QED
  BY <1>1, <1>2

(* Steps that only add to what waits what they add to what was accepted.    *)
LEMMA OwnTabClean ==
  ASSUME TypeInv, TabsClean, NEW t \in Tabs,
         \A x \in Tabs \ {t} :
           /\ Waiting(x)' = Waiting(x) /\ accepted'[x] = accepted[x]
           /\ life'[x] = life[x] /\ inflight'[x] = inflight[x]
           /\ pending'[x] = pending[x] /\ folding'[x] = folding[x]
           /\ boot'[x] = boot[x] /\ hydrated'[x] = hydrated[x],
         Waiting(t)' \subseteq accepted'[t],
         life'[t] = "down" => inflight'[t] = {} /\ folding'[t] = "idle",
         life'[t] # "up" => pending'[t] = << >>,
         boot'[t] # "ready" => hydrated'[t] = {}
  PROVE  TabsClean'
BY DEF TabsClean

(* Nothing of a tab's session but its phase of compaction changes. *)
SameSession(t) ==
  /\ UNCHANGED <<life, boot, pending, inflight, accepted, hydrated>>
  /\ \A x \in Tabs \ {t} : folding'[x] = folding[x]

LEMMA SameSessionClean ==
  ASSUME TypeInv, TabsClean, NEW t \in Tabs, SameSession(t),
         life[t] = "down" => folding'[t] = "idle"
  PROVE  TabsClean'
<1>1. \A x \in Tabs : Waiting(x)' = Waiting(x)
  BY DEF SameSession, Waiting
<1> QED
  BY <1>1 DEF SameSession, TabsClean

LEMMA TabsCleanStep ==
  ASSUME TypeInv, TabsClean, SessionInv, [Next]_vars
  PROVE  TabsClean'
<1> USE DEF TypeInv
<1>1. ASSUME NEW t \in Tabs, Open(t) PROVE TabsClean'
  BY <1>1 DEF Open, TypeOK, TabsClean, SessionInv, Waiting, queueVars, foldVars
<1>2. ASSUME NEW t \in Tabs, OpenSucceeds(t) \/ OpenUncounted(t) PROVE TabsClean'
  BY <1>2 DEF OpenSucceeds, OpenUncounted, TypeOK, TabsClean, Waiting, queueVars, foldVars
<1>3. ASSUME NEW t \in Tabs, OpenFails(t) \/ HydrateFails(t) PROVE TabsClean'
  <2>1. /\ Flush(t, FALSE, {})
        /\ UNCHANGED <<life, hydrated, accepted, folding>>
        /\ boot' = [boot EXCEPT ![t] = "ready"] /\ life[t] # "down"
        /\ inflight' = inflight
    BY <1>3 DEF OpenFails, HydrateFails, foldVars, Flush
  <2>2. /\ \A x \in Tabs \ {t} : Waiting(x)' = Waiting(x) /\ pending'[x] = pending[x]
        /\ Waiting(t)' \subseteq Waiting(t) /\ pending'[t] = << >>
    BY <2>1, FlushMoves DEF Waiting, Flush, TypeOK
  <2>3. Waiting(t)' \subseteq accepted'[t]
    BY <2>1, <2>2 DEF TabsClean
  <2> HIDE DEF TypeInv
  <2> QED
    BY <2>1, <2>2, <2>3, OwnTabClean DEF TypeInv, TypeOK
<1>4. ASSUME NEW t \in Tabs, NEW u, Hydrate(t, u) PROVE TabsClean'
  <2>1. /\ Flush(t, handle[t], {u} \ {{}})
        /\ life' = life /\ life[t] # "down"
        /\ hydrated' = [hydrated EXCEPT ![t] = EditsOf(rows)]
        /\ boot' = [boot EXCEPT ![t] = "ready"]
        /\ accepted' = [accepted EXCEPT ![t] = @ \cup u]
    BY <1>4 DEF Hydrate, Replay
  <2>2. \A x \in Tabs \ {t} : folding'[x] = folding[x]
    BY <1>4 DEF Hydrate, Replay, CountAppend, StartCompaction, TypeOK
  <2>3. /\ \A x \in Tabs \ {t} : Waiting(x)' = Waiting(x)
        /\ Waiting(t)' \subseteq Waiting(t) \cup u /\ pending'[t] = << >>
    <3>1. /\ \A x \in Tabs \ {t} : Waiting(x)' = Waiting(x)
          /\ pending'[t] = << >>
          /\ handle[t] => Waiting(t)' = Waiting(t) \cup UNION ({u} \ {{}})
          /\ ~handle[t] => Waiting(t)' = UNION inflight[t]
      BY <2>1, FlushMoves
    <3>2. UNION ({u} \ {{}}) = u /\ UNION inflight[t] \subseteq Waiting(t)
      BY DEF Waiting
    <3> QED
      BY <3>1, <3>2
  <2>4. \A x \in Tabs \ {t} : pending'[x] = pending[x] /\ inflight'[x] = inflight[x]
    BY <2>1 DEF Flush, TypeOK
  <2>5. Waiting(t)' \subseteq accepted'[t]
    BY <2>1, <2>3 DEF TabsClean, TypeOK
  <2> HIDE DEF TypeInv
  <2> QED
    BY <2>1, <2>2, <2>3, <2>4, <2>5, OwnTabClean DEF TypeInv, TypeOK
<1>5. ASSUME NEW t \in Tabs, Destroy(t) PROVE TabsClean'
  <2>1. /\ \A x \in Tabs \ {t} : pending'[x] = pending[x]
        /\ pending'[t] = << >>
        /\ UNCHANGED <<inflight, accepted, boot, hydrated, folding>>
        /\ life' = [life EXCEPT ![t] = "destroyed"]
    BY <1>5 DEF Destroy, TypeOK, foldVars
  <2>2. /\ \A x \in Tabs \ {t} : Waiting(x)' = Waiting(x)
        /\ Waiting(t)' \subseteq Waiting(t)
    BY <2>1, NothingBuffered DEF Waiting
  <2>3. Waiting(t)' \subseteq accepted'[t]
    BY <2>1, <2>2 DEF TabsClean
  <2> HIDE DEF TypeInv
  <2> QED
    BY <2>1, <2>2, <2>3, OwnTabClean DEF TypeInv, TypeOK, TabsClean
<1>6. ASSUME NEW t \in Tabs, Crash(t) PROVE TabsClean'
  <2>1. /\ \A x \in Tabs \ {t} : Waiting(x)' = Waiting(x)
        /\ Waiting(t)' = {}
    BY <1>6, NothingBuffered DEF Crash, Waiting, TypeOK
  <2> QED
    BY <1>6, <2>1 DEF Crash, TypeOK, TabsClean
<1>7. ASSUME NEW t \in Tabs, NEW u \in Updates, AppendBuffered(t, u)
      PROVE  TabsClean'
  <2>1. /\ Flat(pending'[t]) = Flat(pending[t]) \cup u
        /\ \A x \in Tabs \ {t} : pending'[x] = pending[x]
    BY <1>7, BufferedExact DEF AppendBuffered, TypeOK
  <2>2. /\ UNCHANGED <<inflight, boot, life, hydrated, folding>> /\ life[t] = "up"
        /\ accepted' = [accepted EXCEPT ![t] = @ \cup u]
    BY <1>7 DEF AppendBuffered, bootVars, foldVars
  <2>3. /\ \A x \in Tabs \ {t} : Waiting(x)' = Waiting(x)
        /\ Waiting(t)' \subseteq Waiting(t) \cup u
    BY <2>1, <2>2 DEF Waiting
  <2>4. Waiting(t)' \subseteq accepted'[t]
    BY <2>2, <2>3 DEF TabsClean, TypeOK
  <2> HIDE DEF TypeInv
  <2> QED
    BY <2>1, <2>2, <2>3, <2>4, OwnTabClean DEF TypeInv, TypeOK, TabsClean
<1>8. ASSUME NEW t \in Tabs, NEW u, AppendReady(t, u) PROVE TabsClean'
  <2>1. /\ UNCHANGED <<pending, boot, life, hydrated>> /\ life[t] = "up"
        /\ accepted' = [accepted EXCEPT ![t] = @ \cup u]
        /\ \A x \in Tabs \ {t} : inflight'[x] = inflight[x]
        /\ inflight'[t] \subseteq inflight[t] \cup {u}
    BY <1>8 DEF AppendReady, bootVars, TypeOK
  <2>2. \A x \in Tabs \ {t} : folding'[x] = folding[x]
    BY <1>8 DEF AppendReady, CountAppend, StartCompaction, TypeOK
  <2>3. /\ \A x \in Tabs \ {t} : Waiting(x)' = Waiting(x)
        /\ Waiting(t)' \subseteq Waiting(t) \cup u
    BY <2>1 DEF Waiting
  <2>4. Waiting(t)' \subseteq accepted'[t]
    BY <2>1, <2>3 DEF TabsClean, TypeOK
  <2> HIDE DEF TypeInv
  <2> QED
    BY <2>1, <2>2, <2>3, <2>4, OwnTabClean DEF TypeInv, TypeOK, TabsClean
<1>9. ASSUME NEW t \in Tabs, NEW u, Finish(t, u) PROVE TabsClean'
  <2>1. /\ UNCHANGED <<pending, boot, life, hydrated, folding, accepted>>
        /\ inflight' = [inflight EXCEPT ![t] = @ \ {u}]
    BY <1>9 DEF Finish, CommitAppend, FailAppend, bootVars, foldVars
  <2>2. /\ \A x \in Tabs \ {t} : inflight'[x] = inflight[x] /\ Waiting(x)' = Waiting(x)
        /\ Waiting(t)' \subseteq Waiting(t)
        /\ inflight[t] = {} => inflight'[t] = {}
    BY <2>1 DEF Waiting, TypeOK
  <2>3. Waiting(t)' \subseteq accepted'[t]
    BY <2>1, <2>2 DEF TabsClean
  <2> HIDE DEF TypeInv
  <2> QED
    BY <2>1, <2>2, <2>3, OwnTabClean DEF TypeInv, TabsClean
<1>10. ASSUME NEW t \in Tabs, Synced(t) \/ Compact(t) \/ Drain(t) \/ DrainFails(t)
       PROVE  TabsClean'
  <2>1. SameSession(t)
    BY <1>10 DEF Synced, Compact, CompactRead, CompactCommit, CompactDelete,
       CompactFails, Drain, DrainFails, StartCompaction, SameSession, TypeOK, bootVars, queueVars,
       foldVars
  <2>2. life[t] = "down" => folding[t] = "idle"
    BY DEF TabsClean
  <2>3. life[t] = "down" => folding'[t] = "idle"
    BY <1>10, <2>2 DEF Synced, Drain, DrainFails, Compact, CompactRead, CompactCommit, CompactDelete,
       CompactFails, foldVars
  <2> HIDE DEF TypeInv
  <2> QED
    BY <2>1, <2>3, SameSessionClean
<1>11. CASE UNCHANGED vars
  BY <1>11 DEF vars, TabsClean, Waiting
<1>12. \A e \in Unmade : {e} \in Updates
  BY DEF Unmade, Updates
<1> QED
  BY <1>1, <1>2, <1>3, <1>4, <1>5, <1>6, <1>7, <1>8, <1>9, <1>10, <1>11, <1>12
     DEF Next, Environment, Store, AppendEdit, Boot

LEMMA StoreInvStep ==
  TypeInv /\ QueueInv /\ SessionInv /\ StoreInv /\ [Next]_vars => StoreInv'
BY StoreSafeStep, TabsCleanStep DEF StoreInv

-----------------------------------------------------------------------------
(* Steps of EditStore under the mapping, told by what they do to one tab.   *)

OthersWait(t) == \A x \in Tabs \ {t} : Waiting(x)' = Waiting(x) /\ Found(x)' = Found(x)

SameStore == EditsOf(rows)' = EditsOf(rows) /\ drained' = drained

LEMMA WaitingMap ==
  ASSUME NEW t \in Tabs, OthersWait(t), NEW w, Waiting(t)' = w
  PROVE  [x \in Tabs |-> Waiting(x)'] = [[x \in Tabs |-> Waiting(x)] EXCEPT ![t] = w]
BY DEF OthersWait

LEMMA FoundMap ==
  ASSUME NEW t \in Tabs, OthersWait(t), NEW f, Found(t)' = f
  PROVE  [x \in Tabs |-> Found(x)'] = [[x \in Tabs |-> Found(x)] EXCEPT ![t] = f]
BY DEF OthersWait

LEMMA SameWaiting ==
  ASSUME NEW t \in Tabs, OthersWait(t), Waiting(t)' = Waiting(t)
  PROVE  [x \in Tabs |-> Waiting(x)'] = [x \in Tabs |-> Waiting(x)]
BY DEF OthersWait

LEMMA SameFound ==
  ASSUME NEW t \in Tabs, OthersWait(t), Found(t)' = Found(t)
  PROVE  [x \in Tabs |-> Found(x)'] = [x \in Tabs |-> Found(x)]
BY DEF OthersWait

LEMMA IsStutter ==
  ASSUME NEW t \in Tabs, SameStore, OthersWait(t), life' = life, fault' = fault,
         Waiting(t)' = Waiting(t), Found(t)' = Found(t)
  PROVE  UNCHANGED Promise!vars
BY SameWaiting, SameFound DEF Promise!vars, SameStore

LEMMA IsEnter ==
  ASSUME NEW t \in Tabs, SameStore, OthersWait(t), fault' = fault,
         life[t] = "down", life' = [life EXCEPT ![t] = "up"],
         Waiting(t)' = Waiting(t), Found(t)' = Found(t)
  PROVE  Promise!Enter(t)
BY SameWaiting, SameFound DEF Promise!Enter, SameStore

LEMMA IsAccept ==
  ASSUME NEW t \in Tabs, NEW e, SameStore, OthersWait(t), life' = life, fault' = fault,
         life[t] = "up",
         e \notin EditsOf(rows) \cup drained, \A x \in Tabs : e \notin Waiting(x),
         \/ Waiting(t)' = Waiting(t) \cup {e}
         \/ fault[t] /\ Waiting(t)' = Waiting(t),
         Found(t)' = Found(t)
  PROVE  Promise!Accept(t, e)
<1>1. e \notin Promise!Known
  BY DEF Promise!Known
<1>2. \/ [x \in Tabs |-> Waiting(x)'] =
           [[x \in Tabs |-> Waiting(x)] EXCEPT ![t] = @ \cup {e}]
      \/ fault[t] /\ [x \in Tabs |-> Waiting(x)'] = [x \in Tabs |-> Waiting(x)]
  <2>1. CASE Waiting(t)' = Waiting(t) \cup {e}
    BY <2>1 DEF OthersWait
  <2>2. CASE fault[t] /\ Waiting(t)' = Waiting(t)
    BY <2>2, SameWaiting
  <2> QED
    BY <2>1, <2>2
<1> QED
  BY <1>1, <1>2, SameFound DEF Promise!Accept, SameStore

LEMMA IsCommit ==
  ASSUME NEW t \in Tabs, NEW u, OthersWait(t), life' = life, fault' = fault,
         drained' = drained, EditsOf(rows)' = EditsOf(rows) \cup u,
         u \subseteq Waiting(t), Waiting(t)' \subseteq Waiting(t),
         Waiting(t) \ u \subseteq Waiting(t)', Found(t)' = Found(t)
  PROVE  Promise!Commit(t, u)
<1>1. PICK left \in SUBSET Waiting(t) :
        Waiting(t) \ u \subseteq left /\ Waiting(t)' = left
  OBVIOUS
<1>2. [x \in Tabs |-> Waiting(x)'] = [[x \in Tabs |-> Waiting(x)] EXCEPT ![t] = left]
  BY <1>1, WaitingMap
<1> QED
  BY <1>1, <1>2, SameFound DEF Promise!Commit

LEMMA IsRecover ==
  ASSUME NEW t \in Tabs, SameStore, OthersWait(t), life' = life, fault' = fault,
         life[t] # "down", Found(t) = {}, Found(t)' = {EditsOf(rows)},
         NEW lacked \in SUBSET EditsOf(rows),
         \/ Waiting(t)' = Waiting(t) \cup lacked
         \/ fault[t] /\ Waiting(t)' \subseteq Waiting(t)
  PROVE  Promise!Recover(t)
<1>1. [x \in Tabs |-> Found(x)'] =
        [[x \in Tabs |-> Found(x)] EXCEPT ![t] = {EditsOf(rows)}]
  BY FoundMap
<1>2. CASE Waiting(t)' = Waiting(t) \cup lacked
  <2>1. [x \in Tabs |-> Waiting(x)'] =
          [[x \in Tabs |-> Waiting(x)] EXCEPT ![t] = @ \cup lacked]
    BY <1>2 DEF OthersWait
  <2> QED
    BY <1>1, <2>1 DEF Promise!Recover, SameStore
<1>3. CASE fault[t] /\ Waiting(t)' \subseteq Waiting(t)
  <2>1. PICK left \in SUBSET Waiting(t) : Waiting(t)' = left
    BY <1>3
  <2>2. [x \in Tabs |-> Waiting(x)'] = [[x \in Tabs |-> Waiting(x)] EXCEPT ![t] = left]
    BY <2>1, WaitingMap
  <2> QED
    BY <1>1, <1>3, <2>1, <2>2 DEF Promise!Recover, SameStore
<1> QED
  BY <1>2, <1>3

LEMMA IsBreak ==
  ASSUME NEW t \in Tabs, SameStore, OthersWait(t), life' = life,
         life[t] # "down", fault' = [fault EXCEPT ![t] = TRUE],
         Waiting(t)' \subseteq Waiting(t),
         Found(t)' = Found(t) \/ (Found(t) = {} /\ Found(t)' = {{}})
  PROVE  Promise!Break(t)
<1>1. PICK left \in SUBSET Waiting(t) : Waiting(t)' = left
  OBVIOUS
<1>2. [x \in Tabs |-> Waiting(x)'] = [[x \in Tabs |-> Waiting(x)] EXCEPT ![t] = left]
  BY <1>1, WaitingMap
<1>3. \/ [x \in Tabs |-> Found(x)'] = [x \in Tabs |-> Found(x)]
      \/ /\ Found(t) = {}
         /\ [x \in Tabs |-> Found(x)'] = [[x \in Tabs |-> Found(x)] EXCEPT ![t] = {{}}]
  BY SameFound, FoundMap
<1> QED
  BY <1>1, <1>2, <1>3 DEF Promise!Break, SameStore

LEMMA IsLeave ==
  ASSUME NEW t \in Tabs, SameStore, OthersWait(t), fault' = fault,
         life[t] = "up", life' = [life EXCEPT ![t] = "destroyed"],
         Waiting(t)' \subseteq Waiting(t), Found(t)' = Found(t)
  PROVE  Promise!Leave(t)
<1>1. PICK left \in SUBSET Waiting(t) : Waiting(t)' = left
  OBVIOUS
<1>2. [x \in Tabs |-> Waiting(x)'] = [[x \in Tabs |-> Waiting(x)] EXCEPT ![t] = left]
  BY <1>1, WaitingMap
<1> QED
  BY <1>1, <1>2, SameFound DEF Promise!Leave, SameStore

LEMMA IsCrash ==
  ASSUME NEW t \in Tabs, SameStore, OthersWait(t), life[t] # "down",
         life' = [life EXCEPT ![t] = "down"], fault' = [fault EXCEPT ![t] = FALSE],
         Waiting(t)' = {}, Found(t)' = {}
  PROVE  Promise!Crash(t)
BY WaitingMap, FoundMap DEF Promise!Crash, SameStore

LEMMA IsTake ==
  ASSUME NEW t \in Tabs, OthersWait(t), life' = life, fault' = fault, life[t] = "up",
         EditsOf(rows)' = {}, drained' = drained \cup EditsOf(rows),
         Waiting(t)' = Waiting(t), Found(t)' = Found(t)
  PROVE  Promise!Take(t)
BY SameWaiting, SameFound DEF Promise!Take

LEMMA IsPutBack ==
  ASSUME NEW t \in Tabs, OthersWait(t), life' = life, life[t] # "down",
         drained' = drained, NEW back \in SUBSET drained,
         EditsOf(rows)' = EditsOf(rows) \cup back,
         fault' \in {fault, [fault EXCEPT ![t] = TRUE]},
         Waiting(t)' = Waiting(t), Found(t)' = Found(t)
  PROVE  Promise!PutBack(t)
BY SameWaiting, SameFound DEF Promise!PutBack

(* A tab's step that leaves its queue and its startup alone. *)
LEMMA SameQueues ==
  ASSUME NEW t \in Tabs, UNCHANGED <<pending, inflight, boot, hydrated>>
  PROVE  OthersWait(t) /\ Waiting(t)' = Waiting(t) /\ Found(t)' = Found(t)
BY DEF OthersWait, Waiting, Found

(* The end of startup: what the tab found is known from then on. *)
LEMMA FoundWhenReady ==
  ASSUME TypeOK, NEW t \in Tabs, boot' = [boot EXCEPT ![t] = "ready"],
         \A x \in Tabs \ {t} : hydrated'[x] = hydrated[x]
  PROVE  /\ \A x \in Tabs \ {t} : Found(x)' = Found(x)
         /\ Found(t)' = {hydrated'[t]}
BY DEF TypeOK, Found

PromisedStep == Promise!Next \/ UNCHANGED Promise!vars

LEMMA StartupImplements ==
  ASSUME TypeInv, SessionInv, StoreInv, NEW t \in Tabs,
         \/ Open(t) \/ OpenSucceeds(t) \/ OpenUncounted(t)
         \/ OpenFails(t) \/ HydrateFails(t)
  PROVE  PromisedStep
<1> USE DEF TypeInv
<1>1. CASE Open(t)
  <2>1. SameStore /\ OthersWait(t) /\ Waiting(t)' = Waiting(t) /\ Found(t)' = Found(t)
    BY <1>1, SameQueues DEF Open, queueVars, storeVars, keptVars, SameStore
  <2>2. Promise!Enter(t)
    BY <1>1, <2>1, IsEnter DEF Open
  <2> QED
    BY <2>2 DEF PromisedStep, Promise!Next
<1>2. CASE OpenSucceeds(t) \/ OpenUncounted(t)
  <2>1. /\ UNCHANGED <<pending, inflight, hydrated, life, fault>>
        /\ boot[t] # "ready" /\ boot' = [boot EXCEPT ![t] = "hydrating"]
        /\ SameStore
    BY <1>2 DEF OpenSucceeds, OpenUncounted, queueVars, storeVars, keptVars, SameStore
  <2>2. OthersWait(t) /\ Waiting(t)' = Waiting(t) /\ Found(t)' = Found(t)
    BY <2>1 DEF OthersWait, Waiting, Found, TypeOK
  <2> QED
    BY <2>1, <2>2, IsStutter DEF PromisedStep
<1>3. CASE OpenFails(t) \/ HydrateFails(t)
  <2>1. /\ Flush(t, FALSE, {})
        /\ life' = life /\ life[t] # "down" /\ boot[t] # "ready"
        /\ boot' = [boot EXCEPT ![t] = "ready"]
        /\ fault' = [fault EXCEPT ![t] = TRUE] /\ hydrated' = hydrated
        /\ SameStore
    BY <1>3 DEF OpenFails, HydrateFails, storeVars, keptVars, SameStore
  <2>2. /\ \A x \in Tabs \ {t} : Waiting(x)' = Waiting(x)
        /\ Waiting(t)' \subseteq Waiting(t)
    BY <2>1, FlushMoves DEF Waiting
  <2>3. hydrated'[t] = {}
    BY <2>1 DEF StoreInv, TabsClean
  <2>4. OthersWait(t) /\ Found(t) = {} /\ Found(t)' = {{}}
    <3>1. \A x \in Tabs \ {t} : Found(x)' = Found(x)
      BY <2>1, FoundWhenReady
    <3>2. Found(t)' = {hydrated'[t]}
      BY <2>1, FoundWhenReady
    <3> QED
      BY <2>1, <2>2, <2>3, <3>1, <3>2 DEF OthersWait, Found
  <2>5. Promise!Break(t)
    BY <2>1, <2>2, <2>4, IsBreak
  <2> QED
    BY <2>5 DEF PromisedStep, Promise!Next
<1> QED
  BY <1>1, <1>2, <1>3

(* What a tab finds in the store is all of it, and its buffer moves on: the *)
(* database is open, or a fault was reported, or the buffer is empty.      *)
LEMMA HydrateImplements ==
  ASSUME TypeInv, SessionInv, StoreInv, NEW t \in Tabs,
         NEW u \in SUBSET EditsOf(rows), Hydrate(t, u)
  PROVE  PromisedStep
<1> USE DEF TypeInv
<1>1. /\ Flush(t, handle[t], {u} \ {{}})
      /\ life' = life /\ life[t] # "down" /\ boot[t] = "hydrating" /\ fault' = fault
      /\ boot' = [boot EXCEPT ![t] = "ready"]
      /\ hydrated' = [hydrated EXCEPT ![t] = EditsOf(rows)]
      /\ SameStore
      /\ life[t] = "destroyed" => u = {}
  BY DEF Hydrate, Replay, storeVars, keptVars, SameStore
<1>2. hydrated'[t] = EditsOf(rows) /\ \A x \in Tabs \ {t} : hydrated'[x] = hydrated[x]
  BY <1>1 DEF TypeOK
<1>3. /\ \A x \in Tabs \ {t} : Found(x)' = Found(x)
      /\ Found(t)' = {EditsOf(rows)}
  BY <1>1, <1>2, FoundWhenReady
<1>4. Found(t) = {}
  BY <1>1 DEF Found
<1>5. /\ \A x \in Tabs \ {t} : Waiting(x)' = Waiting(x)
      /\ handle[t] => Waiting(t)' = Waiting(t) \cup UNION ({u} \ {{}})
      /\ ~handle[t] => Waiting(t)' = UNION inflight[t]
  BY <1>1, FlushMoves
<1>6. UNION ({u} \ {{}}) = u
  OBVIOUS
<1>7. \/ Waiting(t)' = Waiting(t) \cup u
      \/ fault[t] /\ Waiting(t)' \subseteq Waiting(t)
  <2>1. CASE handle[t]
    BY <1>5, <1>6, <2>1
  <2>2. CASE ~handle[t] /\ fault[t]
    BY <1>5, <2>2 DEF Waiting
  <2>3. CASE ~handle[t] /\ ~fault[t]
    <3>1. life[t] = "destroyed"
      BY <1>1, <2>3 DEF SessionInv, TypeOK
    <3>2. pending[t] = << >> /\ u = {}
      BY <1>1, <3>1 DEF StoreInv, TabsClean
    <3>3. Waiting(t) = UNION inflight[t]
      BY <3>2, NothingBuffered DEF Waiting
    <3> QED
      BY <1>5, <2>3, <3>2, <3>3
  <2> QED
    BY <2>1, <2>2, <2>3
<1>8. OthersWait(t)
  BY <1>3, <1>5 DEF OthersWait
<1>9. Promise!Recover(t)
  BY <1>1, <1>3, <1>4, <1>7, <1>8, IsRecover
<1> QED
  BY <1>9 DEF PromisedStep, Promise!Next

LEMMA EndsImplement ==
  ASSUME TypeInv, NEW t \in Tabs, Destroy(t) \/ Crash(t)
  PROVE  PromisedStep
<1> USE DEF TypeInv
<1>1. CASE Destroy(t)
  <2>1. /\ \A x \in Tabs \ {t} : Waiting(x)' = Waiting(x)
        /\ Waiting(t)' \subseteq Waiting(t)
    BY <1>1, NothingBuffered DEF Destroy, Waiting, TypeOK
  <2>2. /\ \A x \in Tabs : Found(x)' = Found(x)
        /\ SameStore
    BY <1>1 DEF Destroy, Found, SameStore, storeVars, keptVars
  <2>3. Promise!Leave(t)
    BY <1>1, <2>1, <2>2, IsLeave DEF Destroy, OthersWait
  <2> QED
    BY <2>3 DEF PromisedStep, Promise!Next
<1>2. CASE Crash(t)
  <2>1. /\ \A x \in Tabs \ {t} : Waiting(x)' = Waiting(x)
        /\ Waiting(t)' = {}
    BY <1>2, NothingBuffered DEF Crash, Waiting, TypeOK
  <2>2. /\ \A x \in Tabs \ {t} : Found(x)' = Found(x)
        /\ Found(t)' = {} /\ SameStore
    BY <1>2 DEF Crash, Found, TypeOK, SameStore, storeVars, keptVars
  <2>3. Promise!Crash(t)
    BY <1>2, <2>1, <2>2, IsCrash DEF Crash, OthersWait
  <2> QED
    BY <2>3 DEF PromisedStep, Promise!Next
<1> QED
  BY <1>1, <1>2

LEMMA AppendImplements ==
  ASSUME TypeInv, SessionInv, StoreInv, NEW t \in Tabs, AppendEdit(t)
  PROVE  PromisedStep
<1> USE DEF TypeInv
<1>1. PICK e \in Unmade : AppendBuffered(t, {e}) \/ AppendReady(t, {e})
  BY DEF AppendEdit
<1>2. /\ e \in Edits /\ e \notin EditsOf(rows) \cup drained
      /\ \A x \in Tabs : e \notin Waiting(x)
  BY DEF Unmade, StoreInv, TabsClean
<1>3. {e} \in Updates
  BY <1>2 DEF Updates
<1>4. UNCHANGED <<boot, hydrated, life, fault>> /\ SameStore /\ life[t] = "up"
  BY <1>1 DEF AppendBuffered, AppendReady, bootVars, storeVars, keptVars, SameStore
<1>5. \A x \in Tabs : Found(x)' = Found(x)
  BY <1>4 DEF Found
<1>6. /\ \A x \in Tabs \ {t} : Waiting(x)' = Waiting(x)
      /\ \/ Waiting(t)' = Waiting(t) \cup {e}
         \/ fault[t] /\ Waiting(t)' = Waiting(t)
  <2>1. CASE AppendBuffered(t, {e})
    <3>1. Flat(pending'[t]) = Flat(pending[t]) \cup {e} /\ inflight' = inflight
      BY <1>3, <2>1, BufferedExact DEF AppendBuffered, TypeOK
    <3>2. \A x \in Tabs \ {t} : pending'[x] = pending[x]
      BY <2>1 DEF AppendBuffered, TypeOK
    <3> QED
      BY <3>1, <3>2 DEF Waiting
  <2>2. CASE AppendReady(t, {e}) /\ handle[t]
    <3>1. /\ inflight' = [inflight EXCEPT ![t] = @ \cup {{e}}]
          /\ pending' = pending
      BY <2>2 DEF AppendReady
    <3>2. /\ \A x \in Tabs \ {t} : inflight'[x] = inflight[x]
          /\ UNION inflight'[t] = (UNION inflight[t]) \cup {e}
      BY <3>1 DEF TypeOK
    <3> QED
      BY <3>1, <3>2 DEF Waiting
  <2>3. CASE AppendReady(t, {e}) /\ ~handle[t]
    <3>1. fault[t]
      BY <2>3 DEF AppendReady, SessionInv
    <3>2. inflight' = inflight /\ pending' = pending
      BY <2>3 DEF AppendReady
    <3> QED
      BY <3>1, <3>2 DEF Waiting
  <2> QED
    BY <1>1, <2>1, <2>2, <2>3
<1>7. Promise!Accept(t, e)
  BY <1>2, <1>4, <1>5, <1>6, IsAccept DEF OthersWait
<1> QED
  BY <1>2, <1>7 DEF PromisedStep, Promise!Next

LEMMA FinishImplements ==
  ASSUME TypeInv, QueueInv, StoreInv, NEW t \in Tabs, NEW u \in inflight[t],
         Finish(t, u)
  PROVE  PromisedStep
<1> USE DEF TypeInv
<1>1. /\ UNCHANGED <<pending, boot, hydrated, life>> /\ drained' = drained
      /\ inflight' = [inflight EXCEPT ![t] = @ \ {u}]
  BY DEF Finish, CommitAppend, FailAppend, bootVars, keptVars
<1>2. /\ \A x \in Tabs \ {t} : Waiting(x)' = Waiting(x)
      /\ u \subseteq Waiting(t)
      /\ Waiting(t)' \subseteq Waiting(t) /\ Waiting(t) \ u \subseteq Waiting(t)'
  BY <1>1 DEF Waiting, TypeOK
<1>3. \A x \in Tabs : Found(x)' = Found(x)
  BY <1>1 DEF Found
<1>4. u \subseteq Edits /\ life[t] # "down"
  BY DEF TypeOK, Updates, StoreInv, TabsClean
<1>5. CASE CommitAppend(t, u)
  <2>1. EditsOf(rows)' = EditsOf(rows) \cup u
    BY <1>5, CommitKeepsStore DEF StoreInv
  <2>2. fault' = fault
    BY <1>5 DEF CommitAppend
  <2>3. Promise!Commit(t, u)
    BY <1>1, <1>2, <1>3, <2>1, <2>2, IsCommit DEF OthersWait
  <2> QED
    BY <1>4, <2>3 DEF PromisedStep, Promise!Next
<1>6. CASE FailAppend(t, u)
  <2>1. SameStore /\ fault' = [fault EXCEPT ![t] = TRUE]
    BY <1>6 DEF FailAppend, Downgrade, storeVars, keptVars, SameStore
  <2>2. Promise!Break(t)
    BY <1>1, <1>2, <1>3, <1>4, <2>1, IsBreak DEF OthersWait
  <2> QED
    BY <2>2 DEF PromisedStep, Promise!Next
<1> QED
  BY <1>5, <1>6 DEF Finish

(* No step of a compaction shows, except that it may report a fault, and    *)
(* that a merged row holds what was drained since its rows were read.      *)
LEMMA CompactImplements ==
  ASSUME TypeInv, QueueInv, StoreInv, NEW t \in Tabs,
         Compact(t) \/ Synced(t) \/ Drain(t) \/ DrainFails(t)
  PROVE  PromisedStep
<1> USE DEF TypeInv
<1>1. /\ UNCHANGED <<pending, inflight, boot, hydrated, life>>
  BY DEF Compact, CompactRead, CompactCommit, CompactDelete, CompactFails, Synced,
     Drain, DrainFails, bootVars, queueVars
<1>2. OthersWait(t) /\ Waiting(t)' = Waiting(t) /\ Found(t)' = Found(t)
  BY <1>1, SameQueues
<1>3. folding[t] # "idle" => life[t] # "down"
  BY DEF StoreInv, TabsClean
<1>4. ASSUME SameStore, fault' = fault PROVE PromisedStep
  BY <1>1, <1>2, <1>4, IsStutter DEF PromisedStep
<1>5. ASSUME SameStore, fault' = [fault EXCEPT ![t] = TRUE], life[t] # "down"
      PROVE  PromisedStep
  <2>1. Promise!Break(t)
    BY <1>1, <1>2, <1>5, IsBreak
  <2> QED
    BY <2>1 DEF PromisedStep, Promise!Next
<1>6. CASE Synced(t)
  <2>1. SameStore /\ fault' = fault
    BY <1>6 DEF Synced, storeVars, keptVars, SameStore
  <2> QED
    BY <1>4, <2>1
<1>7. CASE CompactRead(t) \/ CompactFails(t)
  <2>1. SameStore /\ folding[t] # "idle"
    BY <1>7 DEF CompactRead, CompactFails, storeVars, keptVars, SameStore
  <2>2. fault' = fault \/ fault' = [fault EXCEPT ![t] = TRUE]
    BY <1>7 DEF CompactRead, CompactFails, Downgrade
  <2> QED
    BY <1>3, <1>4, <1>5, <2>1, <2>2
<1>11. CASE DrainFails(t)
  <2>1. SameStore /\ fault' = [fault EXCEPT ![t] = TRUE] /\ life[t] # "down"
    BY <1>11 DEF DrainFails, Downgrade, storeVars, keptVars, SameStore
  <2> QED
    BY <1>5, <2>1
<1>8. CASE CompactCommit(t)
  <2>1. EditsOf(rows)' = EditsOf(rows) \cup EditsOf(source[t])
    BY <1>8, MergeKeepsStore DEF StoreInv
  <2>2. PICK back \in SUBSET drained : back = EditsOf(source[t]) \cap drained
    OBVIOUS
  <2>3. EditsOf(rows)' = EditsOf(rows) \cup back
    BY <2>1, <2>2 DEF StoreInv, SourcesKnown
  <2>4. drained' = drained /\ fault' \in {fault, [fault EXCEPT ![t] = TRUE]}
    BY <1>8 DEF CompactCommit, Downgrade, keptVars
  <2>5. life[t] # "down"
    BY <1>3, <1>8 DEF CompactCommit
  <2>6. Promise!PutBack(t)
    BY <1>1, <1>2, <2>3, <2>4, <2>5, IsPutBack
  <2> QED
    BY <2>6 DEF PromisedStep, Promise!Next
<1>9. CASE CompactDelete(t)
  <2>1. SameStore /\ fault' = fault
    BY <1>9, DeleteKeepsStore DEF StoreInv, CompactDelete, keptVars, SameStore
  <2> QED
    BY <1>4, <2>1
<1>10. CASE Drain(t)
  <2>1. /\ EditsOf(rows)' = {} /\ drained' = drained \cup EditsOf(rows)
        /\ fault' = fault /\ life[t] = "up"
    BY <1>10, DrainKeepsStore DEF StoreInv, Drain
  <2>2. Promise!Take(t)
    BY <1>1, <1>2, <2>1, IsTake
  <2> QED
    BY <2>2 DEF PromisedStep, Promise!Next
<1> QED
  BY <1>6, <1>7, <1>8, <1>9, <1>10, <1>11 DEF Compact

LEMMA ImplementsInit == Init => Promise!Init
<1> SUFFICES ASSUME Init PROVE Promise!Init
  OBVIOUS
<1>1. \A t \in Tabs : Waiting(t) = {} /\ Found(t) = {}
  BY NothingBuffered DEF Init, Waiting, Found
<1>2. EditsOf(rows) = {}
  BY DEF Init, EditsOf
<1> QED
  BY <1>1, <1>2 DEF Init, Promise!Init

LEMMA ImplementsStep ==
  TypeInv /\ QueueInv /\ SessionInv /\ StoreInv /\ [Next]_vars
    => [Promise!Next]_(Promise!vars)
<1> SUFFICES ASSUME TypeInv, QueueInv, SessionInv, StoreInv, [Next]_vars
             PROVE  PromisedStep
  BY DEF PromisedStep
<1>1. CASE UNCHANGED vars
  <2>1. SameStore /\ \A t \in Tabs : Waiting(t)' = Waiting(t) /\ Found(t)' = Found(t)
    BY <1>1 DEF vars, SameStore, Waiting, Found
  <2> QED
    BY <1>1, <2>1 DEF vars, SameStore, PromisedStep, Promise!vars
<1>2. CASE Next
  <2>1. PICK t \in Tabs : Environment(t) \/ Store(t)
    BY <1>2 DEF Next
  <2> QED
    BY <2>1, StartupImplements, HydrateImplements, EndsImplement, AppendImplements,
       FinishImplements, CompactImplements DEF Environment, Store, Boot
<1> QED
  BY <1>1, <1>2

(* The rows, the buffers and the transactions of any number of tabs are one *)
(* durable set of edits to those who use them: compactions do not show,     *)
(* what is stored stays until a drain takes it, what is accepted waits     *)
(* until it is stored, and startup finds all that is stored, unless the    *)
(* tab was told of a fault.                                                *)
THEOREM QueueImplementsStore == Spec => ImplementsStore
BY ImplementsInit, ImplementsStep, TypeInit, TypeStep, QueueInvInit, QueueInvStep,
   SessionInit, SessionStep, StoreInit, StoreInvStep, PTL
   DEF Spec, ImplementsStore, Promise!Spec

=============================================================================
