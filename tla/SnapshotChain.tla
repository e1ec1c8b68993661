---------------------------- MODULE SnapshotChain ----------------------------
(***************************************************************************)
(* Snapshot history kept inside the shared Y.Doc: createSnapshots          *)
(* (src/src/utils/snapshots.ts) over the delta chain of                    *)
(* src/src/utils/payload-chain.ts.  Every save stores a payload and a meta *)
(* record under the snapshot's id; most payloads are deltas against the    *)
(* newest snapshot the saving replica knows, some are whole keyframes, and *)
(* the oldest snapshots beyond maxSnapshots are evicted by the same        *)
(* transaction.                                                            *)
(*                                                                         *)
(* Ids are numbered in the order of (savedAt, id), the order               *)
(* readSnapshotMetas sorts by: the clocks of the peers agree.  The room is *)
(* seeded before anyone saves.                                             *)
(***************************************************************************)
EXTENDS SharedTree, FiniteSetsExt

CONSTANTS
  Peers,             \* adapters, each over its own replica; their client ids
  MaxSnapshots,      \* retention ceiling of every peer, 0 when disabled (200)
  KeyframeInterval,  \* KEYFRAME_INTERVAL (20)
  MaxSaves,          \* bound on the saves of an instance
  MaxWrites,         \* bound on the writes of a key that calls may build on
  Features           \* the calls and the concurrency an instance allows

ASSUME ChainAssumption ==
  /\ Peers \subseteq Nat \ {0}
  /\ MaxSnapshots \in Nat
  /\ KeyframeInterval \in Nat \ {0}
  /\ MaxSaves \in Nat
  /\ MaxWrites \in Nat
  /\ Features \subseteq {"concurrent", "delete", "restart", "resync", "undo"}

VARIABLES
  tree,      \* the native tree of each replica
  snaps,     \* the snapshotPayload and snapshotMeta keys of each replica
  local,     \* lastLocalIR of each adapter, the document saves diff against
  since,     \* savesSinceKeyframe of each adapter
  undoTo,    \* the document an undo returns to: a set of at most one
  nextId,    \* the next snapshot's place in the order
  saved      \* history: the document each save() was given

vars == <<tree, snaps, local, since, undoTo, nextId, saved>>

Ids == 1 .. MaxSaves

Keyframe(doc) == [kind |-> "full", doc |-> doc]

(* buildDeltaPayload: the changed nodes, the removed ids and, when it       *)
(* changed, the list of the root's children.                               *)
Delta(base, prev, next) ==
  [kind    |-> "delta",
   base    |-> base,
   changed |-> Restrict(next, Changed(prev, next)),
   removed |-> Removed(prev, next),
   relinks |-> DOMAIN prev # DOMAIN next,
   kids    |-> DOMAIN next]

(* readSnapshotMetas: the snapshots a set of records lists. *)
Listed(records) == {i \in Ids : Live(records[i].meta)}
Retained(p)     == Listed(snaps[p])

(* A page with the nodes of another written over it. *)
Overlay(over, base) ==
  [n \in DOMAIN over \cup DOMAIN base |->
     IF n \in DOMAIN over THEN over[n] ELSE base[n]]

(* Faulty variant: the replay keeps nodes the delta removed. *)
ReplayKeepingRemoved(base, delta) == {Overlay(delta.changed, base)}

(* applyStoredDelta: replay by node id; a child without content is an error *)
(* (no document).                                                          *)
Replay(base, delta) ==
  LET own  == Overlay(delta.changed, Restrict(base, DOMAIN base \ delta.removed))
      kids == IF delta.relinks THEN delta.kids ELSE DOMAIN base
  IN  IF kids \subseteq DOMAIN own THEN {Restrict(own, kids)} ELSE {}

(* reconstructPayload: what each record rebuilds to, a set of at most one   *)
(* document, empty when the chain is broken.  A base is older than its     *)
(* delta.                                                                  *)
Rebuilt(records) ==
  LET doc[i \in Ids] ==
        LET payload == records[i].payload.val
        IN  IF ~Live(records[i].payload) THEN {}
            ELSE IF payload.kind = "full" THEN {payload.doc}
            ELSE UNION {Replay(base, payload) : base \in doc[payload.base]}
  IN  doc

(* load(id): empty stands for a thrown SnapshotCorruptedError. *)
Load(p, i) == Rebuilt(snaps[p])[i]

Forget(record) == [payload |-> DeleteKey(record.payload),
                   meta    |-> DeleteKey(record.meta)]

Overflow(records) == IF MaxSnapshots = 0 THEN 0
                     ELSE Cardinality(Listed(records)) - MaxSnapshots

(* The oldest snapshots beyond the ceiling. *)
Victims(records) ==
  {i \in Listed(records) :
     Cardinality({j \in Listed(records) : j < i}) < Overflow(records)}

(* Faulty variant: no survivor is promoted to a keyframe. *)
EvictOnly(records, p) ==
  [i \in Ids |-> IF i \in Victims(records) THEN Forget(records[i])
                                           ELSE records[i]]

(* Retention: the first survivor, when its base is a victim and its chain   *)
(* still reads, becomes a keyframe; then the victims are deleted.          *)
Evict(records, p) ==
  LET victims  == Victims(records)
      first    == Min(Listed(records) \ victims)
      whole    == Rebuilt(records)[first]
      rerooted == /\ victims # {} /\ whole # {}
                  /\ records[first].payload.val.kind = "delta"
                  /\ records[first].payload.val.base \in victims
  IN  [i \in Ids |->
         IF i \in victims THEN Forget(records[i])
         ELSE IF i = first /\ rerooted
         THEN [records[i] EXCEPT
                 !.payload = SetKey(@, p, Keyframe(CHOOSE d \in whole : TRUE))]
         ELSE records[i]]

-----------------------------------------------------------------------------
MergeRecord(a, b) == [payload |-> MergeKey(a.payload, b.payload),
                      meta    |-> MergeKey(a.meta, b.meta)]

MergeRecords(mine, theirs) ==
  [i \in Ids |-> MergeRecord(mine[i], theirs[i])]

(* p has everything q has. *)
Knows(p, q) == /\ MergeTree(tree[p], tree[q]) = tree[p]
               /\ MergeRecords(snaps[p], snaps[q]) = snaps[p]

(* Unless an instance allows concurrent calls, only a replica that is up to *)
(* date makes one.                                                         *)
MayAct(p) ==
  /\ "concurrent" \in Features \/ \A q \in Peers : Knows(p, q)
  /\ \A n \in Nodes :
       /\ Len(tree[p][n].path) <= MaxWrites
       /\ Live(tree[p][n]) => Len(tree[p][n].val.path) <= MaxWrites

Init ==
  \E doc \in Document :
    /\ tree = [p \in Peers |-> SeededTree(doc)]
    /\ snaps = [p \in Peers |->
                  [i \in Ids |-> [payload |-> Unset, meta |-> Unset]]]
    /\ local = [p \in Peers |-> doc]
    /\ since = [p \in Peers |-> 0]
    /\ undoTo = [p \in Peers |-> {}]
    /\ nextId = 1
    /\ saved = << >>

(* Faulty variant: the spacing of keyframes is off by one. *)
PayloadLate(p, doc) ==
  IF Retained(p) # {} /\ since[p] <= KeyframeInterval
  THEN Delta(Max(Retained(p)), local[p], doc)
  ELSE Keyframe(doc)

(* The payload save(doc) stores: a delta unless there is nothing to chain   *)
(* to or enough deltas were written since the last keyframe.               *)
PayloadFor(p, doc) ==
  IF Retained(p) # {} /\ since[p] < KeyframeInterval
  THEN Delta(Max(Retained(p)), local[p], doc)
  ELSE Keyframe(doc)

(* save(): store, evict, apply to the tree, advance the baseline. *)
Save(p, doc) ==
  /\ MayAct(p)
  /\ nextId <= MaxSaves
  /\ LET payload == PayloadFor(p, doc)
         record  == [payload |-> SetKey(Unset, p, payload),
                     meta    |-> SetKey(Unset, p, "meta")]
     IN  /\ snaps' = [snaps EXCEPT
                        ![p] = Evict([@ EXCEPT ![nextId] = record], p)]
         /\ since' = [since EXCEPT
                        ![p] = IF payload.kind = "full" THEN 0 ELSE @ + 1]
  /\ tree' = [tree EXCEPT ![p] = ApplyDocument(@, p, local[p], doc)]
  /\ local' = [local EXCEPT ![p] = doc]
  /\ undoTo' = [undoTo EXCEPT ![p] = {local[p]}]
  /\ saved' = Append(saved, doc)
  /\ nextId' = nextId + 1

(* delete(id). *)
Delete(p, i) ==
  /\ "delete" \in Features
  /\ MayAct(p)
  /\ i \in Retained(p)
  /\ snaps' = [snaps EXCEPT ![p][i] = Forget(@)]
  /\ UNCHANGED <<tree, local, since, undoTo, nextId, saved>>

(* Faulty variant: the baseline keeps the discarded edits. *)
ForceResyncUntracked(p) ==
  /\ "resync" \in Features
  /\ MayAct(p)
  /\ \E i \in Retained(p) : \E doc \in Load(p, i) :
       /\ i = Max(Retained(p))
       /\ tree' = [tree EXCEPT ![p] = ApplyDocument(@, p, local[p], doc)]
  /\ undoTo' = [undoTo EXCEPT ![p] = {local[p]}]
  /\ UNCHANGED <<snaps, local, since, nextId, saved>>

(* forceResync(): the newest snapshot, if it can be read, becomes the page. *)
ForceResync(p) ==
  /\ "resync" \in Features
  /\ MayAct(p)
  /\ \E i \in Retained(p) : \E doc \in Load(p, i) :
       /\ i = Max(Retained(p))
       /\ tree' = [tree EXCEPT ![p] = ApplyDocument(@, p, local[p], doc)]
       /\ local' = [local EXCEPT ![p] = doc]
  /\ undoTo' = [undoTo EXCEPT ![p] = {local[p]}]
  /\ UNCHANGED <<snaps, since, nextId, saved>>

(* undo() of the last save or resync: the Y.UndoManager covers the tree and *)
(* not the snapshots; its transaction is not of local origin, so the tree  *)
(* observer makes the result the baseline.  Only the top of its stack is   *)
(* modelled, and only while no remote update arrived.                      *)
Undo(p) ==
  /\ "undo" \in Features
  /\ MayAct(p)
  /\ \E doc \in undoTo[p] :
       /\ tree' = [tree EXCEPT ![p] = ApplyDocument(@, p, local[p], doc)]
       /\ local' = [local EXCEPT ![p] = doc]
  /\ undoTo' = [undoTo EXCEPT ![p] = {}]
  /\ UNCHANGED <<snaps, since, nextId, saved>>

(* A new adapter over the same Y.Doc: the baseline is read from the tree,   *)
(* the counters start again.                                               *)
Restart(p) ==
  /\ "restart" \in Features
  /\ local' = [local EXCEPT ![p] = ReadTree(tree[p])]
  /\ since' = [since EXCEPT ![p] = 0]
  /\ undoTo' = [undoTo EXCEPT ![p] = {}]
  /\ UNCHANGED <<tree, snaps, nextId, saved>>

(* p receives what q has; when the tree changed, the tree observer makes    *)
(* the merged page the baseline (dispatchRemote).                          *)
Deliver(p, q) ==
  /\ ~Knows(p, q)
  /\ LET merged == MergeTree(tree[p], tree[q])
     IN  /\ tree' = [tree EXCEPT ![p] = merged]
         /\ local' = [local EXCEPT
                        ![p] = IF merged # tree[p] THEN ReadTree(merged) ELSE @]
  /\ snaps' = [snaps EXCEPT ![p] = MergeRecords(@, snaps[q])]
  /\ undoTo' = [undoTo EXCEPT ![p] = {}]
  /\ UNCHANGED <<since, nextId, saved>>

Next ==
  \E p \in Peers :
    \/ \E doc \in Document : Save(p, doc)
    \/ \E i \in Ids : Delete(p, i)
    \/ ForceResync(p) \/ Undo(p) \/ Restart(p)
    \/ \E q \in Peers : Deliver(p, q)

Spec == Init /\ [][Next]_vars

-----------------------------------------------------------------------------
(* Properties. *)

TypeOK ==
  /\ \A p \in Peers :
       /\ ReadTree(tree[p]) \in Document
       /\ \A i \in Retained(p) : i < nextId
       /\ local[p] \in Document
       /\ since[p] \in 0 .. KeyframeInterval
       /\ undoTo[p] \subseteq Document
  /\ saved \in Seq(Document)
  /\ nextId = Len(saved) + 1

(* Every snapshot in the list loads as the document its save() was given,   *)
(* through any number of evictions, keyframes and sessions.  The replay is  *)
(* trusted without "per-delta round-trip validation" (payload-chain.ts).   *)
LoadsWhatWasSaved ==
  \A p \in Peers : \A i \in Retained(p) : Load(p, i) = {saved[i]}

(* "resolves to null if no snapshot exists" (forceResync in README.md): a   *)
(* listed snapshot means there is one to restore.                          *)
ResyncFindsSnapshot ==
  \A p \in Peers : Retained(p) # {} => Load(p, Max(Retained(p))) # {}

(* The document the next save will be diffed against is what the tree shows *)
(* whatever mix of saves, resyncs, undos, restarts and remote updates came  *)
(* before: a save writes the author's own changes and nothing else.        *)
BaselineIsTree == \A p \in Peers : local[p] = ReadTree(tree[p])

(* While the users of a room take turns, the delta chain implements the      *)
(* plain history they see (list, load and save in snapshots.ts), read from *)
(* a replica that is up to date.                                           *)
Answers(p) == LET built == Rebuilt(snaps[p])
              IN  [i \in Retained(p) |-> built[i]]

UpToDate == CHOOSE p \in Peers : \A q \in Peers \ {p} : Knows(p, q)

History == INSTANCE SnapshotHistory
             WITH Documents <- Document, Ceiling <- MaxSnapshots,
                  log <- Answers(UpToDate)

ImplementsHistory == History!Spec

-----------------------------------------------------------------------------
(* Statements of the documentation that no run checks, because the code     *)
(* does not keep them: README.md, "Disagreements", says how.                *)

(* A retained snapshot can be read: "no survivor is orphaned" (the eviction *)
(* in save()).                                                             *)
SurvivorsLoad == \A p \in Peers : \A i \in Retained(p) : Load(p, i) # {}

(* "a hard CRDT invariant rather than a consumer responsibility"            *)
(* (maxSnapshots in types.ts): no replica lists more than the ceiling.     *)
RetentionBound ==
  \A p \in Peers :
    MaxSnapshots > 0 => Cardinality(Retained(p)) <= MaxSnapshots

(* A payload lives exactly as long as its meta record: both are deleted in  *)
(* one transaction (load in snapshots.ts).                                 *)
PairsLiveTogether ==
  \A p \in Peers, i \in Ids :
    Live(snaps[p][i].payload) <=> Live(snaps[p][i].meta)

(* The deltas to replay before i is read. *)
Depth(p, i) ==
  LET depth[j \in Ids] ==
        LET payload == snaps[p][j].payload.val
        IN  IF payload.kind = "full" THEN 0 ELSE depth[payload.base] + 1
  IN  depth[i]

(* "at most this many deltas chain off one keyframe" (payload-chain.ts). *)
ChainBounded ==
  \A p \in Peers : \A i \in Retained(p) : Depth(p, i) <= KeyframeInterval
=============================================================================
