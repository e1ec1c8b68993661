---------------------------- MODULE ConflictWindow ----------------------------
(***************************************************************************)
(* Conflict diagnostics: the window of unconfirmed local saves, the fields  *)
(* an inbound update is found to conflict on, and the resolution the host  *)
(* has written back (src/src/utils/conflicts.ts, under dispatchRemote of   *)
(* src/src/utils/yjs-adapter.ts).                                          *)
(*                                                                         *)
(* The room exists and its page was read when the adapter was made, so      *)
(* every window has an anchor; a listener and a resolver are registered,   *)
(* and a save is one change of the page the adapter last took over: what a *)
(* page that waited does is the subject of EditSession.  Nodes have one    *)
(* prop and the order of children is left out, as in SharedTree.           *)
(***************************************************************************)
EXTENDS SharedTree, Integers, FiniteSets

CONSTANTS
  Peers,         \* adapters, by client id
  MaxSaves       \* bound on the saves and resyncs of an instance

ASSUME ConflictAssumption ==
  /\ Peers \subseteq Nat \ {0}
  /\ MaxSaves \in Nat

VARIABLES
  tree,          \* the native tree of each replica
  local,         \* lastLocalIR
  base,          \* baselineIR, a set of at most one document
  window,        \* firstUnconfirmedLocalSaveAt: none, fresh, or too long ago
  alarm,         \* the nodes of the event the last update raised
  saves,         \* saves and resyncs made so far
  mine,          \* history: nodes the user changed since the window opened
  inflight,      \* history: the same since synced or since it grew stale
  credit         \* history: windows opened less resolutions written back

vars == <<tree, local, base, window, alarm, saves, mine, inflight, credit>>

Init ==
  \E doc \in Document :
    /\ tree = [p \in Peers |-> SeededTree(doc)]
    /\ local = [p \in Peers |-> doc]
    /\ base = [p \in Peers |-> {}]
    /\ window = [p \in Peers |-> "none"]
    /\ alarm = [p \in Peers |-> {}]
    /\ saves = 0
    /\ mine = [p \in Peers |-> {}]
    /\ inflight = [p \in Peers |-> {}]
    /\ credit = [p \in Peers |-> 0]

-----------------------------------------------------------------------------
(* The window. *)

(* Faulty variant: the window opens without an anchor. *)
NoteLocalSaveAdrift(p) ==
  IF window[p] = "none"
  THEN /\ window' = [window EXCEPT ![p] = "fresh"]
       /\ credit' = [credit EXCEPT ![p] = @ + 1]
       /\ UNCHANGED base
  ELSE UNCHANGED <<window, base, credit>>

(* noteLocalSave: the first save of a window opens it and anchors the       *)
(* baseline.                                                               *)
NoteLocalSave(p) ==
  IF window[p] = "none"
  THEN /\ window' = [window EXCEPT ![p] = "fresh"]
       /\ base' = [base EXCEPT ![p] = {local[p]}]
       /\ credit' = [credit EXCEPT ![p] = @ + 1]
  ELSE UNCHANGED <<window, base, credit>>

(* Faulty variant: the anchor outlives the window. *)
CloseWindowAnchored(p) ==
  /\ window' = [window EXCEPT ![p] = "none"]
  /\ mine' = [mine EXCEPT ![p] = {}]
  /\ UNCHANGED base

CloseWindow(p) ==
  /\ window' = [window EXCEPT ![p] = "none"]
  /\ base' = [base EXCEPT ![p] = {}]
  /\ mine' = [mine EXCEPT ![p] = {}]

(* save(), not as a write-back. *)
Save(p, doc) ==
  /\ saves < MaxSaves
  /\ tree' = [tree EXCEPT ![p] = ApplyDocument(@, p, local[p], doc)]
  /\ local' = [local EXCEPT ![p] = doc]
  /\ NoteLocalSave(p)
  /\ mine' = [mine EXCEPT ![p] = @ \cup Changed(local[p], doc)]
  /\ inflight' = [inflight EXCEPT ![p] = @ \cup Changed(local[p], doc)]
  /\ saves' = saves + 1
  /\ UNCHANGED alarm

(* The user inserts a node or changes one. *)
Put(p, n, content) ==
  /\ n \in DOMAIN local[p] => local[p][n] # content
  /\ Save(p, With(local[p], n, content))

(* The user removes a node. *)
Drop(p, n) ==
  /\ n \in DOMAIN local[p]
  /\ Save(p, Restrict(local[p], DOMAIN local[p] \ {n}))

(* staleAfterMs passes since the first save of the window. *)
Stale(p) ==
  /\ window[p] = "fresh"
  /\ window' = [window EXCEPT ![p] = "stale"]
  /\ inflight' = [inflight EXCEPT ![p] = {}]
  /\ UNCHANGED <<tree, local, base, mine, alarm, saves, credit>>

(* The transport reports synced. *)
Synced(p) ==
  /\ window[p] # "none"
  /\ CloseWindow(p)
  /\ inflight' = [inflight EXCEPT ![p] = {}]
  /\ UNCHANGED <<tree, local, alarm, saves, credit>>

(* forceResync(): the page of the newest snapshot, whichever it is, becomes  *)
(* the page.  The edits made since are given up, and their window closes.  *)
ForceResync(p) ==
  /\ saves < MaxSaves
  /\ \E doc \in Document :
       /\ tree' = [tree EXCEPT ![p] = ApplyDocument(@, p, local[p], doc)]
       /\ local' = [local EXCEPT ![p] = doc]
  /\ CloseWindow(p)
  /\ inflight' = [inflight EXCEPT ![p] = {}]
  /\ saves' = saves + 1
  /\ UNCHANGED <<alarm, credit>>

-----------------------------------------------------------------------------
(* An inbound update. *)

(* computeConflict: nodes of both pages with different content, when both   *)
(* moved away from the baseline, or there is none or without the node.     *)
ConflictFields(baseline, ours, remote) ==
  {n \in DOMAIN ours \cap DOMAIN remote :
     /\ ours[n] # remote[n]
     /\ \A anchor \in baseline :
          n \in DOMAIN anchor => anchor[n] \notin {ours[n], remote[n]}}

(* childOrderConflict on the root: both changed its list, differently. *)
ChildConflict(baseline, ours, remote) ==
  /\ DOMAIN ours # DOMAIN remote
  /\ \A anchor \in baseline : DOMAIN anchor \notin {DOMAIN ours, DOMAIN remote}

(* buildResolvedIR for what the resolver may answer: the remote page, the   *)
(* local value of every conflicting field, or a value of its own for one.  *)
Resolutions(ours, remote, fields) ==
  {remote}
    \cup {[n \in DOMAIN remote |-> IF n \in fields THEN ours[n] ELSE remote[n]]}
    \cup {[remote EXCEPT ![n] = c] : n \in DOMAIN remote, c \in Contents}

(* maybeFire: only a fresh window is examined. *)
Fields(p, remote) ==
  IF window[p] = "fresh" THEN ConflictFields(base[p], local[p], remote) ELSE {}

Fires(p, remote) ==
  \/ Fields(p, remote) # {}
  \/ window[p] = "fresh" /\ ChildConflict(base[p], local[p], remote)

(* Faulty variant: the resolution is diffed against the page before the     *)
(* update.                                                                 *)
WriteBackUnrebased(p, merged, resolved) ==
  /\ tree' = [tree EXCEPT ![p] = ApplyDocument(merged, p, local[p], resolved)]
  /\ local' = [local EXCEPT ![p] = resolved]
  /\ credit' = [credit EXCEPT ![p] = @ - 1]
  /\ CloseWindow(p)

(* Faulty variant: the window stays open after a resolution. *)
WriteBackOpen(p, merged, resolved) ==
  /\ tree' = [tree EXCEPT
                ![p] = ApplyDocument(merged, p, ReadTree(merged), resolved)]
  /\ local' = [local EXCEPT ![p] = resolved]
  /\ credit' = [credit EXCEPT ![p] = @ - 1]
  /\ UNCHANGED <<window, base, mine>>

(* dispatchRemote with a resolution: the baseline of the diff becomes the   *)
(* merged page first, then the resolution is saved over it, which notes a  *)
(* local save, and the window closes.                                      *)
WriteBack(p, merged, resolved) ==
  /\ tree' = [tree EXCEPT
                ![p] = ApplyDocument(merged, p, ReadTree(merged), resolved)]
  /\ local' = [local EXCEPT ![p] = resolved]
  /\ credit' = [credit EXCEPT ![p] = @ - 1]
  /\ CloseWindow(p)

(* dispatchRemote without one: the merged page is taken over. *)
TakeOver(p, merged) ==
  /\ tree' = [tree EXCEPT ![p] = merged]
  /\ local' = [local EXCEPT ![p] = ReadTree(merged)]
  /\ UNCHANGED credit
  /\ CloseWindow(p)

(* p receives what q has. *)
Deliver(p, q) ==
  LET merged == MergeTree(tree[p], tree[q])
      remote == ReadTree(merged)
      fields == Fields(p, remote)
  IN  /\ merged # tree[p]
      /\ alarm' = [alarm EXCEPT ![p] = fields]
      /\ IF Fires(p, remote)
         THEN \E resolved \in Resolutions(local[p], remote, fields) :
                IF resolved # remote THEN WriteBack(p, merged, resolved)
                                     ELSE TakeOver(p, merged)
         ELSE TakeOver(p, merged)
      /\ UNCHANGED <<saves, inflight>>

User(p) == \E n \in Nodes : Drop(p, n) \/ \E c \in Contents : Put(p, n, c)

Next ==
  \E p \in Peers :
    \/ User(p) \/ Stale(p) \/ Synced(p) \/ ForceResync(p)
    \/ \E q \in Peers : Deliver(p, q)

Spec == Init /\ [][Next]_vars

-----------------------------------------------------------------------------
(* Properties. *)

TypeOK ==
  /\ \A p \in Peers : ReadTree(tree[p]) \in Document
  /\ local \in [Peers -> Document]
  /\ base \in [Peers -> {{}} \cup {{doc} : doc \in Document}]
  /\ window \in [Peers -> {"none", "fresh", "stale"}]
  /\ \A p \in Peers : window[p] = "none" <=> base[p] = {}
  /\ alarm \in [Peers -> SUBSET Nodes]
  /\ mine \in [Peers -> SUBSET Nodes]
  /\ saves \in 0 .. MaxSaves
  /\ inflight \in [Peers -> SUBSET Nodes]
  /\ credit \in [Peers -> Int]

(* Whatever was resolved and written back, the document the next save is    *)
(* diffed against is what the tree shows ("re-base local tracking onto the *)
(* just-merged remote state FIRST", yjs-adapter.ts).                       *)
BaselineIsTree == \A p \in Peers : local[p] = ReadTree(tree[p])

(* A window is resolved at most once: two hosts that both insist on their   *)
(* own value do not answer each other's write-backs for ever.              *)
OneWritebackPerWindow == \A p \in Peers : credit[p] >= 0

(* Only what the user changed in the window that was open is reported, so   *)
(* a resolver can never put back an older value of another node.           *)
AlarmsAreOwn ==
  [][\A p \in Peers : alarm'[p] # alarm[p] => alarm'[p] \subseteq mine[p]]_vars

-----------------------------------------------------------------------------
(* Statements of the documentation that no run checks, because the code     *)
(* does not keep them: README.md, "Disagreements", says how.                *)

(* "a TRUE concurrent-edit conflict" (computeConflict): whoever wrote the   *)
(* value reported had not seen the local one.                              *)
AlarmsAreConcurrent ==
  [][\A p \in Peers : \A n \in alarm'[p] :
       alarm'[p] # alarm[p] =>
         ~IsStrictPrefix(tree[p][n].val.path, tree'[p][n].val.path)]_vars

(* "fires when a remote update lands on top of a local in-flight edit       *)
(* within staleAfterMs" (README.md): an update that replaces a value of the *)
(* user's, by one whose writer had not seen it, raises an alarm while the  *)
(* time is not up and the transport has not reported synced.               *)
OverwritesAlarm ==
  [][\A p \in Peers : \A n \in inflight[p] :
       LET before == tree[p][n]
           after  == tree'[p][n]
       IN  /\ saves' = saves /\ credit' = credit
           /\ Live(before) /\ Live(after) /\ before.path = after.path
           /\ Last(before.val.path) = p
           /\ before.val.val # after.val.val
           /\ ~IsStrictPrefix(before.val.path, after.val.path)
           /\ \A anchor \in base[p] :
                n \in DOMAIN anchor => anchor[n] # before.val.val
           => n \in alarm'[p]]_vars
=============================================================================
