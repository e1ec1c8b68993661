----------------------------- MODULE ChildLists -----------------------------
(***************************************************************************)
(* The structure of the live page: which node is whose child, and in which *)
(* order (src/src/utils/native-tree.ts, live-ir.ts).  Every node has a     *)
(* Y.Array of child ids in the node's own Y.Map.  A save applies to these   *)
(* arrays what it changed, an update from another replica is folded into a *)
(* cache that knows every node's child ids, and the page is read from that *)
(* cache.  What a node holds besides its children is in SharedTree.        *)
(*                                                                         *)
(* A page is a function from its nodes, the root among them, to their      *)
(* children in order.  So is the cache, but its lists may name nodes that  *)
(* are gone, or the same node twice.                                       *)
(***************************************************************************)
EXTENDS YMap, FiniteSets

CONSTANTS
  Peers,         \* the replicas, by client id
  Nodes,         \* node ids below the root
  Root,          \* the root's id
  Grant,         \* the nodes whose place each user decides
  Shapes,        \* the pages the users make
  PageData,      \* updates may bring assets or metadata of the page
  MaxSaves       \* bound on the saves of an instance

ASSUME ListsAssumption ==
  /\ Peers \subseteq Nat \ {0}
  /\ IsFiniteSet(Nodes) /\ Root \notin Nodes
  /\ Grant \in [Peers -> SUBSET Nodes]
  /\ \A page \in Shapes : \E S \in SUBSET Nodes : page \in [S \cup {Root} -> Seq(Nodes)]
  /\ PageData \in BOOLEAN
  /\ MaxSaves \in Nat

Ids == Nodes \cup {Root}

(* What some of the theorems suppose of an instance: every page is the root *)
(* and its children; no two users decide about the same node.              *)
OneLevel ==
  \A page \in Shapes :
    /\ IsInjective(page[Root]) /\ Range(page[Root]) = DOMAIN page \ {Root}
    /\ \A n \in DOMAIN page \ {Root} : page[n] = << >>
Exclusive == \A p, q \in Peers : p # q => Grant[p] \cap Grant[q] = {}

VARIABLES
  tree,          \* each replica's node maps, by node id
  cache,         \* each replica's live-IR cache: the child ids it knows; while
                 \* it is not seeded, the page read when the adapter was made
  seeded,        \* whether a save or an update has filled the cache
  cut,           \* history: a read of the whole tree has left a node out
  saves,         \* saves made so far
  placed         \* history: where its user last put each node, as a set

vars == <<tree, cache, seeded, cut, saves, placed>>

-----------------------------------------------------------------------------
(* A Y.Array of ids (yjs): inserting puts an item right after another one,  *)
(* deleting leaves its place behind.  Of items inserted at the same place   *)
(* the one with the higher id comes first, on every replica.               *)

Head0 == <<0, 0>>
NoItems == [items |-> {}, dead |-> {}]

AtLeast(i, j) == i[1] > j[1] \/ (i[1] = j[1] /\ i[2] >= j[2])
Newest(items) == CHOOSE i \in items : \A j \in items : AtLeast(i.id, j.id)

(* The items of seq that are in S, in their order. *)
Keep(seq, S) ==
  LET kept[k \in 0 .. Len(seq)] ==
        IF k = 0 THEN << >>
        ELSE IF seq[k] \in S THEN Append(kept[k - 1], seq[k])
        ELSE kept[k - 1]
  IN  kept[Len(seq)]

Place(seq, i) == InsertAt(seq, 1 + SelectInSeq(seq, LAMBDA j : j.id = i.after), i)

(* The items in their order, the deleted ones included. *)
Ordered(items) ==
  LET all[some \in SUBSET items] ==
        IF some = {} THEN << >>
        ELSE Place(all[some \ {Newest(some)}], Newest(some))
  IN  all[items]

(* toArray(), as the items themselves. *)
Visible(array) ==
  Keep(Ordered(array.items), {i \in array.items : i.id \notin array.dead})

Vals(seq) == [k \in DOMAIN seq |-> seq[k].val]

MergeArray(a, b) == [items |-> a.items \cup b.items, dead |-> a.dead \cup b.dead]

(* insert(at, [id]) and delete(at) on an array and on the mirror of its     *)
(* visible items the caller keeps; positions count from 1.                 *)
Insert(st, client, at, id) ==
  LET clocks == {i.id[1] : i \in st.array.items}
      item == [id    |-> <<1 + Max({0} \cup clocks), client>>,
               after |-> IF at = 1 THEN Head0 ELSE st.work[at - 1].id,
               val   |-> id]
  IN  [array |-> [st.array EXCEPT !.items = @ \cup {item}],
       work  |-> InsertAt(st.work, at, item)]

Delete(st, at) ==
  [array |-> [st.array EXCEPT !.dead = @ \cup {st.work[at].id}],
   work  |-> RemoveAt(st.work, at)]

-----------------------------------------------------------------------------
(* reconcileKeyedArray. *)

(* indexOf, and 0 when absent. *)
Find(work, id) == SelectInSeq(work, LAMBDA i : i.val = id)

(* Faulty variant: deleting from the front, with positions that are not     *)
(* adjusted.                                                               *)
RemoveForward(array, base, desired) ==
  LET gone == Range(base) \ Range(desired)
      seen == Visible(array)
      drop(s, k) == IF seen[k].val \in gone /\ k <= Len(s.work)
                    THEN Delete(s, k) ELSE s
  IN  [array |-> FoldLeft(drop, [array |-> array, work |-> seen],
                          [k \in DOMAIN seen |-> k]).array,
       work  |-> Keep(seen, {i \in Range(seen) : i.val \notin gone})]

(* 1. Ids of the base that are no longer desired are deleted. *)
RemoveUndesired(array, base, desired) ==
  LET gone == Range(base) \ Range(desired)
      seen == Visible(array)
  IN  [array |-> [array EXCEPT
                    !.dead = @ \cup {i.id : i \in {j \in Range(seen) : j.val \in gone}}],
       work  |-> Keep(seen, {i \in Range(seen) : i.val \notin gone})]

(* 2. Desired ids that neither the base nor the array has come after the    *)
(* nearest desired id before them that is there.                           *)
AddOne(s, client, base, desired, k) ==
  LET there == {j \in 1 .. k - 1 : Find(s.work, desired[j]) > 0}
      at == IF there = {} THEN 1 ELSE Find(s.work, desired[Max(there)]) + 1
  IN  IF desired[k] \in Range(base) \/ Find(s.work, desired[k]) > 0
      THEN s ELSE Insert(s, client, at, desired[k])

AddDesired(st, client, base, desired) ==
  LET added[k \in 0 .. Len(desired)] ==
        IF k = 0 THEN st ELSE AddOne(added[k - 1], client, base, desired, k)
  IN  added[Len(desired)]

(* 3. Slot by slot, the id wanted there is moved to where the slot's own    *)
(* id stands; ids that are not desired are no slots.                       *)
MoveOne(s, client, desired, k) ==
  LET slots == {i \in DOMAIN s.work : s.work[i].val \in Range(desired)}
      at == {i \in slots : Cardinality({j \in slots : j <= i}) = k}
      from == Find(s.work, desired[k])
      abs == CHOOSE i \in at : TRUE
  IN  IF at = {} \/ from = 0 \/ s.work[abs].val = desired[k]
      THEN s
      ELSE Insert(Delete(s, from), client,
                  IF from < abs THEN abs - 1 ELSE abs, desired[k])

Reorder(st, client, desired) ==
  LET moved[k \in 0 .. Len(desired)] ==
        IF k = 0 THEN st ELSE MoveOne(moved[k - 1], client, desired, k)
  IN  moved[Len(desired)]

(* A fresh array takes the whole list in one insertion. *)
Fill(array, client, desired) ==
  LET filled[k \in 0 .. Len(desired)] ==
        IF k = 0 THEN [array |-> array, work |-> << >>]
        ELSE Insert(filled[k - 1], client, k, desired[k])
  IN  filled[Len(desired)].array

Reconcile(array, client, base, desired) ==
  LET cur == Vals(Visible(array))
  IN  IF base = desired \/ cur = desired THEN array
      ELSE IF cur = << >> THEN Fill(array, client, desired)
      ELSE Reorder(AddDesired(RemoveUndesired(array, base, desired),
                              client, base, desired),
                   client, desired).array

-----------------------------------------------------------------------------
(* Reading. *)

ListsOf(nodes) ==
  [n \in {m \in Ids : Live(nodes[m])} |-> Vals(Visible(nodes[n].val))]

(* The walk both readers make, parents before children, in list order.  A   *)
(* node that was met before is skipped by materialize(); readNode() trips   *)
(* its guard there, which ends the walk, and it counts as met an id whose  *)
(* node is gone.                                                           *)
Walk(lists, guarded) ==
  LET entries(parent) ==
        LET kids == lists[parent] IN [k \in DOMAIN kids |-> <<parent, kids[k]>>]
      start == [todo |-> entries(Root), met |-> {Root},
                page |-> [m \in {Root} |-> << >>]]
      step(s) ==
        IF s.todo = << >> THEN s
        ELSE LET parent == s.todo[1][1]
                 n == s.todo[1][2]
                 rest == Tail(s.todo)
             IN  IF n \in s.met
                 THEN [s EXCEPT !.todo = IF guarded THEN << >> ELSE rest]
                 ELSE IF n \notin DOMAIN lists
                 THEN [s EXCEPT !.todo = rest,
                                !.met = IF guarded THEN @ \cup {n} ELSE @]
                 ELSE [todo |-> entries(n) \o rest,
                       met  |-> s.met \cup {n},
                       page |-> [m \in DOMAIN s.page \cup {n} |->
                                   IF m = n THEN << >>
                                   ELSE IF m = parent THEN Append(s.page[m], n)
                                   ELSE s.page[m]]]
      entered == Cardinality(UNION {{n} \X DOMAIN lists[n] : n \in DOMAIN lists})
      walk[k \in 0 .. entered] == IF k = 0 THEN start ELSE step(walk[k - 1])
  IN  walk[entered].page

(* materialize(), of the cache, and readNativeTree(), of the tree. *)
Page(p) == Walk(cache[p], FALSE)
FullRead(nodes) == Walk(ListsOf(nodes), TRUE)

(* The guard ended the read early, or no list names a node that is there.   *)
LeavesOut(nodes, page) == \E n \in Ids : Live(nodes[n]) /\ n \notin DOMAIN page

(* What materialize() would give of a cache that had read every node anew. *)
TreePage(p) == Walk(ListsOf(tree[p]), FALSE)

(* What a page can be: every node but the root is the child of one other.   *)
Pages ==
  LET lists(S) == UNION {SetToSeqs(T) : T \in SUBSET S}
  IN  UNION {{page \in [S \cup {Root} -> lists(S)] : Walk(page, TRUE) = page} :
               S \in SUBSET Nodes}

Parent(page, n) == {m \in DOMAIN page : n \in Range(page[m])}

-----------------------------------------------------------------------------
(* writeNode inside getOrCreateNodeMap. *)
WriteNode(node, client, base, kids) ==
  [IF Live(node) THEN node ELSE SetKey(node, client, NoItems)
     EXCEPT !.val = Reconcile(@, client, base, kids)]

Init ==
  \E page \in Shapes :
    /\ tree = [p \in Peers |-> [n \in Ids |->
                 IF n \in DOMAIN page THEN WriteNode(Unset, 0, << >>, page[n])
                                      ELSE Unset]]
    /\ cache = [p \in Peers |-> page]
    /\ seeded \in [Peers -> BOOLEAN]
    /\ cut = [p \in Peers |-> FALSE]
    /\ saves = 0
    /\ placed = [n \in Nodes |-> Parent(page, n)]

(* diffIRNodesForLocalSave. *)
Changed(prev, page) ==
  {n \in DOMAIN page : n \notin DOMAIN prev \/ prev[n] # page[n]}

(* The user moves, inserts and removes nodes of its own, and orders all.    *)
(* The page is saved: applyChangedNodesToNativeTree, with the page before   *)
(* as the baseline, and setLocalChanged; a cache that is not seeded takes   *)
(* the whole page, which comes to the same, because it is the page before. *)
Save(p, prev, page) ==
  LET changed == Changed(prev, page)
      removed == DOMAIN prev \ DOMAIN page
      base(n) == IF n \in DOMAIN prev THEN prev[n] ELSE << >>
  IN  /\ saves < MaxSaves
      /\ page # prev
      /\ \A n \in Nodes \ Grant[p] : Parent(page, n) = Parent(prev, n)
      /\ tree' = [tree EXCEPT ![p] = [n \in Ids |->
                    IF n \in changed THEN WriteNode(@[n], p, base(n), page[n])
                    ELSE IF n \in removed THEN DeleteKey(@[n])
                    ELSE @[n]]]
      /\ cache' = [cache EXCEPT ![p] =
                     [n \in (DOMAIN @ \ removed) \cup changed |->
                        IF n \in changed THEN page[n] ELSE @[n]]]
      /\ seeded' = [seeded EXCEPT ![p] = TRUE]
      /\ cut' = cut
      /\ saves' = saves + 1
      /\ placed' = [n \in Nodes |-> IF n \in Grant[p] THEN Parent(page, n)
                                                     ELSE placed[n]]

MergeNode(a, b) ==
  IF a.path = b.path /\ a.path # << >>
  THEN [a EXCEPT !.dead = a.dead \/ b.dead, !.val = MergeArray(@, b.val)]
  ELSE MergeKey(a, b)

(* Faulty variant: nodes that went stay in the cache. *)
RefreshedKeeping(lists, nodes, touched) ==
  LET read == {n \in touched : Live(nodes[n])}
  IN  [n \in DOMAIN lists \cup read |->
         IF n \in read THEN ListsOf(nodes)[n] ELSE lists[n]]

(* Faulty variant: of the touched nodes only the new ones are read. *)
RefreshedNew(lists, nodes, touched) ==
  LET live == {n \in touched : Live(nodes[n])}
  IN  [n \in (DOMAIN lists \ (touched \ live)) \cup live |->
         IF n \in DOMAIN lists THEN lists[n] ELSE ListsOf(nodes)[n]]

(* applyRemoteChangedNodes: the touched nodes are read again, the others    *)
(* stay as they are in the cache, and those that went are dropped.         *)
Refreshed(lists, nodes, touched) ==
  LET read == {n \in touched : Live(nodes[n])}
  IN  [n \in (DOMAIN lists \ touched) \cup read |->
         IF n \in read THEN ListsOf(nodes)[n] ELSE lists[n]]

Merged(p, q) == [n \in Ids |-> MergeNode(tree[p][n], tree[q][n])]

(* p receives what q has: deriveChangedNodeIds names the nodes whose map or *)
(* list of children the update touched.                                    *)
Deliver(p, q) ==
  LET merged == Merged(p, q)
  IN  /\ seeded[p]
      /\ merged # tree[p]
      /\ tree' = [tree EXCEPT ![p] = merged]
      /\ cache' = [cache EXCEPT ![p] =
                     Refreshed(@, merged, {n \in Ids : merged[n] # tree[p][n]})]
      /\ UNCHANGED <<seeded, cut, saves, placed>>

(* The same when the cache is not seeded, or when the update has something  *)
(* of the page as a whole in it: fullRebuild.                              *)
DeliverWhole(p, q) ==
  LET merged == Merged(p, q)
      page == FullRead(merged)
  IN  /\ PageData \/ (~seeded[p] /\ merged # tree[p])
      /\ tree' = [tree EXCEPT ![p] = merged]
      /\ cache' = [cache EXCEPT ![p] = page]
      /\ seeded' = [seeded EXCEPT ![p] = TRUE]
      /\ cut' = [cut EXCEPT ![p] = @ \/ LeavesOut(merged, page)]
      /\ UNCHANGED <<saves, placed>>

Next ==
  \E p \in Peers :
    \/ LET prev == Page(p) IN \E page \in Shapes : Save(p, prev, page)
    \/ \E q \in Peers \ {p} : Deliver(p, q) \/ DeliverWhole(p, q)

Spec == Init /\ [][Next]_vars

-----------------------------------------------------------------------------
(* Properties. *)

(* Arrays are well formed, and the cache knows no node whose key is not in  *)
(* the tree.                                                               *)
TypeOK ==
  /\ \A p \in Peers, n \in Ids : Live(tree[p][n]) =>
       LET array == tree[p][n].val
           ids == {i.id : i \in array.items}
       IN  /\ Cardinality(ids) = Cardinality(array.items)
           /\ \A i \in array.items : i.after \in ids \cup {Head0} /\ i.val \in Nodes
           /\ array.dead \subseteq ids
  /\ \A p \in Peers : DOMAIN cache[p] \subseteq {n \in Ids : Live(tree[p][n])}
  /\ seeded \in [Peers -> BOOLEAN] /\ cut \in [Peers -> BOOLEAN]
  /\ saves \in 0 .. MaxSaves
  /\ placed \in [Nodes -> SUBSET Ids]

(* A node that was removed and set again. *)
CameBack(p, n) == Len(tree[p][n].path) > 1

(* The page of the incremental cache is that of the tree: neither a save    *)
(* nor an update leaves a list of children behind that a walk of the tree   *)
(* would not meet, nor in another order.  Only a node that had been removed *)
(* may be missing when it is back, and what a read of the whole tree has    *)
(* left out.                                                               *)
CacheFollowsTree ==
  \A p \in Peers : ~cut[p] =>
    LET page == Page(p)
        whole == TreePage(p)
    IN  /\ DOMAIN page \subseteq DOMAIN whole
        /\ \A n \in DOMAIN page : page[n] = Keep(whole[n], DOMAIN page)
        /\ \A n \in DOMAIN whole \ DOMAIN page : CameBack(p, n)

Quiet == \A p, q \in Peers : tree[p] = tree[q]

(* Every node is where the user who decides about it last put it, or gone   *)
(* if that user removed it, whatever the others added, removed or moved at  *)
(* the same time ("the local peer's add/remove/reorder all apply",          *)
(* native-tree.ts): on that user's screen at any time, and in the document *)
(* when the replicas agree.  A user whose read has left a node out decides  *)
(* by a page that is not the tree's.                                       *)
PlacesSurvive ==
  /\ \A p \in Peers : ~cut[p] =>
       LET page == Page(p) IN \A n \in Grant[p] : Parent(page, n) = placed[n]
  /\ Quiet => \A p \in Peers :
       LET page == TreePage(p) IN \A n \in Nodes :
         (\A q \in Peers : n \in Grant[q] => ~cut[q]) => Parent(page, n) = placed[n]

-----------------------------------------------------------------------------
(* Statements of the documentation that no run checks, because the code     *)
(* does not keep them: README.md, "Disagreements", says how.                *)

(* "a full round-trip, the correctness backstop" (plugin.ts, live-ir.ts):   *)
(* reading the whole tree gives the page the cache holds.                  *)
FullReadAgrees == \A p \in Peers : Page(p) = FullRead(tree[p])

(* "so we never emit a stale or partial IR" (live-ir.ts, where it rebuilds   *)
(* the page from the whole tree): what it reads then has every node.       *)
NoneCut == \A p \in Peers : ~cut[p]

(* "relink (reorder/add/remove) matches a full rebuild" (live-ir.test.ts):  *)
(* but a node that comes back to a list that never lost its id is not shown *)
(* by a cache that had saved the list without it.                          *)
CacheIsTree == \A p \in Peers : Page(p) = TreePage(p)

(* "a child is never duplicated" (reconcileKeyedArray in native-tree.ts).   *)
NoneTwice ==
  \A p \in Peers, n \in Nodes :
    LET lists == ListsOf(tree[p])
        times(m) == Cardinality({k \in DOMAIN lists[m] : lists[m][k] = n})
    IN  SumFunction([m \in DOMAIN lists |-> times(m)]) <= 1
=============================================================================
