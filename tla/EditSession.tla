----------------------------- MODULE EditSession -----------------------------
(***************************************************************************)
(* Editing one page together: from the change a user makes in the editor   *)
(* to the pages the other users see (src/src/plugin.ts over                *)
(* debounced-adapter.ts, inbound-scheduler.ts and the adapter).            *)
(*                                                                         *)
(*   editor --onDataChange--> debounced save --flush--> tree --update-->   *)
(*   other replica --observer--> inbound buffer --frame--> other editor    *)
(*                                                                         *)
(* Every arrow but the last save is asynchronous.  A plugin starts when its *)
(* editor is mounted: it shows the newest snapshot its replica has, or      *)
(* seeds a room it believes empty.                                         *)
(*                                                                         *)
(* To the editor a page is a list of items; other nodes sit in the slots   *)
(* of an item.  Items come, go and change; nodes in slots, and items that  *)
(* hold some, only change.  The order of children and page-level metadata  *)
(* are left out, as in SharedTree.                                         *)
(***************************************************************************)
EXTENDS SharedTree, FiniteSets, Bags

CONSTANTS
  Peers,         \* the users' plugins, by client id
  Root,          \* the root's id
  ItemOf,        \* the item whose slots hold a node; an item holds itself
  Grant,         \* the nodes each user edits
  AsyncHosts,    \* the users whose editor reports changes after the call
  Late,          \* the users that come into the room later
  Drafts,        \* the pages their editors start with
  Fresh,         \* whether the room may not exist yet
  MaxEdits,      \* bounds on the edits of an instance
  MaxRemounts    \* and on the times editors are mounted again

ASSUME SessionAssumption ==
  /\ Peers \subseteq Nat \ {0}
  /\ Root \notin Nodes
  /\ ItemOf \in [Nodes -> Nodes]
  /\ \A n \in Nodes : ItemOf[ItemOf[n]] = ItemOf[n]
  /\ Grant \in [Peers -> SUBSET Nodes]
  /\ AsyncHosts \subseteq Peers
  /\ Late \subseteq Peers
  /\ Drafts \subseteq Document
  /\ Fresh \in BOOLEAN
  /\ MaxEdits \in Nat /\ MaxRemounts \in Nat

VARIABLES
  tree,          \* the native tree of each replica
  root,          \* its root node's map: who created it, the ids listed there
  newest,        \* the newest snapshot of each replica
  local,         \* lastLocalIR of each adapter
  phase,         \* "mounted", "seeding" the room, or "ready" (puckReady)
  editor,        \* the page each editor shows
  due,           \* whether the editor has a change left to report
  expected,      \* pendingRemoteData, a bag of pages
  debounced,     \* the save waiting for its quiet window, a set of at most one
  shadow,        \* localShadow.pending, a set of at most one document
  dispatched,    \* localShadow.lastDispatched
  inbound,       \* the scheduler's buffer, a set of at most one entry
  edits,         \* edits made so far
  remounts,      \* editors mounted again so far
  intent         \* history: what its last edit made of each node, as a set

roomVars == <<tree, root, newest, local>>
echoVars == <<due, expected>>
editVars == <<edits, remounts, intent>>
vars == <<roomVars, phase, editor, echoVars, debounced, shadow, dispatched,
          inbound, editVars>>

Empty == [n \in {} |-> Nothing]

(* readNativeTree(): a node is on the page when the root lists it.  Two      *)
(* replicas that created the root each keep the lists of one of them.      *)
NoRoot == [path |-> << >>, ids |-> {}]

NoSnapshot == [at |-> 0, doc |-> Empty]

MergeRoot(a, b) ==
  IF a.path = b.path THEN [a EXCEPT !.ids = @ \cup b.ids]
  ELSE IF After(a.path, b.path) THEN a ELSE b

Listed(doc, top) == Restrict(doc, DOMAIN doc \cap top.ids)

Page(nodes, top) == Listed(ReadTree(nodes), top)

Room(p) == Page(tree[p], root[p])

ContentOf(doc, n) == {doc[m] : m \in DOMAIN doc \cap {n}}

Items(doc) == {n \in DOMAIN doc : ItemOf[n] = n}

(* A slotless item: what an edit may insert or remove. *)
Loose(n) == \A m \in Nodes : ItemOf[m] = n <=> m = n

(* A buffered update: its page and what it touched; everything if it is      *)
(* structural.                                                             *)
Entry == [doc        : Document,
          ids        : SUBSET (Nodes \cup {Root}),
          structural : BOOLEAN,
          relink     : BOOLEAN]

(* A page without a change set. *)
Whole(doc) == [doc |-> doc, ids |-> {}, structural |-> TRUE, relink |-> FALSE]

TypeOK ==
  /\ \A p \in Peers : Room(p) \in Document
  /\ local \in [Peers -> Document]
  /\ phase \in [Peers -> {"mounted", "seeding", "ready"}]
  /\ editor \in [Peers -> Document]
  /\ due \in [Peers -> BOOLEAN]
  /\ \A p \in Peers : IsABag(expected[p]) /\ DOMAIN expected[p] \subseteq Document
  /\ debounced \in [Peers -> {{}} \cup {{doc} : doc \in Document}]
  /\ shadow \in [Peers -> {{}} \cup {{doc} : doc \in Document}]
  /\ dispatched \in [Peers -> Document]
  /\ inbound \in [Peers -> {{}} \cup {{e} : e \in Entry}]
  /\ edits \in 0 .. MaxEdits /\ remounts \in 0 .. MaxRemounts
  /\ intent \in [Nodes -> SUBSET Contents]

(* Either the room exists, seeded by client 0, and its users are in it but  *)
(* for those who join late; or nobody has saved anything yet.              *)
Joined(p, fresh) == ~fresh /\ p \notin Late

(* The room's page, the pages of the editors to come, and whether the room   *)
(* does not exist.                                                         *)
Starts(doc, draft, fresh) ==
  /\ \A n \in DOMAIN doc : ItemOf[n] \in DOMAIN doc
  /\ tree = [p \in Peers |-> SeededTree(IF Joined(p, fresh) THEN doc ELSE Empty)]
  /\ root = [p \in Peers |->
               IF Joined(p, fresh) THEN [path |-> <<0>>, ids |-> DOMAIN doc] ELSE NoRoot]
  /\ newest = [p \in Peers |->
                 IF Joined(p, fresh) THEN [at |-> 1, doc |-> doc] ELSE NoSnapshot]
  /\ local = [p \in Peers |-> IF Joined(p, fresh) THEN doc ELSE Empty]
  /\ phase = [p \in Peers |-> IF Joined(p, fresh) THEN "ready" ELSE "mounted"]
  /\ editor = [p \in Peers |-> IF p \in Late THEN draft[p] ELSE doc]
  /\ due = [p \in Peers |-> FALSE]
  /\ expected = [p \in Peers |-> EmptyBag]
  /\ debounced = [p \in Peers |-> {}]
  /\ shadow = [p \in Peers |-> {}]
  /\ dispatched = [p \in Peers |-> IF Joined(p, fresh) THEN doc ELSE Empty]
  /\ inbound = [p \in Peers |-> {}]
  /\ edits = 0 /\ remounts = 0
  /\ intent = [n \in Nodes |-> ContentOf(doc, n)]

Init ==
  \E doc \in Document, draft \in [Late -> Drafts], fresh \in {FALSE, Fresh} :
    Starts(doc, draft, fresh)

-----------------------------------------------------------------------------
(* What a remote page makes of the editor. *)

(* applyLocalShield: where the user's latest page differs from the last     *)
(* page dispatched, it also overrides this one.                            *)
Shielded(intended, last, doc) ==
  [n \in DOMAIN doc |->
     IF \E mine \in intended :
          /\ n \in DOMAIN mine \cap DOMAIN last
          /\ mine[n] # last[n]
     THEN (CHOOSE mine \in intended : TRUE)[n]
     ELSE doc[n]]

(* The page shown, with some of its items replaced by the new page's. *)
TakeItems(shown, doc, items) ==
  [n \in {m \in DOMAIN shown : ItemOf[m] \notin items}
           \cup {m \in DOMAIN doc : ItemOf[m] \in items} |->
     IF ItemOf[n] \in items THEN doc[n] ELSE shown[n]]

(* projectChangedNodes: the items that hold a touched node are rebuilt from *)
(* the new page, if the shown page has the node and the new one the item;  *)
(* otherwise the whole page is converted.                                  *)
Projected(shown, doc, ids, scoped) ==
  IF /\ scoped
     /\ ids \subseteq DOMAIN shown
     /\ \A n \in ids : ItemOf[n] \in DOMAIN doc
  THEN TakeItems(shown, doc, {ItemOf[n] : n \in ids})
  ELSE doc

(* Faulty variant: the planner never falls back to setData. *)
PlannedReplacing(shown, data, ids, scoped) ==
  TakeItems(shown, data, ids \cap Items(shown) \cap Items(data))

(* planReplaceActions and the dispatch of its plan.  While the items stay   *)
(* the same those that differ are replaced, of which a change set lets the *)
(* planner consider only the items named in it; otherwise setData replaces *)
(* the page.                                                               *)
Planned(shown, data, ids, scoped) ==
  IF Items(shown) = Items(data)
  THEN TakeItems(shown, data,
                 IF scoped THEN Items(data) \cap ids ELSE Items(data))
  ELSE data

(* What the dispatch of pages reads and writes of a plugin. *)
View(p) == [page |-> editor[p], last |-> dispatched[p],
            expected |-> expected[p], due |-> due[p]]

Show(p, view) ==
  /\ editor' = [editor EXCEPT ![p] = view.page]
  /\ dispatched' = [dispatched EXCEPT ![p] = view.last]
  /\ expected' = [expected EXCEPT ![p] = view.expected]
  /\ due' = [due EXCEPT ![p] = view.due]

(* The guard held over the dispatch saw no report (consumedSyncEcho): the    *)
(* host has one left to make.                                              *)
Silent(p, shown, page) == p \in AsyncHosts /\ page # shown

(* Faulty variant: the change the host will report is not noted. *)
DispatchUnnoted(p, view, entry) ==
  LET scoped == ~entry.structural /\ ~entry.relink
      data == Projected(view.page, Shielded(shadow[p], view.last, entry.doc),
                        entry.ids, scoped)
      page == Planned(view.page, data, entry.ids, scoped)
  IN  [page |-> page, last |-> entry.doc, expected |-> view.expected,
       due |-> view.due \/ Silent(p, view.page, page)]

(* dispatchRemoteIR.  A host that reports the change during the call is     *)
(* silenced by the guard; of one that did not, the page it was given is    *)
(* noted.  A plan that changes nothing is not dispatched.                  *)
Dispatch(p, view, entry) ==
  LET scoped == ~entry.structural /\ ~entry.relink
      data == Projected(view.page, Shielded(shadow[p], view.last, entry.doc),
                        entry.ids, scoped)
      page == Planned(view.page, data, entry.ids, scoped)
  IN  [page     |-> page,
       last     |-> entry.doc,
       expected |-> IF Silent(p, view.page, page)
                    THEN view.expected (+) SetToBag({data})
                    ELSE view.expected,
       due      |-> view.due \/ Silent(p, view.page, page)]

(* flushNow(): the buffered page, if there is one, is dispatched. *)
Drained(p, view) ==
  IF inbound[p] = {} THEN view
  ELSE Dispatch(p, view, CHOOSE entry \in inbound[p] : TRUE)

BecomeReady(p, view) ==
  /\ phase' = [phase EXCEPT ![p] = "ready"]
  /\ Show(p, Drained(p, view))
  /\ inbound' = [inbound EXCEPT ![p] = {}]

-----------------------------------------------------------------------------
(* Outbound. *)

(* save() of the debounced adapter: the page replaces the one that waits    *)
(* and the quiet window starts again.                                      *)
Debounce(p, doc) == debounced' = [debounced EXCEPT ![p] = {doc}]

(* onDataChange, past the echo checks: the new page is the user's latest    *)
(* intent.                                                                 *)
Intended(p, doc) ==
  /\ Debounce(p, doc)
  /\ shadow' = [shadow EXCEPT ![p] = {doc}]

(* The user edits the page; the host reports it at once, or later. *)
Edited(p, doc) ==
  /\ phase[p] # "mounted"
  /\ edits < MaxEdits
  /\ edits' = edits + 1
  /\ editor' = [editor EXCEPT ![p] = doc]
  /\ IF p \in AsyncHosts
     THEN /\ due' = [due EXCEPT ![p] = TRUE]
          /\ UNCHANGED <<debounced, shadow>>
     ELSE Intended(p, doc) /\ UNCHANGED due
  /\ UNCHANGED <<roomVars, phase, expected, dispatched, inbound, remounts>>

(* The user inserts a node or changes one. *)
Put(p, n, content) ==
  /\ n \in Grant[p]
  /\ Loose(n) \/ n \in DOMAIN editor[p]
  /\ ContentOf(editor[p], n) # {content}
  /\ Edited(p, With(editor[p], n, content))
  /\ intent' = [intent EXCEPT ![n] = {content}]

(* The user removes a node. *)
Drop(p, n) ==
  /\ n \in Grant[p] \cap DOMAIN editor[p]
  /\ Loose(n)
  /\ Edited(p, Restrict(editor[p], DOMAIN editor[p] \ {n}))
  /\ intent' = [intent EXCEPT ![n] = {}]

(* A host that reports late calls onDataChange with the page it shows by    *)
(* then, which is an echo if that page was noted (consumePendingRemoteData).*)
Report(p) ==
  /\ due[p]
  /\ due' = [due EXCEPT ![p] = FALSE]
  /\ IF BagIn(editor[p], expected[p])
     THEN /\ expected' = [expected EXCEPT ![p] = @ (-) SetToBag({editor[p]})]
          /\ UNCHANGED <<debounced, shadow>>
     ELSE Intended(p, editor[p]) /\ UNCHANGED expected
  /\ UNCHANGED <<roomVars, phase, editor, dispatched, inbound, editVars>>

(* A note nobody claimed goes after PENDING_REMOTE_MAX_AGE_MS. *)
NoteExpires(p) ==
  /\ ~due[p] /\ expected[p] # EmptyBag
  /\ expected' = [expected EXCEPT ![p] = EmptyBag]
  /\ UNCHANGED <<roomVars, phase, editor, due, debounced, shadow, dispatched,
                 inbound, editVars>>

(* snapshots.save of one page: what differs from the adapter's baseline,    *)
(* which remote updates may have moved meanwhile, is written to the tree.  *)
Write(p, doc) ==
  /\ tree' = [tree EXCEPT ![p] = ApplyDocument(@, p, local[p], doc)]
  /\ root' = [root EXCEPT ![p] =
                 IF @ = NoRoot THEN [path |-> <<p>>, ids |-> DOMAIN doc]
                 ELSE [path |-> @.path,
                       ids  |-> @.ids \cup (DOMAIN doc \ DOMAIN local[p])]]
  /\ newest' = [newest EXCEPT ![p] =
                   [at  |-> 1 + Max({newest[q].at : q \in Peers}),
                    doc |-> doc]]

(* Faulty variant: a save leaves the baseline of the next diff behind. *)
FlushUnnoted(p) ==
  /\ \E doc \in debounced[p] : Write(p, doc)
  /\ debounced' = [debounced EXCEPT ![p] = {}]
  /\ IF phase[p] = "seeding" THEN BecomeReady(p, View(p))
     ELSE UNCHANGED <<phase, editor, echoVars, dispatched, inbound>>
  /\ UNCHANGED <<local, shadow, editVars>>

(* The quiet window ends: adapter.save() writes the page.  onReady waits    *)
(* for it when the page seeds the room.                                    *)
Flush(p) ==
  /\ \E doc \in debounced[p] :
       /\ Write(p, doc)
       /\ local' = [local EXCEPT ![p] = doc]
  /\ debounced' = [debounced EXCEPT ![p] = {}]
  /\ IF phase[p] = "seeding" THEN BecomeReady(p, View(p))
     ELSE UNCHANGED <<phase, editor, echoVars, dispatched, inbound>>
  /\ UNCHANGED <<shadow, editVars>>

-----------------------------------------------------------------------------
(* Entering the room. *)

(* onReady: hydrateLatestSnapshot, or else seedEmptyRoom, whose save is     *)
(* awaited.                                                                *)
Hydrate(p) ==
  /\ phase[p] = "mounted"
  /\ IF newest[p] # NoSnapshot
     THEN /\ BecomeReady(p, Dispatch(p, View(p), Whole(newest[p].doc)))
          /\ UNCHANGED debounced
     ELSE IF editor[p] = Empty
     THEN BecomeReady(p, View(p)) /\ UNCHANGED debounced
     ELSE /\ phase' = [phase EXCEPT ![p] = "seeding"]
          /\ Debounce(p, editor[p])
          /\ UNCHANGED <<editor, echoVars, dispatched, inbound>>
  /\ UNCHANGED <<roomVars, shadow, editVars>>

(* Faulty variant: the new adapter starts without a baseline. *)
RemountUnanchored(p) ==
  /\ phase[p] = "ready"
  /\ remounts < MaxRemounts
  /\ remounts' = remounts + 1
  /\ phase' = [phase EXCEPT ![p] = "mounted"]
  /\ \E draft \in Drafts : editor' = [editor EXCEPT ![p] = draft]
  /\ local' = [local EXCEPT ![p] = Empty]
  /\ due' = [due EXCEPT ![p] = FALSE]
  /\ expected' = [expected EXCEPT ![p] = EmptyBag]
  /\ debounced' = [debounced EXCEPT ![p] = {}]
  /\ shadow' = [shadow EXCEPT ![p] = {}]
  /\ dispatched' = [dispatched EXCEPT ![p] = Empty]
  /\ inbound' = [inbound EXCEPT ![p] = {}]
  /\ intent' = [n \in Nodes |-> IF n \in Grant[p] THEN ContentOf(Room(p), n)
                                                  ELSE intent[n]]
  /\ UNCHANGED <<tree, root, newest, edits>>

(* The editor is taken down and mounted again over the same replica, with   *)
(* its own page: onDestroy drops the buffered update and the save that     *)
(* waits; a new adapter reads its baseline from the tree.                  *)
Remount(p) ==
  /\ phase[p] = "ready"
  /\ remounts < MaxRemounts
  /\ remounts' = remounts + 1
  /\ phase' = [phase EXCEPT ![p] = "mounted"]
  /\ \E draft \in Drafts : editor' = [editor EXCEPT ![p] = draft]
  /\ local' = [local EXCEPT ![p] = Room(p)]
  /\ due' = [due EXCEPT ![p] = FALSE]
  /\ expected' = [expected EXCEPT ![p] = EmptyBag]
  /\ debounced' = [debounced EXCEPT ![p] = {}]
  /\ shadow' = [shadow EXCEPT ![p] = {}]
  /\ dispatched' = [dispatched EXCEPT ![p] = Empty]
  /\ inbound' = [inbound EXCEPT ![p] = {}]
  /\ intent' = [n \in Nodes |-> IF n \in Grant[p] THEN ContentOf(Room(p), n)
                                                  ELSE intent[n]]
  /\ UNCHANGED <<tree, root, newest, edits>>

-----------------------------------------------------------------------------
(* Inbound. *)

(* Faulty variant: an update that supersedes a buffered one replaces its    *)
(* change set too.                                                         *)
CoalesceLatest(buffer, entry) == {entry}

(* Faulty variant: updates queue up instead of superseding each other.     *)
CoalesceNone(buffer, entry) == buffer \cup {entry}

(* enqueue(): the latest page wins; the change sets are united, which loses *)
(* the note that the topology changed (mergeRemoteChange).                 *)
Coalesce(buffer, entry) ==
  IF buffer = {} THEN {entry}
  ELSE {[doc        |-> entry.doc,
         ids        |-> e.ids \cup entry.ids,
         structural |-> e.structural \/ entry.structural,
         relink     |-> FALSE] : e \in buffer}

Enqueue(p, entry) == inbound' = [inbound EXCEPT ![p] = Coalesce(@, entry)]

(* deriveChangedNodeIds: the nodes an update touched; whether one came or   *)
(* went, which touches the root's list of children too.                    *)
TouchedNodes(before, after) == {n \in Nodes : after[n] # before[n]}

Relinked(before, after) ==
  \E n \in Nodes : \/ Live(after[n]) # Live(before[n])
                    \/ after[n].path # before[n].path

(* applyRemoteChangedNodes: only the touched nodes are read from the tree,  *)
(* the others come from the cache.                                         *)
LiveIR(cached, after, touched) ==
  LET read == {n \in touched : Live(after[n])}
  IN  [n \in (DOMAIN cached \ touched) \cup read |->
         IF n \in read THEN ReadTree(after)[n] ELSE cached[n]]

(* The page and the change set the observer hands on, as a set; empty when  *)
(* the update did not touch the page.  The room's first update, and that of *)
(* another who created it, also set the keys of the page itself, which     *)
(* makes the observer read it all.                                         *)
Observed(p, nodes, top) ==
  LET touched == TouchedNodes(tree[p], nodes)
      relink  == Relinked(tree[p], nodes) \/ top.ids # root[p].ids
  IN  IF touched = {} /\ top = root[p] THEN {}
      ELSE IF top.path # root[p].path
      THEN {Whole(Page(nodes, top))}
      ELSE {[doc        |-> Listed(LiveIR(local[p], nodes, touched), top),
             ids        |-> IF relink THEN touched \cup {Root} ELSE touched,
             structural |-> FALSE,
             relink     |-> relink]}

(* p receives what q has: the observer advances the baseline and hands the  *)
(* merged page to the scheduler, in the same call.  The baseline is the    *)
(* page the live-IR cache holds: both are set by the same saves and events. *)
Deliver(p, q) ==
  LET nodes == MergeTree(tree[p], tree[q])
      top == MergeRoot(root[p], root[q])
      snapshot == IF newest[p].at < newest[q].at THEN newest[q] ELSE newest[p]
      seen == Observed(p, nodes, top)
  IN  /\ <<nodes, top, snapshot>> # <<tree[p], root[p], newest[p]>>
      /\ tree' = [tree EXCEPT ![p] = nodes]
      /\ root' = [root EXCEPT ![p] = top]
      /\ newest' = [newest EXCEPT ![p] = snapshot]
      /\ IF seen = {} THEN UNCHANGED <<local, inbound>>
         ELSE \E entry \in seen :
                /\ local' = [local EXCEPT ![p] = entry.doc]
                /\ Enqueue(p, entry)
      /\ UNCHANGED <<phase, editor, echoVars, debounced, shadow, dispatched,
                     editVars>>

(* A frame: the buffered page goes to the editor, or nowhere before the     *)
(* plugin is ready.                                                        *)
Frame(p) ==
  /\ inbound[p] # {}
  /\ IF phase[p] = "ready" THEN Show(p, Drained(p, View(p)))
     ELSE UNCHANGED <<editor, dispatched, echoVars>>
  /\ inbound' = [inbound EXCEPT ![p] = {}]
  /\ UNCHANGED <<roomVars, phase, debounced, shadow, editVars>>

(* PENDING_REMOTE_MAX_AGE_MS after the last edit the shield ends: long after *)
(* the edit's quiet window.                                                *)
ShieldExpires(p) ==
  /\ shadow[p] # {} /\ debounced[p] = {}
  /\ shadow' = [shadow EXCEPT ![p] = {}]
  /\ UNCHANGED <<roomVars, phase, editor, echoVars, debounced, dispatched,
                 inbound, editVars>>

User(p) == \E n \in Nodes : Drop(p, n) \/ \E c \in Contents : Put(p, n, c)

Next ==
  \E p \in Peers :
    \/ User(p) \/ Report(p) \/ NoteExpires(p) \/ Flush(p) \/ Hydrate(p)
    \/ Remount(p) \/ Frame(p) \/ ShieldExpires(p)
    \/ \E q \in Peers : Deliver(p, q)

Spec == Init /\ [][Next]_vars

(* Timers fire, hosts mount and report, frames come (the scheduler races the *)
(* animation frame against a timer), and the transport keeps relaying.     *)
FairSpec ==
  /\ Spec
  /\ \A p \in Peers :
       /\ WF_vars(Report(p)) /\ WF_vars(Flush(p)) /\ WF_vars(Hydrate(p))
       /\ WF_vars(Frame(p))
       /\ \A q \in Peers : WF_vars(Deliver(p, q))

-----------------------------------------------------------------------------
(* Properties. *)

(* The adapter's baseline is what its tree shows, whatever is in flight:   *)
(* a flush diffs against the page as it is (yjs-adapter.ts), unless rooms   *)
(* were seeded apart (README.md, section 6).                               *)
BaselineIsTree == \A p \in Peers : local[p] = Room(p)

(* Users in the room that only watch see the page of their replica as soon  *)
(* as nothing is buffered: coalescing updates and dispatching only the      *)
(* nodes they touched loses none ("the union of every node both the dropped *)
(* and the winning update touched", inbound-scheduler.ts).                 *)
WatchersFollow ==
  \A p \in Peers :
    Grant[p] = {} /\ phase[p] = "ready" /\ inbound[p] = {}
    => editor[p] = Room(p)

(* Every edit of every user ends up in everybody's editor, also in those of *)
(* users who join before, between and after the edits.                     *)
EveryoneSees ==
  <>[](\A p \in Peers, n \in Nodes : ContentOf(editor[p], n) = intent[n])

(* A user who edits nothing saves nothing: what a dispatch makes a host     *)
(* report, at once or late, is told from an edit (onDataChange in          *)
(* plugin.ts), or the page would echo between users for ever.              *)
NoEcho ==
  \A p \in Peers :
    Grant[p] = {} /\ phase[p] # "seeding" => debounced[p] = {}

(* Nothing waits and every replica has everything. *)
Settled ==
  /\ \A p \in Peers : debounced[p] = {} /\ inbound[p] = {} /\ ~due[p]
  /\ \A p, q \in Peers : tree[p] = tree[q] /\ root[p] = root[q]

(* "seed an EMPTY room" (seedEmptyRoom in plugin.ts): once the seeds of the *)
(* users who came in are relayed and merged, every replica still has the   *)
(* nodes that were on the page, for nobody edited anything.                *)
EntryChangesNothing ==
  Settled /\ edits = 0 =>
    \A p \in Peers, n \in Nodes :
      intent[n] # {} => ContentOf(Room(p), n) = intent[n]

(* "concurrent edits to disjoint nodes both survive" (README.md): when the  *)
(* users edit different nodes and all has settled, the page holds the last *)
(* edit of every node.                                                     *)
DisjointEditsSurvive ==
  Settled => \A p \in Peers, n \in Nodes :
               ContentOf(Room(p), n) = intent[n]

-----------------------------------------------------------------------------
(* Statements of the documentation that no run checks, because the code     *)
(* does not keep them: README.md, "Disagreements", says how.                *)

(* "a prop the remote peer changed but the local user did not touch passes  *)
(* through as the remote value" (applyLocalShield in plugin.ts): right      *)
(* after a dispatch the editor shows the remote content of the nodes the    *)
(* user never edits.                                                       *)
UntouchedPassesThrough ==
  [][\A p \in Peers, n \in Nodes :
       /\ dispatched'[p] # dispatched[p]
       /\ n \in DOMAIN dispatched'[p] \ Grant[p]
       => ContentOf(editor'[p], n) = {dispatched'[p][n]}]_vars

(* "an interleaving remote merge does not revert the focused field back to *)
(* its last saved value" (onDataChange in plugin.ts): a dispatch while the  *)
(* user's save waits keeps what the user entered.  Nodes the last page      *)
(* dispatched did not have are excepted, as in the code, and every user    *)
(* has one node, the one whose save waits.                                 *)
UnsavedEditShown ==
  [][\A p \in Peers, n \in Nodes :
       /\ dispatched'[p] # dispatched[p] /\ debounced[p] # {}
       /\ n \in Grant[p] /\ intent[n] # {}
       /\ n \in DOMAIN dispatched[p] \cap DOMAIN dispatched'[p]
       => ContentOf(editor'[p], n) = intent[n]]_vars
=============================================================================
