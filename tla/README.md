# A TLA+ development of anvilkit-plugin-collab-yjs

The plugin lets several people edit one page of a Puck editor through a shared
`Y.Doc`.  This directory holds TLA+ modules that model the parts of it that keep
state, TLC configurations that check them on small instances, and proofs that
TLAPS checks for every value of the constants.  Paths below are relative to the
repository; `plugin.ts:244` is short for `src/src/plugin.ts:244`.

To check a run: `tlc -config <run>.cfg <module>.tla` (`PROJECT.json` pairs them).
To check the proofs: `tlapm <module>.tla` for `OfflineQueueProofs`,
`SharedTreeProofs`, `SnapshotChainProofs`, `EditSessionProofs`, `ChildListsProofs`,
`ConflictWindowProofs`, `PresenceProofs` and `TransportProofs`.

## 1. The system

| component (source) | state | operations | talks to |
|---|---|---|---|
| plugin (`plugin.ts`) | the editor's page (the host's), `localShadow` (the user's latest page and the last page dispatched), `pendingRemoteData`, the mount's phase | `onInit` (hydrate, seed, ready), `onDataChange`, `dispatchRemoteIR`, `onDestroy` | adapter `save` / `subscribe`; the host's `dispatch` |
| debounced adapter (`utils/debounced-adapter.ts`) | the save that waits, its timer, the promises it owes | `save`, `flush`, `destroy` | adapter `save` |
| inbound scheduler (`utils/inbound-scheduler.ts`) | at most one buffered update with its change set | `enqueue`, a frame | plugin's `dispatchRemoteIR` |
| incremental projection (`utils/incremental-projection.ts`) | an index of the editor's page | replace actions for a change set | plugin |
| yjs adapter (`utils/yjs-adapter.ts`) | `lastLocalIR` (the baseline of the next diff), observers, the live-IR cache, undo manager | `save`, `subscribe`, the tree observer, `onSynced`, undo, `destroy` | Y.Doc, snapshots, transport, durable queue, broadcast channel |
| native tree (`utils/native-tree.ts`) | the Y.Map of nodes inside the Y.Doc | diff, apply, read, derive the change set of a transaction | Y.Doc |
| live IR (`utils/live-ir.ts`) | a cache of the page, invalidated node by node | update, materialise | native tree |
| snapshots (`utils/snapshots.ts`, `utils/payload-chain.ts`) | two keys of the Y.Doc per snapshot (payload, meta), `savesSinceKeyframe` | `save`, `list`, `load`, `delete`, `forceResync`; retention inside `save` | native tree, conflicts |
| offline queue (`persistence/`) | an IndexedDB object store shared by the tabs of an origin; per tab a buffer, a size shadow and counters | `append`, `hydrate`, `compact`, `drain`, `size`, `destroy`; downgrade on a fault | adapter: every local update is appended, `onSynced` compacts, a new session applies what it recovered |
| cross-tab channel (`persistence/broadcast-channel.ts`) | none but the channel | post, receive | the adapters of other tabs |
| transport (`transport.ts`) and connection status (`utils/connection-status.ts`) | the provider, its handlers, the connect timer, `dropped` | subscribe, attach, socket events, teardown, `destroy` | provider library; adapter's `onSynced` |
| conflict detector (`utils/conflicts.ts`) | a window of unconfirmed local saves | note a save, test a remote page, close | adapter, host's resolver |
| echo guard (`utils/remote-guard.ts`) | dispatch depth, time of the last close | begin, end, query | plugin |
| presence (`utils/awareness-bridge.ts`, `utils/selection-bridge.ts`) | a token bucket, caches of peers | update, peer change | awareness of the provider |
| reconnect tracker, metrics, encoders, schema, feature tests, types | counters or nothing | pure functions | the above |

An edit travels `editor -> onDataChange -> debounced save -> flush -> snapshots.save
-> Y.Doc -> (transport) -> other Y.Doc -> tree observer -> inbound buffer -> frame ->
other editor`.  Beside it every local Y update goes to the durable queue and the
other tabs.  All of this runs on one JavaScript thread per page, so a handler is
atomic up to its next `await`, timer or event; what interleaves is handlers of
one page, pages of several users or tabs, and IndexedDB transactions.

### What is hard, and what correctness means

- **Offline queue.** A compaction is three asynchronous steps (read, put the
  merged row, delete what was read) between which other tabs act, the page may
  close and IndexedDB may fail.  *Correct*: a committed edit stays in the store
  until a drain returns it; an accepted edit is not dropped while no fault is
  reported; a restart recovers all that was committed; the synchronous size is
  the number of rows.
- **Snapshot history.** Deltas are chained to the newest snapshot and diffed
  against the live page; retention deletes the base of a survivor and promotes
  it; peers do all of this concurrently on keys that merge.  *Correct*: a listed
  snapshot loads as it was saved; the baseline of the next save is the page the
  tree shows.
- **Edit session.** A page waits in the debouncer while the tree moves; several
  updates melt into one dispatch; the dispatch touches only some of the nodes.
  *Correct*: watchers see the page; an edit reaches everyone; concurrent edits of
  different nodes both survive.
- **Transport.** The library import, the timer, the socket, the teardown and
  `destroy()` race.  *Correct*: nothing outlives its owner; the timeout is
  reported once per outage, and is reported.
- **Conflict detector.** A window opens with the first unconfirmed save, anchors the
  page before it, and closes with any remote update, with "synced", or by going
  stale; a resolution is saved from inside the handler of the update it resolves.
  *Correct*: the write-back reverts nothing the update brought; a window is
  answered once; what is reported is what this user changed.
- **Room entry and remount.**  A mount paints the newest snapshot its replica has or
  seeds a room it believes empty, while the relay's state, frames and users' first
  edits come in; a remount drops what waits.  *Correct*: whoever comes in ends up
  with the page, and changes nothing by coming.
- **Echoes.**  What a dispatch makes the host report, during the call or long after
  it, is no edit.  *Correct*: a user who edits nothing saves nothing, and an edit is
  not taken for a report.
- **Child lists.**  A save reconciles arrays of child ids by position while others
  insert, remove and move ids in them; the live cache reads only what an update
  names.  *Correct*: the cached page is the tree's; every node stays where its user
  put it.
- **Presence.**  States pass a rate limit and a relay, are validated one by one and
  shown once a frame; bridges come and go over one awareness.  *Correct*: what is
  shown is what is there; nothing comes after the end; nobody stays on as a ghost.

`PROJECT.json` lists every hazard at its line with the properties that watch it.

## 2. Modules

| module | models | extends / uses |
|---|---|---|
| `OfflineQueue` | the durable queue of every tab over one object store | instance of `EditStore` |
| `EditStore` | abstract specification: one durable set of edits | |
| `OfflineQueueProofs` | theorems about it | `OfflineQueue`, `TLAPS` |
| `YMap` | one key of a Y.Map: concurrent sets, deletes, nested types (yjs is a library: external) | |
| `SharedTree` | the native tree as an encoding of a page, on `YMap` | `YMap` |
| `SnapshotChain` | snapshots, retention, resync, undo, restarts of several peers | `SharedTree`, instance of `SnapshotHistory` |
| `SnapshotHistory` | abstract specification: a list of saved documents | |
| `SharedTreeProofs` | theorems about writing, reading and merging the tree | `SharedTree`, `TLAPS` |
| `SnapshotChainProofs` | theorems about the snapshot history | `SnapshotChain`, `SharedTreeProofs` |
| `EditSessionProofs` | theorems about the edit session | `EditSession`, `SharedTreeProofs` |
| `EditSession` | mounting, hydration, seeding, and the pipeline from editor to editor, with nodes in slots of items and the live-IR cache | `SharedTree` |
| `ChildLists` | the tree of child-id arrays: keyed reconcile, merging, the cache of lists, the walks of the readers | `YMap` |
| `ChildListsProofs` | theorems about the arrays of child ids, the reconcile, the cached page and the places of nodes | `ChildLists`, instance of `SharedTreeProofs` |
| `Presence`, `PresenceProofs` | the awareness bridge over the awareness of every peer; theorems about it | |
| `ConflictWindow`, `ConflictWindowProofs` | the conflict detector under `dispatchRemote` and `save`; theorems about it | `SharedTree`, `SharedTreeProofs` |
| `Transport`, `TransportProofs` | the managed transport; theorems about it | |
| `MCOfflineQueue`, `MCEditSession`, `MCChildLists` | symmetry; who edits which node, which node is in a slot of which, the pages editors start with; whose nodes are whose, which pages are made, and that these are as the theorems suppose | |

Operators whose comment begins with "Faulty variant" are not part of a model:
each is a plausible bug put beside the definition it would replace, to show that
a property notices it (`PROJECT.json`, "mutants").

**OfflineQueue.**  `rows`, `nextSeq` are the object store and its autoincrement
key.  Per tab: `life` and `boot` (open and count, then `readAll`, then ready),
`handle` (`db`), `fault`, `pending` (`pendingAppends`), `inflight` (append
transactions), `sinceCompact`, `folding` and `source` (a compaction and the rows
it read), `cachedSize`.  An update is the set of edits it carries, so
`mergeUpdatesV2` is union; merging and re-applying are idempotent in yjs.  One
action per call and per completion of a transaction; `Crash` closes the page
between any two.  `Replay` is what the adapter appends again when it has put the
recovered rows into its document.  A count of the rows that fails at
the open (`OpenUncounted`) leaves the database open and the size at 0, with no fault.
`accepted`, `durable`, `drained`, `owed`, `counted` are history.
`EditStore` is what the tabs see of all this: a set of edits, the edits each tab handed
over that wait, and what each found.  Its compactions are invisible but for one case: a
drain may take rows that a compaction has read, and the merged row puts them back
(`PutBack`; `indexed-db.ts:124-130` reads and adds in two transactions).

**YMap / SharedTree.**  A key holds the value of the write that comes last on the
path of writes that saw one another; of concurrent writes the larger client id
wins; a delete marks what it saw.  A nested type keeps merging below its key.
A page is the set of the root's children, each with one prop.  `ApplyDocument`
writes only what differs from the baseline, as `applyChangedNodesToNativeTree`.

**SnapshotChain.**  `tree` and `snaps` are the replica's keys; `local` is
`lastLocalIR`; `since` is `savesSinceKeyframe`.  `Save` is the whole `save()`:
payload, eviction with re-rooting, apply, baseline.  `Deliver(p, q)` merges the
current state of `q` into `p` and moves the baseline when the tree changed.
`Features` says which calls an instance has; without `"concurrent"` only an
up-to-date replica acts.  `SnapshotHistory` is implemented by what an up-to-date
replica answers to `list` and `load`.

**EditSession.**  Section 1's path, each asynchronous hop an action: `Put`/`Drop`
(the user), `Report` (a host of `AsyncHosts` calls `onDataChange` after the fact; the
others call it at once), `Flush` (quiet window), `Deliver` (observer, live-IR cache and
`enqueue`), `Frame` (shield, project, plan, dispatch), `ShieldExpires`, `NoteExpires`.
`phase` is the mount's: `Hydrate` is `onReady`, which paints `newest` or seeds
(`BecomeReady` is its end, with `flushNow`), `Remount` takes the plugin down and mounts
it again over the same replica.  `due` says that a host has a report to make,
`expected` is `pendingRemoteData`.  `root` is the root's own map, which two seeders may
both create: a page is what its list of children names.  `Grant` says who edits what,
`Late` who comes in later, with which page in the editor (`Drafts`).  A node may sit in
a slot of an item (`ItemOf`), and the planner replaces items while change sets name
nodes.  `Observed` is the change set of a transaction and the page the cache makes of
it, which `BaselineIsTree` compares with a full read of the tree.

**ChildLists.**  `tree` maps node ids to keys that hold a Y.Array of child ids (items
with the id they were inserted after, and the deleted ones); `cache` is the live-IR
cache.  `Reconcile` is `reconcileKeyedArray` with its three steps as three operators;
`Walk` is the traversal of `materialize()` and, with the guard, of `readNativeTree()`.
`Save` writes what differs between the page shown and the new one, `Deliver` merges a
replica and re-reads what the transaction touched.  A cache starts filled or not
(`seeded`); the first update that meets an empty one, or any update that may bring assets or
page metadata (`PageData`), makes it read the whole tree instead (`DeliverWhole`), and that
read ends at an id it meets twice.  `placed` and `cut` (a read has left a node out) are
history.

**Presence.**  `aware` is what each replica's awareness holds of each client, with the clock
its owner advances; `tokens` is the bucket, `sub`/`cache`/`frame`/`shown` one subscriber of
`onPeerChange`.  `Notice` is the change event.  A subscriber is of the bridge that is up or
`"late"`: `onPeerChange` of a destroyed bridge still subscribes, and no `destroy()` reaches
that. `Hide` and `Show` are the page's visibility: frames wait for a page that is hidden.
`Close` is a page that goes without a word, `Outdate` the library's timeout, `Mount` a
remount over the same awareness.

**ConflictWindow.**  `local` and `base` are `lastLocalIR` and `baselineIR`; `window` is the
state of `firstUnconfirmedLocalSaveAt`.  `Deliver` is `dispatchRemote`: the overlap test,
any answer a resolver may give, the write-back or the take-over. `ForceResync` replaces the
page by any page (which one is `SnapshotChain`'s subject) and closes the window. `mine`,
`inflight` and `credit` are history.

**Transport.**  Per subscription: the phase of import and attach, `tornDown`, the
timer and `timedOut`, the last status, `dropped`, the socket, whether handlers are
registered; for the transport: `providerInstance`, `detachProviderEvents`,
`cancelConnectTimeout` as the subscription each belongs to, and `disposed`.  A subscription
may begin and `destroy()` be called after `destroy()`.

### Abstractions to know of

- What a node holds (`SharedTree`: one prop, no order) and where it is (`ChildLists`: no
  props) are two modules.  Page metadata and asset lists are left out.
- In `EditSession` nesting is one level deep and a node stays in its slot: the index of
  node locations (`buildNodeLocationIndex`) is therefore always that of the page.
  Fewer items change at once than make the planner give up item-wise replacement.
  Its instances with a slot are in section 6; the runs have items only.
- In `EditSession` an edit that is taken down unsaved is forgiven: `plugin.ts:389-411`
  drops it on purpose.  A snapshot loads as it was saved, which is `SnapshotChain`'s
  subject.
- In `ConflictWindow` a save is one change of the page last taken over; older
  pages that waited in the debouncer are `EditSession`'s subject.
- In `SnapshotChain`, `ConflictWindow` and `ChildLists` the room exists before a session
  starts, in `ChildLists` with any page of `Shapes` in it.  So a window of the conflict
  detector always has an anchor; one that opens in a room nobody has seeded has none.
- In `ChildLists` a node that an update touched can be read: the rebuild for one that cannot
  (`live-ir.ts:254-259`), which takes a node that breaks the size guards, is left out.
- Of items inserted at one place of a Y.Array the one with the higher id comes
  first; yjs also looks at the items in between, which matters only to the order of
  three or more concurrent insertions.
- A peer receives the sender's whole current state: a transport that delivers
  update by update passes through states that are merges of prefixes.
- The clocks of peers agree on the order of snapshots; an id sorts as its time.
- Undo covers the top of the stack and ends with the next remote update.
- The adapter's one configuration is the native tree with snapshots (no legacy blob,
  no policy filter, no echo grace window, the default; a conflict resolver only in
  `ConflictWindow`).  Saves and dispatches do not fail.
- The presence schema is a set of valid states; the bucket refills by whole tokens at
  any time; hosts stop updating when the bridge is destroyed (`Tidy`, section 6).
- A document has, when the queue is ready, any part of what the queue recovers
  (`UseReplay`); the replay appends the rest of it.
- The transactions of a tab may commit in any order, more than IndexedDB allows.  Merging
  the buffer's updates does not throw (`offline-queue.ts:138-143` drops the older half then,
  and says that this should never happen).
- The connect timeout is enabled; attempts, backoff and provider statuses with
  unknown names are left out; the next adapter subscribes after the previous one
  was torn down.

## 3. Runs

| run | question | bounds and why they are enough |
|---|---|---|
| `MCOfflineQueueTabs` | no committed, accepted or recoverable edit is lost; the inductive invariant holds; the tabs together implement one durable set of edits | two tabs, two edits, compaction after two appends, a buffer of one, four keys, drains and the failures of each, no replay (with it and without drains the properties hold with three keys, in 3 minutes): both tabs compact the same rows at once and drain under each other, the buffer overflows, and a crash falls between any two steps. 1.8 M states. The smallest instance in which one tab appends a third edit during the compaction of the other has 6.3 M states without drains, where the properties hold too; the proofs cover all sizes |
| `MCOfflineQueueLive` | the size shadow; edits made during a compaction; accepted edits reach the store | one tab, three edits, four keys: two edits for a compaction and one during it, or a crash and the replay of what was stored, compacted again; the count at the open may fail. 286 k |
| `SnapshotChainTurns` | listed snapshots load as saved; the chain refines the plain history | two peers, ceiling 2, keyframe every 2 deltas, 4 saves: every snapshot passes from newest to evicted, re-rooted deltas are evicted too. 200 k |
| `SnapshotChainMerge` | the baseline is the tree under any concurrency | all calls, two saves by two peers, two writes per key: each of delete, resync, undo and restart meets a merge. 593 k |
| `EditSessionWatch` | watchers follow; nobody echoes; the baseline is the tree | two users edit both nodes, a third watches on a host that reports late: updates of two sources meet in one buffer, and a report falls between any two of them. 375 k |
| `EditSessionLive` | every edit reaches everyone | one editor and one user who joins before, between or after the edits, into a room that may not exist yet, on a host that reports late; two edits, one remount of either. 134 k |
| `EditSessionDisjoint` | *violation*: disjoint edits survive | two users, one node each, three edits |
| `EditSessionSeeds` | *violation*: coming in changes nothing | one user in the room, one who comes in with a page in the editor; no edits. The state shown is one where everything is relayed |
| `ChildListsFlat` | the cached page is the tree's; nodes stay where they were put | two users own one and two of the root's three children and order them all, three saves: each step of the reconcile meets a foreign insertion, removal and move in its array; caches start filled or not, and any update may bring page data, so both ways of taking in an update meet at any point, and reads that leave a node out do occur. 163 k, with the second user's nodes alike. Nodes that are removed, brought back and moved by the other user meanwhile take four saves: with two nodes and without page data the properties hold up to six saves (115 k), and `FlatCacheFollows` and `FlatPlacesSurvive` hold for any users, nodes and saves whose instance is as this one is: pages of one level (`OneLevel`), a node decided about by one user (`Exclusive`); `MCChildLists` states both as assumptions about `Flat` and `Half`, which the run evaluates |
| `PresencePair` | views follow, callbacks stop, ghosts go | two users, two valid states and malformed ones, a bucket of one token, five calls: a user can come, move, leave, come back and vanish under a subscriber, whose page may be hidden and shown and whose bridge may be destroyed before it subscribes. 274 k |
| `ConflictWindowPair` | conflicts are resolved once, without reverting anything else | two peers, two nodes, three contents (the page's, either user's), three saves or resyncs and any number of resolutions: each peer's window can meet the other's save, its write-back, synced, a resync and staleness. 4.4 M |
| `TransportSeries` | ownership, timeout, statuses | two subscriptions (a mount and a remount), before or after `destroy()`, both providers, good and bad URL; sockets dial forever. 9.6 k |

`CHECK_DEADLOCK FALSE` is set where the system may stop: a session whose users have
made their edits, a transport that was destroyed or whose URL is bad.

### Fairness

- `OfflineQueue!FairSpec`: transactions that were issued finish, and the ready
  callback runs; IndexedDB settles each request with a result or an error.
  Nothing is assumed of users, of crashes or of which of the two it is.
- `EditSession!FairSpec`: the quiet window ends (`setTimeout`), a frame comes (the
  scheduler races the animation frame against a timer for hidden tabs,
  `inbound-scheduler.ts:102-140`), a mounted editor becomes ready, a host that reports
  late does report, the transport keeps relaying.  A user who never pauses would
  restart the window for ever (`debounced-adapter.ts:163`); the bound on edits ends
  the typing.  Remounts are free to come or not, within their bound.
- `Presence!FairSpec`: a frame comes to a page that stays visible, the transport keeps
  relaying, the awareness library takes clients off that are silent.  Nothing is assumed of
  users, nor of a hidden page: the bridge asks for a bare animation frame
  (`awareness-bridge.ts:149-155`), without the timer the inbound scheduler sets beside it, so
  `PresenceSettles` speaks of subscribers whose page stays visible from some time on.
- `Transport!FairSpec`: a timer that is set fires.  Nothing is assumed of sockets.

### Properties

| property | says |
|---|---|
| `DurableEditsStored` | a committed edit not returned by a drain is in some row |
| `NoEditDropped` | each accepted edit of a living tab without a fault is buffered, in flight or committed |
| `RestartRecovers` | a session that became ready without a fault recovered what was committed when it began |
| `ImplementsStore` | no step of a compaction shows; an edit is stored once and for all (unless drained), waits or was excused by a fault, a teardown or a crash; who starts finds all that is stored |
| `SizeMatchesStore`, `EditsReachStore` | size of a lone tab: the number of rows, or at most that if the count at the open failed; every accepted edit is stored in the end |
| `LoadsWhatWasSaved` | `load(id)` answers the document given to `save` |
| `BaselineIsTree` | a save writes its author's changes only |
| `ImplementsHistory` | save adds one snapshot, of the document it was given, and drops the oldest; nothing else changes an answer |
| `WatchersFollow`, `EveryoneSees` | coalescing and scoped dispatch lose nothing; neither does coming in, being remounted or reporting late |
| `NoEcho` | a user who edits nothing saves nothing |
| `DisjointEditsSurvive`, `EntryChangesNothing` | the two that fail, section 5 |
| `CacheFollowsTree` | the live-IR page is the page of the tree, child lists and their order included, but for nodes that were removed and brought back, and until a read of the whole tree leaves a node out |
| `PlacesSurvive` | a node is where its user last put it: on that user's screen at any time, in the tree of replicas that agree, until one of that user's reads of the whole tree leaves a node out |
| `ViewFollows`, `NoLateCallback` | between frames a subscriber was shown all valid states and no others; nothing is called back after the end |
| `PresenceSettles` | in the end every subscriber on a page that stays visible is shown the last state of each user who is there, and nobody who is not |
| `OneWritebackPerWindow` | one resolution per window: no write-back is answered by a write-back for ever |
| `AlarmsAreOwn` | a reported node was changed by this user in the open window |
| `OneListener`, `LastProviderReleased` | no handler on a dead provider; no connection outlives `destroy()` except behind a later subscription |
| `WaitingIsTimed`, `OneTimeoutPerOutage`, `LongOutageSurfaces` | the timeout is under way or behind, at most once per outage, and arrives |
| `NeverFreshAfterDrop` | after a drop the next dial is "reconnecting" |

## 4. Proofs

Assumptions: `QueueAssumption` (a finite set of edits, positive compaction interval
and buffer), `ChainAssumption` (client ids are positive numbers, a positive spacing of
keyframes), `SessionAssumption` (client ids are positive numbers, the root is no node below
it, an item sits in itself, each user edits nodes of their own, drafts are pages),
`ListsAssumption` (client ids are positive numbers, finitely many nodes, the root is no node
below it, pages are lists of nodes below the root, by node),
`ConflictAssumption` (client ids are positive numbers), `PresenceAssumption`
(a positive bucket; the invalid state and the absent one are not valid states) and
`TransportAssumption` (subscriptions are numbered, the two providers), each as its
module states it.  The numbers of tabs, edits, keys, users, nodes, contents, snapshots and
subscriptions are arbitrary, and so are the bounds that keep TLC's instances small.

**OfflineQueueProofs.**  `TypeCorrect`, `Durability`, `NothingDropped`, `Recovery`,
`QueueSafe`, `SizeExact`, `QueueImplementsStore`. "Every committed edit is in a row" is not
inductive: a compaction may be about to delete that row.  `DurableEditsSafe` asks for a row
that no compaction under way will delete (`Doomed`), and `SourcesAreOld` says the rows a
compaction read have keys below the counter, so the merged row it puts, and any row another
tab appends meanwhile, is not among the rows it deletes.  `SessionInv` adds what the two
session properties need: a session starts clean, a faultless tab past "opening" has its
database, and what is owed stays committed until ready. `QueueIInv` is the conjunction; one
lemma per group of actions shows that it is preserved, and the PTL steps conclude.
`SizeExact` is about a tab alone over its store (`Lone`), which is when the size shadow is
meant to be exact, through appends, compactions and faults; after a count that failed it
says only that the shadow is never above the rows. `SizeInv` adds that the rows a compaction
read are all still there when it deletes them, so the difference `compact()` subtracts is
never clamped. `QueueImplementsStore`: every step of a tab is one step of `EditStore` or
none.  The invariant of the refinement, `StoreInv`, is stronger than durability: *each* edit
that is in some row, those a compaction put back after a drain included, is in a row that no
compaction under way deletes (`RowsSafe`), so the delete changes no answer; what a
compaction read is stored or was drained (`SourcesKnown`), so the merged row adds nothing or
puts drained edits back; a tab that is down holds nothing (`TabsClean`).  One lemma per
action of the abstract specification (`IsEnter` ... `IsPutBack`, `IsStutter`) says when a
step is that action, one lemma per group of concrete actions applies it.

**SharedTreeProofs.**  `ApplyThenRead`: into a tree that is readable (every key's writes
are well formed) and shows a page, writing the nodes that differ from that page makes
it show the new one.  The tree may be the result of any merges: what makes it true is
that a local write extends the path of writes the key has, so it comes last.
`MergeIsTree`, `ApplyIsTree` and `SeededFacts` keep trees readable.  The second half is
about replicas that have everything another has: `AfterMeans` reads the order of items
position by position, `OverMeans` and `OverNodeMeans` say what it is to be ahead on a key
(the same item, deleted if the other deleted it, or a later one), and `ApplyOver` that
a save keeps a replica ahead of those it was ahead of.

**SnapshotChainProofs.**  `ChainTypeCorrect` and `ChainBaseline` hold with every call made
concurrently.  What a record rebuilds to is a recursive function; `RebuiltExists` builds
its value id by id, which terminates because a delta is based on an older snapshot
(`RecordsWellBased`), and `RebuiltUnfolds` is then one step of `reconstructPayload`.
Facts about all snapshots are proved of the oldest one that would break them (`LeastOf`).
`SnapshotsLoad` and `ChainImplementsHistory` are about users who take turns
(`TakesTurns`: only a replica that has everything makes a call, and nothing is deleted by
hand or undone), because without it both are false (section 6).  "Every listed snapshot
loads" is not inductive: a save chains its delta to the newest snapshot but computes it
from the page, and retention deletes bases.  `TurnsIInv` adds that of two replicas one has
all the other has and one replica has everything (`Ahead`), that the page is the newest
snapshot, that every delta is based on the snapshot right before it, and that payloads live
as long as their meta records (`Kept`, `Chained`).  Then a delta replays to what it was made
for (`ReplayDelta`), retention breaks one chain at most, that of the oldest survivor, which it
makes a keyframe (`EvictShape`, `EvictKeeps`), a resync writes nothing (`ResyncIsIdle`), and
who receives an update becomes a copy of the sender (`DeliverCopies`).  The refinement maps
a save to `History!Save` (`NewestIsKept`: what the saver counts off from the old end is what
the history counts off from the new end) and every other call to a stutter.

**EditSessionProofs.**  `SessionTypeCorrect`; `BaselineAnchored` and `BaselineKept` for the
baseline; `WatchersShown`, `WatchersSilent` and `WatchersNeverDisturb` for those who only watch.
The live cache re-reads what an update names, and that this is enough needs
`Anchored`: no node is in the tree without being on the root's list, and the cache is
all the tree holds.  Two users who each created the root break that (section 6, where it
takes three), so `BaselineAnchored` has the hypothesis `OneRoot`, two replicas never have
roots of different origin; `BaselineKept` proves it for a room its users found in place
(`Settlers`), whatever they edit and however often they are mounted again.  TLC checks
the property where a room is seeded or entered later (`EditSessionLive`, in which
`OneRoot` holds as well).  For watchers, "shown the page when nothing is buffered" needs
`Covers`: where the page shown differs from the baseline, the buffered change set says so,
through any coalescing; and that a report a host still owes is noted
(`Watching`).  The hypotheses: items without slots (`NoSlots`), since the planner loses an
edit in a slot; users who stay (`WatchersStay`), since one who comes in may be painted an
old snapshot; both are in section 6.  `WatchersNeverDisturb` discharges them for the
instance `EditSessionWatch` at any size.

**ChildListsProofs.**  `ListsTypeCorrect`: no two items of an array share an id, although
the ids are made without agreement, each hangs on an item that is there, only items that are
there are deleted, and the cache, filled or not, knows no node that is gone.  No replica can
keep this alone: what comes in by a merge may have any id, so it needs a statement about all
replicas of a node, `Sound`.  Replicas of the same Y.Map item agree on what an id names, and
whatever a client wrote anywhere, that client still has, unless it has moved on to a later
item; so the id it takes next, above all it has, is new everywhere.  `SoundWrite`,
`SoundDelete` and `SoundMerge` show that the three ways a node changes keep it; they rest on
`ReconcileWorks` (every step of `reconcileKeyedArray`, for lists of any length, inserts only
ids of its own and keeps the mirror `work` among the items of the array) and on
`AfterTransitive` (the order of concurrently written items is one).  The operators build
their results element by element in recursive functions; `Recursion` gives such a function
from its steps by counting up (`CountUp`), and for `toArray()` by removing the newest item
(`VisibleFacts`). `ListsIInv` is `Sound` for every node, with the domains of the cache.

A cache that is not filled, or an update with page data, takes the guarded read of the whole
tree, and that one may leave nodes out (`NoneCut` in section 6).  So the two theorems that follow
speak of the time before any user's read has (`Uncut`; the run checks more, that such a
read spoils the page of its reader only).  Of a read that leaves nothing out, `ReadsTouched` and
`ReadsAll` show that it gives what re-reading the touched nodes gives.  `FilledUncut` is when
that hypothesis is met outright: every cache is filled at the start and updates bring no page
data (`Filled`).

`FlatCacheFollows` and `FlatPlacesSurvive` are about pages of one level, the root and its
children (`OneLevel`); with nested lists both properties are false (see the end of this
section).  Both rest on what the code computes for lists of any length.

- *The reconcile.*  It leaves the ids the user wants in the order wanted before everything
  else, where only ids that others inserted meanwhile may sit between them (`Leads`): removals
  and additions keep it, and the k-th step of the third pass puts the k-th id in its place
  (`MoveOneOrder`).  It adds only wanted ids, and deletes an item because its id is no longer
  wanted or after inserting a newer item of the same id (`Replaced`, `Traces`).
- *The merge* of two arrays unites items and deletions, and the order of an array depends on its
  items only (`Ordered`).
- *The walks* visit each listed id once, at its first place (`Firsts`, `FlatWalk`).

`FlatCacheFollows`: the cached list is what comes first, of the ids it has, in the list of the
tree (`CacheLeads`).  A save makes that so by the order of the reconcile; an update that
changed the list by reading it; but an update that only changed a node's key leaves the cached
list alone.  If that brings a node the cached list lacks, the node must be one that came
back, or the property fails: `LacksOld`.  It needs a fact about the whole room: a node's
first setter put it into the list (`FirstSetter`), and a replica that has received that item
has received the key as well (`NotBefore`), so a key that arrives without news of the list
is a later one.  `FlatIInv` is their conjunction.

`FlatPlacesSurvive` supposes also that no two users decide about the same node (`Exclusive`):
others carry it along and reorder it.  For the user who decides, `PlacedBy`: nobody is ahead on
the node's key (`Ahead`); the cached list has the node if it is live; and of its items, those
that went when the user removed it stay gone (R in `Settled`), while any other that was deleted
was replaced by a newer one, which nobody has without it (`Outlives`).  So when replicas meet,
the newest of these items is still there, however many users had moved the node at once.
`PlacesIInv` is that for every node and user with `FlatIInv`.

**ConflictWindowProofs.**  `WriteBacksKeepBaseline` follows from `ApplyThenRead` by
induction over saves, resyncs, deliveries and write-backs.  `OwnAlarms` needs `Anchored` (what the
user has not changed since the window opened is on the page as it is in the anchor),
`ResolvedOnce` needs `Credited` (an open window has not been paid for yet).
`ConflictIInv` is their conjunction with the types; since a step changes one user's
variables, the lemmas speak of one user (`Sound`) and `OneUser` lifts them.

**PresenceProofs.**  `PresenceTypes`, `CallbacksStop`, `ViewsFollow`.  `ViewFollows` speaks of
the moments without a frame; the induction needs `Cached`: at every moment the cache
is what a full validation would give, although an event re-validates only the clients
it names.  `Subscribed` (subscribers belong to a bridge that is up) carries
`NoLateCallback` through `destroy()`; a late subscriber is the exception both name.

**TransportProofs.**  `TransportTypes`, `TransportSafe`, and its consequences
`ListenersAccounted`, `ProvidersReleased`, `TimeoutsBounded`, `WaitsTimed`.
`TransportIInv` strengthens the properties by `Series` (a subscription starts after
the earlier ones were torn down, so an attach cannot take the detacher of a
living one), `Ownership` (an open connection is the one `destroy()` will close or
belongs to a subscription that a later one superseded) and `Clock` (one timeout
was reported exactly when `timedOut` is set, and then the timer does not run).
`DropsRemembered` is `NeverFreshAfterDrop`, with an invariant of its own, `Memory`: a loss
that was reported to a listener is in `dropped`, and none is reported before the
provider is there.

Only model-checked:

- the liveness properties, which are outside TLAPS 1.4.5;
- `EditSession` where rooms are seeded by their users, entered late or nested in slots, and
  `EveryoneSees`, which is liveness;

Of pages with nested lists no run checks `CacheFollowsTree` or `PlacesSurvive`, and both are
false there: the first as section 6 says, the second because who inserts a node below one that
another user removes at the same time loses it from the screen with that one
(`ChildListsFlat`, Nodes `{n1, n2}`, PageData `FALSE`, `Shapes <- AnyPage`).

Each invariant and action property a run checks is so stated by a theorem, for the instances
whose hypotheses the theorem names.

## 5. Findings

Two runs show the code departing from what the repository says.

1. `DisjointEditsSurvive`.  `src/README.md:94` says that concurrent edits of disjoint
   nodes both survive.  User 1 types in one node; before the quiet window ends an
   edit of another node by user 2 arrives and becomes the baseline; the flush
   (`debounced-adapter.ts:113`) diffs user 1's older page against it and writes user 2's
   node back.
2. `EntryChangesNothing`.  `seedEmptyRoom` is to seed an EMPTY room (`plugin.ts:453`), and
   two mounters that both seed are called benign (`plugin.ts:461`).  The room counts as
   empty when the replica has no snapshot (`plugin.ts:467`), which is also so when the
   relay has not sent the room yet: the page of whoever comes in is saved beside it,
   and when the two meet one of two root nodes wins, with its list of children.  In the
   run a newcomer's page and the room's differ in one node; when both replicas have
   everything, each shows the newcomer's, and nobody has edited anything.

## 6. Disagreements without a run

These statements stand at the end of their modules, or are properties of a run that
fail in another configuration.  To see one fail, check it in place of the properties
of the configuration named, with the changes given.

| statement | fails because | configuration |
|---|---|---|
| `OfflineQueue!QueuedEditsReset` | `types.ts:463` says `queuedEdits` resets to 0 on "synced"; the handler compacts the durable queue (`yjs-adapter.ts:185`), which leaves the merged row, and the next offline status reports a size of 1 | `MCOfflineQueueLive` |
| `OfflineQueue!DestroyReleasesHandle` | `destroy()` while the database opens closes nothing, and the open then succeeds: nobody closes it | `MCOfflineQueueLive` |
| `SnapshotChain!SurvivorsLoad` | two peers save concurrently beyond the ceiling; one chains a delta to a snapshot the other evicts | `SnapshotChainMerge`, Features `{"concurrent"}`, 4 saves |
| `SnapshotChain!RetentionBound` | the saver evicts, a merge does not: two peers that saved apart list more than the ceiling | the same |
| `SnapshotChain!PairsLiveTogether` | one peer promotes a survivor (sets its payload) while another evicts it: the payload key lives, the meta key does not | the same, 5 saves |
| `SnapshotChain!ChainBounded` | the counter starts at 0 in a new session, the chain does not (`snapshots.ts:376-396`) | `SnapshotChainTurns`, ceiling 0 |
| `SnapshotChain!LoadsWhatWasSaved` after an undo | the next delta is diffed against the undone page (`yjs-adapter.ts:420`) but based on the newest snapshot (`snapshots.ts:380`); replayed on that snapshot it yields a page nobody saved | `SnapshotChainTurns`, Peers `{1}`, Nodes `{n1, n2}`, ceiling 0, MaxSaves 3, Features `{"undo"}` |
| `SnapshotChain!ResyncFindsSnapshot` | `delete(id)` removes a payload that later deltas are based on and re-roots nothing (`snapshots.ts:549`; retention does), so `forceResync()` answers null in a room with snapshots (`src/README.md:161`) | `SnapshotChainTurns`, Peers `{1}`, ceiling 0, MaxSaves 3, Features `{"delete"}` |
| `SnapshotChain!LoadsWhatWasSaved` among concurrent savers | as after an undo: base and diff are of different pages | `SnapshotChainMerge`, Features `{"concurrent"}` |
| `EditSession!UntouchedPassesThrough` | the shield compares whole pages (`plugin.ts:800`): a node whose page is merely old after a dispatch counts as touched | `EditSessionDisjoint` |
| `EditSession!UnsavedEditShown` | an edit back to the value last dispatched does not count as touched, so a remote page overwrites it on the screen | `EditSessionDisjoint` |
| `EditSession!WatchersFollow` when a node sits in a slot | the change set names the node, and the planner skips every item whose own id is not in it (`plugin.ts:932`; the comment above calls it "guaranteed unchanged"), the item that holds the node included: nothing is dispatched, and the watcher's next save reverts the edit | `EditSessionWatch`, Peers `{1, 2}`, `ItemOf <- Nested`, `Grant <- OneEditor`, AsyncHosts `{}`, MaxEdits 3 |
| `EditSession!WatchersFollow` of a user who comes in | a frame before the plugin is ready is dropped because hydration "paints the current doc state" (`plugin.ts:239-244`); it paints the newest snapshot, which lacks what others edited concurrently with its author | `EditSessionWatch`, Late `{3}` |
| `EditSession!BaselineIsTree` when users seed the room apart | of three roots one wins, and the keys of nodes it does not list stay live; when a user then inserts such a node and the key already there wins over the new one, the update changes the list but not the key, so the change set does not name the node: the live cache, which knows only nodes that were on the page (`live-ir.ts:126-147`), leaves it out, the full read has it | `EditSessionWatch`, Contents `{x}`, AsyncHosts `{}`, Late `{1, 2, 3}`, Fresh `TRUE`, `Grant` user 1 on n1 only, MaxEdits 1, `Drafts` also a page of one node |
| `EditSession!NoEcho` of a user who comes in on a host that reports late | hydration painted a snapshot without a concurrent edit; then updates melt into one that names the root but no relink: the projection converts the whole page, the planner replaces the named items only; the note is of the page converted (`plugin.ts:704`), the host reports the page shown, which is taken for an edit and reverts the other user's | `EditSessionWatch`, Late `{3}`, MaxEdits 4 |
| `EditSession!EveryoneSees` with an editor on a host that reports late | the page painted by `Hydrate` is noted; the user edits away and back before the host reports, and the report is taken for the echo (`plugin.ts:343-356`): `remote-guard.ts` says that user input is not swallowed | `EditSessionLive`, AsyncHosts `{1, 2}` |
| `ChildLists!FullReadAgrees` | concurrent insertions put one id twice into the lists; the full read's guard ends the walk there (`native-tree.ts:782`), the live cache skips the id and goes on, though the full read is called the correctness backstop | `ChildListsFlat` |
| `ChildLists!NoneCut` | `live-ir.ts:254` rebuilds the page from the whole tree "so we never emit a stale or partial IR"; the read is the guarded one, which an id in the lists twice ends: what comes after it is gone from the page, the cache and, `fullRebuild` being the source of the next baseline, from what the user's next save is diffed against. With two users that takes an update with page data after both moved the same node; with three also the first update a newcomer gets does it, when two others had moved the same node | `ChildListsFlat`; or Peers `{1, 2, 3}`, PageData `FALSE`, MaxSaves 2 |
| `ChildLists!NoneTwice` | `native-tree.ts:701`: "so a child is never duplicated"; two users who both move or re-order it insert it twice | `ChildListsFlat` |
| `ChildLists!CacheIsTree` | "relink (reorder/add/remove) matches a full rebuild" (`__tests__/live-ir.test.ts:66`).  User 1 removes a node while user 2 moves it: its key is gone, its id stays in the root's list.  User 2 saves another change of that list and caches it as saved, without the id.  User 1 brings the node back; the list has its id where it belongs, so only the key is written.  The change set names the node and no list (`native-tree.ts:491`), `applyRemoteChangedNodes` reads the node and no list (`live-ir.ts:238`): user 2 does not see the node until somebody changes the list or the whole tree is read.  `CacheFollowsTree` is what is left of it | `ChildListsFlat`, Nodes `{n1, n2}`, PageData `FALSE`, MaxSaves 4 |
| `ChildLists!CacheFollowsTree` with nested lists | two users move each other's node below their own: neither is reached from the root any more, but both keep their keys and lists; one user puts its node back, without children: the list it is diffed against is empty too, so the old list stays in the tree while the cache has the empty one | `ChildListsFlat`, Nodes `{n1, n2}`, PageData `FALSE`, `Shapes <- AnyPage` |
| `Presence!PresenceSettles` with hosts that update after `destroy()` | the bridge still sends, so the user is a ghost to the others | `PresencePair`, Tidy `FALSE` |
| `ConflictWindow!AlarmsAreConcurrent` | `computeConflict` says it reports "a TRUE concurrent-edit conflict"; comparing three pages, it also reports a peer who saw the local value and replaced it | `ConflictWindowPair` |
| `ConflictWindow!OverwritesAlarm` | `src/README.md:96` says an update on top of an in-flight edit raises the event; an earlier update closes the window without confirming the edit (`yjs-adapter.ts:276`), and a peer's edit away and back to the anchor is no divergence | `ConflictWindowPair` |
| `Transport!SocketsReleased` | a teardown detaches the provider but leaves it open, and a remount's provider takes its place in `providerInstance`: `destroy()` closes the second only | `TransportSeries` |
| `Transport!SilentOnceDead` | `attachHocuspocusProvider` reports the socket's state before the subscription is found dead (`transport.ts:272-294`) | `TransportSeries` |

## 7. Plan

An instance stays within a few minutes of TLC; the runs are one per question and
share an instance where they can.  What is left, in this order:

1. **Tabs**: queue, broadcast channel, replay and undo composed over one document, with
   the baseline, the cache and the editor of each tab (see section 8 for what is known
   of it without a model).
2. **Failing saves and dispatches**: `saveIR` that throws, the policy filter and the
   validation of an outgoing page, in `EditSession`.
3. **Attempts in `Transport`**: the reconnect tracker's number and its reset.
4. **The rest of two parts**: a conflict window that opens without an anchor; what the adapter
   makes of a status, after its `destroy()` included.
5. **Larger instances of `ChildLists`**: two nested lists, where the cache follows the
   tree only until nodes are moved below each other (section 6).
6. **Proofs**: retention's bound for users who take turns; `OneRoot` for rooms seeded by one
   user; the places of nodes in nested lists while nobody removes or moves the node they are in.

## 8. Not modelled

- *What the replay of the durable queue does to the page* (`yjs-adapter.ts:399-411`).
  `OfflineQueue` has its effect on the queue.  The recovered updates are applied with
  the local origin, which the tree observer skips: baseline, live cache and editor
  do not learn of them.  The comment says this happens "before the host registers its
  first `subscribe()`", but `ready` is asynchronous and nothing waits for it.  No
  property about the page shown after such a start can hold, so the rooms of
  `EditSession` start from replicas that are in step with their page.
- *The cross-tab broadcast channel*: it keeps no state; an update that comes over it is
  a `Deliver` of the tree modules.
- *The origin of an undo.*  Undo transactions are neither queued nor broadcast
  (`yjs-adapter.ts:363-364`): read in the code, not checked.  A later save of the same
  client builds on the undo, so its queued update is not integrated after an offline
  restart until the room supplies what is missing.
- *The policy filter, page validation, and saves or dispatches that throw.*
- *The reconnect tracker*: a counter and a formula nothing but a label depends on.
- *The adapter's handling of statuses after `destroy()`*; the order of its teardown is
  modelled only where it is visible in the parts.
- *Metrics, encoders, shape guards, the snapshot diff (an alias), public types, the
  selection bridge (which writes through `presence.update`)*: no state of their own
  that a property could be about.
- *Legacy*: whole-document blobs, index records of old versions, migration.
- *Tests, docs and the example relay server*: used as statements of intent only.
