-------------------------- MODULE EditSessionProofs --------------------------
(***************************************************************************)
(* The edit session, for any users, nodes, contents and any number of      *)
(* edits.                                                                  *)
(***************************************************************************)
EXTENDS EditSession, SharedTreeProofs

(* A set of at most one. *)
AtMostOne(S) == {{}} \cup {{x} : x \in S}

IsBagOfPages(noted) == IsABag(noted) /\ DOMAIN noted \subseteq Document

(* The root's map: who created it, the ids listed there. *)
RootMap == [path : Seq(Nat), ids : SUBSET Nodes]

(* TypeOK with what it leaves out: readable trees, root maps, snapshots.    *)
RoomTyped ==
  /\ tree \in [Peers -> Tree]
  /\ root \in [Peers -> RootMap]
  /\ newest = [p \in Peers |-> newest[p]]
  /\ \A p \in Peers : newest[p].doc \in Document
  /\ local \in [Peers -> Document]

EditorTyped ==
  /\ editor \in [Peers -> Document]
  /\ due \in [Peers -> BOOLEAN]
  /\ expected = [p \in Peers |-> expected[p]]
  /\ \A p \in Peers : IsBagOfPages(expected[p])
  /\ dispatched \in [Peers -> Document]

BuffersTyped ==
  /\ phase \in [Peers -> {"mounted", "seeding", "ready"}]
  /\ debounced \in [Peers -> AtMostOne(Document)]
  /\ shadow \in [Peers -> AtMostOne(Document)]
  /\ inbound \in [Peers -> AtMostOne(Entry)]

CountsTyped ==
  /\ edits \in 0 .. MaxEdits /\ remounts \in 0 .. MaxRemounts
  /\ intent \in [Nodes -> SUBSET Contents]

SessionTypes == RoomTyped /\ EditorTyped /\ BuffersTyped /\ CountsTyped

-----------------------------------------------------------------------------
(* What is made of pages are pages. *)

LEMMA EmptyIsDocument == Empty \in Document
  <1>1. Empty \in [{} -> Contents]
    BY DEF Empty
  <1> QED
    BY <1>1, IsDocument

LEMMA ListedIsDocument ==
  ASSUME NEW doc \in Document, NEW top PROVE Listed(doc, top) \in Document
  BY RestrictIsDocument DEF Listed

LEMMA PageIsDocument ==
  ASSUME NEW t \in Tree, NEW top PROVE Page(t, top) \in Document
  BY ReadIsDocument, ListedIsDocument DEF Page

LEMMA ContentIsContents ==
  ASSUME NEW doc \in Document, NEW n PROVE ContentOf(doc, n) \in SUBSET Contents
  BY DocumentFacts DEF ContentOf

LEMMA ShieldedIsDocument ==
  ASSUME NEW intended \in AtMostOne(Document), NEW last \in Document,
         NEW doc \in Document
  PROVE  Shielded(intended, last, doc) \in Document
  <1> DEFINE kept == CHOOSE mine \in intended : TRUE
             shielded == Shielded(intended, last, doc)
  <1>1. \A mine \in intended : mine \in Document /\ mine = kept
    BY DEF AtMostOne
  <1>2. ASSUME NEW n \in DOMAIN doc PROVE shielded[n] \in Contents
    <2>1. CASE \E mine \in intended : /\ n \in DOMAIN mine \cap DOMAIN last
                                      /\ mine[n] # last[n]
      <3>1. kept \in Document /\ n \in DOMAIN kept
        BY <1>1, <2>1
      <3>2. shielded[n] = kept[n]
        BY <2>1 DEF Shielded
      <3> QED
        BY <3>1, <3>2, DocumentFacts
    <2>2. CASE ~\E mine \in intended : /\ n \in DOMAIN mine \cap DOMAIN last
                                       /\ mine[n] # last[n]
      <3>1. shielded[n] = doc[n]
        BY <2>2 DEF Shielded
      <3> QED
        BY <3>1, DocumentFacts
    <2> QED
      BY <2>1, <2>2
  <1>3. shielded = [n \in DOMAIN doc |-> shielded[n]]
    BY DEF Shielded
  <1> HIDE DEF shielded
  <1>4. shielded \in [DOMAIN doc -> Contents]
    BY <1>2, <1>3
  <1> QED
    BY <1>4, DocumentFacts, IsDocument DEF shielded

LEMMA TakeItemsIsDocument ==
  ASSUME NEW shown \in Document, NEW doc \in Document, NEW items
  PROVE  TakeItems(shown, doc, items) \in Document
  <1> DEFINE ids == {m \in DOMAIN shown : ItemOf[m] \notin items}
                      \cup {m \in DOMAIN doc : ItemOf[m] \in items}
  <1>1. ids \in SUBSET Nodes
    BY DocumentFacts
  <1>2. TakeItems(shown, doc, items) \in [ids -> Contents]
    BY DocumentFacts DEF TakeItems
  <1> QED
    BY <1>1, <1>2, IsDocument

LEMMA ProjectedIsDocument ==
  ASSUME NEW shown \in Document, NEW doc \in Document, NEW ids, NEW scoped
  PROVE  Projected(shown, doc, ids, scoped) \in Document
  BY TakeItemsIsDocument DEF Projected

LEMMA PlannedIsDocument ==
  ASSUME NEW shown \in Document, NEW data \in Document, NEW ids, NEW scoped
  PROVE  Planned(shown, data, ids, scoped) \in Document
  BY TakeItemsIsDocument DEF Planned

(* What a plugin shows and has noted. *)
IsView(view) ==
  /\ view.page \in Document /\ view.last \in Document
  /\ IsBagOfPages(view.expected)
  /\ view.due \in BOOLEAN

LEMMA NotedBag ==
  ASSUME NEW noted, IsBagOfPages(noted), NEW doc \in Document
  PROVE  /\ IsBagOfPages(noted (+) SetToBag({doc}))
         /\ DOMAIN (noted (+) SetToBag({doc})) = DOMAIN noted \cup {doc}
  BY DEF IsBagOfPages, IsABag, SetToBag, (+)

LEMMA NoNotes == IsBagOfPages(EmptyBag)
  BY DEF IsBagOfPages, IsABag, EmptyBag, SetToBag

LEMMA ClaimedBag ==
  ASSUME NEW noted, IsBagOfPages(noted), NEW doc
  PROVE  IsBagOfPages(noted (-) SetToBag({doc}))
  BY DEF IsBagOfPages, IsABag, SetToBag, (-)

LEMMA DispatchIsView ==
  ASSUME NEW p \in Peers, shadow[p] \in AtMostOne(Document),
         NEW view, IsView(view), NEW entry, entry.doc \in Document
  PROVE  IsView(Dispatch(p, view, entry))
  <1> DEFINE scoped == ~entry.structural /\ ~entry.relink
             data == Projected(view.page, Shielded(shadow[p], view.last, entry.doc),
                               entry.ids, scoped)
             page == Planned(view.page, data, entry.ids, scoped)
             noted == view.expected (+) SetToBag({data})
  <1>1. data \in Document
    BY ShieldedIsDocument, ProjectedIsDocument DEF IsView
  <1>2. page \in Document
    BY <1>1, PlannedIsDocument DEF IsView
  <1>3. IsBagOfPages(noted)
    <2>1. IsBagOfPages(view.expected)
      BY DEF IsView
    <2> HIDE DEF data
    <2> QED
      BY <1>1, <2>1, NotedBag
  <1>4. Silent(p, view.page, page) \in BOOLEAN
    BY DEF Silent
  <1>5. Dispatch(p, view, entry) =
          [page |-> page, last |-> entry.doc,
           expected |-> IF Silent(p, view.page, page) THEN noted
                        ELSE view.expected,
           due |-> view.due \/ Silent(p, view.page, page)]
    BY DEF Dispatch
  <1> HIDE DEF page, noted
  <1> QED
    BY <1>2, <1>3, <1>4, <1>5 DEF IsView

LEMMA ViewIsView ==
  ASSUME SessionTypes, NEW p \in Peers PROVE IsView(View(p))
  BY DEF SessionTypes, EditorTyped, View, IsView

LEMMA DrainedIsView ==
  ASSUME SessionTypes, NEW p \in Peers, NEW view, IsView(view)
  PROVE  IsView(Drained(p, view))
  <1>1. CASE inbound[p] = {}
    BY <1>1 DEF Drained
  <1>2. CASE inbound[p] # {}
    <2> DEFINE entry == CHOOSE e \in inbound[p] : TRUE
    <2>1. entry \in Entry /\ shadow[p] \in AtMostOne(Document)
      BY <1>2 DEF SessionTypes, BuffersTyped, AtMostOne
    <2>2. entry.doc \in Document
      BY <2>1 DEF Entry
    <2>3. Drained(p, view) = Dispatch(p, view, entry)
      BY <1>2 DEF Drained
    <2> HIDE DEF entry
    <2> QED
      BY <2>1, <2>2, <2>3, DispatchIsView
  <1> QED
    BY <1>1, <1>2

LEMMA CoalesceIsEntry ==
  ASSUME NEW buffer \in AtMostOne(Entry), NEW entry \in Entry
  PROVE  Coalesce(buffer, entry) \in AtMostOne(Entry)
  <1>1. CASE buffer = {}
    BY <1>1 DEF Coalesce, AtMostOne
  <1>2. CASE buffer # {}
    <2>1. PICK e \in Entry : buffer = {e}
      BY <1>2 DEF AtMostOne
    <2> DEFINE both == [doc        |-> entry.doc,
                        ids        |-> e.ids \cup entry.ids,
                        structural |-> e.structural \/ entry.structural,
                        relink     |-> FALSE]
    <2>2. both \in Entry
      BY DEF Entry
    <2>3. Coalesce(buffer, entry) = {both}
      BY <2>1 DEF Coalesce
    <2> HIDE DEF both
    <2> QED
      BY <2>2, <2>3 DEF AtMostOne
  <1> QED
    BY <1>1, <1>2

LEMMA LiveIRIsDocument ==
  ASSUME NEW cached \in Document, NEW after \in Tree, NEW touched,
         touched \subseteq Nodes
  PROVE  LiveIR(cached, after, touched) \in Document
  <1> DEFINE read == {n \in touched : Live(after[n])}
             ids == (DOMAIN cached \ touched) \cup read
  <1>1. ids \in SUBSET Nodes
    BY DocumentFacts
  <1>2. \A n \in read : n \in DOMAIN ReadTree(after)
    BY DEF ReadTree
  <1>3. \A n \in read : ReadTree(after)[n] \in Contents
    BY <1>2, ReadIsDocument, DocumentFacts
  <1>4. LiveIR(cached, after, touched) =
          [n \in ids |-> IF n \in read THEN ReadTree(after)[n] ELSE cached[n]]
    BY DEF LiveIR
  <1>5. LiveIR(cached, after, touched) \in [ids -> Contents]
    BY <1>3, <1>4, DocumentFacts
  <1> HIDE DEF ids
  <1> QED
    BY <1>1, <1>5, IsDocument

(* What the observer hands on. *)
LEMMA ObservedIsEntry ==
  ASSUME NEW p \in Peers, local[p] \in Document, NEW nodes \in Tree, NEW top
  PROVE  Observed(p, nodes, top) \subseteq Entry
  <1> DEFINE touched == TouchedNodes(tree[p], nodes)
             relink == Relinked(tree[p], nodes) \/ top.ids # root[p].ids
             ids == IF relink THEN touched \cup {Root} ELSE touched
             doc == Listed(LiveIR(local[p], nodes, touched), top)
  <1>1. touched \subseteq Nodes
    BY DEF TouchedNodes
  <1>2. ids \in SUBSET (Nodes \cup {Root}) /\ relink \in BOOLEAN
    BY <1>1 DEF Relinked
  <1>3. doc \in Document
    BY <1>1, LiveIRIsDocument, ListedIsDocument
  <1>4. Page(nodes, top) \in Document
    BY PageIsDocument
  <1>5. Observed(p, nodes, top) \subseteq
          {Whole(Page(nodes, top)),
           [doc |-> doc, ids |-> ids, structural |-> FALSE, relink |-> relink]}
    BY DEF Observed
  <1>6. Whole(Page(nodes, top)) \in Entry
    BY <1>4 DEF Whole, Entry
  <1> HIDE DEF ids, relink, doc
  <1>7. [doc |-> doc, ids |-> ids, structural |-> FALSE, relink |-> relink] \in Entry
    BY <1>2, <1>3 DEF Entry
  <1> QED
    BY <1>5, <1>6, <1>7

-----------------------------------------------------------------------------
(* The types are kept by every step. *)

LEMMA TypesImplyTypeOK == SessionTypes => TypeOK
  <1> SUFFICES ASSUME SessionTypes PROVE TypeOK
    OBVIOUS
  <1>1. \A p \in Peers : Room(p) \in Document
    BY PageIsDocument DEF SessionTypes, RoomTyped, Room
  <1> QED
    BY <1>1 DEF SessionTypes, RoomTyped, EditorTyped, BuffersTyped, CountsTyped,
                AtMostOne, IsBagOfPages, TypeOK

LEMMA TypesInit == Init => SessionTypes
  <1> SUFFICES ASSUME Init PROVE SessionTypes
    OBVIOUS
  <1>1. PICK doc \in Document, draft \in [Late -> Drafts], fresh \in {FALSE, Fresh} :
          Starts(doc, draft, fresh)
    BY DEF Init
  <1>2. \A p \in Late : draft[p] \in Document
    BY SessionAssumption
  <1>3. DOMAIN doc \subseteq Nodes /\ <<0>> \in Seq(Nat) /\ << >> \in Seq(Nat)
    BY DocumentFacts
  <1>4. RoomTyped
    BY <1>1, <1>3, SeededFacts, EmptyIsDocument DEF RoomTyped, RootMap, Starts, NoRoot, NoSnapshot
  <1>5. EditorTyped
    BY <1>1, <1>2, NoNotes, EmptyIsDocument DEF Starts, EditorTyped
  <1>6. BuffersTyped
    BY <1>1 DEF Starts, BuffersTyped, AtMostOne
  <1>7. CountsTyped
    BY <1>1, ContentIsContents, SessionAssumption DEF Starts, CountsTyped
  <1> QED
    BY <1>4, <1>5, <1>6, <1>7 DEF SessionTypes

(* Plugins that show a page. *)
LEMMA ShowTyped ==
  ASSUME SessionTypes, NEW p \in Peers, NEW view, IsView(view), Show(p, view)
  PROVE  EditorTyped'
  BY DEF SessionTypes, EditorTyped, Show, IsView

LEMMA BecomeReadyTyped ==
  ASSUME SessionTypes, NEW p \in Peers, NEW view, IsView(view),
         BecomeReady(p, view),
         debounced' \in [Peers -> AtMostOne(Document)],
         UNCHANGED shadow
  PROVE  EditorTyped' /\ BuffersTyped'
  <1>1. EditorTyped'
    BY DrainedIsView, ShowTyped DEF BecomeReady
  <1>2. BuffersTyped'
    BY DEF BecomeReady, SessionTypes, BuffersTyped, AtMostOne
  <1> QED
    BY <1>1, <1>2

LEMMA EditedTyped ==
  ASSUME SessionTypes, NEW p \in Peers, NEW doc \in Document, Edited(p, doc),
         intent' \in [Nodes -> SUBSET Contents]
  PROVE  SessionTypes'
  <1>1. RoomTyped'
    BY DEF Edited, SessionTypes, RoomTyped, roomVars
  <1>2. EditorTyped'
    BY DEF Edited, SessionTypes, EditorTyped
  <1>3. BuffersTyped'
    BY DEF Edited, Intended, Debounce, SessionTypes, BuffersTyped, AtMostOne
  <1>4. CountsTyped'
    BY SessionAssumption DEF Edited, SessionTypes, CountsTyped
  <1> QED
    BY <1>1, <1>2, <1>3, <1>4 DEF SessionTypes

LEMMA PutTyped ==
  ASSUME SessionTypes, NEW p \in Peers, NEW n \in Nodes, NEW c \in Contents,
         Put(p, n, c)
  PROVE  SessionTypes'
  <1>1. editor[p] \in Document
    BY DEF SessionTypes, EditorTyped
  <1>2. With(editor[p], n, c) \in Document
    BY <1>1, WithIsDocument
  <1>3. intent' \in [Nodes -> SUBSET Contents]
    BY DEF Put, SessionTypes, CountsTyped
  <1> QED
    BY <1>2, <1>3, EditedTyped DEF Put

LEMMA DropTyped ==
  ASSUME SessionTypes, NEW p \in Peers, NEW n \in Nodes, Drop(p, n)
  PROVE  SessionTypes'
  <1>1. Restrict(editor[p], DOMAIN editor[p] \ {n}) \in Document
    BY RestrictIsDocument DEF SessionTypes, EditorTyped
  <1>2. intent' \in [Nodes -> SUBSET Contents]
    BY DEF Drop, SessionTypes, CountsTyped
  <1> QED
    BY <1>1, <1>2, EditedTyped DEF Drop

LEMMA ReportTyped ==
  ASSUME SessionTypes, NEW p \in Peers, Report(p) PROVE SessionTypes'
  <1>1. RoomTyped'
    BY DEF Report, SessionTypes, RoomTyped, roomVars
  <1>2. IsBagOfPages(expected[p] (-) SetToBag({editor[p]}))
    BY ClaimedBag DEF SessionTypes, EditorTyped
  <1>3. EditorTyped'
    BY <1>2 DEF Report, SessionTypes, EditorTyped
  <1>4. BuffersTyped'
    BY DEF Report, Intended, Debounce, SessionTypes, EditorTyped, BuffersTyped, AtMostOne
  <1>5. CountsTyped'
    BY DEF Report, SessionTypes, CountsTyped, editVars
  <1> QED
    BY <1>1, <1>3, <1>4, <1>5 DEF SessionTypes

LEMMA NoteExpiresTyped ==
  ASSUME SessionTypes, NEW p \in Peers, NoteExpires(p) PROVE SessionTypes'
  BY NoNotes DEF NoteExpires, SessionTypes, RoomTyped, EditorTyped, BuffersTyped,
       CountsTyped, roomVars, editVars

LEMMA ShieldExpiresTyped ==
  ASSUME SessionTypes, NEW p \in Peers, ShieldExpires(p) PROVE SessionTypes'
  BY DEF ShieldExpires, SessionTypes, RoomTyped, EditorTyped, BuffersTyped,
       CountsTyped, roomVars, editVars, echoVars, AtMostOne

LEMMA ClientIds == \A p \in Peers : p \in Nat
  BY SessionAssumption

LEMMA WriteTyped ==
  ASSUME SessionTypes, NEW p \in Peers, NEW doc \in Document, Write(p, doc),
         local' = [local EXCEPT ![p] = doc]
  PROVE  RoomTyped'
  <1>1. tree' \in [Peers -> Tree]
    BY ApplyIsTree, ClientIds DEF Write, SessionTypes, RoomTyped
  <1>2. <<p>> \in Seq(Nat) /\ DOMAIN doc \subseteq Nodes
    BY ClientIds, DocumentFacts
  <1>3. root' \in [Peers -> RootMap]
    <2>1. CASE root[p] = NoRoot
      <3>1. root' = [root EXCEPT ![p] = [path |-> <<p>>, ids |-> DOMAIN doc]]
        BY <2>1 DEF Write
      <3> QED
        BY <1>2, <3>1 DEF SessionTypes, RoomTyped, RootMap
    <2>2. CASE root[p] # NoRoot
      <3> DEFINE ids == root[p].ids \cup (DOMAIN doc \ DOMAIN local[p])
      <3>1. root' = [root EXCEPT ![p] = [path |-> root[p].path, ids |-> ids]]
        BY <2>2 DEF Write
      <3>2. ids \in SUBSET Nodes
        BY <1>2 DEF SessionTypes, RoomTyped, RootMap
      <3> HIDE DEF ids
      <3> QED
        BY <3>1, <3>2 DEF SessionTypes, RoomTyped, RootMap
    <2> QED
      BY <2>1, <2>2
  <1>4. newest' = [q \in Peers |-> newest'[q]] /\ \A q \in Peers : newest'[q].doc \in Document
    BY DEF Write, SessionTypes, RoomTyped
  <1> QED
    BY <1>1, <1>3, <1>4 DEF SessionTypes, RoomTyped

LEMMA FlushTyped ==
  ASSUME SessionTypes, NEW p \in Peers, Flush(p) PROVE SessionTypes'
  <1>1. PICK doc \in debounced[p] : Write(p, doc) /\ local' = [local EXCEPT ![p] = doc]
    BY DEF Flush
  <1>2. doc \in Document
    BY DEF SessionTypes, BuffersTyped, AtMostOne
  <1>3. RoomTyped'
    BY <1>1, <1>2, WriteTyped
  <1>4. debounced' \in [Peers -> AtMostOne(Document)] /\ UNCHANGED shadow
    BY DEF Flush, SessionTypes, BuffersTyped, AtMostOne
  <1>5. EditorTyped' /\ BuffersTyped'
    <2>1. CASE phase[p] = "seeding"
      <3>1. BecomeReady(p, View(p))
        BY <2>1 DEF Flush
      <3> QED
        BY <1>4, <3>1, ViewIsView, BecomeReadyTyped
    <2>2. CASE phase[p] # "seeding"
      BY <1>4, <2>2 DEF Flush, SessionTypes, EditorTyped, BuffersTyped, echoVars
    <2> QED
      BY <2>1, <2>2
  <1>6. CountsTyped'
    BY DEF Flush, SessionTypes, CountsTyped, editVars
  <1> QED
    BY <1>3, <1>5, <1>6 DEF SessionTypes

LEMMA HydrateTyped ==
  ASSUME SessionTypes, NEW p \in Peers, Hydrate(p) PROVE SessionTypes'
  <1>1. RoomTyped' /\ CountsTyped' /\ UNCHANGED shadow
    BY DEF Hydrate, SessionTypes, RoomTyped, CountsTyped, roomVars, editVars
  <1>2. debounced \in [Peers -> AtMostOne(Document)] /\ shadow[p] \in AtMostOne(Document)
    BY DEF SessionTypes, BuffersTyped
  <1>3. CASE newest[p] # NoSnapshot
    <2>1. newest[p].doc \in Document
      BY DEF SessionTypes, RoomTyped
    <2>2. Whole(newest[p].doc).doc \in Document
      BY <2>1 DEF Whole
    <2>3. IsView(Dispatch(p, View(p), Whole(newest[p].doc)))
      BY <1>2, <2>2, ViewIsView, DispatchIsView
    <2>4. BecomeReady(p, Dispatch(p, View(p), Whole(newest[p].doc))) /\ UNCHANGED debounced
      BY <1>3 DEF Hydrate
    <2>5. EditorTyped' /\ BuffersTyped'
      BY <1>1, <1>2, <2>3, <2>4, BecomeReadyTyped
    <2> QED
      BY <1>1, <2>5 DEF SessionTypes
  <1>4. CASE newest[p] = NoSnapshot /\ editor[p] = Empty
    <2>1. BecomeReady(p, View(p)) /\ UNCHANGED debounced
      BY <1>4 DEF Hydrate
    <2>2. EditorTyped' /\ BuffersTyped'
      BY <1>1, <1>2, <2>1, ViewIsView, BecomeReadyTyped
    <2> QED
      BY <1>1, <2>2 DEF SessionTypes
  <1>5. CASE newest[p] = NoSnapshot /\ editor[p] # Empty
    <2>1. /\ phase' = [phase EXCEPT ![p] = "seeding"]
          /\ debounced' = [debounced EXCEPT ![p] = {editor[p]}]
          /\ UNCHANGED <<editor, due, expected, dispatched, inbound>>
      BY <1>5 DEF Hydrate, Debounce, echoVars
    <2>2. EditorTyped' /\ BuffersTyped'
      BY <1>1, <2>1 DEF SessionTypes, EditorTyped, BuffersTyped, AtMostOne
    <2> QED
      BY <1>1, <2>2 DEF SessionTypes
  <1> QED
    BY <1>3, <1>4, <1>5

LEMMA RemountTyped ==
  ASSUME SessionTypes, NEW p \in Peers, Remount(p) PROVE SessionTypes'
  <1>1. Room(p) \in Document
    BY PageIsDocument DEF SessionTypes, RoomTyped, Room
  <1>2. RoomTyped'
    BY <1>1 DEF Remount, SessionTypes, RoomTyped
  <1>3. EditorTyped'
    BY NoNotes, EmptyIsDocument, SessionAssumption DEF Remount, SessionTypes, EditorTyped
  <1>4. BuffersTyped'
    BY DEF Remount, SessionTypes, BuffersTyped, AtMostOne
  <1>5. CountsTyped'
    <2>1. \A n \in Nodes : ContentOf(Room(p), n) \in SUBSET Contents
      BY <1>1, ContentIsContents
    <2>2. intent' \in [Nodes -> SUBSET Contents]
      BY <2>1 DEF Remount, SessionTypes, CountsTyped
    <2> QED
      BY <2>2, SessionAssumption DEF Remount, SessionTypes, CountsTyped
  <1> QED
    BY <1>2, <1>3, <1>4, <1>5 DEF SessionTypes

LEMMA MergeRootTyped ==
  ASSUME NEW a \in RootMap,
         NEW b \in RootMap
  PROVE  MergeRoot(a, b) \in RootMap
  BY DEF MergeRoot, RootMap

LEMMA DeliverTyped ==
  ASSUME SessionTypes, NEW p \in Peers, NEW q \in Peers, Deliver(p, q)
  PROVE  SessionTypes'
  <1> DEFINE nodes == MergeTree(tree[p], tree[q])
             top == MergeRoot(root[p], root[q])
             snapshot == IF newest[p].at < newest[q].at THEN newest[q] ELSE newest[p]
             seen == Observed(p, nodes, top)
  <1>1. nodes \in Tree
    BY MergeIsTree DEF SessionTypes, RoomTyped
  <1>2. top \in RootMap
    BY MergeRootTyped DEF SessionTypes, RoomTyped
  <1>3. snapshot.doc \in Document
    BY DEF SessionTypes, RoomTyped
  <1>4. seen \subseteq Entry
    BY <1>1, ObservedIsEntry DEF SessionTypes, RoomTyped
  <1>5. /\ tree' = [tree EXCEPT ![p] = nodes] /\ root' = [root EXCEPT ![p] = top]
        /\ newest' = [newest EXCEPT ![p] = snapshot]
        /\ UNCHANGED <<phase, editor, due, expected, debounced, shadow, dispatched,
                       edits, remounts, intent>>
        /\ \/ UNCHANGED <<local, inbound>>
           \/ \E entry \in seen :
                /\ local' = [local EXCEPT ![p] = entry.doc]
                /\ inbound' = [inbound EXCEPT ![p] = Coalesce(inbound[p], entry)]
    BY DEF Deliver, Enqueue, echoVars, editVars
  <1> HIDE DEF nodes, top, snapshot, seen
  <1>6. tree' \in [Peers -> Tree]
    BY <1>1, <1>5 DEF SessionTypes, RoomTyped
  <1>7. root' \in [Peers -> RootMap]
    BY <1>2, <1>5 DEF SessionTypes, RoomTyped
  <1>8. newest' = [r \in Peers |-> newest'[r]] /\ \A r \in Peers : newest'[r].doc \in Document
    BY <1>3, <1>5 DEF SessionTypes, RoomTyped
  <1>9. /\ local' \in [Peers -> Document]
        /\ inbound' \in [Peers -> AtMostOne(Entry)]
    <2>1. CASE UNCHANGED <<local, inbound>>
      BY <2>1 DEF SessionTypes, RoomTyped, BuffersTyped
    <2>2. ASSUME NEW entry \in seen,
                 local' = [local EXCEPT ![p] = entry.doc],
                 inbound' = [inbound EXCEPT ![p] = Coalesce(inbound[p], entry)]
          PROVE  /\ local' \in [Peers -> Document]
                 /\ inbound' \in [Peers -> AtMostOne(Entry)]
      <3>1. entry \in Entry /\ entry.doc \in Document
        BY <1>4 DEF Entry
      <3>2. Coalesce(inbound[p], entry) \in AtMostOne(Entry)
        BY <3>1, CoalesceIsEntry DEF SessionTypes, BuffersTyped
      <3> QED
        BY <2>2, <3>1, <3>2 DEF SessionTypes, RoomTyped, BuffersTyped
    <2> QED
      BY <1>5, <2>1, <2>2
  <1>10. RoomTyped'
    BY <1>6, <1>7, <1>8, <1>9 DEF RoomTyped
  <1>11. EditorTyped' /\ BuffersTyped' /\ CountsTyped'
    BY <1>5, <1>9 DEF SessionTypes, EditorTyped, BuffersTyped, CountsTyped
  <1> QED
    BY <1>10, <1>11 DEF SessionTypes

LEMMA FrameTyped ==
  ASSUME SessionTypes, NEW p \in Peers, Frame(p) PROVE SessionTypes'
  <1>1. RoomTyped' /\ CountsTyped'
    BY DEF Frame, SessionTypes, RoomTyped, CountsTyped, roomVars, editVars
  <1>2. BuffersTyped'
    BY DEF Frame, SessionTypes, BuffersTyped, AtMostOne
  <1>3. EditorTyped'
    <2>1. CASE phase[p] = "ready"
      <3>1. Show(p, Drained(p, View(p)))
        BY <2>1 DEF Frame
      <3> QED
        BY <3>1, ViewIsView, DrainedIsView, ShowTyped
    <2>2. CASE phase[p] # "ready"
      BY <2>2 DEF Frame, SessionTypes, EditorTyped, echoVars
    <2> QED
      BY <2>1, <2>2
  <1> QED
    BY <1>1, <1>2, <1>3 DEF SessionTypes

LEMMA TypesNext == SessionTypes /\ [Next]_vars => SessionTypes'
  <1> SUFFICES ASSUME SessionTypes, [Next]_vars PROVE SessionTypes'
    OBVIOUS
  <1>1. ASSUME NEW p \in Peers, User(p) PROVE SessionTypes'
    BY <1>1, PutTyped, DropTyped DEF User
  <1>2. ASSUME NEW p \in Peers,
               \/ Report(p) \/ NoteExpires(p) \/ Flush(p) \/ Hydrate(p)
               \/ Remount(p) \/ Frame(p) \/ ShieldExpires(p)
        PROVE  SessionTypes'
    BY <1>2, ReportTyped, NoteExpiresTyped, FlushTyped, HydrateTyped, RemountTyped,
       FrameTyped, ShieldExpiresTyped
  <1>3. ASSUME NEW p \in Peers, NEW q \in Peers, Deliver(p, q) PROVE SessionTypes'
    BY <1>3, DeliverTyped
  <1>4. CASE UNCHANGED vars
    BY <1>4 DEF vars, roomVars, echoVars, editVars, SessionTypes, RoomTyped,
                EditorTyped, BuffersTyped, CountsTyped
  <1> QED
    BY <1>1, <1>2, <1>3, <1>4 DEF Next

LEMMA SessionTyped == Spec => []SessionTypes
  BY TypesInit, TypesNext, PTL DEF Spec

(* What every page, note and buffer of the session holds is a page (plugin.ts, *)
(* debounced-adapter.ts, inbound-scheduler.ts), and each holds at most one.  *)
THEOREM SessionTypeCorrect == Spec => []TypeOK
  BY SessionTyped, TypesImplyTypeOK, PTL

-----------------------------------------------------------------------------
(* The baseline.  A page is what the root lists, and the cache knows only    *)
(* the nodes listed: as long as nobody seeded a room of their own beside    *)
(* this one, no node is in the tree without being listed.                  *)

OneRoot ==
  \A p, q \in Peers :
    root[p] # NoRoot /\ root[q] # NoRoot => root[p].path = root[q].path

Anchored(t, top, page) ==
  /\ DOMAIN ReadTree(t) \subseteq top.ids
  /\ top.path = << >> => top = NoRoot
  /\ page = ReadTree(t)

RoomIInv == SessionTypes /\ \A p \in Peers : Anchored(tree[p], root[p], local[p])

(* While no two replicas created the root apart, the page is all the tree    *)
(* holds, and what the root lists is what either replica listed.           *)
LEMMA PageIsRead ==
  ASSUME NEW t \in Tree, NEW top, DOMAIN ReadTree(t) \subseteq top.ids
  PROVE  Page(t, top) = ReadTree(t)
  <1> DEFINE doc == ReadTree(t)
  <1>1. doc = [n \in DOMAIN doc |-> doc[n]]
    BY ReadIsDocument, DocumentFacts
  <1>2. DOMAIN doc \cap top.ids = DOMAIN doc
    OBVIOUS
  <1>3. Page(t, top) = Restrict(doc, DOMAIN doc)
    BY <1>2 DEF Page, Listed
  <1> HIDE DEF doc
  <1>4. Page(t, top) = doc
    BY <1>1, <1>3 DEF Restrict
  <1> QED
    BY <1>4 DEF doc

(* The incremental read (live-ir.ts) is the full one.                        *)
LEMMA LiveIRIsRead ==
  ASSUME NEW before \in Tree, NEW after \in Tree
  PROVE  LiveIR(ReadTree(before), after, TouchedNodes(before, after)) = ReadTree(after)
  <1> DEFINE cached == ReadTree(before)
             page == ReadTree(after)
             touched == TouchedNodes(before, after)
             read == {n \in touched : Live(after[n])}
  <1>1. DOMAIN cached = {n \in Nodes : Live(before[n])}
    BY DEF ReadTree
  <1>2. DOMAIN page = {n \in Nodes : Live(after[n])}
    BY DEF ReadTree
  <1>3. (DOMAIN cached \ touched) \cup read = DOMAIN page
    BY <1>1, <1>2 DEF TouchedNodes
  <1>4. \A n \in DOMAIN page \ read : n \in DOMAIN cached /\ cached[n] = page[n]
    <2> TAKE n \in DOMAIN page \ read
    <2>1. n \in Nodes /\ after[n] = before[n]
      BY <1>2 DEF TouchedNodes
    <2>2. n \in DOMAIN cached
      BY <1>1, <1>2, <2>1
    <2>3. cached[n] = before[n].val.val /\ page[n] = after[n].val.val
      BY <2>2, <1>1, <1>2 DEF ReadTree
    <2> QED
      BY <2>1, <2>2, <2>3
  <1>5. page = [n \in DOMAIN page |-> page[n]]
    BY ReadIsDocument, DocumentFacts
  <1>6. LiveIR(cached, after, touched) =
          [n \in DOMAIN page |-> IF n \in read THEN page[n] ELSE cached[n]]
    BY <1>3 DEF LiveIR
  <1> HIDE DEF page, cached, touched, read
  <1>7. LiveIR(cached, after, touched) = page
    BY <1>4, <1>5, <1>6
  <1> QED
    BY <1>7 DEF page, cached, touched

LEMMA MergedLive ==
  ASSUME NEW t \in Tree, NEW u \in Tree
  PROVE  DOMAIN ReadTree(MergeTree(t, u)) \subseteq DOMAIN ReadTree(t) \cup DOMAIN ReadTree(u)
  <1>1. ASSUME NEW a \in Written \cup {Unset}, NEW b \in Written \cup {Unset},
               Live(MergeNested(a, b))
        PROVE  Live(a) \/ Live(b)
    <2>1. CASE a.path = b.path /\ a.path # << >>
      <3>1. a \in Written
        BY <2>1 DEF Unset
      <3>2. MergeNested(a, b).dead = (a.dead \/ b.dead)
        BY <2>1, <3>1 DEF MergeNested, Written
      <3> QED
        BY <1>1, <3>2 DEF Live
    <2>2. CASE a.path = b.path /\ a.path = << >>
      <3>1. a = Unset /\ b = Unset
        BY <2>2 DEF Written
      <3>2. MergeNested(a, b).dead
        BY <2>2, <3>1 DEF MergeNested, MergeKey, Unset
      <3> QED
        BY <1>1, <3>2 DEF Live
    <2>3. CASE a.path # b.path
      BY <1>1, <2>3 DEF MergeNested, MergeKey
    <2> QED
      BY <2>1, <2>2, <2>3
  <1> QED
    BY <1>1 DEF ReadTree, MergeTree, Tree

(* One creator at most: a replica without a root takes the other's.          *)
LEMMA EmptyPathLoses ==
  ASSUME NEW path \in Seq(Nat), path # << >>
  PROVE  After(path, << >>) /\ ~After(<< >>, path)
  <1>1. Len(path) \in Nat /\ Len(path) # 0 /\ Len(<< >>) = 0
    OBVIOUS
  <1>2. IsPrefix(<< >>, path)
    <2>1. SubSeq(<< >>, 1, 0) = << >> /\ SubSeq(path, 1, 0) = << >>
      OBVIOUS
    <2> QED
      BY <1>1, <2>1 DEF IsPrefix
  <1>3. ~IsPrefix(path, << >>)
    BY <1>1 DEF IsPrefix
  <1>4. DOMAIN << >> = {}
    OBVIOUS
  <1> QED
    BY <1>2, <1>3, <1>4 DEF After, IsStrictPrefix

LEMMA MergedRoot ==
  ASSUME NEW a \in RootMap, NEW b \in RootMap,
         a.path = << >> => a = NoRoot,
         b.path = << >> => b = NoRoot,
         a # NoRoot /\ b # NoRoot => a.path = b.path
  PROVE  LET top == MergeRoot(a, b)
         IN  /\ top.ids = a.ids \cup b.ids
             /\ top.path \in {a.path, b.path}
             /\ top.path = << >> => top = NoRoot
  <1>1. NoRoot.path = << >> /\ NoRoot.ids = {}
    BY DEF NoRoot
  <1>2. CASE a.path = b.path
    <2>1. MergeRoot(a, b) = [a EXCEPT !.ids = a.ids \cup b.ids]
      BY <1>2 DEF MergeRoot
    <2>2. MergeRoot(a, b).ids = a.ids \cup b.ids /\ MergeRoot(a, b).path = a.path
      BY <2>1 DEF RootMap
    <2>3. CASE a.path = << >>
      <3>1. a = NoRoot /\ b = NoRoot
        BY <1>2, <2>3
      <3>2. MergeRoot(a, b) = [path |-> << >>, ids |-> {}]
        BY <2>1, <3>1 DEF NoRoot
      <3> QED
        BY <2>2, <3>2 DEF NoRoot
    <2> QED
      BY <2>2, <2>3
  <1>3. CASE a.path # b.path /\ a = NoRoot
    <2>1. MergeRoot(a, b) = b
      BY <1>1, <1>3, EmptyPathLoses DEF MergeRoot, RootMap
    <2> QED
      BY <1>1, <1>3, <2>1
  <1>4. CASE a.path # b.path /\ b = NoRoot
    <2>1. MergeRoot(a, b) = a
      BY <1>1, <1>4, EmptyPathLoses DEF MergeRoot, RootMap
    <2> QED
      BY <1>1, <1>4, <2>1
  <1> QED
    BY <1>2, <1>3, <1>4

LEMMA RoomImpliesBaseline == RoomIInv => BaselineIsTree
  <1> SUFFICES ASSUME RoomIInv, NEW p \in Peers PROVE local[p] = Room(p)
    BY DEF BaselineIsTree
  <1>1. tree[p] \in Tree /\ Anchored(tree[p], root[p], local[p])
    BY DEF RoomIInv, SessionTypes, RoomTyped
  <1> QED
    BY <1>1, PageIsRead DEF Anchored, Room

LEMMA RoomInit == Init => RoomIInv
  <1> SUFFICES ASSUME Init, NEW p \in Peers
               PROVE  Anchored(tree[p], root[p], local[p])
    BY TypesInit DEF RoomIInv
  <1>1. PICK doc \in Document, draft \in [Late -> Drafts], fresh \in {FALSE, Fresh} :
          Starts(doc, draft, fresh)
    BY DEF Init
  <1>2. <<0>> # << >>
    OBVIOUS
  <1>3. CASE Joined(p, fresh)
    <2>1. /\ tree[p] = SeededTree(doc) /\ local[p] = doc
          /\ root[p] = [path |-> <<0>>, ids |-> DOMAIN doc]
      BY <1>1, <1>3 DEF Starts
    <2> QED
      BY <1>2, <2>1, SeededFacts DEF Anchored
  <1>4. CASE ~Joined(p, fresh)
    <2>1. tree[p] = SeededTree(Empty) /\ local[p] = Empty /\ root[p] = NoRoot
      BY <1>1, <1>4 DEF Starts
    <2>2. DOMAIN Empty = {}
      BY DEF Empty
    <2> QED
      BY <2>1, <2>2, EmptyIsDocument, SeededFacts DEF Anchored
  <1> QED
    BY <1>3, <1>4

(* adapter.save(): diffed against the page as it is, the page saved is what  *)
(* the tree then shows, and every node of it is listed.                    *)
LEMMA FlushAnchored ==
  ASSUME RoomIInv, NEW p \in Peers, Flush(p), NEW r \in Peers
  PROVE  Anchored(tree[r], root[r], local[r])'
  <1>1. PICK doc \in debounced[p] : Write(p, doc) /\ local' = [local EXCEPT ![p] = doc]
    BY DEF Flush
  <1>2. doc \in Document /\ p \in Nat
    BY ClientIds DEF RoomIInv, SessionTypes, BuffersTyped, AtMostOne
  <1>3. /\ tree \in [Peers -> Tree] /\ root \in [Peers -> RootMap]
        /\ local \in [Peers -> Document]
        /\ Anchored(tree[r], root[r], local[r]) /\ Anchored(tree[p], root[p], local[p])
    BY DEF RoomIInv, SessionTypes, RoomTyped
  <1>4. CASE r # p
    <2>1. tree'[r] = tree[r] /\ root'[r] = root[r] /\ local'[r] = local[r]
      BY <1>1, <1>3, <1>4 DEF Write
    <2> QED
      BY <1>3, <2>1 DEF Anchored
  <1>5. CASE r = p
    <2>1. /\ tree'[p] = ApplyDocument(tree[p], p, ReadTree(tree[p]), doc)
          /\ local'[p] = doc
      BY <1>1, <1>3 DEF Write, Anchored
    <2>2. ReadTree(tree'[p]) = doc
      BY <1>2, <1>3, <2>1, ApplyThenRead
    <2>3. DOMAIN doc \subseteq root'[p].ids /\ root'[p].path # << >>
      <3>1. CASE root[p] = NoRoot
        BY <1>1, <1>3, <3>1 DEF Write
      <3>2. CASE root[p] # NoRoot
        <4>1. /\ root'[p].path = root[p].path
              /\ root'[p].ids = root[p].ids \cup (DOMAIN doc \ DOMAIN local[p])
          BY <1>1, <1>3, <3>2 DEF Write
        <4> QED
          BY <1>3, <3>2, <4>1 DEF Anchored
      <3> QED
        BY <3>1, <3>2
    <2> QED
      BY <1>5, <2>1, <2>2, <2>3 DEF Anchored
  <1> QED
    BY <1>4, <1>5

(* A remote update: the observer reads the merged page, whole or not.        *)
LEMMA DeliverAnchored ==
  ASSUME RoomIInv, OneRoot, NEW p \in Peers, NEW q \in Peers, Deliver(p, q),
         NEW r \in Peers
  PROVE  Anchored(tree[r], root[r], local[r])'
  <1> DEFINE nodes == MergeTree(tree[p], tree[q])
             top == MergeRoot(root[p], root[q])
             touched == TouchedNodes(tree[p], nodes)
  <1>1. /\ tree \in [Peers -> Tree] /\ root \in [Peers -> RootMap]
        /\ local \in [Peers -> Document]
        /\ \A s \in Peers : Anchored(tree[s], root[s], local[s])
    BY DEF RoomIInv, SessionTypes, RoomTyped
  <1>2. tree' = [tree EXCEPT ![p] = nodes] /\ root' = [root EXCEPT ![p] = top]
    BY DEF Deliver
  <1>3. IF Observed(p, nodes, top) = {} THEN local' = local
        ELSE \E entry \in Observed(p, nodes, top) :
               local' = [local EXCEPT ![p] = entry.doc]
    BY DEF Deliver
  <1>4. CASE r # p
    <2>1. tree'[r] = tree[r] /\ root'[r] = root[r] /\ local'[r] = local[r]
      BY <1>1, <1>2, <1>3, <1>4
    <2> QED
      BY <1>1, <2>1 DEF Anchored
  <1>5. CASE r = p
    <2>1. nodes \in Tree
      BY <1>1, MergeIsTree
    <2>2. /\ top.ids = root[p].ids \cup root[q].ids
          /\ top.path = << >> => top = NoRoot
      BY <1>1, MergedRoot DEF Anchored, OneRoot
    <2>3. DOMAIN ReadTree(nodes) \subseteq top.ids
      BY <1>1, <2>2, MergedLive DEF Anchored
    <2>4. Page(nodes, top) = ReadTree(nodes)
      BY <2>1, <2>3, PageIsRead
    <2>5. LiveIR(local[p], nodes, touched) = ReadTree(nodes)
      BY <1>1, <2>1, LiveIRIsRead DEF Anchored
    <2>6. tree'[p] = nodes /\ root'[p] = top
      BY <1>1, <1>2
    <2> HIDE DEF nodes, top, touched
    <2>7. local'[p] = ReadTree(nodes)
      <3>1. CASE Observed(p, nodes, top) = {}
        <4>1. TouchedNodes(tree[p], nodes) = {}
          BY <3>1 DEF Observed
        <4>2. nodes = tree[p]
          BY <1>1, <2>1, <4>1 DEF TouchedNodes, Tree
        <4> QED
          BY <1>1, <1>3, <3>1, <4>2 DEF Anchored
      <3>2. CASE Observed(p, nodes, top) # {}
        <4>1. PICK entry \in Observed(p, nodes, top) :
                local' = [local EXCEPT ![p] = entry.doc]
          BY <1>3, <3>2
        <4>2. \/ entry.doc = Page(nodes, top)
              \/ entry.doc = Listed(LiveIR(local[p], nodes, touched), top)
          BY <4>1 DEF Observed, Whole, touched
        <4>3. entry.doc = ReadTree(nodes)
          BY <2>4, <2>5, <4>2 DEF Page
        <4> QED
          BY <1>1, <4>1, <4>3
      <3> QED
        BY <3>1, <3>2
    <2> QED
      BY <1>5, <2>2, <2>3, <2>6, <2>7 DEF Anchored
  <1> QED
    BY <1>4, <1>5

(* A new adapter reads its baseline from the tree.                           *)
LEMMA RemountAnchored ==
  ASSUME RoomIInv, NEW p \in Peers, Remount(p), NEW r \in Peers
  PROVE  Anchored(tree[r], root[r], local[r])'
  <1>1. /\ tree[p] \in Tree /\ local \in [Peers -> Document]
        /\ Anchored(tree[p], root[p], local[p]) /\ Anchored(tree[r], root[r], local[r])
    BY DEF RoomIInv, SessionTypes, RoomTyped
  <1>2. Room(p) = local[p]
    BY <1>1, PageIsRead DEF Anchored, Room
  <1>3. tree' = tree /\ root' = root /\ local' = [local EXCEPT ![p] = local[p]]
    BY <1>2 DEF Remount
  <1>4. local' = local
    BY <1>1, <1>3
  <1> QED
    BY <1>1, <1>3, <1>4 DEF Anchored

LEMMA RoomNext == RoomIInv /\ OneRoot /\ [Next]_vars => RoomIInv'
  <1> SUFFICES ASSUME RoomIInv, OneRoot, [Next]_vars PROVE RoomIInv'
    OBVIOUS
  <1>1. SessionTypes'
    BY TypesNext DEF RoomIInv
  <1>2. \A r \in Peers : Anchored(tree[r], root[r], local[r])'
    <2> SUFFICES ASSUME NEW r \in Peers PROVE Anchored(tree[r], root[r], local[r])'
      OBVIOUS
    <2>1. CASE UNCHANGED <<tree, root, local>>
      BY <2>1 DEF RoomIInv, Anchored
    <2>2. ASSUME NEW p \in Peers, User(p) PROVE UNCHANGED <<tree, root, local>>
      BY <2>2 DEF User, Put, Drop, Edited, roomVars
    <2>3. ASSUME NEW p \in Peers,
                 Report(p) \/ NoteExpires(p) \/ Hydrate(p) \/ Frame(p) \/ ShieldExpires(p)
          PROVE  UNCHANGED <<tree, root, local>>
      BY <2>3 DEF Report, NoteExpires, Hydrate, Frame, ShieldExpires, roomVars
    <2>4. CASE UNCHANGED vars
      BY <2>1, <2>4 DEF vars, roomVars
    <2> QED
      BY <2>1, <2>2, <2>3, <2>4, FlushAnchored, DeliverAnchored, RemountAnchored DEF Next
  <1> QED
    BY <1>1, <1>2 DEF RoomIInv

(* Whatever is in flight, a flush diffs against the page the tree shows      *)
(* (lastLocalIR in yjs-adapter.ts, kept by saves and by the observer), as   *)
(* long as no two users seeded the room apart.                             *)
THEOREM BaselineAnchored == Spec /\ []OneRoot => []BaselineIsTree
  BY RoomInit, RoomNext, RoomImpliesBaseline, PTL DEF Spec

-----------------------------------------------------------------------------
(* Watchers.  Nothing they show or buffer is theirs, and what they show      *)
(* differs from their baseline only where the buffered update says so.     *)
SameAt(a, b, n) == /\ n \in DOMAIN a <=> n \in DOMAIN b
                   /\ n \in DOMAIN a => a[n] = b[n]

NoSlots == \A n \in Nodes : ItemOf[n] = n

WatchersStay == \A p \in Peers : Grant[p] = {} => phase[p] = "ready"

(* The buffered update accounts for the page shown. *)
Covers(entry, shown, page) ==
  /\ entry.doc = page
  /\ entry.structural \/ \A n \in Nodes \ entry.ids : SameAt(shown, page, n)

Watching(p) ==
  /\ debounced[p] = {} /\ shadow[p] = {}
  /\ due[p] => p \in AsyncHosts /\ BagIn(editor[p], expected[p])
  /\ inbound[p] = {} => editor[p] = local[p]
  /\ \A entry \in inbound[p] : Covers(entry, editor[p], local[p])

WatchersIInv == \A p \in Peers : Grant[p] = {} => Watching(p)

LEMMA SamePages ==
  ASSUME NEW a \in Document, NEW b \in Document,
         \A n \in Nodes : SameAt(a, b, n)
  PROVE  a = b
  <1>1. DOMAIN a = DOMAIN b
    BY DocumentFacts DEF SameAt
  <1>2. \A n \in DOMAIN a : a[n] = b[n]
    BY DocumentFacts DEF SameAt
  <1> QED
    BY <1>1, <1>2, DocumentFacts

(* Items that are replaced make the page the new one if all that differs is  *)
(* among them.                                                             *)
LEMMA TakeAll ==
  ASSUME NoSlots, NEW shown \in Document, NEW doc \in Document, NEW items,
         \A n \in Nodes \ items : SameAt(shown, doc, n)
  PROVE  TakeItems(shown, doc, items) = doc
  <1> DEFINE page == TakeItems(shown, doc, items)
             ids == {m \in DOMAIN shown : ItemOf[m] \notin items}
                      \cup {m \in DOMAIN doc : ItemOf[m] \in items}
  <1>1. /\ DOMAIN shown \subseteq Nodes /\ DOMAIN doc \subseteq Nodes
        /\ doc = [n \in DOMAIN doc |-> doc[n]]
    BY DocumentFacts
  <1>2. \A n \in Nodes : ItemOf[n] = n
    BY DEF NoSlots
  <1>3. ids = DOMAIN doc
    BY <1>1, <1>2 DEF SameAt
  <1>4. page = [n \in DOMAIN doc |-> IF ItemOf[n] \in items THEN doc[n] ELSE shown[n]]
    BY <1>3 DEF TakeItems
  <1> HIDE DEF page
  <1>5. \A n \in DOMAIN doc : ItemOf[n] \notin items => shown[n] = doc[n]
    BY <1>1, <1>2 DEF SameAt
  <1>6. page = doc
    BY <1>1, <1>4, <1>5
  <1> QED
    BY <1>6 DEF page

LEMMA ItemsAreNodes ==
  ASSUME NoSlots, NEW doc \in Document PROVE Items(doc) = DOMAIN doc
  BY DocumentFacts DEF Items, NoSlots

(* Whatever the change set makes the projection and the planner skip, the    *)
(* page dispatched is the update's.                                        *)
LEMMA ProjectedIsPage ==
  ASSUME NoSlots, NEW shown \in Document, NEW doc \in Document, NEW ids,
         NEW scoped \in BOOLEAN,
         scoped => \A n \in Nodes \ ids : SameAt(shown, doc, n)
  PROVE  Projected(shown, doc, ids, scoped) = doc
  <1>1. CASE /\ scoped
             /\ ids \subseteq DOMAIN shown
             /\ \A n \in ids : ItemOf[n] \in DOMAIN doc
    <2> DEFINE items == {ItemOf[n] : n \in ids}
    <2>1. ids \subseteq Nodes
      BY <1>1, DocumentFacts
    <2>2. items = ids
      BY <2>1 DEF NoSlots
    <2>3. TakeItems(shown, doc, items) = doc
      BY <1>1, <2>2, TakeAll
    <2> QED
      BY <1>1, <2>3 DEF Projected
  <1>2. CASE ~ /\ scoped
               /\ ids \subseteq DOMAIN shown
               /\ \A n \in ids : ItemOf[n] \in DOMAIN doc
    BY <1>2 DEF Projected
  <1> QED
    BY <1>1, <1>2

LEMMA PlannedIsPage ==
  ASSUME NoSlots, NEW shown \in Document, NEW doc \in Document, NEW ids,
         NEW scoped \in BOOLEAN,
         scoped => \A n \in Nodes \ ids : SameAt(shown, doc, n)
  PROVE  Planned(shown, doc, ids, scoped) = doc
  <1>1. CASE Items(shown) = Items(doc)
    <2> DEFINE items == IF scoped THEN Items(doc) \cap ids ELSE Items(doc)
    <2>1. DOMAIN shown = DOMAIN doc /\ Items(doc) = DOMAIN doc
      BY <1>1, ItemsAreNodes
    <2>2. \A n \in Nodes \ items : SameAt(shown, doc, n)
      BY <2>1 DEF SameAt
    <2> HIDE DEF items
    <2>3. TakeItems(shown, doc, items) = doc
      BY <2>2, TakeAll
    <2> QED
      BY <1>1, <2>3 DEF Planned, items
  <1>2. CASE Items(shown) # Items(doc)
    BY <1>2 DEF Planned
  <1> QED
    BY <1>1, <1>2

LEMMA WatcherTypes ==
  ASSUME SessionTypes, NEW p \in Peers
  PROVE  /\ editor[p] \in Document /\ local[p] \in Document
         /\ due[p] \in BOOLEAN /\ IsBagOfPages(expected[p])
         /\ inbound[p] \in AtMostOne(Entry)
  BY DEF SessionTypes, RoomTyped, EditorTyped, BuffersTyped

(* The dispatch of an update that accounts for the page shown. *)
LEMMA DispatchShows ==
  ASSUME NoSlots, SessionTypes, NEW p \in Peers, shadow[p] = {},
         NEW entry \in Entry, Covers(entry, editor[p], local[p]),
         due[p] => p \in AsyncHosts /\ BagIn(editor[p], expected[p])
  PROVE  LET view == Dispatch(p, View(p), entry)
         IN  /\ view.page = local[p]
             /\ view.due => p \in AsyncHosts /\ BagIn(local[p], view.expected)
  <1> DEFINE scoped == ~entry.structural /\ ~entry.relink
             shielded == Shielded(shadow[p], dispatched[p], entry.doc)
             noted == expected[p] (+) SetToBag({local[p]})
  <1>1. /\ entry.doc = local[p] /\ scoped \in BOOLEAN
        /\ scoped => \A n \in Nodes \ entry.ids : SameAt(editor[p], local[p], n)
    BY DEF Covers, Entry
  <1>2. /\ editor[p] \in Document /\ local[p] \in Document
        /\ IsBagOfPages(expected[p])
    BY WatcherTypes
  <1>3. shielded = local[p]
    <2>1. shielded = [n \in DOMAIN entry.doc |-> entry.doc[n]]
      BY DEF Shielded
    <2> QED
      BY <1>1, <1>2, <2>1, DocumentFacts
  <1> HIDE DEF scoped, shielded
  <1>4. Projected(editor[p], shielded, entry.ids, scoped) = local[p]
    BY <1>1, <1>2, <1>3, ProjectedIsPage
  <1>5. Planned(editor[p], local[p], entry.ids, scoped) = local[p]
    BY <1>1, <1>2, PlannedIsPage
  <1>6. /\ View(p).page = editor[p] /\ View(p).last = dispatched[p]
        /\ View(p).expected = expected[p] /\ View(p).due = due[p]
    BY DEF View
  <1>7. Dispatch(p, View(p), entry) =
          [page |-> local[p], last |-> entry.doc,
           expected |-> IF Silent(p, editor[p], local[p]) THEN noted ELSE expected[p],
           due |-> due[p] \/ Silent(p, editor[p], local[p])]
    BY <1>4, <1>5, <1>6 DEF Dispatch, scoped, shielded
  <1>8. BagIn(local[p], noted)
    BY <1>2, NotedBag DEF BagIn, BagToSet
  <1> HIDE DEF noted
  <1>9. CASE Silent(p, editor[p], local[p])
    BY <1>7, <1>8, <1>9 DEF Silent
  <1>10. CASE ~Silent(p, editor[p], local[p])
    <2>1. due[p] => p \in AsyncHosts /\ local[p] = editor[p]
      BY <1>10 DEF Silent
    <2> DEFINE view == Dispatch(p, View(p), entry)
    <2>2. /\ view.page = local[p] /\ view.expected = expected[p]
          /\ view.due = (due[p] \/ Silent(p, editor[p], local[p]))
      BY <1>7, <1>10
    <2> HIDE DEF view
    <2>3. view.due => due[p]
      BY <1>10, <2>2
    <2>4. view.due => p \in AsyncHosts /\ BagIn(local[p], view.expected)
      BY <2>1, <2>2, <2>3
    <2> QED
      BY <2>2, <2>4 DEF view
  <1> QED
    BY <1>9, <1>10

(* What the observer hands on accounts for what it changed of the baseline.  *)
LEMMA ObservedCovers ==
  ASSUME RoomIInv, NEW p \in Peers, NEW nodes \in Tree, NEW top,
         NEW entry \in Observed(p, nodes, top), entry.doc = ReadTree(nodes)
  PROVE  Covers(entry, local[p], entry.doc)
  <1>1. local[p] = ReadTree(tree[p])
    BY DEF RoomIInv, Anchored
  <1>2. CASE entry.structural
    BY <1>2 DEF Covers
  <1>3. CASE ~entry.structural
    <2>1. TouchedNodes(tree[p], nodes) \subseteq entry.ids
      BY <1>3 DEF Observed, Whole
    <2>2. ASSUME NEW n \in Nodes \ entry.ids PROVE SameAt(local[p], entry.doc, n)
      <3>1. nodes[n] = tree[p][n]
        BY <2>1 DEF TouchedNodes
      <3> QED
        BY <1>1, <3>1 DEF ReadTree, SameAt
    <2> QED
      BY <2>2 DEF Covers
  <1> QED
    BY <1>2, <1>3

(* The change sets of coalesced updates account for both.                    *)
LEMMA CoalescedCovers ==
  ASSUME NEW buffer \in AtMostOne(Entry), NEW entry \in Entry, NEW shown, NEW page,
         buffer = {} => shown = page,
         \A e \in buffer : Covers(e, shown, page),
         Covers(entry, page, entry.doc)
  PROVE  \A e \in Coalesce(buffer, entry) : Covers(e, shown, entry.doc)
  <1>1. CASE buffer = {}
    BY <1>1 DEF Coalesce
  <1>2. CASE buffer # {}
    <2>1. PICK old \in Entry : buffer = {old}
      BY <1>2 DEF AtMostOne
    <2> DEFINE both == [doc        |-> entry.doc,
                        ids        |-> old.ids \cup entry.ids,
                        structural |-> old.structural \/ entry.structural,
                        relink     |-> FALSE]
    <2>2. Coalesce(buffer, entry) = {both}
      BY <2>1 DEF Coalesce
    <2>3. ASSUME ~both.structural, NEW n \in Nodes \ both.ids
          PROVE  SameAt(shown, entry.doc, n)
      <3>1. SameAt(shown, page, n)
        BY <2>1, <2>3 DEF Covers
      <3>2. SameAt(page, entry.doc, n)
        BY <2>3 DEF Covers
      <3> QED
        BY <3>1, <3>2 DEF SameAt
    <2>4. both.doc = entry.doc /\ both.structural \in BOOLEAN
      BY DEF Entry
    <2> HIDE DEF both
    <2>5. Covers(both, shown, entry.doc)
      BY <2>3, <2>4 DEF Covers
    <2> QED
      BY <2>2, <2>5
  <1> QED
    BY <1>1, <1>2

LEMMA WatchersInit == Init /\ WatchersStay => WatchersIInv
  <1> SUFFICES ASSUME Init, WatchersStay, NEW p \in Peers, Grant[p] = {}
               PROVE  Watching(p)
    BY DEF WatchersIInv
  <1>1. PICK doc \in Document, draft \in [Late -> Drafts], fresh \in {FALSE, Fresh} :
          Starts(doc, draft, fresh)
    BY DEF Init
  <1>2. phase[p] = "ready"
    BY DEF WatchersStay
  <1>3. Joined(p, fresh)
    BY <1>1, <1>2 DEF Starts
  <1>4. /\ debounced[p] = {} /\ shadow[p] = {} /\ due[p] = FALSE /\ inbound[p] = {}
        /\ editor[p] = doc /\ local[p] = doc
    BY <1>1, <1>3 DEF Starts, Joined
  <1> QED
    BY <1>4 DEF Watching

(* A step that leaves a watcher's plugin alone. *)
Untouched(p) ==
  /\ editor'[p] = editor[p] /\ local'[p] = local[p] /\ inbound'[p] = inbound[p]
  /\ debounced'[p] = debounced[p] /\ shadow'[p] = shadow[p]
  /\ due'[p] = due[p] /\ expected'[p] = expected[p]

LEMMA OthersStep ==
  ASSUME SessionTypes, NEW p \in Peers, NEW q \in Peers, q # p,
         \/ User(q) \/ Report(q) \/ NoteExpires(q) \/ Flush(q) \/ Hydrate(q)
         \/ Remount(q) \/ Frame(q) \/ ShieldExpires(q)
         \/ \E r \in Peers : Deliver(q, r)
  PROVE  Untouched(p)
  <1> USE DEF Untouched, SessionTypes, RoomTyped, EditorTyped, BuffersTyped
  <1>1. CASE User(q)
    BY <1>1 DEF User, Put, Drop, Edited, Intended, Debounce, roomVars
  <1>2. CASE Report(q) \/ NoteExpires(q)
    BY <1>2 DEF Report, NoteExpires, Intended, Debounce, roomVars
  <1>3. CASE Flush(q)
    BY <1>3 DEF Flush, BecomeReady, Show, echoVars
  <1>4. CASE Hydrate(q)
    BY <1>4 DEF Hydrate, BecomeReady, Show, Debounce, echoVars, roomVars
  <1>5. CASE Remount(q)
    BY <1>5 DEF Remount
  <1>6. CASE Frame(q) \/ ShieldExpires(q)
    BY <1>6 DEF Frame, ShieldExpires, Show, echoVars, roomVars
  <1>7. ASSUME NEW r \in Peers, Deliver(q, r) PROVE Untouched(p)
    BY <1>7 DEF Deliver, Enqueue, echoVars
  <1> QED
    BY <1>1, <1>2, <1>3, <1>4, <1>5, <1>6, <1>7

LEMMA FrameWatched ==
  ASSUME NoSlots, SessionTypes, NEW p \in Peers, Watching(p), Frame(p),
         phase[p] = "ready"
  PROVE  Watching(p)'
  <1> DEFINE view == Drained(p, View(p))
             entry == CHOOSE e \in inbound[p] : TRUE
  <1>1. entry \in Entry /\ Covers(entry, editor[p], local[p])
    <2>1. entry \in inbound[p]
      BY DEF Frame
    <2>2. inbound[p] \subseteq Entry
      BY WatcherTypes DEF AtMostOne
    <2> QED
      BY <2>1, <2>2 DEF Watching
  <1>2. Show(p, view)
    BY DEF Frame
  <1>3. view = Dispatch(p, View(p), entry)
    BY DEF Frame, Drained
  <1> HIDE DEF view, entry
  <1>4. /\ view.page = local[p]
        /\ view.due => p \in AsyncHosts /\ BagIn(local[p], view.expected)
    BY <1>1, <1>3, DispatchShows DEF Watching
  <1>5. /\ editor'[p] = view.page /\ expected'[p] = view.expected /\ due'[p] = view.due
    BY <1>2 DEF Show, SessionTypes, EditorTyped
  <1>6. /\ inbound'[p] = {} /\ local'[p] = local[p]
        /\ debounced'[p] = {} /\ shadow'[p] = {}
    BY DEF Frame, Watching, SessionTypes, BuffersTyped, roomVars
  <1> QED
    BY <1>4, <1>5, <1>6 DEF Watching

LEMMA DeliverWatched ==
  ASSUME RoomIInv, RoomIInv', NEW p \in Peers, NEW q \in Peers, Deliver(p, q),
         Watching(p)
  PROVE  Watching(p)'
  <1> DEFINE nodes == MergeTree(tree[p], tree[q])
             top == MergeRoot(root[p], root[q])
             seen == Observed(p, nodes, top)
  <1>1. /\ tree' = [tree EXCEPT ![p] = nodes]
        /\ IF seen = {} THEN UNCHANGED <<local, inbound>>
           ELSE \E entry \in seen :
                  /\ local' = [local EXCEPT ![p] = entry.doc]
                  /\ inbound' = [inbound EXCEPT ![p] = Coalesce(inbound[p], entry)]
    BY DEF Deliver, Enqueue
  <1>2. /\ editor' = editor /\ due' = due /\ expected' = expected
        /\ debounced' = debounced /\ shadow' = shadow
    BY DEF Deliver, echoVars
  <1>3. CASE seen = {}
    BY <1>1, <1>2, <1>3 DEF Watching
  <1>4. CASE seen # {}
    <2>1. PICK entry \in seen :
            /\ local' = [local EXCEPT ![p] = entry.doc]
            /\ inbound' = [inbound EXCEPT ![p] = Coalesce(inbound[p], entry)]
      BY <1>1, <1>4
    <2>2. /\ tree \in [Peers -> Tree] /\ local \in [Peers -> Document]
          /\ inbound \in [Peers -> AtMostOne(Entry)]
      BY DEF RoomIInv, SessionTypes, RoomTyped, BuffersTyped
    <2>3. nodes \in Tree
      BY <2>2, MergeIsTree
    <2>4. tree'[p] = nodes /\ local'[p] = entry.doc
          /\ inbound'[p] = Coalesce(inbound[p], entry)
      BY <1>1, <2>1, <2>2
    <2>5. local'[p] = ReadTree(tree'[p])
      BY DEF RoomIInv, Anchored
    <2>6. entry \in Entry
      BY <2>2, <2>3, ObservedIsEntry
    <2> HIDE DEF nodes, top
    <2>7. Covers(entry, local[p], entry.doc)
      BY <2>3, <2>4, <2>5, ObservedCovers DEF seen
    <2>8. \A e \in Coalesce(inbound[p], entry) : Covers(e, editor[p], entry.doc)
      BY <2>2, <2>6, <2>7, CoalescedCovers DEF Watching
    <2>9. Coalesce(inbound[p], entry) # {}
      BY DEF Coalesce
    <2> QED
      BY <1>2, <2>4, <2>8, <2>9 DEF Watching
  <1> QED
    BY <1>3, <1>4

LEMMA WatchersNext ==
  NoSlots /\ RoomIInv /\ RoomIInv' /\ WatchersStay /\ WatchersStay' /\ WatchersIInv
    /\ [Next]_vars => WatchersIInv'
  <1> SUFFICES ASSUME NoSlots, RoomIInv, RoomIInv', WatchersStay, WatchersStay',
                      WatchersIInv, [Next]_vars, NEW p \in Peers, Grant[p] = {}
               PROVE  Watching(p)'
    BY DEF WatchersIInv
  <1>1. SessionTypes /\ Watching(p) /\ phase[p] = "ready" /\ phase'[p] = "ready"
    BY DEF RoomIInv, WatchersIInv, WatchersStay
  <1>2. CASE Untouched(p)
    BY <1>1, <1>2 DEF Untouched, Watching
  <1>3. CASE UNCHANGED vars
    BY <1>2, <1>3 DEF vars, roomVars, echoVars, Untouched
  <1>4. CASE \E n \in Nodes : Drop(p, n) \/ \E c \in Contents : Put(p, n, c)
    BY <1>4 DEF Drop, Put
  <1>5. CASE Report(p)
    <2>1. due'[p] = FALSE /\ BagIn(editor[p], expected[p])
      BY <1>1, <1>5 DEF Report, Watching, SessionTypes, EditorTyped
    <2> QED
      BY <1>1, <1>5, <2>1 DEF Report, Watching, roomVars
  <1>6. CASE NoteExpires(p)
    BY <1>1, <1>6 DEF NoteExpires, Watching, roomVars
  <1>7. CASE Flush(p) \/ Hydrate(p) \/ ShieldExpires(p)
    BY <1>1, <1>7 DEF Flush, Hydrate, ShieldExpires, Watching
  <1>8. CASE Remount(p)
    BY <1>1, <1>8 DEF Remount, SessionTypes, BuffersTyped
  <1>9. CASE Frame(p)
    BY <1>1, <1>9, FrameWatched
  <1>10. ASSUME NEW q \in Peers, Deliver(p, q) PROVE Watching(p)'
    BY <1>1, <1>10, DeliverWatched
  <1> QED
    BY <1>1, <1>2, <1>3, <1>4, <1>5, <1>6, <1>7, <1>8, <1>9, <1>10, OthersStep
       DEF Next, User

LEMMA WatchersImply ==
  RoomIInv /\ WatchersStay /\ WatchersIInv => WatchersFollow /\ NoEcho
  BY RoomImpliesBaseline DEF WatchersIInv, Watching, WatchersFollow, NoEcho,
     BaselineIsTree

(* Users who stay in the room and only watch: as soon as nothing is buffered *)
(* they are shown the page of their replica (inbound-scheduler.ts, the       *)
(* projection and the planner in plugin.ts), for items without slots and a  *)
(* room nobody seeded apart.                                               *)
THEOREM WatchersShown ==
  ASSUME NoSlots
  PROVE  Spec /\ []OneRoot /\ []WatchersStay => []WatchersFollow
  BY RoomInit, RoomNext, WatchersInit, WatchersNext, WatchersImply, PTL DEF Spec

(* They save nothing: what a dispatch makes their host report, at once or    *)
(* late, is told from an edit (pendingRemoteData in plugin.ts).            *)
THEOREM WatchersSilent ==
  ASSUME NoSlots
  PROVE  Spec /\ []OneRoot /\ []WatchersStay => []NoEcho
  BY RoomInit, RoomNext, WatchersInit, WatchersNext, WatchersImply, PTL DEF Spec

-----------------------------------------------------------------------------
(* A room that exists, whose users are all in it and stay: the two           *)
(* hypotheses hold.                                                        *)
Settlers == Fresh = FALSE /\ Late = {}

SeededOnce == \A p \in Peers : root[p].path = <<0>>

LEMMA SeededInit == Settlers /\ Init => SeededOnce
  <1> SUFFICES ASSUME Settlers, Init PROVE SeededOnce
    OBVIOUS
  <1>1. PICK doc \in Document, draft \in [Late -> Drafts], fresh \in {FALSE, Fresh} :
          Starts(doc, draft, fresh)
    BY DEF Init
  <1>2. \A p \in Peers : Joined(p, fresh)
    BY DEF Settlers, Joined
  <1> QED
    BY <1>1, <1>2 DEF Starts, SeededOnce

LEMMA SeededNext == SessionTypes /\ SeededOnce /\ [Next]_vars => SeededOnce'
  <1> SUFFICES ASSUME SessionTypes, SeededOnce, [Next]_vars, NEW r \in Peers
               PROVE  root'[r].path = <<0>>
    BY DEF SeededOnce
  <1>1. root \in [Peers -> RootMap] /\ root[r].path = <<0>>
    BY DEF SessionTypes, RoomTyped, SeededOnce
  <1>2. CASE root' = root
    BY <1>1, <1>2
  <1>3. ASSUME NEW p \in Peers, Flush(p) PROVE root'[r].path = <<0>>
    <2>1. PICK doc \in debounced[p] : Write(p, doc)
      BY <1>3 DEF Flush
    <2>2. root[p] # NoRoot /\ root[p].path = <<0>>
      <3>1. <<0>> # << >>
        OBVIOUS
      <3> QED
        BY SMTT(30), <3>1 DEF SeededOnce, NoRoot
    <2>3. root' = [root EXCEPT ![p] =
                     [path |-> root[p].path,
                      ids  |-> root[p].ids \cup (DOMAIN doc \ DOMAIN local[p])]]
      BY <2>1, <2>2 DEF Write
    <2> QED
      BY <1>1, <2>2, <2>3
  <1>4. ASSUME NEW p \in Peers, NEW q \in Peers, Deliver(p, q)
        PROVE  root'[r].path = <<0>>
    <2>1. root' = [root EXCEPT ![p] = MergeRoot(root[p], root[q])]
      BY <1>4 DEF Deliver
    <2>2. root[p].path = <<0>> /\ root[q].path = <<0>> /\ root[p] \in RootMap
      BY <1>1 DEF SeededOnce
    <2>3. MergeRoot(root[p], root[q]) = [root[p] EXCEPT !.ids = root[p].ids \cup root[q].ids]
      BY <2>2 DEF MergeRoot
    <2>4. MergeRoot(root[p], root[q]).path = <<0>>
      BY <2>2, <2>3 DEF RootMap
    <2> QED
      BY <1>1, <2>1, <2>4
  <1>5. ASSUME NEW p \in Peers,
               \/ User(p) \/ Report(p) \/ NoteExpires(p) \/ Hydrate(p)
               \/ Remount(p) \/ Frame(p) \/ ShieldExpires(p)
        PROVE  root' = root
    BY <1>5 DEF User, Put, Drop, Edited, Report, NoteExpires, Hydrate, Remount, Frame,
                ShieldExpires, roomVars
  <1> QED
    BY <1>2, <1>3, <1>4, <1>5 DEF Next, vars, roomVars

LEMMA SettledIn ==
  ASSUME Settlers PROVE Spec => []OneRoot
  <1>1. SeededOnce => OneRoot
    BY DEF SeededOnce, OneRoot
  <1> QED
    BY <1>1, TypesInit, TypesNext, SeededInit, SeededNext, PTL DEF Spec

(* In a room that existed before its users came the baseline is the page of  *)
(* the tree: users never seed it apart.                                     *)
THEOREM BaselineKept ==
  ASSUME Settlers PROVE Spec => []BaselineIsTree
  BY SettledIn, BaselineAnchored, PTL

(* Nobody mounted again: everybody stays. *)
Everyone == \A p \in Peers : phase[p] = "ready"

LEMMA EveryoneInit == Settlers /\ Init => Everyone
  <1> SUFFICES ASSUME Settlers, Init PROVE Everyone
    OBVIOUS
  <1>1. PICK doc \in Document, draft \in [Late -> Drafts], fresh \in {FALSE, Fresh} :
          Starts(doc, draft, fresh)
    BY DEF Init
  <1>2. \A p \in Peers : Joined(p, fresh)
    BY DEF Settlers, Joined
  <1> QED
    BY <1>1, <1>2 DEF Starts, Everyone

LEMMA EveryoneNext ==
  MaxRemounts = 0 /\ SessionTypes /\ Everyone /\ [Next]_vars => Everyone'
  <1> SUFFICES ASSUME MaxRemounts = 0, SessionTypes, Everyone, [Next]_vars,
                      NEW r \in Peers
               PROVE  phase'[r] = "ready"
    BY DEF Everyone
  <1>1. /\ phase \in [Peers -> {"mounted", "seeding", "ready"}]
        /\ \A p \in Peers : phase[p] = "ready"
        /\ remounts = 0
    BY DEF Everyone, SessionTypes, BuffersTyped, CountsTyped
  <1>2. CASE phase' = phase
    BY <1>1, <1>2
  <1>3. ASSUME NEW p \in Peers, Hydrate(p) \/ Remount(p) PROVE FALSE
    BY <1>1, <1>3 DEF Hydrate, Remount
  <1>4. ASSUME NEW p \in Peers,
               \/ User(p) \/ Report(p) \/ NoteExpires(p) \/ Flush(p) \/ Frame(p)
               \/ ShieldExpires(p) \/ \E q \in Peers : Deliver(p, q)
        PROVE  phase' = phase
    <2>1. phase[p] = "ready"
      BY <1>1
    <2> QED
      BY <1>4, <2>1 DEF User, Put, Drop, Edited, Report, NoteExpires, Flush, Frame,
           ShieldExpires, Deliver
  <1> QED
    BY <1>2, <1>3, <1>4 DEF Next, vars

LEMMA EveryoneStays ==
  ASSUME Settlers, MaxRemounts = 0 PROVE Spec => []WatchersStay
  <1>1. Everyone => WatchersStay
    BY DEF Everyone, WatchersStay
  <1> QED
    BY <1>1, TypesInit, TypesNext, EveryoneInit, EveryoneNext, PTL DEF Spec

(* The instance of EditSessionWatch, of any size. *)
THEOREM WatchersNeverDisturb ==
  ASSUME NoSlots, Settlers, MaxRemounts = 0
  PROVE  Spec => [](WatchersFollow /\ NoEcho)
  BY SettledIn, EveryoneStays, WatchersShown, WatchersSilent, PTL

=============================================================================
