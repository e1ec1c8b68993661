------------------------- MODULE ConflictWindowProofs -------------------------
(***************************************************************************)
(* The conflict windows, for any users, nodes and contents and any number  *)
(* of saves.                                                               *)
(*                                                                         *)
(* The baseline needs no more than that the trees stay readable: every     *)
(* call ends with the page the tree shows.  That alarms are the user's own *)
(* needs Anchored: what the user has not changed since the window opened   *)
(* is in the anchor as it is on the page.  That a window is resolved once  *)
(* needs Credited: an open window has not been paid for yet.               *)
(***************************************************************************)
EXTENDS ConflictWindow, SharedTreeProofs

Trees == tree \in [Peers -> Tree]

Anchored ==
  \A p \in Peers : \A anchor \in base[p] : \A n \in DOMAIN local[p] \ mine[p] :
    n \in DOMAIN anchor /\ anchor[n] = local[p][n]

Credited == \A p \in Peers : credit[p] >= IF window[p] = "none" THEN 0 ELSE 1

ConflictIInv == Trees /\ TypeOK /\ BaselineIsTree /\ Anchored /\ Credited

(* What the invariant says of one user. *)
Sound(p) ==
  /\ tree[p] \in Tree
  /\ local[p] \in Document /\ local[p] = ReadTree(tree[p])
  /\ base[p] \in {{}} \cup {{doc} : doc \in Document}
  /\ window[p] \in {"none", "fresh", "stale"}
  /\ window[p] = "none" <=> base[p] = {}
  /\ alarm[p] \in SUBSET Nodes /\ mine[p] \in SUBSET Nodes
  /\ inflight[p] \in SUBSET Nodes
  /\ credit[p] \in Int
  /\ credit[p] >= IF window[p] = "none" THEN 0 ELSE 1
  /\ \A anchor \in base[p] : \A n \in DOMAIN local[p] \ mine[p] :
       n \in DOMAIN anchor /\ anchor[n] = local[p][n]

(* The variables are functions of the users. *)
Shape ==
  /\ tree = [p \in Peers |-> tree[p]] /\ local = [p \in Peers |-> local[p]]
  /\ base = [p \in Peers |-> base[p]] /\ window = [p \in Peers |-> window[p]]
  /\ alarm = [p \in Peers |-> alarm[p]] /\ mine = [p \in Peers |-> mine[p]]
  /\ inflight = [p \in Peers |-> inflight[p]]
  /\ credit = [p \in Peers |-> credit[p]]
  /\ saves \in 0 .. MaxSaves

LEMMA UserByUser == ConflictIInv <=> Shape /\ \A p \in Peers : Sound(p)
  <1>1. ConflictIInv => Shape
    BY DEF ConflictIInv, Trees, TypeOK, Shape
  <1>2. ConflictIInv => \A p \in Peers : Sound(p)
    BY DEF ConflictIInv, Trees, TypeOK, BaselineIsTree, Anchored, Credited, Sound
  <1>3. ASSUME Shape, \A p \in Peers : Sound(p) PROVE ConflictIInv
    <2>1. Trees /\ BaselineIsTree /\ Anchored /\ Credited
      BY <1>3 DEF Shape, Sound, Trees, BaselineIsTree, Anchored, Credited
    <2>2. local \in [Peers -> Document]
      BY <1>3 DEF Shape, Sound
    <2>3. base \in [Peers -> {{}} \cup {{doc} : doc \in Document}]
      BY <1>3 DEF Shape, Sound
    <2>4. window \in [Peers -> {"none", "fresh", "stale"}]
      BY <1>3 DEF Shape, Sound
    <2>5. /\ alarm \in [Peers -> SUBSET Nodes] /\ mine \in [Peers -> SUBSET Nodes]
          /\ inflight \in [Peers -> SUBSET Nodes]
      BY <1>3 DEF Shape, Sound
    <2>6. credit \in [Peers -> Int]
      BY <1>3 DEF Shape, Sound
    <2>7. \A p \in Peers : /\ ReadTree(tree[p]) \in Document
                           /\ window[p] = "none" <=> base[p] = {}
      BY <1>3 DEF Sound
    <2>8. TypeOK
      BY <1>3, <2>2, <2>3, <2>4, <2>5, <2>6, <2>7 DEF TypeOK, Shape
    <2> QED
      BY <2>1, <2>8 DEF ConflictIInv
  <1> QED
    BY <1>1, <1>2, <1>3

LEMMA UserByUserNext == (Shape /\ \A p \in Peers : Sound(p))' => ConflictIInv'
  BY UserByUser, PTL

LEMMA ConflictInit == Init => ConflictIInv
  <1> SUFFICES ASSUME Init PROVE ConflictIInv
    OBVIOUS
  <1>1. PICK doc \in Document :
          /\ tree = [p \in Peers |-> SeededTree(doc)]
          /\ local = [p \in Peers |-> doc]
    BY DEF Init
  <1>2. SeededTree(doc) \in Tree /\ ReadTree(SeededTree(doc)) = doc
    BY SeededFacts
  <1>3. Shape
    BY ConflictAssumption, <1>1 DEF Init, Shape
  <1>4. \A p \in Peers : Sound(p)
    BY <1>1, <1>2 DEF Init, Sound
  <1> QED
    BY <1>3, <1>4, UserByUser

-----------------------------------------------------------------------------
(* A step of one user leaves the others as they were. *)

Others(p) ==
  \A q \in Peers \ {p} :
    /\ tree'[q] = tree[q] /\ local'[q] = local[q] /\ base'[q] = base[q]
    /\ window'[q] = window[q] /\ alarm'[q] = alarm[q] /\ mine'[q] = mine[q]
    /\ inflight'[q] = inflight[q] /\ credit'[q] = credit[q]

LEMMA OneUser ==
  ASSUME ConflictIInv, NEW p \in Peers, Shape', Others(p), Sound(p)'
  PROVE  ConflictIInv'
  <1>1. \A q \in Peers : Sound(q)
    BY UserByUser
  <1>2. \A q \in Peers \ {p} : Sound(q)'
    BY <1>1 DEF Others, Sound
  <1>3. \A q \in Peers : Sound(q)'
    BY <1>2
  <1> QED
    BY <1>3, UserByUserNext

-----------------------------------------------------------------------------
(* The steps. *)

LEMMA ClientIds == \A p \in Peers : p \in Nat
  BY ConflictAssumption

(* A save, whatever document it is given. *)
LEMMA SaveStep ==
  ASSUME ConflictIInv, NEW p \in Peers, NEW doc \in Document, Save(p, doc)
  PROVE  ConflictIInv'
  <1>1. Shape /\ Sound(p)
    BY UserByUser
  <1>2. /\ tree' = [tree EXCEPT ![p] = ApplyDocument(tree[p], p, local[p], doc)]
        /\ local' = [local EXCEPT ![p] = doc]
        /\ mine' = [mine EXCEPT ![p] = @ \cup Changed(local[p], doc)]
        /\ inflight' = [inflight EXCEPT ![p] = @ \cup Changed(local[p], doc)]
        /\ UNCHANGED alarm
    BY DEF Save
  <1>3. \/ /\ window[p] = "none"
           /\ window' = [window EXCEPT ![p] = "fresh"]
           /\ base' = [base EXCEPT ![p] = {local[p]}]
           /\ credit' = [credit EXCEPT ![p] = @ + 1]
        \/ window[p] # "none" /\ UNCHANGED <<window, base, credit>>
    BY DEF Save, NoteLocalSave
  <1>4. saves' \in 0 .. MaxSaves
    BY <1>1, ConflictAssumption DEF Save, Shape
  <1>5. Shape'
    BY <1>1, <1>2, <1>3, <1>4 DEF Shape
  <1>6. Others(p)
    BY <1>1, <1>2, <1>3 DEF Others, Shape
  <1>7. tree'[p] \in Tree /\ local'[p] = doc /\ doc = ReadTree(tree'[p])
    <2>1. tree[p] \in Tree /\ local[p] = ReadTree(tree[p]) /\ p \in Nat
      BY <1>1, ClientIds DEF Sound
    <2>2. tree'[p] = ApplyDocument(tree[p], p, local[p], doc) /\ local'[p] = doc
      BY <1>1, <1>2 DEF Shape
    <2> QED
      BY <2>1, <2>2, ApplyIsTree, ApplyThenRead
  <1>8. Changed(local[p], doc) \in SUBSET Nodes
    BY DEF Changed, Document
  <1>9. /\ mine'[p] = mine[p] \cup Changed(local[p], doc)
        /\ inflight'[p] = inflight[p] \cup Changed(local[p], doc)
        /\ alarm'[p] = alarm[p]
    BY <1>1, <1>2 DEF Shape
  <1>10. CASE window[p] = "none"
    <2>1. /\ window'[p] = "fresh" /\ base'[p] = {local[p]}
          /\ credit'[p] = credit[p] + 1
      BY <1>1, <1>3, <1>10 DEF Shape
    <2>2. \A n \in DOMAIN doc \ mine'[p] : n \in DOMAIN local[p] /\ local[p][n] = doc[n]
      BY <1>9 DEF Changed
    <2>3. \A anchor \in base'[p] : \A n \in DOMAIN local'[p] \ mine'[p] :
            n \in DOMAIN anchor /\ anchor[n] = local'[p][n]
      BY <1>7, <2>1, <2>2
    <2>4. /\ base'[p] \in {{}} \cup {{d} : d \in Document} /\ base'[p] # {}
          /\ credit'[p] \in Int /\ credit'[p] >= 1
      BY <1>1, <1>10, <2>1 DEF Sound
    <2>5. Sound(p)'
      BY <1>1, <1>7, <1>8, <1>9, <2>1, <2>3, <2>4 DEF Sound
    <2> QED
      BY <1>5, <1>6, <2>5, OneUser
  <1>11. CASE window[p] # "none"
    <2>1. UNCHANGED <<window, base, credit>>
      BY <1>3, <1>11
    <2>2. \A anchor \in base[p] : \A n \in DOMAIN doc \ mine'[p] :
            n \in DOMAIN anchor /\ anchor[n] = doc[n]
      BY <1>1, <1>9 DEF Changed, Sound
    <2>3. Sound(p)'
      BY <1>1, <1>7, <1>8, <1>9, <2>1, <2>2 DEF Sound
    <2> QED
      BY <1>5, <1>6, <2>3, OneUser
  <1> QED
    BY <1>10, <1>11

LEMMA PutStep ==
  ASSUME ConflictIInv, NEW p \in Peers, NEW n \in Nodes, NEW c \in Contents,
         Put(p, n, c)
  PROVE  ConflictIInv'
  <1>1. local[p] \in Document
    BY UserByUser DEF Sound
  <1> QED
    BY <1>1, WithIsDocument, SaveStep DEF Put

LEMMA DropStep ==
  ASSUME ConflictIInv, NEW p \in Peers, NEW n \in Nodes, Drop(p, n)
  PROVE  ConflictIInv'
  <1>1. local[p] \in Document
    BY UserByUser DEF Sound
  <1> QED
    BY <1>1, RestrictIsDocument, SaveStep DEF Drop

LEMMA StaleStep ==
  ASSUME ConflictIInv, NEW p \in Peers, Stale(p) PROVE ConflictIInv'
  <1>1. Shape /\ Sound(p)
    BY UserByUser
  <1>2. Shape' /\ Others(p)
    BY <1>1 DEF Stale, Shape, Others
  <1>3. /\ window[p] = "fresh" /\ window'[p] = "stale" /\ inflight'[p] = {}
        /\ UNCHANGED <<tree, local, base, mine, alarm, credit>>
    BY <1>1 DEF Stale, Shape
  <1>4. Sound(p)'
    BY <1>1, <1>3 DEF Sound
  <1> QED
    BY <1>2, <1>4, OneUser

LEMMA SyncedStep ==
  ASSUME ConflictIInv, NEW p \in Peers, Synced(p) PROVE ConflictIInv'
  <1>1. Shape /\ Sound(p)
    BY UserByUser
  <1>2. Shape' /\ Others(p)
    BY <1>1 DEF Synced, CloseWindow, Shape, Others
  <1>3. /\ window'[p] = "none" /\ base'[p] = {} /\ mine'[p] = {}
        /\ inflight'[p] = {} /\ UNCHANGED <<tree, local, alarm, credit>>
    BY <1>1 DEF Synced, CloseWindow, Shape
  <1>4. credit[p] >= 0 /\ credit[p] \in Int
    BY <1>1 DEF Sound
  <1>5. Sound(p)'
    BY <1>1, <1>3, <1>4 DEF Sound
  <1> QED
    BY <1>2, <1>5, OneUser

LEMMA ResyncStep ==
  ASSUME ConflictIInv, NEW p \in Peers, ForceResync(p) PROVE ConflictIInv'
  <1>1. Shape /\ Sound(p)
    BY UserByUser
  <1>2. PICK doc \in Document :
          /\ tree' = [tree EXCEPT ![p] = ApplyDocument(tree[p], p, local[p], doc)]
          /\ local' = [local EXCEPT ![p] = doc]
    BY DEF ForceResync
  <1> DEFINE written == ApplyDocument(tree[p], p, local[p], doc)
  <1>3. written \in Tree /\ ReadTree(written) = doc
    <2>1. tree[p] \in Tree /\ local[p] = ReadTree(tree[p]) /\ p \in Nat
      BY <1>1, ClientIds DEF Sound
    <2> QED
      BY <2>1, ApplyIsTree, ApplyThenRead
  <1>4. tree' = [tree EXCEPT ![p] = written]
    BY <1>2
  <1> HIDE DEF written
  <1>5. saves' \in 0 .. MaxSaves
    BY <1>1, ConflictAssumption DEF ForceResync, Shape
  <1>6. Shape' /\ Others(p)
    BY <1>1, <1>2, <1>4, <1>5 DEF ForceResync, CloseWindow, Shape, Others
  <1>7. /\ tree'[p] = written /\ local'[p] = doc
        /\ window'[p] = "none" /\ base'[p] = {} /\ mine'[p] = {}
        /\ inflight'[p] = {} /\ UNCHANGED <<alarm, credit>>
    BY <1>1, <1>2, <1>4 DEF ForceResync, CloseWindow, Shape
  <1>8. credit[p] >= 0 /\ credit[p] \in Int /\ alarm[p] \in SUBSET Nodes
    BY <1>1 DEF Sound
  <1>9. Sound(p)'
    BY <1>3, <1>7, <1>8 DEF Sound
  <1> QED
    BY <1>6, <1>9, OneUser

(* What a resolver answers is a page. *)
LEMMA ResolutionsAreDocuments ==
  ASSUME NEW ours \in Document, NEW remote \in Document,
         NEW fields \in SUBSET (DOMAIN ours \cap DOMAIN remote)
  PROVE  Resolutions(ours, remote, fields) \subseteq Document
  <1>1. PICK present \in SUBSET Nodes : remote \in [present -> Contents]
    BY DEF Document
  <1>2. \A n \in DOMAIN ours : ours[n] \in Contents
    BY DEF Document
  <1>3. \A doc \in [present -> Contents] : doc \in Document
    BY DEF Document
  <1> DEFINE insisting == [n \in DOMAIN remote |->
                             IF n \in fields THEN ours[n] ELSE remote[n]]
  <1>4. insisting \in [present -> Contents]
    BY <1>1, <1>2
  <1>5. \A n \in DOMAIN remote, c \in Contents :
          [remote EXCEPT ![n] = c] \in [present -> Contents]
    BY <1>1
  <1>6. Resolutions(ours, remote, fields) =
          {remote} \cup {insisting}
            \cup {[remote EXCEPT ![n] = c] : n \in DOMAIN remote, c \in Contents}
    BY DEF Resolutions
  <1> HIDE DEF insisting
  <1> QED
    BY <1>3, <1>4, <1>5, <1>6

LEMMA FieldsFacts ==
  ASSUME NEW p \in Peers, NEW remote
  PROVE  Fields(p, remote) \subseteq DOMAIN local[p] \cap DOMAIN remote
  BY DEF Fields, ConflictFields

LEMMA DeliverStep ==
  ASSUME ConflictIInv, NEW p \in Peers, NEW q \in Peers, Deliver(p, q)
  PROVE  ConflictIInv'
  <1> DEFINE merged == MergeTree(tree[p], tree[q])
             remote == ReadTree(merged)
             fields == Fields(p, remote)
  <1>1. Shape /\ Sound(p) /\ Sound(q)
    BY UserByUser
  <1>2. merged \in Tree
    BY <1>1, MergeIsTree DEF Sound
  <1>3. remote \in Document
    BY <1>2, ReadIsDocument
  <1>4. fields \subseteq DOMAIN local[p] \cap DOMAIN remote
    BY FieldsFacts
  <1>5. fields \in SUBSET Nodes
    BY <1>1, <1>4 DEF Sound, Document
  <1>6. /\ alarm' = [alarm EXCEPT ![p] = fields] /\ UNCHANGED <<saves, inflight>>
        /\ \/ TakeOver(p, merged)
           \/ /\ window[p] = "fresh"
              /\ \E resolved \in Resolutions(local[p], remote, fields) :
                   WriteBack(p, merged, resolved)
    BY DEF Deliver, Fires, Fields
  <1> HIDE DEF merged, fields
  <1>7. CASE TakeOver(p, merged)
    <2>1. Shape' /\ Others(p)
      BY <1>1, <1>6, <1>7 DEF TakeOver, CloseWindow, Shape, Others
    <2>2. /\ tree'[p] = merged /\ local'[p] = remote /\ credit'[p] = credit[p]
          /\ window'[p] = "none" /\ base'[p] = {} /\ mine'[p] = {}
          /\ alarm'[p] = fields /\ inflight'[p] = inflight[p]
      BY <1>1, <1>6, <1>7 DEF TakeOver, CloseWindow, Shape
    <2>3. credit[p] >= 0 /\ credit[p] \in Int /\ inflight[p] \in SUBSET Nodes
      BY <1>1 DEF Sound
    <2>4. Sound(p)'
      BY <1>2, <1>3, <1>5, <2>2, <2>3 DEF Sound
    <2> QED
      BY <2>1, <2>4, OneUser
  <1>8. ASSUME window[p] = "fresh",
               NEW resolved \in Resolutions(local[p], remote, fields),
               WriteBack(p, merged, resolved)
        PROVE  ConflictIInv'
    <2>1. resolved \in Document
      BY <1>1, <1>3, <1>4, ResolutionsAreDocuments DEF Sound
    <2> DEFINE written == ApplyDocument(merged, p, remote, resolved)
    <2>2. written \in Tree /\ ReadTree(written) = resolved
      BY <1>2, <2>1, ApplyIsTree, ApplyThenRead, ClientIds
    <2>3. tree' = [tree EXCEPT ![p] = written]
      BY <1>8 DEF WriteBack
    <2> HIDE DEF written
    <2>4. Shape' /\ Others(p)
      BY <1>1, <1>6, <1>8, <2>3 DEF WriteBack, CloseWindow, Shape, Others
    <2>5. /\ tree'[p] = written /\ local'[p] = resolved
          /\ credit'[p] = credit[p] - 1
          /\ window'[p] = "none" /\ base'[p] = {} /\ mine'[p] = {}
          /\ alarm'[p] = fields /\ inflight'[p] = inflight[p]
      BY <1>1, <1>6, <1>8, <2>3 DEF WriteBack, CloseWindow, Shape
    <2>6. credit[p] >= 1 /\ credit[p] \in Int /\ inflight[p] \in SUBSET Nodes
      BY <1>1, <1>8 DEF Sound
    <2>7. Sound(p)'
      BY <1>5, <2>1, <2>2, <2>5, <2>6 DEF Sound
    <2> QED
      BY <2>4, <2>7, OneUser
  <1> QED
    BY <1>6, <1>7, <1>8

LEMMA ConflictNext == ConflictIInv /\ [Next]_vars => ConflictIInv'
  <1> SUFFICES ASSUME ConflictIInv, [Next]_vars PROVE ConflictIInv'
    OBVIOUS
  <1>1. ASSUME NEW p \in Peers, User(p) \/ Stale(p) \/ Synced(p) \/ ForceResync(p)
        PROVE  ConflictIInv'
    BY <1>1, PutStep, DropStep, StaleStep, SyncedStep, ResyncStep DEF User
  <1>2. ASSUME NEW p \in Peers, NEW q \in Peers, Deliver(p, q)
        PROVE  ConflictIInv'
    BY <1>2, DeliverStep
  <1>3. CASE UNCHANGED vars
    BY <1>3 DEF vars, ConflictIInv, Trees, TypeOK, BaselineIsTree, Anchored, Credited
  <1> QED
    BY <1>1, <1>2, <1>3 DEF Next

-----------------------------------------------------------------------------
LEMMA ConflictSafe == Spec => []ConflictIInv
  BY ConflictInit, ConflictNext, PTL DEF Spec

(* The detector's variables keep their types; an anchor is there exactly    *)
(* while a window is open.                                                 *)
THEOREM ConflictTypes == Spec => []TypeOK
  <1>1. ConflictIInv => TypeOK
    BY DEF ConflictIInv
  <1> QED
    BY <1>1, ConflictSafe, PTL

(* However the hosts answer conflicts, a save is diffed against the page    *)
(* the tree shows.                                                         *)
THEOREM WriteBacksKeepBaseline == Spec => []BaselineIsTree
  <1>1. ConflictIInv => BaselineIsTree
    BY DEF ConflictIInv
  <1> QED
    BY <1>1, ConflictSafe, PTL

(* No window is answered by a second write-back. *)
THEOREM ResolvedOnce == Spec => []OneWritebackPerWindow
  <1>1. ConflictIInv => OneWritebackPerWindow
    BY DEF ConflictIInv, TypeOK, Credited, OneWritebackPerWindow
  <1> QED
    BY <1>1, ConflictSafe, PTL

(* A node is reported only if this user changed it in the open window.      *)
THEOREM OwnAlarms == Spec => AlarmsAreOwn
  <1>1. ConflictIInv /\ [Next]_vars =>
          \A p \in Peers : alarm'[p] # alarm[p] => alarm'[p] \subseteq mine[p]
    <2> SUFFICES ASSUME ConflictIInv, [Next]_vars, NEW p \in Peers,
                        alarm'[p] # alarm[p]
                 PROVE  alarm'[p] \subseteq mine[p]
      OBVIOUS
    <2>1. PICK r \in Peers, q \in Peers : Deliver(r, q)
      BY ZenonT(40) DEF Next, User, Put, Drop, Save, Stale, Synced, ForceResync,
                      vars
    <2> DEFINE remote == ReadTree(MergeTree(tree[r], tree[q]))
    <2>2. alarm' = [alarm EXCEPT ![r] = Fields(r, remote)]
      BY <2>1 DEF Deliver
    <2> HIDE DEF remote
    <2>3. r = p /\ alarm'[p] = Fields(p, remote)
      BY <2>2 DEF ConflictIInv, TypeOK
    <2>4. CASE window[p] = "fresh"
      <3>1. PICK anchor : base[p] = {anchor}
        BY SMTT(30), <2>4 DEF ConflictIInv, TypeOK
      <3>2. ASSUME NEW n \in ConflictFields(base[p], local[p], remote)
            PROVE  n \in mine[p]
        BY <3>1, <3>2 DEF ConflictFields, ConflictIInv, Anchored
      <3> QED
        BY <2>3, <2>4, <3>2 DEF Fields
    <2>5. CASE window[p] # "fresh"
      BY <2>3, <2>5 DEF Fields
    <2> QED
      BY <2>4, <2>5
  <1>2. ConflictIInv /\ [Next]_vars =>
          [\A p \in Peers : alarm'[p] # alarm[p] => alarm'[p] \subseteq mine[p]]_vars
    BY <1>1
  <1> QED
    BY <1>2, ConflictSafe, PTL DEF Spec, AlarmsAreOwn
=============================================================================
