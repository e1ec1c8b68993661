--------------------------- MODULE SharedTreeProofs ---------------------------
(***************************************************************************)
(* What the encoding of a page in the native tree guarantees, for any      *)
(* nodes and contents: a tree stays readable through saves and merges, and *)
(* writing what differs from the page a tree shows makes it show the new   *)
(* page, whatever edits of whichever replicas the tree is made of.         *)
(***************************************************************************)
EXTENDS SharedTree, TLAPS

(* The value of a node, and the key of a node: created by somebody, or not. *)
Prop == [path : Seq(Nat), dead : BOOLEAN, val : Contents]

Written == [path : Seq(Nat) \ {<< >>}, dead : BOOLEAN, val : Prop]

Tree == [Nodes -> Written \cup {Unset}]

LEMMA LiveIsWritten ==
  ASSUME NEW node \in Written \cup {Unset}, Live(node) PROVE node \in Written
  BY DEF Live, Unset

LEMMA AppendNonEmpty ==
  ASSUME NEW path \in Seq(Nat), NEW client \in Nat
  PROVE  Append(path, client) \in Seq(Nat) \ {<< >>}
  <1>1. Append(path, client) \in Seq(Nat)
    OBVIOUS
  <1>2. Len(Append(path, client)) = Len(path) + 1 /\ Len(path) \in Nat
    OBVIOUS
  <1>3. Len(<< >>) = 0
    OBVIOUS
  <1> QED
    BY <1>1, <1>2, <1>3

LEMMA DocumentFacts ==
  ASSUME NEW doc \in Document
  PROVE  /\ DOMAIN doc \subseteq Nodes
         /\ \A n \in DOMAIN doc : doc[n] \in Contents
         /\ doc = [n \in DOMAIN doc |-> doc[n]]
  BY DEF Document

LEMMA IsDocument ==
  ASSUME NEW ids \in SUBSET Nodes, NEW doc \in [ids -> Contents]
  PROVE  doc \in Document
  BY DEF Document

LEMMA RestrictIsDocument ==
  ASSUME NEW doc \in Document, NEW ids, ids \subseteq DOMAIN doc
  PROVE  Restrict(doc, ids) \in Document
  <1>1. Restrict(doc, ids) \in [ids -> Contents] /\ ids \in SUBSET Nodes
    BY DocumentFacts DEF Restrict
  <1> QED
    BY <1>1, IsDocument

LEMMA WithIsDocument ==
  ASSUME NEW doc \in Document, NEW n \in Nodes, NEW content \in Contents
  PROVE  With(doc, n, content) \in Document
  <1>1. DOMAIN doc \cup {n} \in SUBSET Nodes
    BY DocumentFacts
  <1>2. With(doc, n, content) \in [DOMAIN doc \cup {n} -> Contents]
    BY DocumentFacts DEF With
  <1> QED
    BY <1>1, <1>2, IsDocument

LEMMA ReadIsDocument ==
  ASSUME NEW t \in Tree PROVE ReadTree(t) \in Document
  <1> DEFINE present == {m \in Nodes : Live(t[m])}
  <1>1. \A n \in present : t[n].val.val \in Contents
    BY LiveIsWritten DEF Tree, Written, Prop
  <1>2. ReadTree(t) \in [present -> Contents]
    BY <1>1 DEF ReadTree
  <1> QED
    BY <1>2 DEF Document

(* What writeNode leaves. *)
LEMMA WriteNodeFacts ==
  ASSUME NEW node \in Written \cup {Unset}, NEW client \in Nat,
         NEW content \in Contents
  PROVE  /\ WriteNode(node, client, content) \in Written
         /\ Live(WriteNode(node, client, content))
         /\ WriteNode(node, client, content).val.val = content
  <1>1. CASE Live(node)
    <2>1. node \in Written /\ node.val \in Prop
      BY <1>1, LiveIsWritten DEF Written
    <2> DEFINE set == SetKey(node.val, client, content)
    <2>2. set \in Prop /\ set.val = content
      BY <2>1, AppendNonEmpty DEF Prop, SetKey
    <2>3. WriteNode(node, client, content) = [node EXCEPT !.val = set]
      BY <1>1 DEF WriteNode
    <2> HIDE DEF set
    <2> QED
      BY <1>1, <2>1, <2>2, <2>3 DEF Live, Written
  <1>2. CASE ~Live(node)
    <2> DEFINE prop == SetKey(Unset, client, content)
    <2>1. << >> \in Seq(Nat) /\ node.path \in Seq(Nat)
      <3>1. << >> \in Seq(Nat)
        OBVIOUS
      <3>2. Unset.path = << >>
        BY DEF Unset
      <3>3. node \in Written => node.path \in Seq(Nat)
        BY DEF Written
      <3> QED
        BY <3>1, <3>2, <3>3
    <2>2. prop \in Prop /\ prop.val = content
      BY <2>1, AppendNonEmpty DEF Prop, SetKey, Unset
    <2>3. WriteNode(node, client, content) = SetKey(node, client, prop)
      BY <1>2 DEF WriteNode
    <2> HIDE DEF prop
    <2> QED
      BY <2>1, <2>2, <2>3, AppendNonEmpty DEF Live, Written, SetKey
  <1> QED
    BY <1>1, <1>2

LEMMA UnsetIsGone == DeleteKey(Unset) = Unset
  <1> DEFINE Only == [path : {<< >>}, dead : {TRUE}, val : {Nothing}]
  <1>1. Unset \in Only
    BY DEF Unset
  <1>2. \A r \in Only : [r EXCEPT !.dead = TRUE] = r
    OBVIOUS
  <1> QED
    BY <1>1, <1>2 DEF DeleteKey

LEMMA DeleteKeyFacts ==
  ASSUME NEW node \in Written \cup {Unset}
  PROVE  DeleteKey(node) \in Written \cup {Unset} /\ ~Live(DeleteKey(node))
  <1>1. CASE node \in Written
    BY <1>1 DEF DeleteKey, Live, Written
  <1>2. CASE node = Unset
    BY <1>2, UnsetIsGone DEF Live, Unset
  <1> QED
    BY <1>1, <1>2

(* Two replicas of a key merge to one that is readable. *)
LEMMA MergeIsNode ==
  ASSUME NEW a \in Written \cup {Unset}, NEW b \in Written \cup {Unset}
  PROVE  MergeNested(a, b) \in Written \cup {Unset}
  <1>1. CASE a.path = b.path /\ a.path # << >>
    <2>1. a \in Written /\ b \in Written
      BY <1>1 DEF Unset
    <2> DEFINE prop == MergeKey(a.val, b.val)
    <2>2. a.val \in Prop /\ b.val \in Prop
      BY <2>1 DEF Written
    <2>3. prop \in Prop
      <3>1. [a.val EXCEPT !.dead = a.val.dead \/ b.val.dead] \in Prop
        BY <2>2 DEF Prop
      <3> QED
        BY <2>2, <3>1 DEF MergeKey
    <2> HIDE DEF prop
    <2>4. [a EXCEPT !.dead = a.dead \/ b.dead, !.val = prop] \in Written
      BY <2>1, <2>3 DEF Written
    <2> QED
      BY <1>1, <2>4 DEF MergeNested, prop
  <1>2. CASE a.path = b.path /\ a.path = << >>
    <2>1. a = Unset /\ b = Unset
      BY <1>2 DEF Written
    <2> QED
      BY <1>2, <2>1 DEF MergeNested, MergeKey, Unset
  <1>3. CASE a.path # b.path
    BY <1>3 DEF MergeNested, MergeKey
  <1> QED
    BY <1>1, <1>2, <1>3

LEMMA MergeIsTree ==
  ASSUME NEW t \in Tree, NEW u \in Tree PROVE MergeTree(t, u) \in Tree
  BY MergeIsNode DEF MergeTree, Tree

LEMMA ApplyIsTree ==
  ASSUME NEW t \in Tree, NEW client \in Nat, NEW prev, NEW doc \in Document
  PROVE  ApplyDocument(t, client, prev, doc) \in Tree
  <1>1. \A n \in DOMAIN doc : doc[n] \in Contents
    BY DEF Document
  <1> QED
    BY <1>1, WriteNodeFacts, DeleteKeyFacts DEF ApplyDocument, Tree, Changed

(* Writing what differs from the page a tree shows makes it show the new    *)
(* page (applyChangedNodesToNativeTree, then readNativeTree).              *)
THEOREM ApplyThenRead ==
  ASSUME NEW t \in Tree, NEW client \in Nat, NEW doc \in Document
  PROVE  ReadTree(ApplyDocument(t, client, ReadTree(t), doc)) = doc
  <1> DEFINE prev == ReadTree(t)
             next == ApplyDocument(t, client, prev, doc)
  <1>1. PICK present \in SUBSET Nodes : doc \in [present -> Contents]
    BY DEF Document
  <1>2. DOMAIN prev = {m \in Nodes : Live(t[m])}
    BY DEF ReadTree
  <1>3. \A n \in Nodes :
          next[n] = IF n \in Changed(prev, doc) THEN WriteNode(t[n], client, doc[n])
                    ELSE IF n \in Removed(prev, doc) THEN DeleteKey(t[n])
                    ELSE t[n]
    BY DEF ApplyDocument
  <1> HIDE DEF next
  <1>4. \A n \in present : Live(next[n]) /\ next[n].val.val = doc[n]
    <2> TAKE n \in present
    <2>1. t[n] \in Written \cup {Unset} /\ doc[n] \in Contents
      BY <1>1 DEF Tree
    <2>2. CASE n \in Changed(prev, doc)
      BY <1>1, <1>3, <2>1, <2>2, WriteNodeFacts
    <2>3. CASE n \notin Changed(prev, doc)
      <3>1. n \in DOMAIN prev /\ prev[n] = doc[n] /\ n \notin Removed(prev, doc)
        BY <1>1, <2>3 DEF Changed, Removed
      <3>2. next[n] = t[n] /\ Live(t[n])
        BY <1>1, <1>2, <1>3, <2>3, <3>1
      <3>3. prev[n] = t[n].val.val
        BY <1>1, <3>2 DEF ReadTree
      <3> QED
        BY <3>1, <3>2, <3>3
    <2> QED
      BY <2>2, <2>3
  <1>5. \A n \in Nodes \ present : ~Live(next[n])
    <2> TAKE n \in Nodes \ present
    <2>1. t[n] \in Written \cup {Unset} /\ n \notin Changed(prev, doc)
      BY <1>1 DEF Tree, Changed
    <2>2. CASE n \in DOMAIN prev
      <3>1. n \in Removed(prev, doc)
        BY <1>1, <2>2 DEF Removed
      <3> QED
        BY <1>3, <2>1, <3>1, DeleteKeyFacts
    <2>3. CASE n \notin DOMAIN prev
      <3>1. ~Live(t[n]) /\ n \notin Removed(prev, doc)
        BY <1>2, <2>3 DEF Removed
      <3> QED
        BY <1>3, <2>1, <3>1
    <2> QED
      BY <2>2, <2>3
  <1>6. ReadTree(next) = [n \in present |-> next[n].val.val]
    <2>1. {m \in Nodes : Live(next[m])} = present
      BY <1>1, <1>4, <1>5
    <2> QED
      BY <2>1 DEF ReadTree
  <1>7. ReadTree(next) = doc
    BY <1>1, <1>4, <1>6
  <1> QED
    BY <1>7 DEF next

LEMMA SeededFacts ==
  ASSUME NEW doc \in Document
  PROVE  SeededTree(doc) \in Tree /\ ReadTree(SeededTree(doc)) = doc
  <1>1. PICK present \in SUBSET Nodes : doc \in [present -> Contents]
    BY DEF Document
  <1>2. \A n \in present : /\ WriteNode(Unset, 0, doc[n]) \in Written
                           /\ Live(WriteNode(Unset, 0, doc[n]))
                           /\ WriteNode(Unset, 0, doc[n]).val.val = doc[n]
    BY <1>1, WriteNodeFacts
  <1>3. SeededTree(doc) \in Tree
    BY <1>1, <1>2 DEF SeededTree, Tree
  <1>4. {m \in Nodes : Live(SeededTree(doc)[m])} = present
    BY <1>1, <1>2 DEF SeededTree, Live, Unset
  <1>5. ReadTree(SeededTree(doc)) = [n \in present |-> SeededTree(doc)[n].val.val]
    BY <1>4 DEF ReadTree
  <1>6. \A n \in present : SeededTree(doc)[n].val.val = doc[n]
    BY <1>1, <1>2 DEF SeededTree
  <1> QED
    BY <1>1, <1>3, <1>5, <1>6
-----------------------------------------------------------------------------
(* Replicas that have everything another has, in whichever order they are    *)
(* merged: what such a replica writes keeps it ahead.                      *)

Register(V) == [path : Seq(Nat), dead : BOOLEAN, val : V]

Follows(a, b) == After(a, b) /\ ~After(b, a)

Over(a, b) == MergeKey(a, b) = a /\ MergeKey(b, a) = a

OverNode(a, b) == MergeNested(a, b) = a /\ MergeNested(b, a) = a

OverTree(t, u) == MergeTree(t, u) = t /\ MergeTree(u, t) = t

SameUpto(a, b, n) == \A j \in 1 .. n : a[j] = b[j]

LEMMA SameHead ==
  ASSUME NEW a \in Seq(Nat), NEW b \in Seq(Nat), NEW n \in Nat,
         n <= Len(a), n <= Len(b)
  PROVE  SubSeq(a, 1, n) = SubSeq(b, 1, n) <=> SameUpto(a, b, n)
  <1>1. /\ Len(SubSeq(a, 1, n)) = n /\ \A j \in 1 .. n : SubSeq(a, 1, n)[j] = a[j]
        /\ Len(SubSeq(b, 1, n)) = n /\ \A j \in 1 .. n : SubSeq(b, 1, n)[j] = b[j]
        /\ SubSeq(a, 1, n) \in Seq(Nat) /\ SubSeq(b, 1, n) \in Seq(Nat)
    BY SMTT(30)
  <1>2. ASSUME SubSeq(a, 1, n) = SubSeq(b, 1, n) PROVE SameUpto(a, b, n)
    <2> SUFFICES ASSUME NEW j \in 1 .. n PROVE a[j] = b[j]
      BY DEF SameUpto
    <2> QED
      BY <1>1, <1>2
  <1>3. ASSUME SameUpto(a, b, n) PROVE SubSeq(a, 1, n) = SubSeq(b, 1, n)
    <2> DEFINE s == SubSeq(a, 1, n)
               t == SubSeq(b, 1, n)
    <2>1. /\ s \in Seq(Nat) /\ t \in Seq(Nat) /\ Len(s) = n /\ Len(t) = n
      BY <1>1
    <2>2. \A j \in 1 .. n : s[j] = t[j]
      BY <1>1, <1>3 DEF SameUpto
    <2> HIDE DEF s, t
    <2>3. s = t
      BY <2>1, <2>2
    <2> QED
      BY <2>3 DEF s, t
  <1> QED
    BY <1>2, <1>3

(* The order of items, position by position. *)
LEMMA AfterMeans ==
  ASSUME NEW a \in Seq(Nat), NEW b \in Seq(Nat)
  PROVE  After(a, b) <=>
           \/ Len(b) < Len(a) /\ SameUpto(a, b, Len(b))
           \/ \E i \in 1 .. Len(a) :
                i <= Len(b) /\ a[i] > b[i] /\ SameUpto(a, b, i - 1)
  <1>1. IsStrictPrefix(b, a) <=> Len(b) < Len(a) /\ SameUpto(a, b, Len(b))
    <2>1. IsPrefix(b, a) <=> Len(b) <= Len(a) /\ SameUpto(a, b, Len(b))
      BY SameHead DEF IsPrefix, SameUpto
    <2>2. ASSUME Len(b) = Len(a), SameUpto(a, b, Len(b)) PROVE a = b
      BY <2>2 DEF SameUpto
    <2> QED
      BY <2>1, <2>2 DEF IsStrictPrefix, SameUpto
  <1>2. ASSUME NEW i \in DOMAIN a \cap DOMAIN b
        PROVE  SubSeq(a, 1, i - 1) = SubSeq(b, 1, i - 1) <=> SameUpto(a, b, i - 1)
    <2>1. i - 1 \in Nat /\ i - 1 <= Len(a) /\ i - 1 <= Len(b)
      OBVIOUS
    <2> QED
      BY <2>1, SameHead
  <1>3. \A i : i \in DOMAIN a \cap DOMAIN b <=> i \in 1 .. Len(a) /\ i <= Len(b)
    OBVIOUS
  <1> QED
    BY <1>1, <1>2, <1>3 DEF After

LEMMA AppendFollows ==
  ASSUME NEW a \in Seq(Nat), NEW b \in Seq(Nat), NEW c \in Nat,
         a = b \/ Follows(a, b)
  PROVE  Follows(Append(a, c), b)
  <1> DEFINE longer == Append(a, c)
  <1>1. /\ longer \in Seq(Nat) /\ Len(longer) = Len(a) + 1
        /\ \A j \in 1 .. Len(a) : longer[j] = a[j]
        /\ Len(a) \in Nat /\ Len(b) \in Nat
    OBVIOUS
  <1> HIDE DEF longer
  <1>2. CASE a = b
    <2>1. After(longer, b)
      <3>1. Len(b) < Len(longer) /\ SameUpto(longer, b, Len(b))
        BY <1>1, <1>2 DEF SameUpto
      <3> QED
        BY <1>1, <3>1, AfterMeans
    <2>2. ~After(b, longer)
      BY SMTT(30), <1>1, <1>2, AfterMeans DEF SameUpto
    <2> QED
      BY <2>1, <2>2 DEF Follows, longer
  <1>3. CASE Follows(a, b)
    <2>1. After(a, b) /\ ~After(b, a)
      BY <1>3 DEF Follows
    <2>2. After(longer, b)
      <3>1. CASE Len(b) < Len(a) /\ SameUpto(a, b, Len(b))
        <4>1. ASSUME NEW j \in 1 .. Len(b) PROVE longer[j] = b[j]
          <5>1. j \in 1 .. Len(a) /\ a[j] = b[j]
            BY <1>1, <3>1 DEF SameUpto
          <5> QED
            BY <1>1, <5>1
        <4>2. Len(b) < Len(longer) /\ SameUpto(longer, b, Len(b))
          BY <1>1, <3>1, <4>1 DEF SameUpto
        <4> QED
          BY <1>1, <4>2, AfterMeans
      <3>2. ASSUME NEW i \in 1 .. Len(a), i <= Len(b), a[i] > b[i], SameUpto(a, b, i - 1)
            PROVE  After(longer, b)
        <4>1. /\ i \in 1 .. Len(longer) /\ longer[i] > b[i]
              /\ SameUpto(longer, b, i - 1)
          BY <1>1, <3>2 DEF SameUpto
        <4> QED
          BY <1>1, <3>2, <4>1, AfterMeans
      <3> QED
        BY <2>1, <3>1, <3>2, AfterMeans
    <2>3. ASSUME After(b, longer) PROVE FALSE
      <3>1. CASE Len(longer) < Len(b) /\ SameUpto(b, longer, Len(longer))
        <4>1. Len(a) < Len(b) /\ SameUpto(b, a, Len(a))
          BY SMTT(30), <1>1, <3>1 DEF SameUpto
        <4> QED
          BY <2>1, <4>1, AfterMeans
      <3>2. ASSUME NEW i \in 1 .. Len(b), i <= Len(longer), b[i] > longer[i],
                   SameUpto(b, longer, i - 1)
            PROVE  FALSE
        <4>1. CASE i <= Len(a)
          BY SMTT(30), <1>1, <2>1, <3>2, <4>1, AfterMeans DEF SameUpto
        <4>2. CASE i = Len(a) + 1
          <5>1. Len(a) < Len(b) /\ SameUpto(b, a, Len(a))
            BY <1>1, <3>2, <4>2 DEF SameUpto
          <5> QED
            BY <2>1, <5>1, AfterMeans
        <4> QED
          BY <1>1, <3>2, <4>1, <4>2
      <3> QED
        BY <1>1, <2>3, <3>1, <3>2, AfterMeans
    <2> QED
      BY <2>2, <2>3 DEF Follows, longer
  <1> QED
    BY <1>2, <1>3

LEMMA OverMeans ==
  ASSUME NEW V, NEW a \in Register(V), NEW b \in Register(V)
  PROVE  Over(a, b) <=>
           \/ a.path = b.path /\ a.val = b.val /\ (b.dead => a.dead)
           \/ a.path # b.path /\ Follows(a.path, b.path)
  <1>1. CASE a.path = b.path
    <2>1. /\ MergeKey(a, b) = [a EXCEPT !.dead = a.dead \/ b.dead]
          /\ MergeKey(b, a) = [b EXCEPT !.dead = b.dead \/ a.dead]
      BY <1>1 DEF MergeKey
    <2> QED
      BY <1>1, <2>1 DEF Over, Register
  <1>2. CASE a.path # b.path
    BY <1>2 DEF Over, MergeKey, Follows
  <1> QED
    BY <1>1, <1>2

LEMMA OverSelf ==
  ASSUME NEW V, NEW a \in Register(V) PROVE Over(a, a)
  BY OverMeans

LEMMA OverSet ==
  ASSUME NEW V, NEW a \in Register(V), NEW b \in Register(V), Over(a, b),
         NEW c \in Nat, NEW v \in V
  PROVE  SetKey(a, c, v) \in Register(V) /\ Over(SetKey(a, c, v), b)
  <1> DEFINE set == SetKey(a, c, v)
  <1>1. a.path \in Seq(Nat) /\ b.path \in Seq(Nat)
    BY DEF Register
  <1>2. a.path = b.path \/ Follows(a.path, b.path)
    BY OverMeans
  <1>3. set \in Register(V) /\ set.path = Append(a.path, c)
    BY <1>1, AppendNonEmpty DEF SetKey, Register
  <1>4. Follows(Append(a.path, c), b.path)
    BY <1>1, <1>2, AppendFollows
  <1>5. Append(a.path, c) # b.path
    BY <1>4 DEF Follows
  <1> HIDE DEF set
  <1>6. Over(set, b)
    BY <1>3, <1>4, <1>5, OverMeans
  <1> QED
    BY <1>3, <1>6 DEF set

LEMMA OverDelete ==
  ASSUME NEW V, NEW a \in Register(V), NEW b \in Register(V), Over(a, b)
  PROVE  DeleteKey(a) \in Register(V) /\ Over(DeleteKey(a), b)
  <1> DEFINE gone == DeleteKey(a)
  <1>1. /\ gone \in Register(V) /\ gone.path = a.path /\ gone.val = a.val
        /\ gone.dead = TRUE
    BY DEF DeleteKey, Register
  <1> HIDE DEF gone
  <1>2. Over(gone, b)
    BY <1>1, OverMeans
  <1> QED
    BY <1>1, <1>2 DEF gone

LEMMA NodePaths ==
  ASSUME NEW a \in Written \cup {Unset}
  PROVE  a.path \in Seq(Nat) /\ (a.path = << >> <=> a = Unset)
  <1>1. << >> \in Seq(Nat) /\ Unset.path = << >>
    <2>1. << >> \in Seq(Nat)
      OBVIOUS
    <2> QED
      BY <2>1 DEF Unset
  <1>2. a \in Written => a.path \in Seq(Nat) /\ a.path # << >>
    BY DEF Written
  <1> QED
    BY <1>1, <1>2

Rewritten(a, d, v) == [a EXCEPT !.dead = d, !.val = v]

LEMMA EntriesSet ==
  ASSUME NEW a \in Written, NEW b \in Written, a.path = b.path,
         NEW d \in BOOLEAN, NEW v \in Prop
  PROVE  Rewritten(a, d, v) = b <=> d = b.dead /\ v = b.val
  <1> DEFINE set == Rewritten(a, d, v)
  <1>1. set \in Written /\ set.path = a.path /\ set.dead = d /\ set.val = v
    BY DEF Written, Rewritten
  <1>2. \A r \in Written : r = [path |-> r.path, dead |-> r.dead, val |-> r.val]
    BY DEF Written
  <1> HIDE DEF set
  <1>3. set = b => set.dead = b.dead /\ set.val = b.val
    OBVIOUS
  <1>4. d = b.dead /\ v = b.val => set = b
    BY <1>1, <1>2
  <1> QED
    BY <1>1, <1>3, <1>4 DEF set

LEMMA OverNodeMeans ==
  ASSUME NEW a \in Written \cup {Unset}, NEW b \in Written \cup {Unset}
  PROVE  OverNode(a, b) <=>
           \/ /\ a.path = b.path /\ a.path # << >>
              /\ Over(a.val, b.val) /\ (b.dead => a.dead)
           \/ a = Unset /\ b = Unset
           \/ a.path # b.path /\ Follows(a.path, b.path)
  <1>1. CASE a.path = b.path /\ a.path # << >>
    <2>1. a \in Written /\ b \in Written /\ a # Unset
      BY <1>1, NodePaths
    <2> DEFINE dead == a.dead \/ b.dead
               back == b.dead \/ a.dead
               mine == MergeKey(a.val, b.val)
               theirs == MergeKey(b.val, a.val)
    <2>2. /\ MergeNested(a, b) = [a EXCEPT !.dead = dead, !.val = mine]
          /\ MergeNested(b, a) = [b EXCEPT !.dead = back, !.val = theirs]
      BY <1>1 DEF MergeNested
    <2>3. /\ a.dead \in BOOLEAN /\ b.dead \in BOOLEAN
          /\ (dead = a.dead <=> (b.dead => a.dead))
          /\ (back = a.dead <=> (b.dead => a.dead))
          /\ dead \in BOOLEAN /\ back \in BOOLEAN
      BY <2>1 DEF Written
    <2>8. mine \in Prop /\ theirs \in Prop
      BY <2>1 DEF Written, Prop, MergeKey
    <2> HIDE DEF dead, back, mine, theirs
    <2>4. MergeNested(a, b) = a <=> dead = a.dead /\ mine = a.val
      <3>1. Rewritten(a, dead, mine) = a
              <=> dead = a.dead /\ mine = a.val
        BY <2>1, <2>3, <2>8, EntriesSet
      <3> QED
        BY <2>2, <3>1 DEF Rewritten
    <2>5. MergeNested(b, a) = a <=> back = a.dead /\ theirs = a.val
      <3>1. Rewritten(b, back, theirs) = a
              <=> back = a.dead /\ theirs = a.val
        BY <1>1, <2>1, <2>3, <2>8, EntriesSet
      <3> QED
        BY <2>2, <3>1 DEF Rewritten
    <2>6. Over(a.val, b.val) <=> mine = a.val /\ theirs = a.val
      BY DEF Over, mine, theirs
    <2>7. OverNode(a, b) <=> Over(a.val, b.val) /\ (b.dead => a.dead)
      BY <2>3, <2>4, <2>5, <2>6 DEF OverNode
    <2> QED
      BY <1>1, <2>1, <2>7
  <1>2. CASE a.path = b.path /\ a.path = << >>
    <2>1. a = Unset /\ b = Unset
      BY <1>2, NodePaths
    <2>2. MergeNested(a, b) = a /\ MergeNested(b, a) = a
      BY <1>2, <2>1 DEF MergeNested, MergeKey, Unset
    <2> QED
      BY <2>1, <2>2 DEF OverNode
  <1>3. CASE a.path # b.path
    BY <1>3 DEF OverNode, MergeNested, MergeKey, Follows
  <1> QED
    BY <1>1, <1>2, <1>3

LEMMA OverNodeSelf ==
  ASSUME NEW a \in Written \cup {Unset} PROVE OverNode(a, a)
  <1>1. CASE a = Unset
    BY <1>1, OverNodeMeans
  <1>2. CASE a \in Written
    <2>1. a.path # << >> /\ a.val \in Register(Contents)
      BY <1>2 DEF Written, Prop, Register
    <2> QED
      BY <2>1, OverSelf, OverNodeMeans
  <1> QED
    BY <1>1, <1>2

LEMMA OverNodeWrite ==
  ASSUME NEW a \in Written \cup {Unset}, NEW b \in Written \cup {Unset}, OverNode(a, b),
         NEW client \in Nat, NEW content \in Contents
  PROVE  OverNode(WriteNode(a, client, content), b)
  <1> DEFINE new == WriteNode(a, client, content)
  <1>1. new \in Written
    BY WriteNodeFacts
  <1>2. CASE Live(a)
    <2>1. a \in Written /\ a # Unset /\ a.path # << >>
      BY <1>2, LiveIsWritten, NodePaths DEF Live, Unset
    <2> DEFINE set == SetKey(a.val, client, content)
    <2>2. new = [a EXCEPT !.val = set]
      BY <1>2 DEF WriteNode
    <2>3. new.path = a.path /\ new.dead = a.dead /\ new.val = set
      BY <2>1, <2>2 DEF Written
    <2>4. CASE a.path = b.path
      <3>1. Over(a.val, b.val) /\ (b.dead => a.dead)
        BY <2>1, <2>4, OverNodeMeans
      <3>2. a.val \in Register(Contents) /\ b.val \in Register(Contents)
        <4>1. b \in Written
          BY <2>1, <2>4, NodePaths
        <4> QED
          BY <2>1, <4>1 DEF Written, Prop, Register
      <3>3. Over(set, b.val)
        BY <3>1, <3>2, OverSet
      <3> HIDE DEF set, new
      <3>4. OverNode(new, b)
        BY <1>1, <2>1, <2>3, <2>4, <3>1, <3>3, OverNodeMeans
      <3> QED
        BY <3>4 DEF new
    <2>5. CASE a.path # b.path
      <3>1. Follows(a.path, b.path)
        BY <2>1, <2>5, OverNodeMeans
      <3> HIDE DEF set, new
      <3>2. OverNode(new, b)
        BY <1>1, <2>3, <2>5, <3>1, OverNodeMeans
      <3> QED
        BY <3>2 DEF new
    <2> QED
      BY <2>4, <2>5
  <1>3. CASE ~Live(a)
    <2>1. new.path = Append(a.path, client)
      BY <1>3 DEF WriteNode, SetKey
    <2>2. a.path \in Seq(Nat) /\ b.path \in Seq(Nat)
      BY NodePaths
    <2>3. a.path = b.path \/ Follows(a.path, b.path)
      BY OverNodeMeans
    <2>4. Follows(Append(a.path, client), b.path)
      BY <2>2, <2>3, AppendFollows
    <2>5. Append(a.path, client) # b.path
      BY <2>4 DEF Follows
    <2> HIDE DEF new
    <2>6. OverNode(new, b)
      BY <1>1, <2>1, <2>4, <2>5, OverNodeMeans
    <2> QED
      BY <2>6 DEF new
  <1> QED
    BY <1>2, <1>3

LEMMA OverNodeDelete ==
  ASSUME NEW a \in Written \cup {Unset}, NEW b \in Written \cup {Unset}, OverNode(a, b)
  PROVE  OverNode(DeleteKey(a), b)
  <1> DEFINE gone == DeleteKey(a)
  <1>1. gone \in Written \cup {Unset} /\ gone.dead = TRUE
    BY DeleteKeyFacts DEF DeleteKey, Written, Unset
  <1>2. CASE a = Unset
    <2>1. gone = Unset
      BY <1>2, UnsetIsGone
    <2> QED
      BY <1>2, <2>1
  <1>3. CASE a \in Written
    <2>1. gone.path = a.path /\ gone.val = a.val /\ a # Unset
      BY <1>3, NodePaths DEF DeleteKey, Written
    <2> HIDE DEF gone
    <2>2. OverNode(gone, b)
      BY <1>1, <2>1, OverNodeMeans
    <2> QED
      BY <2>2 DEF gone
  <1> QED
    BY <1>2, <1>3

LEMMA OverTreeMeans ==
  ASSUME NEW t \in Tree, NEW u \in Tree
  PROVE  OverTree(t, u) <=> \A n \in Nodes : OverNode(t[n], u[n])
  <1>1. /\ t = [n \in Nodes |-> t[n]]
        /\ MergeTree(t, u) = [n \in Nodes |-> MergeNested(t[n], u[n])]
        /\ MergeTree(u, t) = [n \in Nodes |-> MergeNested(u[n], t[n])]
    BY DEF MergeTree, Tree
  <1>2. MergeTree(t, u) = t <=> \A n \in Nodes : MergeNested(t[n], u[n]) = t[n]
    BY <1>1
  <1>3. MergeTree(u, t) = t <=> \A n \in Nodes : MergeNested(u[n], t[n]) = t[n]
    BY <1>1
  <1> QED
    BY <1>2, <1>3 DEF OverTree, OverNode

LEMMA OverTreeSelf ==
  ASSUME NEW t \in Tree PROVE OverTree(t, t)
  BY OverTreeMeans, OverNodeSelf DEF Tree

(* A save keeps a replica ahead of those it was ahead of. *)
LEMMA ApplyOver ==
  ASSUME NEW t \in Tree, NEW u \in Tree, OverTree(t, u),
         NEW client \in Nat, NEW prev, NEW doc \in Document
  PROVE  OverTree(ApplyDocument(t, client, prev, doc), u)
  <1> DEFINE next == ApplyDocument(t, client, prev, doc)
  <1>1. next \in Tree
    BY ApplyIsTree
  <1>2. \A n \in DOMAIN doc : doc[n] \in Contents
    BY DocumentFacts
  <1>3. ASSUME NEW n \in Nodes PROVE OverNode(next[n], u[n])
    <2>1. /\ t[n] \in Written \cup {Unset} /\ u[n] \in Written \cup {Unset}
          /\ OverNode(t[n], u[n])
      BY OverTreeMeans DEF Tree
    <2>2. CASE n \in Changed(prev, doc)
      <3>1. doc[n] \in Contents
        BY <1>2, <2>2 DEF Changed
      <3>2. next[n] = WriteNode(t[n], client, doc[n])
        BY <2>2 DEF ApplyDocument
      <3> QED
        BY <2>1, <3>1, <3>2, OverNodeWrite
    <2>3. CASE n \notin Changed(prev, doc) /\ n \in Removed(prev, doc)
      <3>1. next[n] = DeleteKey(t[n])
        BY <2>3 DEF ApplyDocument
      <3> QED
        BY <2>1, <3>1, OverNodeDelete
    <2>4. CASE n \notin Changed(prev, doc) /\ n \notin Removed(prev, doc)
      <3>1. next[n] = t[n]
        BY <2>4 DEF ApplyDocument
      <3> QED
        BY <2>1, <3>1
    <2> QED
      BY <2>2, <2>3, <2>4
  <1> HIDE DEF next
  <1>4. OverTree(next, u)
    BY <1>1, <1>3, OverTreeMeans
  <1> QED
    BY <1>4 DEF next

=============================================================================
