------------------------- MODULE SnapshotChainProofs -------------------------
(***************************************************************************)
(* The snapshot history, for any peers, nodes, contents, ceiling, spacing  *)
(* of keyframes and number of saves.                                       *)
(***************************************************************************)
EXTENDS SnapshotChain, SharedTreeProofs, WellFoundedInduction, FiniteSetTheorems

-----------------------------------------------------------------------------
(* Sets of ids have a first and, being bounded, a last member. *)

LEMMA LeastOf ==
  ASSUME NEW S \in SUBSET Nat, S # {}
  PROVE  \E least \in S : \A j \in S : least <= j
  <1> DEFINE below == OpToRel(<, Nat)
  <1>1. below = {ss \in Nat \X Nat : ss[1] < ss[2]}
    BY DEF OpToRel
  <1>2. IsWellFoundedOn(below, Nat)
    BY NatLessThanWellFounded
  <1> HIDE DEF below
  <1>3. PICK x \in S : \A y \in S : ~(<<y, x>> \in below)
    BY <1>2, WFMin
  <1>4. \A y \in S : ~(y < x)
    BY <1>1, <1>3
  <1> QED
    BY <1>4

LEMMA FirstOf ==
  ASSUME NEW S \in SUBSET Nat, S # {}
  PROVE  Min(S) \in S /\ \A j \in S : Min(S) <= j
  BY LeastOf DEF Min

LEMMA LastOf ==
  ASSUME NEW S \in SUBSET Ids, S # {}
  PROVE  Max(S) \in S /\ \A j \in S : j <= Max(S)
  <1> DEFINE rest == {m \in Nat : \E i \in S : m = MaxSaves - i}
  <1>1. \A i \in S : i \in Nat /\ MaxSaves - i \in Nat
    BY ChainAssumption DEF Ids
  <1>2. rest # {}
    BY <1>1
  <1>3. PICK least \in rest : \A m \in rest : least <= m
    BY <1>2, LeastOf
  <1>4. PICK last \in S : least = MaxSaves - last
    OBVIOUS
  <1>5. \A j \in S : j <= last
    BY <1>1, <1>3, <1>4, ChainAssumption
  <1> QED
    BY <1>1, <1>5 DEF Max

-----------------------------------------------------------------------------
(* What the chain rebuilds to: the recursion has a solution when every delta *)
(* is based on an older snapshot.                                          *)

Body(records, doc, i) ==
  LET payload == records[i].payload.val
  IN  IF ~Live(records[i].payload) THEN {}
      ELSE IF payload.kind = "full" THEN {payload.doc}
      ELSE UNION {Replay(base, payload) : base \in doc[payload.base]}

WellBased(records) ==
  \A i \in Ids :
    /\ Live(records[i].payload) /\ records[i].payload.val.kind # "full"
    => records[i].payload.val.base \in 1 .. (i - 1)

LEMMA BodyIsLocal ==
  ASSUME NEW records, WellBased(records), NEW i \in Ids, NEW f, NEW g,
         \A j \in 1 .. (i - 1) : f[j] = g[j]
  PROVE  Body(records, f, i) = Body(records, g, i)
  BY DEF Body, WellBased

LEMMA RebuiltExists ==
  ASSUME NEW records, WellBased(records)
  PROVE  \E doc : doc = [i \in Ids |-> Body(records, doc, i)]
  <1> DEFINE Upto(n) == \E doc : doc = [i \in 1 .. n |-> Body(records, doc, i)]
             stuck == {n \in Nat : n <= MaxSaves /\ ~Upto(n)}
  <1>1. stuck = {}
    <2> SUFFICES ASSUME stuck # {} PROVE FALSE
      OBVIOUS
    <2>1. PICK n \in stuck : \A m \in stuck : n <= m
      BY LeastOf
    <2>2. n \in Nat /\ n <= MaxSaves /\ ~Upto(n)
      BY <2>1
    <2>3. CASE n = 0
      <3>1. \A doc : [i \in 1 .. 0 |-> Body(records, doc, i)] = << >>
        OBVIOUS
      <3> QED
        BY <2>2, <2>3, <3>1
    <2>4. CASE n # 0
      <3>1. Upto(n - 1)
        BY <2>1, <2>2, <2>4, ChainAssumption
      <3>2. PICK f : f = [i \in 1 .. (n - 1) |-> Body(records, f, i)]
        BY <3>1
      <3> DEFINE g == [i \in 1 .. n |-> IF i = n THEN Body(records, f, n) ELSE f[i]]
      <3>3. \A i \in 1 .. (n - 1) : g[i] = f[i] /\ f[i] = Body(records, f, i)
        BY <2>2, <3>2
      <3>4. g[n] = Body(records, f, n)
        BY <2>2, <2>4
      <3>5. g = [i \in 1 .. n |-> g[i]]
        OBVIOUS
      <3> HIDE DEF g
      <3>6. \A i \in 1 .. n : g[i] = Body(records, g, i)
        <4> TAKE i \in 1 .. n
        <4>1. i \in Ids /\ \A j \in 1 .. (i - 1) : g[j] = f[j]
          BY <2>2, <3>3, ChainAssumption DEF Ids
        <4>2. Body(records, g, i) = Body(records, f, i)
          BY <4>1, BodyIsLocal
        <4> QED
          BY <2>2, <3>3, <3>4, <4>2
      <3>7. g = [i \in 1 .. n |-> Body(records, g, i)]
        BY <3>5, <3>6
      <3> QED
        BY <2>2, <3>7
    <2> QED
      BY <2>3, <2>4
  <1>2. Upto(MaxSaves)
    BY <1>1, ChainAssumption
  <1> QED
    BY <1>2 DEF Ids

(* reconstructPayload, one step of it. *)
LEMMA RebuiltUnfolds ==
  ASSUME NEW records, WellBased(records), NEW i \in Ids
  PROVE  Rebuilt(records)[i] = Body(records, Rebuilt(records), i)
  <1> DEFINE doc == Rebuilt(records)
  <1>1. doc = CHOOSE f : f = [j \in Ids |-> Body(records, f, j)]
    BY DEF Rebuilt, Body
  <1> HIDE DEF doc
  <1>2. doc = [j \in Ids |-> Body(records, doc, j)]
    BY <1>1, RebuiltExists
  <1>3. doc[i] = Body(records, doc, i)
    BY <1>2
  <1> QED
    BY <1>3 DEF doc
-----------------------------------------------------------------------------
(* What keys and records hold. *)

KeyOf(V) == [path : Seq(Nat) \ {<< >>}, dead : BOOLEAN, val : V] \cup {Unset}

Keyframes == [kind : {"full"}, doc : Document]

Deltas(i) == [kind    : {"delta"},
              base    : 1 .. (i - 1),
              changed : Document,
              removed : SUBSET Nodes,
              relinks : BOOLEAN,
              kids    : SUBSET Nodes]

Payloads(i) == Keyframes \cup Deltas(i)

Record(i) == [payload : KeyOf(Payloads(i)), meta : KeyOf({"meta"})]

AreRecords(records) ==
  /\ records = [i \in Ids |-> records[i]]
  /\ \A i \in Ids : records[i] \in Record(i)

LEMMA LiveKey ==
  ASSUME NEW V, NEW key \in KeyOf(V), Live(key)
  PROVE  key \in [path : Seq(Nat) \ {<< >>}, dead : BOOLEAN, val : V]
  BY DEF KeyOf, Live, Unset

LEMMA UnsetIsKey ==
  ASSUME NEW V
  PROVE  Unset \in KeyOf(V) /\ ~Live(Unset) /\ [Unset EXCEPT !.dead = TRUE] = Unset
  <1> DEFINE Only == [path : {<< >>}, dead : {TRUE}, val : {Nothing}]
  <1>1. Unset \in Only
    BY DEF Unset
  <1>2. \A r \in Only : [r EXCEPT !.dead = TRUE] = r
    OBVIOUS
  <1> QED
    BY <1>1, <1>2 DEF KeyOf, Live

LEMMA SetKeyFacts ==
  ASSUME NEW V, NEW W, NEW key \in KeyOf(W), NEW p \in Nat, NEW v \in V
  PROVE  /\ SetKey(key, p, v) \in KeyOf(V)
         /\ Live(SetKey(key, p, v)) /\ SetKey(key, p, v).val = v
  <1>1. key.path \in Seq(Nat)
    <2>1. << >> \in Seq(Nat)
      OBVIOUS
    <2>2. Unset.path = << >>
      BY DEF Unset
    <2>3. key # Unset => key.path \in Seq(Nat)
      BY DEF KeyOf
    <2> QED
      BY <2>1, <2>2, <2>3
  <1>2. Append(key.path, p) \in Seq(Nat) \ {<< >>}
    BY <1>1, AppendNonEmpty
  <1> QED
    BY <1>2 DEF SetKey, KeyOf, Live

LEMMA ForgetKeyFacts ==
  ASSUME NEW V, NEW key \in KeyOf(V)
  PROVE  DeleteKey(key) \in KeyOf(V) /\ ~Live(DeleteKey(key))
  <1>1. CASE key = Unset
    BY <1>1, UnsetIsKey DEF DeleteKey
  <1>2. CASE key # Unset
    BY <1>2 DEF DeleteKey, KeyOf, Live
  <1> QED
    BY <1>1, <1>2

LEMMA MergeKeyFacts ==
  ASSUME NEW V, NEW a \in KeyOf(V), NEW b \in KeyOf(V)
  PROVE  /\ MergeKey(a, b) \in KeyOf(V)
         /\ Live(MergeKey(a, b)) => Live(a) \/ Live(b)
  <1>1. CASE a.path # b.path
    BY <1>1 DEF MergeKey
  <1>2. CASE a.path = b.path /\ a = Unset
    <2>1. b = Unset
      BY <1>2 DEF KeyOf, Unset
    <2>2. MergeKey(a, b) = [Unset EXCEPT !.dead = Unset.dead \/ Unset.dead]
      BY <1>2, <2>1 DEF MergeKey
    <2>3. Unset.dead = TRUE
      BY DEF Unset
    <2> QED
      BY <2>2, <2>3, UnsetIsKey
  <1>3. CASE a.path = b.path /\ a # Unset
    <2>1. MergeKey(a, b) = [a EXCEPT !.dead = a.dead \/ b.dead]
      BY <1>3 DEF MergeKey
    <2>2. b # Unset
      BY <1>3 DEF KeyOf, Unset
    <2> QED
      BY <1>3, <2>1, <2>2 DEF KeyOf, Live
  <1> QED
    BY <1>1, <1>2, <1>3

LEMMA RecordsWellBased ==
  ASSUME NEW records, AreRecords(records) PROVE WellBased(records)
  <1> SUFFICES ASSUME NEW i \in Ids, Live(records[i].payload),
                      records[i].payload.val.kind # "full"
               PROVE  records[i].payload.val.base \in 1 .. (i - 1)
    BY DEF WellBased
  <1>1. records[i].payload.val \in Payloads(i)
    BY LiveKey DEF AreRecords, Record
  <1> QED
    BY <1>1 DEF Payloads, Keyframes, Deltas

LEMMA OverlayIsDocument ==
  ASSUME NEW over \in Document, NEW base \in Document
  PROVE  Overlay(over, base) \in Document
  <1>1. DOMAIN over \cup DOMAIN base \in SUBSET Nodes
    BY DocumentFacts
  <1>2. Overlay(over, base) \in [DOMAIN over \cup DOMAIN base -> Contents]
    BY DocumentFacts DEF Overlay
  <1> QED
    BY <1>1, <1>2, IsDocument

LEMMA ReplayTyped ==
  ASSUME NEW base \in Document, NEW i, NEW delta \in Deltas(i)
  PROVE  Replay(base, delta) \subseteq Document
  <1> DEFINE rest == Restrict(base, DOMAIN base \ delta.removed)
             own == Overlay(delta.changed, rest)
             kids == IF delta.relinks THEN delta.kids ELSE DOMAIN base
  <1>1. rest \in Document /\ delta.changed \in Document
    BY RestrictIsDocument DEF Deltas
  <1>2. own \in Document
    BY <1>1, OverlayIsDocument
  <1> HIDE DEF own, kids
  <1>3. kids \subseteq DOMAIN own => Restrict(own, kids) \in Document
    BY <1>2, RestrictIsDocument
  <1> QED
    BY <1>3 DEF Replay, own, kids

LEMMA RebuiltTyped ==
  ASSUME NEW records, AreRecords(records)
  PROVE  \A i \in Ids : Rebuilt(records)[i] \subseteq Document
  <1> DEFINE doc == Rebuilt(records)
             strange == {i \in Ids : ~(doc[i] \subseteq Document)}
  <1> HIDE DEF doc
  <1>1. strange = {}
    <2> SUFFICES ASSUME strange # {} PROVE FALSE
      OBVIOUS
    <2>1. strange \in SUBSET Nat
      BY DEF Ids
    <2> DEFINE i == CHOOSE least \in strange : \A j \in strange : least <= j
    <2>2. i \in strange /\ \A j \in strange : i <= j
      BY <2>1, LeastOf
    <2> HIDE DEF i
    <2> DEFINE payload == records[i].payload.val
    <2>3. i \in Ids /\ \A j \in 1 .. (i - 1) : doc[j] \subseteq Document
      BY <2>2, ChainAssumption DEF Ids
    <2>4. doc[i] = Body(records, doc, i)
      BY <2>3, RecordsWellBased, RebuiltUnfolds DEF doc
    <2>5. CASE ~Live(records[i].payload)
      BY <2>2, <2>4, <2>5 DEF Body
    <2>6. CASE Live(records[i].payload) /\ payload \in Keyframes
      BY <2>2, <2>4, <2>6 DEF Body, Keyframes
    <2>7. CASE Live(records[i].payload) /\ payload \in Deltas(i)
      <3>1. payload.kind = "delta" /\ payload.base \in 1 .. (i - 1)
        BY <2>7 DEF Deltas
      <3>2. doc[i] = UNION {Replay(base, payload) : base \in doc[payload.base]}
        BY <2>4, <2>7, <3>1 DEF Body
      <3>3. \A base \in doc[payload.base] : Replay(base, payload) \subseteq Document
        BY <2>3, <2>7, <3>1, ReplayTyped
      <3> QED
        BY <2>2, <3>2, <3>3
    <2>8. Live(records[i].payload) => payload \in Payloads(i)
      BY <2>3, LiveKey DEF AreRecords, Record
    <2> QED
      BY <2>5, <2>6, <2>7, <2>8 DEF Payloads
  <1> QED
    BY <1>1 DEF doc

LEMMA ForgetTyped ==
  ASSUME NEW i, NEW record \in Record(i)
  PROVE  Forget(record) \in Record(i) /\ ~Live(Forget(record).meta)
  BY ForgetKeyFacts DEF Forget, Record

(* Retention keeps the records in order and lists no more than before.       *)
LEMMA EvictTyped ==
  ASSUME NEW records, AreRecords(records), NEW p \in Peers
  PROVE  AreRecords(Evict(records, p)) /\ Listed(Evict(records, p)) \subseteq Listed(records)
  <1> DEFINE victims == Victims(records)
             first == Min(Listed(records) \ victims)
             whole == Rebuilt(records)[first]
             rerooted == /\ victims # {} /\ whole # {}
                         /\ records[first].payload.val.kind = "delta"
                         /\ records[first].payload.val.base \in victims
             promoted == [records[first] EXCEPT
                            !.payload = SetKey(records[first].payload, p,
                                               Keyframe(CHOOSE d \in whole : TRUE))]
             after == Evict(records, p)
  <1>1. after = [i \in Ids |-> IF i \in victims THEN Forget(records[i])
                               ELSE IF i = first /\ rerooted THEN promoted
                               ELSE records[i]]
    BY DEF Evict
  <1>2. p \in Nat
    BY ChainAssumption
  <1>3. ASSUME NEW i \in Ids PROVE after[i] \in Record(i)
    <2>1. records[i] \in Record(i)
      BY DEF AreRecords
    <2>2. CASE i \in victims
      BY <1>1, <2>1, <2>2, ForgetTyped
    <2>3. CASE i \notin victims /\ i = first /\ rerooted
      <3> DEFINE d == CHOOSE d \in whole : TRUE
      <3>1. d \in Document
        BY <2>3, RebuiltTyped
      <3>2. Keyframe(d) \in Payloads(i)
        BY <3>1 DEF Keyframe, Payloads, Keyframes
      <3>3. SetKey(records[i].payload, p, Keyframe(d)) \in KeyOf(Payloads(i))
        BY <1>2, <2>1, <3>2, SetKeyFacts DEF Record
      <3> HIDE DEF d
      <3>4. [records[i] EXCEPT !.payload = SetKey(records[i].payload, p, Keyframe(d))] \in Record(i)
        BY <2>1, <3>3 DEF Record
      <3> QED
        BY <1>1, <2>3, <3>4 DEF d
    <2>4. CASE i \notin victims /\ ~(i = first /\ rerooted)
      <3> HIDE DEF victims, first, rerooted, promoted, after
      <3> QED
        BY <1>1, <2>1, <2>4
    <2> QED
      BY <2>2, <2>3, <2>4
  <1>4. ASSUME NEW i \in Ids, Live(after[i].meta) PROVE Live(records[i].meta)
    <2>1. records[i] \in Record(i)
      BY DEF AreRecords
    <2>2. i \in victims => ~Live(after[i].meta)
      BY <1>1, <2>1, ForgetTyped
    <2>3. promoted.meta = records[first].meta \/ first \notin Ids
      BY DEF AreRecords, Record
    <2> HIDE DEF victims, rerooted, promoted, after, first
    <2> QED
      BY <1>1, <1>4, <2>2, <2>3
  <1> HIDE DEF after
  <1>5. after = [i \in Ids |-> after[i]]
    BY <1>1
  <1> QED
    BY <1>3, <1>4, <1>5 DEF AreRecords, Listed, after

LEMMA MergeRecordsTyped ==
  ASSUME NEW mine, AreRecords(mine), NEW theirs, AreRecords(theirs)
  PROVE  /\ AreRecords(MergeRecords(mine, theirs))
         /\ Listed(MergeRecords(mine, theirs)) \subseteq Listed(mine) \cup Listed(theirs)
  <1> DEFINE both == MergeRecords(mine, theirs)
  <1>1. both = [i \in Ids |-> MergeRecord(mine[i], theirs[i])]
    BY DEF MergeRecords
  <1> HIDE DEF both
  <1>2. ASSUME NEW i \in Ids
        PROVE  /\ both[i] \in Record(i)
               /\ Live(both[i].meta) => Live(mine[i].meta) \/ Live(theirs[i].meta)
    <2>1. mine[i] \in Record(i) /\ theirs[i] \in Record(i)
      BY DEF AreRecords
    <2>2. both[i] = MergeRecord(mine[i], theirs[i])
      BY <1>1
    <2> QED
      BY <2>1, <2>2, MergeKeyFacts DEF MergeRecord, Record
  <1>3. both = [i \in Ids |-> both[i]]
    BY <1>1
  <1> QED
    BY <1>2, <1>3 DEF AreRecords, Listed, both

-----------------------------------------------------------------------------
(* TypeOK with what it leaves out; the ids of saves to come are free.        *)
ChainTypes ==
  /\ tree \in [Peers -> Tree]
  /\ snaps = [p \in Peers |-> snaps[p]]
  /\ \A p \in Peers : AreRecords(snaps[p])
  /\ \A p \in Peers : \A i \in Retained(p) : i < nextId
  /\ local \in [Peers -> Document]
  /\ since \in [Peers -> 0 .. KeyframeInterval]
  /\ undoTo \in [Peers -> SUBSET Document]
  /\ saved \in Seq(Document)
  /\ nextId = Len(saved) + 1

ChainIInv == ChainTypes /\ BaselineIsTree

LEMMA ChainTypesImply == ChainTypes => TypeOK
  BY ReadIsDocument DEF ChainTypes, TypeOK

LEMMA ChainInit == Init => ChainIInv
  <1> SUFFICES ASSUME Init PROVE ChainIInv
    OBVIOUS
  <1>1. PICK doc \in Document :
          /\ tree = [p \in Peers |-> SeededTree(doc)]
          /\ snaps = [p \in Peers |-> [i \in Ids |-> [payload |-> Unset, meta |-> Unset]]]
          /\ local = [p \in Peers |-> doc]
          /\ since = [p \in Peers |-> 0]
          /\ undoTo = [p \in Peers |-> {}]
          /\ nextId = 1
          /\ saved = << >>
    BY DEF Init
  <1>2. SeededTree(doc) \in Tree /\ ReadTree(SeededTree(doc)) = doc
    BY SeededFacts
  <1>3. \A p \in Peers : AreRecords(snaps[p]) /\ Retained(p) = {}
    BY <1>1, UnsetIsKey DEF AreRecords, Record, Retained, Listed
  <1>4. BaselineIsTree
    BY <1>1, <1>2 DEF BaselineIsTree
  <1>5. 0 \in 0 .. KeyframeInterval /\ << >> \in Seq(Document) /\ Len(<< >>) = 0
    BY ChainAssumption
  <1>6. ChainTypes
    BY <1>1, <1>2, <1>3, <1>5 DEF ChainTypes
  <1> QED
    BY <1>4, <1>6 DEF ChainIInv

LEMMA ClientIds == \A p \in Peers : p \in Nat
  BY ChainAssumption

(* Writes of the page and its baseline. *)
LEMMA ApplyKeeps ==
  ASSUME ChainIInv, NEW p \in Peers, NEW doc \in Document,
         tree' = [tree EXCEPT ![p] = ApplyDocument(tree[p], p, local[p], doc)],
         local' = [local EXCEPT ![p] = doc]
  PROVE  /\ tree' \in [Peers -> Tree] /\ local' \in [Peers -> Document]
         /\ BaselineIsTree'
  <1>1. /\ tree \in [Peers -> Tree] /\ local \in [Peers -> Document]
        /\ \A q \in Peers : local[q] = ReadTree(tree[q])
    BY DEF ChainIInv, ChainTypes, BaselineIsTree
  <1>2. ApplyDocument(tree[p], p, local[p], doc) \in Tree
    BY <1>1, ApplyIsTree, ClientIds
  <1>3. ReadTree(ApplyDocument(tree[p], p, local[p], doc)) = doc
    BY <1>1, ApplyThenRead, ClientIds
  <1>4. tree' \in [Peers -> Tree] /\ local' \in [Peers -> Document]
    BY <1>1, <1>2
  <1>5. \A q \in Peers : local'[q] = ReadTree(tree'[q])
    BY <1>1, <1>3
  <1> QED
    BY <1>4, <1>5 DEF BaselineIsTree

LEMMA DeltaTyped ==
  ASSUME NEW i, NEW base \in 1 .. (i - 1), NEW prev \in Document, NEW next \in Document
  PROVE  Delta(base, prev, next) \in Deltas(i)
  <1> DEFINE changed == Restrict(next, Changed(prev, next))
  <1>1. Changed(prev, next) \subseteq DOMAIN next
    BY DEF Changed
  <1>2. changed \in Document
    BY <1>1, RestrictIsDocument
  <1>3. Removed(prev, next) \in SUBSET Nodes /\ DOMAIN next \in SUBSET Nodes
    BY DocumentFacts DEF Removed
  <1> HIDE DEF changed
  <1>4. Delta(base, prev, next) =
          [kind |-> "delta", base |-> base, changed |-> changed,
           removed |-> Removed(prev, next), relinks |-> DOMAIN prev # DOMAIN next,
           kids |-> DOMAIN next]
    BY DEF Delta, changed
  <1> QED
    BY <1>2, <1>3, <1>4 DEF Deltas

(* The payload a save stores: what it is based on is older. *)
LEMMA PayloadTyped ==
  ASSUME ChainTypes, NEW p \in Peers, nextId <= MaxSaves, NEW doc \in Document
  PROVE  /\ nextId \in Ids
         /\ PayloadFor(p, doc) \in Payloads(nextId)
         /\ \/ PayloadFor(p, doc) = Keyframe(doc)
            \/ /\ Retained(p) # {} /\ since[p] < KeyframeInterval
               /\ PayloadFor(p, doc) = Delta(Max(Retained(p)), local[p], doc)
               /\ PayloadFor(p, doc).kind = "delta"
  <1>1. nextId \in Nat \ {0} /\ local[p] \in Document
    BY DEF ChainTypes
  <1>2. nextId \in Ids
    BY <1>1, ChainAssumption DEF Ids
  <1>3. CASE Retained(p) # {} /\ since[p] < KeyframeInterval
    <2>1. Retained(p) \subseteq Ids /\ \A i \in Retained(p) : i < nextId
      BY DEF Retained, Listed, ChainTypes
    <2>2. Max(Retained(p)) \in Retained(p)
      BY <1>3, <2>1, LastOf
    <2>3. Max(Retained(p)) \in 1 .. (nextId - 1)
      BY <1>1, <2>1, <2>2, ChainAssumption DEF Ids
    <2>4. PayloadFor(p, doc) = Delta(Max(Retained(p)), local[p], doc)
      BY <1>3 DEF PayloadFor
    <2>5. PayloadFor(p, doc) \in Deltas(nextId)
      BY <1>1, <2>3, <2>4, DeltaTyped
    <2> QED
      BY <1>2, <1>3, <2>4, <2>5 DEF Payloads, Deltas
  <1>4. CASE ~(Retained(p) # {} /\ since[p] < KeyframeInterval)
    BY <1>2, <1>4 DEF PayloadFor, Keyframe, Keyframes, Payloads
  <1> QED
    BY <1>3, <1>4

(* The records before retention. *)
Stored(p, doc) ==
  [snaps[p] EXCEPT ![nextId] = [payload |-> SetKey(Unset, p, PayloadFor(p, doc)),
                                meta    |-> SetKey(Unset, p, "meta")]]

LEMMA StoredTyped ==
  ASSUME ChainTypes, NEW p \in Peers, nextId <= MaxSaves, NEW doc \in Document
  PROVE  AreRecords(Stored(p, doc)) /\ Listed(Stored(p, doc)) = Retained(p) \cup {nextId}
  <1> DEFINE payload == PayloadFor(p, doc)
             record == [payload |-> SetKey(Unset, p, payload),
                        meta    |-> SetKey(Unset, p, "meta")]
  <1>1. nextId \in Ids /\ payload \in Payloads(nextId) /\ p \in Nat
    BY PayloadTyped, ClientIds
  <1> HIDE DEF payload
  <1>2. SetKey(Unset, p, payload) \in KeyOf(Payloads(nextId))
    <2>1. Unset \in KeyOf({})
      BY UnsetIsKey
    <2> QED
      BY <1>1, <2>1, SetKeyFacts
  <1>3. SetKey(Unset, p, "meta") \in KeyOf({"meta"}) /\ Live(SetKey(Unset, p, "meta"))
    <2>1. Unset \in KeyOf({}) /\ "meta" \in {"meta"}
      BY UnsetIsKey
    <2> QED
      BY <1>1, <2>1, SetKeyFacts
  <1>4. record \in Record(nextId) /\ Live(record.meta)
    BY <1>2, <1>3 DEF Record
  <1> HIDE DEF record
  <1>5. Stored(p, doc) = [snaps[p] EXCEPT ![nextId] = record]
    BY DEF Stored, record, payload
  <1>6. snaps[p] = [i \in Ids |-> snaps[p][i]] /\ \A i \in Ids : snaps[p][i] \in Record(i)
    BY DEF ChainTypes, AreRecords
  <1>7. Stored(p, doc) = [i \in Ids |-> IF i = nextId THEN record ELSE snaps[p][i]]
    BY <1>5, <1>6
  <1>8. AreRecords(Stored(p, doc))
    BY <1>4, <1>6, <1>7 DEF AreRecords
  <1>9. Listed(Stored(p, doc)) = Retained(p) \cup {nextId}
    BY <1>1, <1>4, <1>7 DEF Listed, Retained
  <1> QED
    BY <1>8, <1>9

LEMMA SaveTyped ==
  ASSUME ChainIInv, NEW p \in Peers, NEW doc \in Document, Save(p, doc)
  PROVE  ChainIInv'
  <1>1. ChainTypes /\ nextId <= MaxSaves
    BY DEF ChainIInv, Save
  <1> DEFINE after == Evict(Stored(p, doc), p)
  <1>2. snaps' = [snaps EXCEPT ![p] = after]
    BY DEF Save, Stored
  <1>3. /\ AreRecords(after)
        /\ Listed(after) \subseteq Retained(p) \cup {nextId}
    BY <1>1, StoredTyped, EvictTyped
  <1> HIDE DEF after
  <1>4. /\ tree' \in [Peers -> Tree] /\ local' \in [Peers -> Document]
        /\ BaselineIsTree'
    BY ApplyKeeps DEF Save
  <1>5. since' \in [Peers -> 0 .. KeyframeInterval]
    <2>1. \/ PayloadFor(p, doc).kind = "full"
          \/ since[p] < KeyframeInterval
      BY <1>1, PayloadTyped DEF Keyframe
    <2>2. since' = [since EXCEPT ![p] = IF PayloadFor(p, doc).kind = "full" THEN 0
                                        ELSE since[p] + 1]
      BY DEF Save
    <2> QED
      BY <1>1, <2>1, <2>2, ChainAssumption DEF ChainTypes
  <1>6. undoTo' \in [Peers -> SUBSET Document]
    BY <1>1 DEF Save, ChainTypes
  <1>7. saved' \in Seq(Document) /\ nextId' = Len(saved') + 1 /\ nextId' = nextId + 1
    BY <1>1 DEF Save, ChainTypes
  <1>8. /\ snaps' = [q \in Peers |-> snaps'[q]]
        /\ \A q \in Peers : AreRecords(snaps'[q])
        /\ \A q \in Peers : \A i \in Listed(snaps'[q]) : i < nextId'
    <2>1. nextId \in Nat
      BY <1>1 DEF ChainTypes
    <2>2. /\ snaps = [q \in Peers |-> snaps[q]]
          /\ \A q \in Peers : AreRecords(snaps[q])
          /\ \A q \in Peers : \A i \in Listed(snaps[q]) : i \in Nat /\ i < nextId
      BY <1>1 DEF ChainTypes, Retained, Listed, Ids
    <2>3. \A i \in Retained(p) : i \in Nat /\ i < nextId
      BY <2>2 DEF Retained
    <2> QED
      BY <1>2, <1>3, <1>7, <2>1, <2>2, <2>3
  <1> QED
    BY <1>4, <1>5, <1>6, <1>7, <1>8 DEF ChainIInv, ChainTypes, Retained

LEMMA DeleteTyped ==
  ASSUME ChainIInv, NEW p \in Peers, NEW i \in Ids, Delete(p, i)
  PROVE  ChainIInv'
  <1> DEFINE after == [snaps[p] EXCEPT ![i] = Forget(snaps[p][i])]
  <1>1. snaps' = [snaps EXCEPT ![p] = after]
    BY DEF Delete
  <1>2. /\ snaps = [q \in Peers |-> snaps[q]]
        /\ \A q \in Peers : AreRecords(snaps[q])
        /\ \A q \in Peers : \A j \in Listed(snaps[q]) : j < nextId
    BY DEF ChainIInv, ChainTypes, Retained
  <1>3. Forget(snaps[p][i]) \in Record(i) /\ ~Live(Forget(snaps[p][i]).meta)
    BY <1>2, ForgetTyped DEF AreRecords
  <1>4. AreRecords(after) /\ Listed(after) \subseteq Listed(snaps[p])
    BY <1>2, <1>3 DEF AreRecords, Listed
  <1> HIDE DEF after
  <1>5. /\ snaps' = [q \in Peers |-> snaps'[q]]
        /\ \A q \in Peers : AreRecords(snaps'[q])
        /\ \A q \in Peers : \A j \in Listed(snaps'[q]) : j < nextId
    BY <1>1, <1>2, <1>4
  <1>6. BaselineIsTree'
    BY DEF Delete, ChainIInv, BaselineIsTree
  <1> QED
    BY <1>5, <1>6 DEF Delete, ChainIInv, ChainTypes, Retained

(* forceResync() and undo(): the page is set to another one. *)
LEMMA SetBackTyped ==
  ASSUME ChainIInv, NEW p \in Peers, ForceResync(p) \/ Undo(p)
  PROVE  ChainIInv'
  <1>1. /\ UNCHANGED <<snaps, since, nextId, saved>>
        /\ undoTo' \in [Peers -> SUBSET Document]
    <2>1. local[p] \in Document /\ undoTo \in [Peers -> SUBSET Document]
      BY DEF ChainIInv, ChainTypes
    <2>2. \/ undoTo' = [undoTo EXCEPT ![p] = {local[p]}]
          \/ undoTo' = [undoTo EXCEPT ![p] = {}]
      BY DEF ForceResync, Undo
    <2>3. UNCHANGED <<snaps, since, nextId, saved>>
      BY DEF ForceResync, Undo
    <2> QED
      BY <2>1, <2>2, <2>3
  <1>2. PICK doc \in Document :
          /\ tree' = [tree EXCEPT ![p] = ApplyDocument(tree[p], p, local[p], doc)]
          /\ local' = [local EXCEPT ![p] = doc]
    <2>1. CASE Undo(p)
      BY <2>1 DEF Undo, ChainIInv, ChainTypes
    <2>2. CASE ForceResync(p)
      <3>1. PICK i \in Retained(p) : \E doc \in Load(p, i) :
              /\ tree' = [tree EXCEPT ![p] = ApplyDocument(tree[p], p, local[p], doc)]
              /\ local' = [local EXCEPT ![p] = doc]
        BY <2>2 DEF ForceResync
      <3>2. i \in Ids /\ AreRecords(snaps[p])
        BY DEF Retained, Listed, ChainIInv, ChainTypes
      <3>3. Load(p, i) \subseteq Document
        BY <3>2, RebuiltTyped DEF Load
      <3> QED
        BY <3>1, <3>3
    <2> QED
      BY <2>1, <2>2
  <1>3. /\ tree' \in [Peers -> Tree] /\ local' \in [Peers -> Document]
        /\ BaselineIsTree'
    BY <1>2, ApplyKeeps
  <1> QED
    BY <1>1, <1>3 DEF ChainIInv, ChainTypes, Retained

LEMMA RestartTyped ==
  ASSUME ChainIInv, NEW p \in Peers, Restart(p)
  PROVE  ChainIInv'
  <1>1. local' = local
    BY DEF Restart, ChainIInv, ChainTypes, BaselineIsTree
  <1>2. /\ since' \in [Peers -> 0 .. KeyframeInterval]
        /\ undoTo' \in [Peers -> SUBSET Document]
    BY ChainAssumption DEF Restart, ChainIInv, ChainTypes
  <1> QED
    BY <1>1, <1>2 DEF Restart, ChainIInv, ChainTypes, BaselineIsTree, Retained

LEMMA DeliverTyped ==
  ASSUME ChainIInv, NEW p \in Peers, NEW q \in Peers, Deliver(p, q)
  PROVE  ChainIInv'
  <1> DEFINE merged == MergeTree(tree[p], tree[q])
             both == MergeRecords(snaps[p], snaps[q])
  <1>1. /\ tree \in [Peers -> Tree] /\ local \in [Peers -> Document]
        /\ snaps = [r \in Peers |-> snaps[r]]
        /\ \A r \in Peers : AreRecords(snaps[r])
        /\ \A r \in Peers : \A j \in Listed(snaps[r]) : j < nextId
        /\ \A r \in Peers : local[r] = ReadTree(tree[r])
    BY DEF ChainIInv, ChainTypes, Retained, BaselineIsTree
  <1>2. /\ tree' = [tree EXCEPT ![p] = merged]
        /\ local' = [local EXCEPT ![p] = IF merged # tree[p] THEN ReadTree(merged)
                                         ELSE local[p]]
        /\ snaps' = [snaps EXCEPT ![p] = both]
    BY DEF Deliver
  <1>3. merged \in Tree /\ ReadTree(merged) \in Document
    BY <1>1, MergeIsTree, ReadIsDocument
  <1>4. AreRecords(both) /\ Listed(both) \subseteq Listed(snaps[p]) \cup Listed(snaps[q])
    BY <1>1, MergeRecordsTyped
  <1> HIDE DEF merged, both
  <1>5. /\ tree' \in [Peers -> Tree] /\ local' \in [Peers -> Document]
        /\ \A r \in Peers : local'[r] = ReadTree(tree'[r])
    BY <1>1, <1>2, <1>3
  <1>6. /\ snaps' = [r \in Peers |-> snaps'[r]]
        /\ \A r \in Peers : AreRecords(snaps'[r])
        /\ \A r \in Peers : \A j \in Listed(snaps'[r]) : j < nextId
    BY <1>1, <1>2, <1>4
  <1>7. undoTo' \in [Peers -> SUBSET Document]
    BY DEF Deliver, ChainIInv, ChainTypes
  <1> QED
    BY <1>5, <1>6, <1>7 DEF Deliver, ChainIInv, ChainTypes, BaselineIsTree, Retained

LEMMA ChainNext == ChainIInv /\ [Next]_vars => ChainIInv'
  <1> SUFFICES ASSUME ChainIInv, [Next]_vars PROVE ChainIInv'
    OBVIOUS
  <1>1. CASE UNCHANGED vars
    BY <1>1 DEF vars, ChainIInv, ChainTypes, BaselineIsTree, Retained
  <1> QED
    BY <1>1, SaveTyped, DeleteTyped, SetBackTyped, RestartTyped, DeliverTyped DEF Next

(* Whatever calls are made concurrently: payloads and pages stay readable    *)
(* as data (snapshots.ts, payload-chain.ts).                               *)
THEOREM ChainTypeCorrect == Spec => []TypeOK
  <1>1. ChainIInv => TypeOK
    BY ChainTypesImply DEF ChainIInv
  <1> QED
    BY <1>1, ChainInit, ChainNext, PTL DEF Spec

(* The page the next save is diffed against is the page of the tree, through *)
(* any saves, deletions, resyncs, undos, restarts and remote updates       *)
(* (lastLocalIR in yjs-adapter.ts).                                        *)
THEOREM ChainBaseline == Spec => []BaselineIsTree
  BY ChainInit, ChainNext, PTL DEF Spec, ChainIInv

-----------------------------------------------------------------------------
(* A delta replayed over the document it was made from yields the document   *)
(* it was made for (buildDeltaPayload, then applyStoredDelta).             *)
LEMMA ReplayDelta ==
  ASSUME NEW base, NEW prev \in Document, NEW next \in Document
  PROVE  Replay(prev, Delta(base, prev, next)) = {next}
  <1> DEFINE changed == Restrict(next, Changed(prev, next))
             rest == Restrict(prev, DOMAIN prev \ Removed(prev, next))
             own == Overlay(changed, rest)
             delta == Delta(base, prev, next)
             kids == IF delta.relinks THEN delta.kids ELSE DOMAIN prev
  <1>1. /\ delta.changed = changed /\ delta.removed = Removed(prev, next)
        /\ delta.relinks = (DOMAIN prev # DOMAIN next) /\ delta.kids = DOMAIN next
    BY DEF Delta
  <1>2. /\ DOMAIN changed = Changed(prev, next)
        /\ DOMAIN rest = DOMAIN prev \cap DOMAIN next
        /\ \A n \in DOMAIN changed : changed[n] = next[n]
        /\ \A n \in DOMAIN rest : rest[n] = prev[n]
    BY DEF Restrict, Changed, Removed
  <1> HIDE DEF changed, rest
  <1>3. own = [n \in DOMAIN changed \cup DOMAIN rest |->
                 IF n \in DOMAIN changed THEN changed[n] ELSE rest[n]]
    BY DEF Overlay
  <1>4. DOMAIN changed \cup DOMAIN rest = DOMAIN next
    BY <1>2 DEF Changed
  <1>5. \A n \in DOMAIN next : own[n] = next[n]
    BY <1>2, <1>3, <1>4 DEF Changed
  <1>6. own = next
    BY <1>3, <1>4, <1>5, DocumentFacts
  <1>7. kids = DOMAIN next
    BY <1>1
  <1>8. Restrict(next, DOMAIN next) = next
    BY DocumentFacts DEF Restrict
  <1>9. Replay(prev, delta) = IF kids \subseteq DOMAIN own THEN {Restrict(own, kids)} ELSE {}
    BY <1>1 DEF Replay, rest
  <1> HIDE DEF own, kids, delta
  <1>10. Replay(prev, delta) = {next}
    BY <1>6, <1>7, <1>8, <1>9
  <1> QED
    BY <1>10 DEF delta

(* Applying the page a tree was last given writes nothing. *)
LEMMA ApplyNothing ==
  ASSUME NEW t \in Tree, NEW client, NEW doc
  PROVE  ApplyDocument(t, client, doc, doc) = t
  <1>1. Changed(doc, doc) = {} /\ Removed(doc, doc) = {}
    BY DEF Changed, Removed
  <1>2. ApplyDocument(t, client, doc, doc) = [n \in Nodes |-> t[n]]
    BY <1>1 DEF ApplyDocument
  <1> QED
    BY <1>2 DEF Tree

-----------------------------------------------------------------------------
(* Records one replica has everything of. *)

OverRecord(a, b) == Over(a.payload, b.payload) /\ Over(a.meta, b.meta)

OverRecords(mine, theirs) ==
  /\ MergeRecords(mine, theirs) = mine
  /\ MergeRecords(theirs, mine) = mine

LEMMA KeysAreRegisters ==
  ASSUME NEW V, NEW key \in KeyOf(V) PROVE key \in Register(V \cup {Nothing})
  <1>1. << >> \in Seq(Nat)
    OBVIOUS
  <1>2. Unset \in Register(V \cup {Nothing})
    BY <1>1 DEF Unset, Register
  <1>3. CASE key # Unset
    BY <1>3 DEF KeyOf, Register
  <1> QED
    BY <1>2, <1>3

LEMMA OverRecordsMeans ==
  ASSUME NEW mine, AreRecords(mine), NEW theirs, AreRecords(theirs)
  PROVE  OverRecords(mine, theirs) <=> \A i \in Ids : OverRecord(mine[i], theirs[i])
  <1>1. /\ mine = [i \in Ids |-> mine[i]]
        /\ MergeRecords(mine, theirs) = [i \in Ids |-> MergeRecord(mine[i], theirs[i])]
        /\ MergeRecords(theirs, mine) = [i \in Ids |-> MergeRecord(theirs[i], mine[i])]
    BY DEF MergeRecords, AreRecords
  <1>2. /\ MergeRecords(mine, theirs) = mine
             <=> \A i \in Ids : MergeRecord(mine[i], theirs[i]) = mine[i]
        /\ MergeRecords(theirs, mine) = mine
             <=> \A i \in Ids : MergeRecord(theirs[i], mine[i]) = mine[i]
    BY <1>1
  <1>3. ASSUME NEW i \in Ids
        PROVE  /\ MergeRecord(mine[i], theirs[i]) = mine[i]
                    <=> /\ MergeKey(mine[i].payload, theirs[i].payload) = mine[i].payload
                        /\ MergeKey(mine[i].meta, theirs[i].meta) = mine[i].meta
               /\ MergeRecord(theirs[i], mine[i]) = mine[i]
                    <=> /\ MergeKey(theirs[i].payload, mine[i].payload) = mine[i].payload
                        /\ MergeKey(theirs[i].meta, mine[i].meta) = mine[i].meta
    <2>1. mine[i] = [payload |-> mine[i].payload, meta |-> mine[i].meta]
      BY DEF AreRecords, Record
    <2> QED
      BY <2>1 DEF MergeRecord
  <1> QED
    BY <1>2, <1>3 DEF OverRecords, OverRecord, Over

LEMMA OverRecordSelf ==
  ASSUME NEW i, NEW record \in Record(i) PROVE OverRecord(record, record)
  BY KeysAreRegisters, OverSelf DEF Record, OverRecord

LEMMA OverKeySet ==
  ASSUME NEW V, NEW a \in KeyOf(V), NEW b \in KeyOf(V), Over(a, b), NEW p \in Nat, NEW v \in V
  PROVE  Over(SetKey(a, p, v), b)
  BY KeysAreRegisters, OverSet

LEMMA OverForget ==
  ASSUME NEW i, NEW a \in Record(i), NEW b \in Record(i), OverRecord(a, b)
  PROVE  OverRecord(Forget(a), b)
  BY KeysAreRegisters, OverDelete DEF Record, OverRecord, Forget

-----------------------------------------------------------------------------
(* Retention. *)

LEMMA IdsFinite ==
  ASSUME NEW S \in SUBSET Ids
  PROVE  IsFiniteSet(S) /\ Cardinality(S) \in Nat
  <1>1. IsFiniteSet(1 .. MaxSaves)
    BY ChainAssumption, FS_Interval
  <1> QED
    BY <1>1, FS_Subset, FS_CardinalityType DEF Ids

(* Retention takes the oldest first and never the newest. *)
LEMMA VictimFacts ==
  ASSUME NEW records
  PROVE  /\ Victims(records) \subseteq Listed(records)
         /\ \A i \in Victims(records), j \in Listed(records) :
              j < i => j \in Victims(records)
         /\ Listed(records) # {} => Max(Listed(records)) \notin Victims(records)
  <1> DEFINE L == Listed(records)
             Before(i) == {j \in L : j < i}
  <1>1. L \in SUBSET Ids /\ \A i \in L : i \in Nat
    BY ChainAssumption DEF Listed, Ids
  <1>2. Victims(records) = {i \in L : Cardinality(Before(i)) < Overflow(records)}
    BY DEF Victims
  <1>3. IsFiniteSet(L) /\ Cardinality(L) \in Nat
    BY <1>1, IdsFinite
  <1>4. Overflow(records) = IF MaxSnapshots = 0 THEN 0 ELSE Cardinality(L) - MaxSnapshots
    BY DEF Overflow
  <1> HIDE DEF L
  <1>5. \A i \in L : Before(i) \in SUBSET Ids
    BY <1>1
  <1>6. ASSUME NEW i \in L, NEW j \in L, j < i PROVE Cardinality(Before(j)) <= Cardinality(Before(i))
    <2>1. Before(j) \subseteq Before(i)
      BY <1>1, <1>6
    <2> QED
      BY <1>5, <2>1, IdsFinite, FS_Subset
  <1>7. \A i \in L : Cardinality(Before(i)) \in Nat
    BY <1>5, IdsFinite
  <1>8. ASSUME NEW i \in Victims(records), NEW j \in L, j < i
        PROVE  j \in Victims(records)
    <2> DEFINE mine == Cardinality(Before(i))
               others == Cardinality(Before(j))
    <2>1. i \in L /\ mine < Overflow(records) /\ Overflow(records) \in Int
      BY <1>2, <1>3, <1>4, ChainAssumption
    <2>2. mine \in Nat /\ others \in Nat /\ others <= mine
      BY <1>6, <1>7, <1>8, <2>1
    <2> HIDE DEF mine
    <2>3. others < Overflow(records)
      <3> HIDE DEF others
      <3> QED
        BY <2>1, <2>2
    <2> QED
      BY <1>2, <2>3
  <1>9. ASSUME L # {} PROVE Max(L) \notin Victims(records)
    <2> DEFINE last == Max(L)
    <2>1. last \in L /\ \A j \in L : j <= last
      BY <1>1, <1>9, LastOf
    <2> HIDE DEF last
    <2>2. Before(last) = L \ {last}
      BY <1>1, <2>1
    <2>3. Cardinality(Before(last)) = Cardinality(L) - 1
      BY <1>3, <2>1, <2>2, FS_RemoveElement
    <2>4. last \notin Victims(records)
      BY <1>2, <1>3, <1>4, <1>7, <2>1, <2>3, ChainAssumption
    <2> QED
      BY <2>4 DEF last
  <1> QED
    BY <1>2, <1>8, <1>9 DEF L

(* What retention leaves of each record. *)
LEMMA EvictShape ==
  ASSUME NEW records, NEW p, NEW i \in Ids
  PROVE  \/ /\ i \in Victims(records)
            /\ Evict(records, p)[i] = Forget(records[i])
         \/ /\ i \notin Victims(records)
            /\ Evict(records, p)[i] = records[i]
            /\ ~ /\ i = Min(Listed(records) \ Victims(records))
                 /\ Rebuilt(records)[i] # {}
                 /\ records[i].payload.val.kind = "delta"
                 /\ records[i].payload.val.base \in Victims(records)
         \/ /\ i \notin Victims(records)
            /\ i = Min(Listed(records) \ Victims(records))
            /\ \E doc \in Rebuilt(records)[i] :
                 Evict(records, p)[i] =
                   [records[i] EXCEPT
                      !.payload = SetKey(records[i].payload, p, Keyframe(doc))]
  <1> DEFINE victims == Victims(records)
             first == Min(Listed(records) \ victims)
             whole == Rebuilt(records)[first]
             rerooted == /\ victims # {} /\ whole # {}
                         /\ records[first].payload.val.kind = "delta"
                         /\ records[first].payload.val.base \in victims
             kept == CHOOSE d \in whole : TRUE
  <1>1. Evict(records, p)[i] =
          IF i \in victims THEN Forget(records[i])
          ELSE IF i = first /\ rerooted
          THEN [records[i] EXCEPT !.payload = SetKey(records[i].payload, p, Keyframe(kept))]
          ELSE records[i]
    BY DEF Evict
  <1>2. i = first /\ rerooted => kept \in Rebuilt(records)[i]
    OBVIOUS
  <1>3. i = first /\ ~rerooted => ~ /\ Rebuilt(records)[i] # {}
                                    /\ records[i].payload.val.kind = "delta"
                                    /\ records[i].payload.val.base \in victims
    OBVIOUS
  <1> HIDE DEF victims, first, rerooted, kept
  <1>4. CASE i \in victims
    BY <1>1, <1>4 DEF victims
  <1>5. CASE i \notin victims /\ i = first /\ rerooted
    BY <1>1, <1>2, <1>5 DEF victims, first
  <1>6. CASE i \notin victims /\ ~(i = first /\ rerooted)
    BY <1>1, <1>3, <1>6 DEF victims, first
  <1> QED
    BY <1>4, <1>5, <1>6

LEMMA EvictOver ==
  ASSUME NEW records, AreRecords(records), NEW other, AreRecords(other), NEW p \in Peers,
         OverRecords(records, other)
  PROVE  OverRecords(Evict(records, p), other)
  <1> DEFINE after == Evict(records, p)
  <1>1. AreRecords(after)
    BY EvictTyped
  <1>2. ASSUME NEW i \in Ids PROVE OverRecord(after[i], other[i])
    <2>1. /\ records[i] \in Record(i) /\ other[i] \in Record(i)
          /\ OverRecord(records[i], other[i]) /\ p \in Nat
      BY OverRecordsMeans, ClientIds DEF AreRecords
    <2>2. CASE after[i] = Forget(records[i])
      BY <2>1, <2>2, OverForget
    <2>3. CASE after[i] = records[i]
      BY <2>1, <2>3
    <2>4. ASSUME NEW doc \in Rebuilt(records)[i],
                 after[i] = [records[i] EXCEPT
                               !.payload = SetKey(records[i].payload, p, Keyframe(doc))]
          PROVE  OverRecord(after[i], other[i])
      <3> DEFINE set == SetKey(records[i].payload, p, Keyframe(doc))
      <3>1. Keyframe(doc) \in Payloads(i)
        BY RebuiltTyped DEF Keyframe, Payloads, Keyframes
      <3>2. /\ records[i].payload \in KeyOf(Payloads(i)) /\ other[i].payload \in KeyOf(Payloads(i))
            /\ Over(records[i].payload, other[i].payload)
        BY <2>1 DEF Record, OverRecord
      <3>3. Over(set, other[i].payload)
        BY <2>1, <3>1, <3>2, OverKeySet
      <3> HIDE DEF set, after
      <3>4. after[i] = [records[i] EXCEPT !.payload = set]
        BY <2>4 DEF set
      <3>5. after[i].payload = set /\ after[i].meta = records[i].meta
        BY <2>1, <3>4 DEF Record
      <3> QED
        BY <2>1, <3>3, <3>5 DEF OverRecord
    <2> HIDE DEF after
    <2> QED
      BY <2>2, <2>3, <2>4, EvictShape DEF after
  <1> HIDE DEF after
  <1>3. OverRecords(after, other)
    BY <1>1, <1>2, OverRecordsMeans
  <1> QED
    BY <1>3 DEF after

-----------------------------------------------------------------------------
(* A chain that reads: deltas follow the snapshot before them, and every     *)
(* listed snapshot rebuilds to its document.                               *)

Blank == [payload |-> Unset, meta |-> Unset]

Chained(records, docs) ==
  /\ \A i \in Ids : Live(records[i].payload) <=> Live(records[i].meta)
  /\ \A i \in Listed(records) :
       records[i].payload.val.kind = "delta" =>
         /\ records[i].payload.val.base \in Listed(records)
         /\ \A j \in Listed(records) : j < i => j <= records[i].payload.val.base
  /\ \A i \in Listed(records) : Rebuilt(records)[i] = {docs[i]}

(* Two sets of records rebuild alike where they differ only in deltas that  *)
(* became keyframes of what they rebuilt to.                               *)
LEMMA RebuiltAlike ==
  ASSUME NEW a, AreRecords(a), NEW b, AreRecords(b), NEW S \in SUBSET Ids,
         \A i \in S :
           \/ /\ b[i].payload = a[i].payload
              /\ Live(a[i].payload) /\ a[i].payload.val.kind # "full"
                   => a[i].payload.val.base \in S
           \/ /\ Live(b[i].payload)
              /\ \E doc \in Rebuilt(a)[i] : /\ b[i].payload.val = Keyframe(doc)
                                            /\ Rebuilt(a)[i] = {doc}
  PROVE  \A i \in S : Rebuilt(b)[i] = Rebuilt(a)[i]
  <1> DEFINE before == Rebuilt(a)
             after == Rebuilt(b)
             apart == {i \in S : after[i] # before[i]}
  <1>1. WellBased(a) /\ WellBased(b)
    BY RecordsWellBased
  <1>2. \A i \in Ids : before[i] = Body(a, before, i) /\ after[i] = Body(b, after, i)
    BY <1>1, RebuiltUnfolds
  <1> HIDE DEF before, after
  <1>3. apart = {}
    <2> SUFFICES ASSUME apart # {} PROVE FALSE
      OBVIOUS
    <2>1. apart \in SUBSET Nat
      <3>1. \A i \in Ids : i \in Nat
        BY DEF Ids
      <3> QED
        BY <3>1
    <2>2. PICK i \in apart : \A j \in apart : i <= j
      BY <2>1, LeastOf
    <2>3. i \in Ids /\ i \in Nat
      BY <2>1, <2>2
    <2>4. ASSUME b[i].payload = a[i].payload,
                 Live(a[i].payload) /\ a[i].payload.val.kind # "full"
                   => a[i].payload.val.base \in S
          PROVE  FALSE
      <3>1. CASE Live(a[i].payload) /\ a[i].payload.val.kind # "full"
        <4> DEFINE base == a[i].payload.val.base
        <4>1. base \in 1 .. (i - 1) /\ base \in S
          BY <1>1, <2>3, <2>4, <3>1 DEF WellBased
        <4>2. before[base] = after[base]
          BY <2>2, <2>3, <4>1
        <4>3. Body(a, before, i) = Body(b, after, i)
          BY <2>4, <3>1, <4>2 DEF Body
        <4> QED
          BY <1>2, <2>2, <2>3, <4>3
      <3>2. CASE ~(Live(a[i].payload) /\ a[i].payload.val.kind # "full")
        <4>1. Body(a, before, i) = Body(b, after, i)
          BY <2>4, <3>2 DEF Body
        <4> QED
          BY <1>2, <2>2, <2>3, <4>1
      <3> QED
        BY <3>1, <3>2
    <2>5. ASSUME Live(b[i].payload), NEW doc, b[i].payload.val = Keyframe(doc),
                 before[i] = {doc}
          PROVE  FALSE
      <3>1. Body(b, after, i) = {doc}
        BY <2>5 DEF Body, Keyframe
      <3> QED
        BY <1>2, <2>2, <2>3, <2>5, <3>1
    <2> QED
      BY <2>2, <2>4, <2>5 DEF before
  <1> QED
    BY <1>3 DEF before, after

(* Retention keeps a chain readable: when the base of the first survivor is *)
(* evicted, that survivor becomes a keyframe; the others have their base.  *)
LEMMA EvictKeeps ==
  ASSUME NEW records, AreRecords(records), NEW docs, Chained(records, docs),
         Listed(records) # {}, NEW p \in Peers
  PROVE  /\ Chained(Evict(records, p), docs)
         /\ Listed(Evict(records, p)) = Listed(records) \ Victims(records)
         /\ Max(Listed(Evict(records, p))) = Max(Listed(records))
        /\ \A i \in Ids \ Listed(records) : Evict(records, p)[i] = records[i]
  <1> DEFINE L == Listed(records)
             V == Victims(records)
             S == L \ V
             first == Min(S)
             after == Evict(records, p)
  <1>1. /\ L \in SUBSET Ids /\ V \subseteq L /\ \A i \in L : i \in Nat
        /\ \A i \in V, j \in L : j < i => j \in V
        /\ Max(L) \in L /\ Max(L) \notin V /\ \A j \in L : j <= Max(L)
    <2>1. L \in SUBSET Ids /\ \A i \in Ids : i \in Nat
      BY DEF Listed, Ids
    <2>2. Max(L) \in L /\ \A j \in L : j <= Max(L)
      BY <2>1, LastOf
    <2> QED
      BY <2>1, <2>2, VictimFacts
  <1>2. S \in SUBSET Ids /\ S \in SUBSET Nat /\ S # {}
    BY <1>1
  <1>3. first \in S /\ \A j \in S : first <= j
    BY <1>2, FirstOf
  <1>4. AreRecords(after)
    BY EvictTyped
  <1>5. \A i \in Ids : records[i] \in Record(i)
    BY DEF AreRecords
  <1>6. \A i \in L : Rebuilt(records)[i] = {docs[i]}
    BY DEF Chained
  <1>7. \A i \in Ids : Live(records[i].payload) <=> i \in L
    BY DEF Chained, Listed
  <1>8. ASSUME NEW i \in Ids, i \in V
        PROVE  ~Live(after[i].payload) /\ ~Live(after[i].meta)
    <2>1. after[i] = Forget(records[i])
      BY <1>8, EvictShape
    <2> HIDE DEF after
    <2> QED
      BY <1>5, <2>1, ForgetKeyFacts DEF Forget, Record
  <1>9. ASSUME NEW i \in Ids, i \notin V
        PROVE  \/ /\ after[i] = records[i]
                  /\ i \in S /\ records[i].payload.val.kind = "delta"
                       => records[i].payload.val.base \in S
               \/ /\ i = first /\ after[i].meta = records[i].meta
                  /\ Live(after[i].payload)
                  /\ after[i].payload.val = Keyframe(docs[i])
    <2>1. ASSUME NEW doc \in Rebuilt(records)[i], i = first,
                 after[i] = [records[i] EXCEPT
                               !.payload = SetKey(records[i].payload, p, Keyframe(doc))]
          PROVE  /\ after[i].meta = records[i].meta
                 /\ Live(after[i].payload)
                 /\ after[i].payload.val = Keyframe(docs[i])
      <3> DEFINE set == SetKey(records[i].payload, p, Keyframe(doc))
      <3>1. doc = docs[i]
        BY <1>3, <1>6, <2>1
      <3>2. Live(set) /\ set.val = Keyframe(doc)
        BY DEF SetKey, Live
      <3> HIDE DEF set, after
      <3>3. after[i] = [records[i] EXCEPT !.payload = set]
        BY <2>1 DEF set
      <3>4. after[i].payload = set /\ after[i].meta = records[i].meta
        BY <1>5, <3>3 DEF Record
      <3> QED
        BY <3>1, <3>2, <3>4
    <2>2. ASSUME i \in S, records[i].payload.val.kind = "delta",
                 ~ /\ i = first
                   /\ Rebuilt(records)[i] # {}
                   /\ records[i].payload.val.kind = "delta"
                   /\ records[i].payload.val.base \in V
          PROVE  records[i].payload.val.base \in S
      <3> DEFINE base == records[i].payload.val.base
      <3>1. base \in L /\ \A j \in L : j < i => j <= base
        BY <2>2 DEF Chained
      <3>2. Rebuilt(records)[i] # {}
        BY <1>6, <2>2
      <3> HIDE DEF base
      <3>3. CASE base \in V
        <4>1. ASSUME NEW j \in S, j < i PROVE FALSE
          <5>1. j <= base /\ j \in Nat /\ base \in Nat /\ j # base
            BY <1>1, <3>1, <3>3, <4>1
          <5>2. j \in V
            BY <1>1, <3>3, <5>1
          <5> QED
            BY <4>1, <5>2
        <4>2. first \in Nat /\ i \in Nat /\ first <= i
          BY <1>2, <1>3, <2>2
        <4>3. i = first
          BY <1>3, <4>1, <4>2
        <4> QED
          BY <2>2, <3>2, <3>3, <4>3 DEF base
      <3> QED
        BY <3>1, <3>3 DEF base
    <2> HIDE DEF after, S, first
    <2> QED
      BY <1>9, <2>1, <2>2, EvictShape DEF after, first, S
  <1>10. \A i \in Ids : /\ Live(after[i].payload) <=> i \in S
                        /\ Live(after[i].meta) <=> i \in S
    <2> TAKE i \in Ids
    <2>1. CASE i \in V
      BY <1>8, <2>1
    <2>2. CASE i \notin V
      <3>1. Live(records[i].meta) <=> i \in L
        BY DEF Listed
      <3> HIDE DEF after, first
      <3> QED
        BY <1>3, <1>7, <1>9, <2>2, <3>1
    <2> QED
      BY <2>1, <2>2
  <1> HIDE DEF after, first
  <1>11. Listed(after) = S
    BY <1>2, <1>10 DEF Listed
  <1>12. \A i \in S : Rebuilt(after)[i] = Rebuilt(records)[i]
    <2>1. ASSUME NEW i \in S
          PROVE  \/ /\ after[i].payload = records[i].payload
                    /\ Live(records[i].payload) /\ records[i].payload.val.kind # "full"
                         => records[i].payload.val.base \in S
                 \/ /\ Live(after[i].payload)
                    /\ \E doc \in Rebuilt(records)[i] :
                         /\ after[i].payload.val = Keyframe(doc)
                         /\ Rebuilt(records)[i] = {doc}
      <3>1. i \in Ids /\ i \notin V /\ i \in L
        BY <1>2
      <3>2. Rebuilt(records)[i] = {docs[i]}
        BY <1>6, <3>1
      <3>3. Live(records[i].payload) /\ records[i].payload.val.kind # "full"
              => records[i].payload.val.kind = "delta"
        <4>1. records[i].payload \in KeyOf(Payloads(i))
          BY <1>5, <3>1 DEF Record
        <4>2. Live(records[i].payload) => records[i].payload.val \in Payloads(i)
          BY <4>1, LiveKey
        <4> QED
          BY <4>2 DEF Payloads, Keyframes, Deltas
      <3> QED
        BY <1>9, <3>1, <3>2, <3>3
    <2> HIDE DEF S
    <2> QED
      BY <1>2, <1>4, <2>1, RebuiltAlike
  <1>13. ASSUME NEW i \in S, after[i].payload.val.kind = "delta"
         PROVE  /\ after[i].payload.val.base \in S
                /\ \A j \in S : j < i => j <= after[i].payload.val.base
    <2>1. i \in Ids /\ i \notin V /\ i \in L
      BY <1>2
    <2>2. after[i] = records[i] /\ after[i].payload.val.base \in S
      <3>1. Keyframe(docs[i]).kind = "full"
        BY DEF Keyframe
      <3> QED
        BY <1>9, <1>13, <2>1, <3>1
    <2>3. \A j \in L : j < i => j <= records[i].payload.val.base
      BY <1>13, <2>1, <2>2 DEF Chained
    <2> QED
      BY <2>2, <2>3
  <1>14. Chained(after, docs)
    BY <1>6, <1>10, <1>11, <1>12, <1>13 DEF Chained
  <1>15. Max(S) = Max(L)
    <2>1. Max(S) \in S /\ \A j \in S : j <= Max(S)
      BY <1>2, LastOf
    <2>2. Max(S) \in Nat /\ Max(L) \in Nat /\ Max(S) <= Max(L) /\ Max(L) <= Max(S)
      BY <1>1, <1>2, <2>1
    <2> QED
      BY <2>2
  <1>16. \A i \in Ids \ L : after[i] = records[i]
    BY <1>1, <1>3, <1>9
  <1> QED
    BY <1>11, <1>14, <1>15, <1>16 DEF after

-----------------------------------------------------------------------------
(* A room whose users take turns: only a replica that has everything makes a *)
(* call, snapshots are not deleted by hand and saves are not undone.       *)

TakesTurns == Features \subseteq {"restart", "resync"}

(* The page is the newest snapshot, and the ids of saves to come are free.   *)
Kept(records, page, docs, free) ==
  /\ \A i \in Ids : i >= free => records[i] = Blank
  /\ Chained(records, docs)
  /\ Listed(records) # {} => ReadTree(page) = docs[Max(Listed(records))]

Ahead(p, q) == OverTree(tree[p], tree[q]) /\ OverRecords(snaps[p], snaps[q])

TurnsIInv ==
  /\ \A p, q \in Peers : Ahead(p, q) \/ Ahead(q, p)
  /\ Peers # {} => \E p \in Peers : \A q \in Peers : Ahead(p, q)
  /\ \A p \in Peers : Kept(snaps[p], tree[p], saved, nextId)

LEMMA OverRecordsSelf ==
  ASSUME NEW records, AreRecords(records) PROVE OverRecords(records, records)
  BY OverRecordsMeans, OverRecordSelf DEF AreRecords

LEMMA AheadSelf ==
  ASSUME ChainTypes, NEW p \in Peers PROVE Ahead(p, p)
  BY OverTreeSelf, OverRecordsSelf DEF Ahead, ChainTypes

(* A replica that knows what another has is ahead of it. *)
LEMMA KnowsIsAhead ==
  ASSUME ChainTypes, TurnsIInv, NEW p \in Peers, NEW q \in Peers
  PROVE  Knows(p, q) <=> Ahead(p, q)
  <1>1. Ahead(p, q) => Knows(p, q)
    BY DEF Ahead, Knows, OverTree, OverRecords
  <1>2. ASSUME Knows(p, q), Ahead(q, p) PROVE Ahead(p, q)
    <2>1. tree[p] = tree[q] /\ snaps[p] = snaps[q]
      BY <1>2 DEF Knows, Ahead, OverTree, OverRecords
    <2> QED
      BY <2>1, AheadSelf DEF Ahead
  <1> QED
    BY <1>1, <1>2 DEF TurnsIInv

LEMMA ActsAhead ==
  ASSUME TakesTurns, ChainTypes, TurnsIInv, NEW p \in Peers, MayAct(p)
  PROVE  \A q \in Peers : Ahead(p, q)
  BY KnowsIsAhead DEF TakesTurns, MayAct

LEMMA BlankIsNotLive == ~Live(Blank.payload) /\ ~Live(Blank.meta)
  BY DEF Blank, Unset, Live

LEMMA ListedAreOld ==
  ASSUME NEW records, NEW page, NEW docs, NEW free, Kept(records, page, docs, free)
  PROVE  \A i \in Listed(records) : i \in Ids /\ ~(i >= free)
  BY BlankIsNotLive DEF Kept, Listed

(* The chain with the new snapshot at its end. *)
LEMMA StoredKeeps ==
  ASSUME ChainIInv, NEW p \in Peers, nextId <= MaxSaves, NEW doc \in Document,
         Kept(snaps[p], tree[p], saved, nextId)
  PROVE  /\ Chained(Stored(p, doc), Append(saved, doc))
         /\ Max(Listed(Stored(p, doc))) = nextId
         /\ Listed(Stored(p, doc)) = Retained(p) \cup {nextId}
         /\ \A i \in Ids : i >= nextId + 1 => Stored(p, doc)[i] = Blank
  <1> DEFINE before == snaps[p]
             after == Stored(p, doc)
             payload == PayloadFor(p, doc)
             docs == Append(saved, doc)
             L == Retained(p)
  <1>1. /\ AreRecords(before) /\ AreRecords(after)
        /\ Listed(after) = L \cup {nextId} /\ L = Listed(before)
        /\ nextId \in Ids /\ nextId \in Nat
        /\ saved \in Seq(Document) /\ nextId = Len(saved) + 1
    BY StoredTyped, PayloadTyped DEF ChainIInv, ChainTypes, Retained
  <1>2. \A i \in L : i \in Ids /\ i \in Nat /\ i < nextId
    BY <1>1, ListedAreOld DEF Ids
  <1>3. \A i \in L : docs[i] = saved[i]
    BY <1>1, <1>2 DEF Ids
  <1>4. docs[nextId] = doc
    BY <1>1
  <1>5. /\ after[nextId].payload = SetKey(Unset, p, payload)
        /\ after[nextId].meta = SetKey(Unset, p, "meta")
        /\ \A i \in Ids : i # nextId => after[i] = before[i]
    BY <1>1 DEF Stored, AreRecords
  <1>6. /\ Live(after[nextId].payload) /\ after[nextId].payload.val = payload
        /\ Live(after[nextId].meta)
    BY <1>5 DEF SetKey, Live
  <1>7. Chained(before, saved) /\ \A i \in Ids : i >= nextId => before[i] = Blank
    BY DEF Kept
  <1>8. Max(Listed(after)) = nextId
    <2>1. Max(Listed(after)) \in Listed(after) /\ nextId <= Max(Listed(after))
      <3>1. Listed(after) \in SUBSET Ids /\ nextId \in Listed(after)
        BY <1>1 DEF Listed
      <3> QED
        BY <3>1, LastOf
    <2> QED
      BY <1>1, <1>2, <2>1
  <1>9. \A i \in L : Rebuilt(after)[i] = Rebuilt(before)[i]
    <2>1. L \in SUBSET Ids
      BY <1>2
    <2>2. ASSUME NEW i \in L
          PROVE  \/ /\ after[i].payload = before[i].payload
                    /\ Live(before[i].payload) /\ before[i].payload.val.kind # "full"
                         => before[i].payload.val.base \in L
                 \/ /\ Live(after[i].payload)
                    /\ \E old \in Rebuilt(before)[i] :
                         /\ after[i].payload.val = Keyframe(old)
                         /\ Rebuilt(before)[i] = {old}
      <3>1. i \in Ids /\ i # nextId
        BY <1>2
      <3>2. before[i].payload \in KeyOf(Payloads(i))
        BY <1>1, <3>1 DEF AreRecords, Record
      <3>3. Live(before[i].payload) => before[i].payload.val \in Payloads(i)
        BY <3>2, LiveKey
      <3>4. Live(before[i].payload) /\ before[i].payload.val.kind # "full"
              => before[i].payload.val.kind = "delta"
        BY <3>3 DEF Payloads, Keyframes, Deltas
      <3> QED
        BY <1>1, <1>5, <1>7, <3>1, <3>4 DEF Chained
    <2>3. AreRecords(before) /\ AreRecords(after)
      BY <1>1
    <2> HIDE DEF L, before, after, payload, docs
    <2> QED
      BY <2>1, <2>2, <2>3, RebuiltAlike, SMTT(60)
  <1>10. /\ Rebuilt(after)[nextId] = {doc}
         /\ payload.kind = "delta" => /\ payload.base \in L
                                      /\ \A j \in L : j <= payload.base
    <2>1. Rebuilt(after)[nextId] = Body(after, Rebuilt(after), nextId)
      BY <1>1, RecordsWellBased, RebuiltUnfolds
    <2>2. CASE payload = Keyframe(doc)
      BY <1>6, <2>1, <2>2 DEF Body, Keyframe
    <2>3. CASE /\ L # {}
               /\ payload = Delta(Max(L), local[p], doc)
               /\ payload.kind = "delta"
      <3>1. Max(L) \in L /\ \A j \in L : j <= Max(L)
        BY <1>2, <2>3, LastOf
      <3>2. local[p] = saved[Max(L)] /\ local[p] \in Document
        BY <1>1, <2>3 DEF Kept, ChainIInv, BaselineIsTree, ChainTypes
      <3>3. Rebuilt(after)[Max(L)] = {local[p]}
        BY <1>1, <1>7, <1>9, <3>1, <3>2 DEF Chained
      <3>4. payload.base = Max(L)
        BY <2>3 DEF Delta
      <3>5. Body(after, Rebuilt(after), nextId) = UNION {Replay(base, payload) : base \in {local[p]}}
        BY <1>6, <2>3, <3>3, <3>4 DEF Body
      <3>6. Replay(local[p], payload) = {doc}
        BY <2>3, <3>2, ReplayDelta
      <3>7. Body(after, Rebuilt(after), nextId) = {doc}
        BY <3>5, <3>6
      <3> QED
        BY <2>1, <3>1, <3>4, <3>7
    <2> QED
      BY <2>2, <2>3, PayloadTyped DEF ChainIInv
  <1> HIDE DEF before, after, payload, docs, L
  <1>11. ASSUME NEW i \in Ids PROVE Live(after[i].payload) <=> Live(after[i].meta)
    BY <1>5, <1>6, <1>7, <1>11 DEF Chained
  <1>12. ASSUME NEW i \in Listed(after), after[i].payload.val.kind = "delta"
         PROVE  /\ after[i].payload.val.base \in Listed(after)
                /\ \A j \in Listed(after) : j < i => j <= after[i].payload.val.base
    <2>1. CASE i = nextId
      BY <1>1, <1>2, <1>6, <1>10, <1>12, <2>1
    <2>2. CASE i # nextId
      <3>1. i \in L /\ i < nextId /\ i \in Nat /\ after[i] = before[i]
        BY <1>1, <1>2, <1>5, <2>2
      <3>2. /\ before[i].payload.val.base \in L
            /\ \A j \in L : j < i => j <= before[i].payload.val.base
        BY <1>1, <1>7, <1>12, <3>1 DEF Chained
      <3> QED
        BY <1>1, <3>1, <3>2
    <2> QED
      BY <2>1, <2>2
  <1>13. ASSUME NEW i \in Listed(after) PROVE Rebuilt(after)[i] = {docs[i]}
    <2>1. CASE i = nextId
      BY <1>4, <1>10, <2>1
    <2>2. CASE i # nextId
      BY <1>1, <1>3, <1>7, <1>9, <2>2 DEF Chained
    <2> QED
      BY <2>1, <2>2
  <1>14. Chained(after, docs)
    BY <1>11, <1>12, <1>13 DEF Chained
  <1>15. \A i \in Ids : i >= nextId + 1 => after[i] = Blank
    BY <1>1, <1>5, <1>7 DEF Ids
  <1> QED
    BY <1>1, <1>8, <1>14, <1>15 DEF after, docs, L

LEMMA StoredOver ==
  ASSUME ChainIInv, TurnsIInv, NEW p \in Peers, nextId <= MaxSaves, NEW doc \in Document,
         NEW q \in Peers, Ahead(p, q)
  PROVE  OverRecords(Stored(p, doc), snaps[q])
  <1> DEFINE after == Stored(p, doc)
             payload == PayloadFor(p, doc)
  <1>1. /\ AreRecords(after) /\ AreRecords(snaps[p]) /\ AreRecords(snaps[q])
        /\ nextId \in Ids /\ payload \in Payloads(nextId) /\ p \in Nat
        /\ nextId \in Nat
    BY StoredTyped, PayloadTyped, ClientIds DEF ChainIInv, ChainTypes
  <1>2. /\ after[nextId] = [payload |-> SetKey(Unset, p, payload),
                            meta    |-> SetKey(Unset, p, "meta")]
        /\ \A i \in Ids : i # nextId => after[i] = snaps[p][i]
    BY <1>1 DEF Stored, AreRecords
  <1>3. snaps[q][nextId] = Blank
    <2>1. \A i \in Ids : i >= nextId => snaps[q][i] = Blank
      BY DEF TurnsIInv, Kept
    <2>2. nextId >= nextId
      BY <1>1
    <2> QED
      BY <1>1, <2>1, <2>2
  <1>4. \A i \in Ids : OverRecord(snaps[p][i], snaps[q][i])
    BY <1>1, OverRecordsMeans DEF Ahead
  <1>5. ASSUME NEW V, NEW v \in V PROVE Over(SetKey(Unset, p, v), Unset)
    <2>1. Unset \in KeyOf(V)
      BY UnsetIsKey
    <2>2. Over(Unset, Unset)
      BY <2>1, KeysAreRegisters, OverSelf
    <2> QED
      BY <1>1, <2>1, <2>2, OverKeySet
  <1> HIDE DEF after, payload
  <1>6. OverRecord(after[nextId], snaps[q][nextId])
    <2>1. "meta" \in {"meta"}
      OBVIOUS
    <2> QED
      BY <1>1, <1>2, <1>3, <1>5, <2>1 DEF OverRecord, Blank
  <1>7. \A i \in Ids : OverRecord(after[i], snaps[q][i])
    BY <1>2, <1>4, <1>6
  <1>8. OverRecords(after, snaps[q])
    BY <1>1, <1>7, OverRecordsMeans
  <1> QED
    BY <1>8 DEF after

LEMMA KeptLater ==
  ASSUME ChainTypes, NEW records, NEW page, NEW doc, Kept(records, page, saved, nextId)
  PROVE  Kept(records, page, Append(saved, doc), nextId + 1)
  <1> DEFINE docs == Append(saved, doc)
             L == Listed(records)
  <1>1. saved \in Seq(Document) /\ nextId = Len(saved) + 1 /\ nextId \in Nat
    BY DEF ChainTypes
  <1>2. \A i \in L : i \in Ids /\ i \in Nat /\ i < nextId /\ i > 0
    BY <1>1, ListedAreOld DEF Ids
  <1>3. \A i \in L : docs[i] = saved[i]
    BY <1>1, <1>2
  <1>4. L # {} => Max(L) \in L
    <2>1. L \in SUBSET Ids
      BY <1>2
    <2> QED
      BY <2>1, LastOf
  <1>5. \A i \in Ids : i >= nextId + 1 => i >= nextId
    BY <1>1 DEF Ids
  <1> HIDE DEF docs
  <1>6. Chained(records, docs)
    BY <1>3 DEF Kept, Chained
  <1> QED
    BY <1>3, <1>4, <1>5, <1>6 DEF Kept, docs

(* save(): the chain, retention and the page together. *)
LEMMA SaveTurns ==
  ASSUME TakesTurns, ChainIInv, TurnsIInv, NEW p \in Peers, NEW doc \in Document,
         Save(p, doc)
  PROVE  /\ TurnsIInv' /\ \A q \in Peers : Ahead(p, q)'
         /\ Retained(p)' = Listed(Stored(p, doc)) \ Victims(Stored(p, doc))
  <1> DEFINE stored == Stored(p, doc)
             after == Evict(stored, p)
             page == ApplyDocument(tree[p], p, local[p], doc)
             docs == Append(saved, doc)
  <1>1. /\ MayAct(p) /\ nextId <= MaxSaves
        /\ snaps' = [snaps EXCEPT ![p] = after]
        /\ tree' = [tree EXCEPT ![p] = page]
        /\ saved' = docs /\ nextId' = nextId + 1
    BY DEF Save, Stored
  <1>2. /\ ChainTypes /\ tree \in [Peers -> Tree] /\ snaps = [q \in Peers |-> snaps[q]]
        /\ \A q \in Peers : AreRecords(snaps[q])
        /\ local[p] = ReadTree(tree[p])
        /\ saved \in Seq(Document) /\ nextId = Len(saved) + 1 /\ nextId \in Nat
        /\ p \in Nat
    BY ClientIds DEF ChainIInv, ChainTypes, BaselineIsTree
  <1>3. \A q \in Peers : Ahead(p, q)
    BY <1>1, <1>2, ActsAhead
  <1>4. AreRecords(stored) /\ AreRecords(after) /\ page \in Tree
    BY <1>1, <1>2, StoredTyped, EvictTyped, ApplyIsTree
  <1>5. \A q \in Peers : OverTree(page, tree[q])
    BY <1>2, <1>3, ApplyOver DEF Ahead
  <1>6. \A q \in Peers : OverRecords(after, snaps[q])
    BY <1>1, <1>2, <1>3, <1>4, StoredOver, EvictOver
  <1>7. Kept(snaps[p], tree[p], saved, nextId)
    BY DEF TurnsIInv
  <1>8. /\ Chained(stored, docs) /\ Max(Listed(stored)) = nextId
        /\ nextId \in Listed(stored)
        /\ \A i \in Ids : i >= nextId + 1 => stored[i] = Blank
    BY <1>1, <1>7, StoredKeeps
  <1>9. /\ Chained(after, docs) /\ Max(Listed(after)) = nextId
        /\ Listed(after) = Listed(stored) \ Victims(stored)
        /\ \A i \in Ids \ Listed(stored) : after[i] = stored[i]
    BY <1>4, <1>8, EvictKeeps
  <1>10. ReadTree(page) = doc /\ docs[nextId] = doc
    BY <1>2, ApplyThenRead
  <1> HIDE DEF after, stored, page, docs
  <1>11. \A i \in Ids : i >= nextId + 1 => after[i] = Blank
    <2>1. \A i \in Ids : i >= nextId + 1 => i \notin Listed(stored)
      BY <1>8, BlankIsNotLive DEF Listed
    <2> QED
      BY <1>8, <1>9, <2>1
  <1>12. Kept(after, page, docs, nextId + 1)
    BY <1>9, <1>10, <1>11 DEF Kept
  <1>13. \A q \in Peers : Kept(snaps[q], tree[q], docs, nextId + 1)
    BY <1>2, KeptLater DEF TurnsIInv, docs
  <1>14. /\ snaps'[p] = after /\ tree'[p] = page
         /\ \A q \in Peers \ {p} : snaps'[q] = snaps[q] /\ tree'[q] = tree[q]
    BY <1>1, <1>2
  <1>15. \A q \in Peers : Kept(snaps'[q], tree'[q], saved', nextId')
    BY <1>1, <1>12, <1>13, <1>14
  <1>16. \A q \in Peers : OverTree(tree'[p], tree'[q]) /\ OverRecords(snaps'[p], snaps'[q])
    BY <1>4, <1>5, <1>6, <1>14, OverTreeSelf, OverRecordsSelf
  <1>17. \A q \in Peers : Ahead(p, q)'
    BY <1>16 DEF Ahead
  <1>18. ASSUME NEW q \in Peers, NEW r \in Peers PROVE Ahead(q, r)' \/ Ahead(r, q)'
    <2>1. CASE q = p \/ r = p
      BY <1>17, <2>1
    <2>2. CASE q # p /\ r # p
      BY <1>14, <2>2 DEF Ahead, TurnsIInv
    <2> QED
      BY <2>1, <2>2
  <1>19. TurnsIInv'
    BY <1>15, <1>17, <1>18 DEF TurnsIInv
  <1> QED
    BY <1>9, <1>14, <1>17, <1>19 DEF Retained, stored

(* forceResync(): the newest snapshot is already the page. *)
LEMMA ResyncIsIdle ==
  ASSUME ChainIInv, TurnsIInv, NEW p \in Peers, ForceResync(p)
  PROVE  UNCHANGED <<tree, snaps, local, since, nextId, saved>>
  <1>1. PICK i \in Retained(p) : \E doc \in Load(p, i) :
          /\ i = Max(Retained(p))
          /\ tree' = [tree EXCEPT ![p] = ApplyDocument(tree[p], p, local[p], doc)]
          /\ local' = [local EXCEPT ![p] = doc]
    BY DEF ForceResync
  <1>2. PICK doc \in Load(p, i) :
          /\ i = Max(Retained(p))
          /\ tree' = [tree EXCEPT ![p] = ApplyDocument(tree[p], p, local[p], doc)]
          /\ local' = [local EXCEPT ![p] = doc]
    BY <1>1
  <1>3. Kept(snaps[p], tree[p], saved, nextId)
    BY DEF TurnsIInv
  <1>4. Load(p, i) = {saved[i]}
    BY <1>3 DEF Kept, Chained, Load, Retained
  <1>5. ReadTree(tree[p]) = saved[i]
    BY <1>2, <1>3 DEF Kept, Retained
  <1>6. /\ tree \in [Peers -> Tree] /\ local \in [Peers -> Document]
        /\ local[p] = ReadTree(tree[p])
    BY DEF ChainIInv, ChainTypes, BaselineIsTree
  <1>7. doc = local[p]
    BY <1>2, <1>4, <1>5, <1>6
  <1>8. ApplyDocument(tree[p], p, local[p], doc) = tree[p]
    BY <1>6, <1>7, ApplyNothing
  <1>9. tree' = tree /\ local' = local
    BY <1>2, <1>6, <1>7, <1>8
  <1> QED
    BY <1>9 DEF ForceResync

(* p lacks something q has: then q lacks nothing of p, and p becomes a copy. *)
LEMMA DeliverCopies ==
  ASSUME ChainIInv, TurnsIInv, NEW p \in Peers, NEW q \in Peers, Deliver(p, q)
  PROVE  /\ tree' = [tree EXCEPT ![p] = tree[q]]
         /\ snaps' = [snaps EXCEPT ![p] = snaps[q]]
         /\ ~Ahead(p, q) /\ Ahead(q, p)
         /\ UNCHANGED <<nextId, saved>>
  <1>1. ~Ahead(p, q) /\ Ahead(q, p)
    BY KnowsIsAhead DEF Deliver, ChainIInv, TurnsIInv
  <1>2. MergeTree(tree[p], tree[q]) = tree[q] /\ MergeRecords(snaps[p], snaps[q]) = snaps[q]
    BY <1>1 DEF Ahead, OverTree, OverRecords
  <1> QED
    BY <1>1, <1>2 DEF Deliver

LEMMA DeliverTurns ==
  ASSUME ChainIInv, TurnsIInv, NEW p \in Peers, NEW q \in Peers, Deliver(p, q)
  PROVE  TurnsIInv' /\ \E lead \in Peers : \A r \in Peers : Ahead(lead, r) /\ Ahead(lead, r)'
                       /\ snaps'[lead] = snaps[lead]
  <1>1. /\ tree \in [Peers -> Tree] /\ snaps = [r \in Peers |-> snaps[r]]
    BY DEF ChainIInv, ChainTypes
  <1>2. /\ tree' = [tree EXCEPT ![p] = tree[q]] /\ snaps' = [snaps EXCEPT ![p] = snaps[q]]
        /\ ~Ahead(p, q) /\ Ahead(q, p) /\ nextId' = nextId /\ saved' = saved
    BY DeliverCopies
  <1>3. /\ tree'[p] = tree[q] /\ snaps'[p] = snaps[q]
        /\ \A r \in Peers \ {p} : tree'[r] = tree[r] /\ snaps'[r] = snaps[r]
    BY <1>1, <1>2
  <1>4. \A r \in Peers : Kept(snaps'[r], tree'[r], saved', nextId')
    BY <1>2, <1>3 DEF TurnsIInv
  <1> DEFINE Twin(r) == IF r = p THEN q ELSE r
  <1>5. ASSUME NEW r \in Peers, NEW s \in Peers
        PROVE  Ahead(r, s)' <=> Ahead(Twin(r), Twin(s))
    <2>1. \A t \in Peers : /\ Twin(t) \in Peers
                           /\ tree'[t] = tree[Twin(t)] /\ snaps'[t] = snaps[Twin(t)]
      BY <1>3
    <2> HIDE DEF Twin
    <2> QED
      BY <2>1 DEF Ahead
  <1>6. \A r, s \in Peers : Ahead(r, s)' \/ Ahead(s, r)'
    <2>1. \A t \in Peers : Twin(t) \in Peers
      OBVIOUS
    <2>2. \A t, u \in Peers : Ahead(t, u) \/ Ahead(u, t)
      BY DEF TurnsIInv
    <2> HIDE DEF Twin
    <2> QED
      BY <1>5, <2>1, <2>2
  <1>7. PICK lead \in Peers : \A r \in Peers : Ahead(lead, r)
    BY DEF TurnsIInv
  <1>8. lead # p
    BY <1>2, <1>7
  <1>9. \A r \in Peers : Ahead(lead, r)'
    <2>1. Twin(lead) = lead /\ \A t \in Peers : Twin(t) \in Peers
      BY <1>8
    <2> HIDE DEF Twin
    <2> QED
      BY <1>5, <1>7, <2>1
  <1>10. TurnsIInv'
    BY <1>4, <1>6, <1>9 DEF TurnsIInv
  <1> QED
    BY <1>3, <1>7, <1>8, <1>9, <1>10

LEMMA SameTurns ==
  ASSUME TurnsIInv, UNCHANGED <<tree, snaps, nextId, saved>>
  PROVE  TurnsIInv'
  BY DEF TurnsIInv, Ahead, Kept, Chained

LEMMA TurnsInit == Init => TurnsIInv
  <1> SUFFICES ASSUME Init PROVE TurnsIInv
    OBVIOUS
  <1>1. PICK doc \in Document :
          /\ tree = [p \in Peers |-> SeededTree(doc)]
          /\ snaps = [p \in Peers |-> [i \in Ids |-> Blank]]
    BY DEF Init, Blank
  <1>2. \A p, q \in Peers : Ahead(p, q)
    <2>1. ChainTypes
      BY ChainInit DEF ChainIInv
    <2>2. \A p \in Peers : Ahead(p, p)
      BY <2>1, AheadSelf
    <2>3. \A p, q \in Peers : tree[p] = tree[q] /\ snaps[p] = snaps[q]
      BY <1>1
    <2> QED
      BY <2>2, <2>3 DEF Ahead
  <1>3. ASSUME NEW p \in Peers PROVE Kept(snaps[p], tree[p], saved, nextId)
    <2>1. \A i \in Ids : snaps[p][i] = Blank
      BY <1>1
    <2>2. Listed(snaps[p]) = {}
      BY <2>1, BlankIsNotLive DEF Listed
    <2> QED
      BY <2>1, <2>2, BlankIsNotLive DEF Kept, Chained
  <1> QED
    BY <1>2, <1>3 DEF TurnsIInv

LEMMA TurnsNext == TakesTurns /\ ChainIInv /\ TurnsIInv /\ [Next]_vars => TurnsIInv'
  <1> SUFFICES ASSUME TakesTurns, ChainIInv, TurnsIInv, [Next]_vars PROVE TurnsIInv'
    OBVIOUS
  <1>1. CASE UNCHANGED vars
    BY <1>1, SameTurns DEF vars
  <1>2. ASSUME NEW p \in Peers, ForceResync(p) \/ Restart(p) PROVE TurnsIInv'
    BY <1>2, SameTurns, ResyncIsIdle DEF Restart
  <1>3. ASSUME NEW p \in Peers, Undo(p) \/ \E i \in Ids : Delete(p, i) PROVE TurnsIInv'
    BY <1>3 DEF TakesTurns, Undo, Delete
  <1> QED
    BY <1>1, <1>2, <1>3, SaveTurns, DeliverTurns DEF Next

(* While users take turns every listed snapshot loads as the document its    *)
(* save() was given: deltas are applied to what they were made from, and   *)
(* retention never drops a base (reconstructPayload, the eviction in       *)
(* save()).                                                                *)
THEOREM SnapshotsLoad ==
  ASSUME TakesTurns PROVE Spec => []LoadsWhatWasSaved
  <1>1. TurnsIInv => LoadsWhatWasSaved
    BY DEF TurnsIInv, Kept, Chained, LoadsWhatWasSaved, Load, Retained
  <1>2. TurnsIInv /\ ChainIInv /\ [Next]_vars => TurnsIInv'
    BY TurnsNext
  <1> QED
    BY <1>1, <1>2, TurnsInit, ChainInit, ChainNext, PTL DEF Spec

-----------------------------------------------------------------------------
(* The delta chain implements the plain history. *)

(* The oldest beyond the ceiling are what the newest within it leave. *)
LEMMA NewestIsKept ==
  ASSUME NEW records
  PROVE  {i \in Listed(records) :
            MaxSnapshots = 0
            \/ Cardinality({j \in Listed(records) : j > i}) < MaxSnapshots}
           = Listed(records) \ Victims(records)
  <1> DEFINE L == Listed(records)
             Before(i) == {j \in L : j < i}
             Later(i) == {j \in L : j > i}
             Total == Cardinality(L)
  <1>1. L \in SUBSET Ids /\ \A i \in L : i \in Nat
    BY ChainAssumption DEF Listed, Ids
  <1>2. Victims(records) = {i \in L : Cardinality(Before(i)) < Overflow(records)}
    BY DEF Victims
  <1>3. Overflow(records) = IF MaxSnapshots = 0 THEN 0 ELSE Total - MaxSnapshots
    BY DEF Overflow
  <1> HIDE DEF L
  <1>4. ASSUME NEW i \in L
        PROVE  /\ Cardinality(Before(i)) \in Nat /\ Cardinality(Later(i)) \in Nat
               /\ Total \in Nat /\ Total = Cardinality(Before(i)) + 1 + Cardinality(Later(i))
    <2>1. Before(i) \in SUBSET Ids /\ Later(i) \in SUBSET Ids
      BY <1>1
    <2>2. /\ IsFiniteSet(L) /\ IsFiniteSet(Before(i)) /\ IsFiniteSet(Later(i))
          /\ Cardinality(Before(i)) \in Nat /\ Cardinality(Later(i)) \in Nat
          /\ Total \in Nat
      BY <1>1, <2>1, IdsFinite
    <2> DEFINE others == Before(i) \cup Later(i)
    <2>3. L \ {i} = others /\ Before(i) \cap Later(i) = {}
      BY <1>1
    <2>4. Cardinality(others)
            = Cardinality(Before(i)) + Cardinality(Later(i)) - Cardinality(Before(i) \cap Later(i))
      BY <2>2, FS_Union
    <2>5. Cardinality(L \ {i}) = Total - 1
      BY <2>2, FS_RemoveElement
    <2>6. Cardinality({}) = 0
      BY FS_EmptySet
    <2> DEFINE before == Cardinality(Before(i))
               later == Cardinality(Later(i))
    <2>7. /\ before \in Nat /\ later \in Nat /\ Total \in Nat
          /\ Total - 1 = before + later - 0
      BY <2>2, <2>3, <2>4, <2>5, <2>6
    <2> HIDE DEF before, later, Total
    <2>8. Total = before + 1 + later
      BY <2>7
    <2> QED
      BY <2>7, <2>8 DEF before, later
  <1>5. ASSUME NEW i \in L
        PROVE  i \in Victims(records)
                 <=> ~(MaxSnapshots = 0 \/ Cardinality(Later(i)) < MaxSnapshots)
    <2>1. i \in Victims(records) <=> Cardinality(Before(i)) < Overflow(records)
      BY <1>2
    <2> HIDE DEF Before, Later, Total
    <2> QED
      BY <1>3, <1>4, <2>1, ChainAssumption
  <1> QED
    BY <1>5 DEF L

(* What a replica with these records answers, and the replica that is asked. *)
LogOf(records) == [i \in Listed(records) |-> Rebuilt(records)[i]]

Asked(trees, records) ==
  CHOOSE p \in Peers :
    \A q \in Peers \ {p} : /\ MergeTree(trees[p], trees[q]) = trees[p]
                           /\ MergeRecords(records[p], records[q]) = records[p]

LEMMA AnswersMeans ==
  /\ Answers(UpToDate) = LogOf(snaps[Asked(tree, snaps)])
  /\ Answers(UpToDate)' = LogOf(snaps'[Asked(tree', snaps')])
  BY DEF Answers, UpToDate, LogOf, Asked, Knows, Retained

LEMMA AskedIsLeader ==
  ASSUME NEW trees, NEW records, NEW lead \in Peers,
         \A q \in Peers : /\ OverTree(trees[lead], trees[q])
                          /\ OverRecords(records[lead], records[q])
  PROVE  records[Asked(trees, records)] = records[lead]
  <1> DEFINE p == Asked(trees, records)
  <1>1. \A q \in Peers \ {lead} :
          /\ MergeTree(trees[lead], trees[q]) = trees[lead]
          /\ MergeRecords(records[lead], records[q]) = records[lead]
    BY DEF OverTree, OverRecords
  <1>2. /\ p \in Peers
        /\ \A q \in Peers \ {p} : /\ MergeTree(trees[p], trees[q]) = trees[p]
                                  /\ MergeRecords(records[p], records[q]) = records[p]
    BY <1>1 DEF Asked
  <1> HIDE DEF p
  <1>3. p # lead => MergeRecords(records[p], records[lead]) = records[p]
    BY <1>2
  <1>4. MergeRecords(records[p], records[lead]) = records[lead]
    BY <1>2 DEF OverRecords
  <1>5. records[p] = records[lead]
    BY <1>3, <1>4
  <1> QED
    BY <1>5 DEF p

LEMMA LeaderAnswers ==
  /\ \A lead \in Peers :
       (\A q \in Peers : Ahead(lead, q)) => Answers(UpToDate) = LogOf(snaps[lead])
  /\ \A lead \in Peers :
       (\A q \in Peers : Ahead(lead, q)') => Answers(UpToDate)' = LogOf(snaps'[lead])
  BY AnswersMeans, AskedIsLeader DEF Ahead

LEMMA KeptLog ==
  ASSUME NEW records, NEW page, NEW docs, NEW free, Kept(records, page, docs, free)
  PROVE  LogOf(records) = [i \in Listed(records) |-> {docs[i]}]
  BY DEF Kept, Chained, LogOf

LEMMA HistoryInit ==
  ASSUME Peers # {}, Init PROVE History!Init
  <1>1. TurnsIInv
    BY TurnsInit
  <1>2. PICK lead \in Peers : \A q \in Peers : Ahead(lead, q)
    BY <1>1 DEF TurnsIInv
  <1>3. Listed(snaps[lead]) = {} /\ saved = << >>
    BY DEF Init, Listed, Live, Unset
  <1>4. LogOf(snaps[lead]) = [i \in {} |-> {}]
    BY <1>3 DEF LogOf
  <1> QED
    BY <1>2, <1>3, <1>4, LeaderAnswers DEF History!Init

LEMMA HistorySave ==
  ASSUME TakesTurns, ChainIInv, TurnsIInv, NEW p \in Peers, NEW doc \in Document,
         Save(p, doc)
  PROVE  History!Save(doc)
  <1> DEFINE old == Answers(UpToDate)
             new == Answers(UpToDate)'
             stored == Stored(p, doc)
             L == Listed(stored)
             N == {i \in L : MaxSnapshots = 0
                             \/ Cardinality({j \in L : j > i}) < MaxSnapshots}
  <1>1. /\ saved' = Append(saved, doc) /\ MayAct(p) /\ nextId <= MaxSaves
        /\ saved \in Seq(Document) /\ nextId = Len(saved) + 1
        /\ ChainTypes /\ Kept(snaps[p], tree[p], saved, nextId)
    BY DEF Save, ChainIInv, ChainTypes, TurnsIInv
  <1>2. /\ TurnsIInv' /\ \A q \in Peers : Ahead(p, q)'
        /\ Listed(snaps'[p]) = L \ Victims(stored)
    BY SaveTurns DEF Retained
  <1>3. old = LogOf(snaps[p]) /\ new = LogOf(snaps'[p])
    BY <1>1, <1>2, ActsAhead, LeaderAnswers
  <1>4. L = Retained(p) \cup {nextId}
    BY <1>1, StoredKeeps
  <1>5. Kept(snaps'[p], tree'[p], saved', nextId')
    BY <1>2 DEF TurnsIInv
  <1>6. old = [i \in Retained(p) |-> {saved[i]}]
    <2>1. LogOf(snaps[p]) = [i \in Listed(snaps[p]) |-> {saved[i]}]
      <3>1. Kept(snaps[p], tree[p], saved, nextId)
        BY <1>1
      <3> HIDE DEF old, new, stored, L, N
      <3> QED
        BY <3>1 DEF Kept, Chained, LogOf
    <2> QED
      BY <1>3, <2>1 DEF Retained
  <1>7. new = [i \in L \ Victims(stored) |-> {saved'[i]}]
    BY <1>2, <1>3, <1>5, KeptLog
  <1>8. N = L \ Victims(stored)
    BY NewestIsKept
  <1>9. \A i \in Retained(p) : i \in 1 .. Len(saved)
    BY <1>1, ListedAreOld DEF Retained, Ids
  <1>10. \A i \in N : {saved'[i]} = IF i = Len(saved) + 1 THEN {doc} ELSE old[i]
    <2> TAKE i \in N
    <2>1. CASE i = nextId
      BY <1>1, <2>1
    <2>2. CASE i # nextId
      <3>1. i \in Retained(p) /\ i \in 1 .. Len(saved)
        BY <1>4, <1>9, <2>2
      <3> QED
        BY <1>1, <1>6, <3>1
    <2> QED
      BY <1>1, <2>1, <2>2
  <1>11. DOMAIN old \cup {Len(saved) + 1} = L
    BY <1>1, <1>4, <1>6
  <1> HIDE DEF old, new, stored, L, N
  <1>12. new = [i \in N |-> IF i = Len(saved) + 1 THEN {doc} ELSE old[i]]
    BY <1>7, <1>8, <1>10
  <1>13. History!Newest(L) = N
    BY DEF History!Newest, N, Cardinality, History!Cardinality, IsFiniteSet, History!IsFiniteSet
  <1>14. new = [i \in History!Newest(DOMAIN old \cup {Len(saved) + 1}) |->
                  IF i = Len(saved) + 1 THEN {doc} ELSE old[i]]
    BY <1>11, <1>12, <1>13
  <1> QED
    BY <1>1, <1>14 DEF History!Save, old, new

LEMMA HistoryStep ==
  ASSUME TakesTurns, Peers # {}, ChainIInv, TurnsIInv, [Next]_vars
  PROVE  [History!Next]_<<saved, Answers(UpToDate)>>
  <1>1. ASSUME NEW p \in Peers, NEW doc \in Document, Save(p, doc)
        PROVE  History!Next
    BY <1>1, HistorySave DEF History!Next
  <1>2. ASSUME UNCHANGED <<tree, snaps, saved>>
        PROVE  UNCHANGED <<saved, Answers(UpToDate)>>
    BY <1>2, AnswersMeans
  <1>3. ASSUME NEW p \in Peers, NEW q \in Peers, Deliver(p, q)
        PROVE  UNCHANGED <<saved, Answers(UpToDate)>>
    <2>1. PICK lead \in Peers :
            \A r \in Peers : Ahead(lead, r) /\ Ahead(lead, r)' /\ snaps'[lead] = snaps[lead]
      BY <1>3, DeliverTurns
    <2>2. snaps'[lead] = snaps[lead]
      BY <2>1
    <2>3. Answers(UpToDate)' = Answers(UpToDate)
      BY <2>1, <2>2, LeaderAnswers
    <2> QED
      BY <1>3, <2>3 DEF Deliver
  <1>4. ASSUME NEW p \in Peers, ForceResync(p) \/ Restart(p)
        PROVE  UNCHANGED <<saved, Answers(UpToDate)>>
    BY <1>2, <1>4, ResyncIsIdle DEF Restart
  <1>5. ASSUME NEW p \in Peers, Undo(p) \/ \E i \in Ids : Delete(p, i) PROVE FALSE
    BY <1>5 DEF TakesTurns, Undo, Delete
  <1>6. CASE UNCHANGED vars
    BY <1>2, <1>6 DEF vars
  <1> QED
    BY <1>1, <1>3, <1>4, <1>5, <1>6 DEF Next

(* Users who take turns see the plain history of snapshots, whatever the     *)
(* encoding does underneath: keyframes, re-rooting, adapters coming and    *)
(* going, and updates that arrive late change no answer (list, load, save  *)
(* and the retention of snapshots.ts).                                     *)
THEOREM ChainImplementsHistory ==
  ASSUME TakesTurns, Peers # {} PROVE Spec => ImplementsHistory
  <1>1. TurnsIInv /\ ChainIInv /\ [Next]_vars => TurnsIInv'
    BY TurnsNext
  <1>2. Init => History!Init
    BY HistoryInit
  <1>3. TurnsIInv /\ ChainIInv /\ [Next]_vars => [History!Next]_<<saved, Answers(UpToDate)>>
    BY HistoryStep
  <1> QED
    BY <1>1, <1>2, <1>3, TurnsInit, ChainInit, ChainNext, PTL DEF Spec, ImplementsHistory, History!Spec

=============================================================================
