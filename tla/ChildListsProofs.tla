-------------------------- MODULE ChildListsProofs --------------------------
(***************************************************************************)
(* Theorems about the lists of children.  The first half is about what one *)
(* array holds: it stays well formed on every replica (ListsTypeCorrect).  *)
(* The second is about the order of its ids: what the reconcile leaves, in *)
(* what order a merge and the walks find it, and from that the cached page *)
(* (FlatCacheFollows) and the places of nodes (FlatPlacesSurvive), which   *)
(* hold until a guarded read of the whole tree has left a node out; if the *)
(* caches are filled none does (FilledUncut).                              *)
(*                                                                         *)
(* Paths of writers are compared as in SharedTreeProofs, whose lemmas are  *)
(* cited through the instance Keys.                                        *)
(***************************************************************************)
EXTENDS ChildLists, FiniteSetTheorems, WellFoundedInduction, TLAPS

Keys == INSTANCE SharedTreeProofs WITH Contents <- {}

-----------------------------------------------------------------------------
(* Naturals and finite sets. *)

LEMMA LeastOf ==
  ASSUME NEW S \in SUBSET Nat, S # {}
  PROVE  \E least \in S : \A j \in S : least <= j
  <1> DEFINE below == OpToRel(<, Nat)
  <1>1. below = {ss \in Nat \X Nat : ss[1] < ss[2]}
    BY DEF OpToRel
  <1>2. IsWellFoundedOn(below, Nat)
    BY NatLessThanWellFounded
  <1> HIDE DEF below
  <1>3. PICK x \in S : \A y \in S : ~(<<y, x>> \in below)
    BY <1>2, WFMin
  <1>4. \A y \in S : ~(y < x)
    BY <1>1, <1>3
  <1> QED
    BY <1>4

LEMMA FirstOf ==
  ASSUME NEW S \in SUBSET Nat, S # {}
  PROVE  Min(S) \in S /\ \A j \in S : Min(S) <= j
  BY LeastOf DEF Min

(* Counting up: what holds of 0 and of each number after one of which it    *)
(* holds, holds up to n.                                                   *)
LEMMA CountUp ==
  ASSUME NEW n \in Nat, NEW Good, 0 \in Good,
         \A k \in 1 .. n : k - 1 \in Good => k \in Good
  PROVE  \A k \in 0 .. n : k \in Good
  <1> DEFINE bad == {k \in Nat : k <= n /\ k \notin Good}
  <1> SUFFICES ASSUME bad # {} PROVE FALSE
    OBVIOUS
  <1>1. PICK k \in bad : \A j \in bad : k <= j
    BY LeastOf
  <1>2. k \in Nat /\ k <= n /\ k \notin Good /\ k # 0
    BY <1>1
  <1>3. k - 1 \in Nat /\ k - 1 <= n /\ k - 1 \notin bad
    BY <1>1, <1>2
  <1> QED
    BY <1>2, <1>3

(* A finite set that is totally ordered has a last member: one after which *)
(* come the fewest.                                                        *)
LEMMA GreatestOf ==
  ASSUME NEW S, IsFiniteSet(S), S # {}, NEW R \in SUBSET (S \X S),
         \A x, y \in S : <<x, y>> \in R \/ <<y, x>> \in R \/ x = y,
         \A x \in S : <<x, x>> \notin R,
         \A x, y, z \in S : <<x, y>> \in R /\ <<y, z>> \in R => <<x, z>> \in R
  PROVE  \E last \in S : \A y \in S : y # last => <<y, last>> \in R
  <1> DEFINE over == [x \in S |-> {y \in S : <<x, y>> \in R}]
             counts == {c \in Nat : \E x \in S : c = Cardinality(over[x])}
  <1>1. \A x \in S : \A y : y \in over[x] <=> y \in S /\ <<x, y>> \in R
    OBVIOUS
  <1> HIDE DEF over
  <1>2. \A x \in S : IsFiniteSet(over[x]) /\ Cardinality(over[x]) \in Nat
    <2> TAKE x \in S
    <2>1. over[x] \in SUBSET S
      BY <1>1, Zenon
    <2> QED
      BY <2>1, FS_Subset, FS_CardinalityType
  <1>3. counts \in SUBSET Nat /\ counts # {}
    BY <1>2
  <1>4. PICK least \in counts : \A j \in counts : least <= j
    BY <1>3, LeastOf
  <1>5. PICK x \in S : least = Cardinality(over[x])
    BY <1>4
  <1>6. ASSUME NEW y \in S, <<x, y>> \in R PROVE FALSE
    <2>1. over[y] \in SUBSET over[x] /\ y \in over[x] /\ y \notin over[y]
      BY <1>1, <1>6, Zenon
    <2>2. /\ Cardinality(over[y]) <= Cardinality(over[x])
          /\ Cardinality(over[x]) = Cardinality(over[y]) => over[x] = over[y]
      BY <1>2, <2>1, FS_Subset
    <2>3. Cardinality(over[y]) \in counts
      BY <1>2
    <2>4. Cardinality(over[x]) <= Cardinality(over[y])
      BY <1>4, <1>5, <2>3
    <2>5. Cardinality(over[x]) = Cardinality(over[y])
      BY <1>2, <2>2, <2>4
    <2> QED
      BY <2>1, <2>2, <2>5
  <1>7. \A y \in S : y # x => <<y, x>> \in R
    BY <1>6
  <1> QED
    BY <1>7

LEMMA MaxOf ==
  ASSUME NEW S \in SUBSET Nat, IsFiniteSet(S), S # {}
  PROVE  Max(S) \in S /\ \A j \in S : j <= Max(S)
  <1> DEFINE R == {ss \in S \X S : ss[1] < ss[2]}
  <1>1. R \in SUBSET (S \X S) /\ \A x, y \in S : <<x, y>> \in R <=> x < y
    OBVIOUS
  <1>2. \A x, y \in S : <<x, y>> \in R \/ <<y, x>> \in R \/ x = y
    OBVIOUS
  <1>3. \A x \in S : <<x, x>> \notin R
    OBVIOUS
  <1>4. \A x, y, z \in S : <<x, y>> \in R /\ <<y, z>> \in R => <<x, z>> \in R
    OBVIOUS
  <1> HIDE DEF R
  <1>5. \E last \in S : \A y \in S : y # last => <<y, last>> \in R
    BY <1>1, <1>2, <1>3, <1>4, GreatestOf
  <1>6. PICK last \in S : \A y \in S : y # last => <<y, last>> \in R
    BY <1>5
  <1>7. \A j \in S : j <= last
    <2> TAKE j \in S
    <2>1. j \in Nat /\ last \in Nat
      OBVIOUS
    <2>2. j # last => j < last
      BY <1>1, <1>6, Zenon
    <2> QED
      BY <2>1, <2>2
  <1> QED
    BY <1>7 DEF Max

-----------------------------------------------------------------------------
(* A recursion that counts up has a solution: one up to k - 1 extends to k. *)
Solution(f, m, V, a, next) ==
  /\ f \in [0 .. m -> V] /\ f[0] = a
  /\ \A k \in 1 .. m : f[k] = next[k][f[k - 1]]

LEMMA Recursion ==
  ASSUME NEW n \in Nat, NEW V, NEW a \in V, NEW next \in [1 .. n -> [V -> V]]
  PROVE  \E f : Solution(f, n, V, a, next)
  <1> USE DEF Solution
  <1> DEFINE Solves(f, m) == Solution(f, m, V, a, next)
             Good == {m \in Nat : \E f : Solves(f, m)}
  <1>1. 0 \in Good
    <2> DEFINE f == [k \in 0 .. 0 |-> a]
    <2>1. Solves(f, 0)
      OBVIOUS
    <2> QED
      BY <2>1
  <1>2. ASSUME NEW m \in 1 .. n, m - 1 \in Good PROVE m \in Good
    <2>1. PICK f : Solves(f, m - 1)
      BY <1>2
    <2> DEFINE g == [k \in 0 .. m |-> IF k = m THEN next[m][f[m - 1]] ELSE f[k]]
    <2>2. /\ f \in [0 .. m - 1 -> V] /\ f[0] = a
          /\ \A k \in 1 .. m - 1 : f[k] = next[k][f[k - 1]]
      BY <2>1
    <2>3. f[m - 1] \in V /\ next[m][f[m - 1]] \in V
      BY <2>2
    <2>4. g \in [0 .. m -> V] /\ g[m] = next[m][f[m - 1]] /\ \A k \in 0 .. m - 1 : g[k] = f[k]
      BY <2>2, <2>3
    <2> HIDE DEF g
    <2>5. \A k \in 1 .. m : g[k] = next[k][g[k - 1]]
      <3> TAKE k \in 1 .. m
      <3>1. g[k - 1] = f[k - 1]
        BY <2>4
      <3>2. CASE k = m
        BY <2>4, <3>1, <3>2
      <3>3. CASE k # m
        BY <2>2, <2>4, <3>1, <3>3
      <3> QED
        BY <3>2, <3>3
    <2>6. Solves(g, m)
      BY <2>2, <2>4, <2>5
    <2> HIDE DEF Solves
    <2> QED
      BY <2>6
  <1> HIDE DEF Good
  <1>3. \A m \in 0 .. n : m \in Good
    BY <1>1, <1>2, CountUp
  <1>4. n \in Good
    BY <1>3
  <1> QED
    BY <1>4 DEF Good

(* kept[k] is what is kept of the first k. *)
Keeps(kept, seq, S) ==
  /\ kept[0] = << >> /\ Keep(seq, S) = kept[Len(seq)]
  /\ \A k \in 1 .. Len(seq) :
       kept[k] = IF seq[k] \in S THEN Append(kept[k - 1], seq[k]) ELSE kept[k - 1]

LEMMA KeepUnfolds ==
  ASSUME NEW T, NEW seq \in Seq(T), NEW S
  PROVE  \E kept : /\ Keeps(kept, seq, S)
                   /\ \A k \in 0 .. Len(seq) : kept[k] \in Seq(T \cap S)
  <1> DEFINE V == Seq(T \cap S)
             n == Len(seq)
             none == << >>
             step(s, k) == IF seq[k] \in S THEN Append(s, seq[k]) ELSE s
             next == [k \in 1 .. n |-> [s \in V |-> step(s, k)]]
             body(f) == [k \in 0 .. n |-> IF k = 0 THEN none ELSE step(f[k - 1], k)]
             kept == CHOOSE f : f = body(f)
  <1>1. Keep(seq, S) = kept[n]
    BY DEF Keep
  <1> HIDE DEF kept
  <1>2. ASSUME NEW s \in V, NEW k \in 1 .. n PROVE step(s, k) \in V
    <2>1. seq[k] \in T
      OBVIOUS
    <2> QED
      BY <2>1
  <1>3. n \in Nat /\ none \in V
    OBVIOUS
  <1> HIDE DEF V, n, none, step
  <1>4. \A k \in 1 .. n : \A s \in V : next[k][s] = step(s, k)
    OBVIOUS
  <1>5. PICK f : Solution(f, n, V, none, next)
    <2>1. next \in [1 .. n -> [V -> V]]
      BY <1>2
    <2> HIDE DEF next
    <2> QED
      BY <1>3, <2>1, Recursion
  <1> HIDE DEF next
  <1>6. \A k \in 1 .. n : f[k] = step(f[k - 1], k)
    <2> TAKE k \in 1 .. n
    <2>1. f[k - 1] \in V
      BY <1>3, <1>5 DEF Solution
    <2> QED
      BY <1>4, <1>5, <2>1 DEF Solution
  <1>7. f = body(f)
    <2>1. \A k \in 0 .. n : f[k] = IF k = 0 THEN none ELSE step(f[k - 1], k)
      BY <1>3, <1>5, <1>6 DEF Solution
    <2> QED
      BY <1>5, <2>1 DEF Solution
  <1>8. kept = body(kept)
    BY <1>7 DEF kept
  <1>9. kept[0] = none /\ \A k \in 1 .. n : kept[k] = step(kept[k - 1], k)
    BY <1>3, <1>8
  <1> DEFINE Good == {k \in Nat : kept[k] \in V}
  <1>10. \A k \in 0 .. n : k \in Good
    <2>1. 0 \in Good
      BY <1>3, <1>9
    <2>2. ASSUME NEW k \in 1 .. n, k - 1 \in Good PROVE k \in Good
      BY <1>2, <1>3, <1>9, <2>2
    <2> HIDE DEF Good
    <2> QED
      BY <1>3, <2>1, <2>2, CountUp
  <1>11. \A k \in 0 .. n : kept[k] \in V
    BY <1>10
  <1>12. \A k \in 1 .. n :
           kept[k] = IF seq[k] \in S THEN Append(kept[k - 1], seq[k]) ELSE kept[k - 1]
    BY <1>9 DEF step
  <1> QED
    BY <1>1, <1>9, <1>11, <1>12 DEF V, n, none, Keeps

LEMMA KeepFacts ==
  ASSUME NEW T, NEW seq \in Seq(T), NEW S
  PROVE  Keep(seq, S) \in Seq(T \cap S)
  BY KeepUnfolds DEF Keeps
LEMMA InsertAtFacts ==
  ASSUME NEW S, NEW s \in Seq(S), NEW x \in S, NEW k \in 1 .. Len(s) + 1
  PROVE  InsertAt(s, k, x) \in Seq(S) /\ Len(InsertAt(s, k, x)) = Len(s) + 1
  <1> DEFINE head == SubSeq(s, 1, k - 1)
             rest == SubSeq(s, k, Len(s))
  <1>1. head \in Seq(S) /\ Len(head) = k - 1
    OBVIOUS
  <1>2. rest \in Seq(S) /\ Len(rest) = Len(s) - k + 1
    BY SMTT(30)
  <1>3. InsertAt(s, k, x) = (head \o <<x>>) \o rest
    BY DEF InsertAt
  <1> HIDE DEF head, rest
  <1>4. head \o <<x>> \in Seq(S) /\ Len(head \o <<x>>) = k
    BY <1>1
  <1> QED
    BY <1>2, <1>3, <1>4

LEMMA RemoveAtFacts ==
  ASSUME NEW S, NEW s \in Seq(S), NEW k \in 1 .. Len(s)
  PROVE  RemoveAt(s, k) \in Seq(S) /\ Len(RemoveAt(s, k)) = Len(s) - 1
  <1> DEFINE head == SubSeq(s, 1, k - 1)
             rest == SubSeq(s, k + 1, Len(s))
  <1>1. head \in Seq(S) /\ Len(head) = k - 1
    OBVIOUS
  <1>2. rest \in Seq(S) /\ Len(rest) = Len(s) - k
    BY SMTT(30)
  <1>3. RemoveAt(s, k) = head \o rest
    BY DEF RemoveAt
  <1> HIDE DEF head, rest
  <1> QED
    BY <1>1, <1>2, <1>3

-----------------------------------------------------------------------------
(* Sequences: what holds of the empty one, and of each that is one longer   *)
(* than one of which it holds, holds of all.                               *)
LEMMA Lengthen ==
  ASSUME NEW T, NEW Good, << >> \in Good,
         \A s \in Seq(T), x \in T : s \in Good => Append(s, x) \in Good
  PROVE  \A s \in Seq(T) : s \in Good
  <1> TAKE s \in Seq(T)
  <1> DEFINE n == Len(s)
             Upto == {k \in Nat : SubSeq(s, 1, k) \in Good}
  <1>0. n \in Nat
    OBVIOUS
  <1>1. 0 \in Upto
    <2>1. SubSeq(s, 1, 0) = << >>
      OBVIOUS
    <2> QED
      BY <2>1
  <1>2. ASSUME NEW k \in 1 .. n, k - 1 \in Upto PROVE k \in Upto
    <2>1. SubSeq(s, 1, k - 1) \in Seq(T) /\ s[k] \in T
      OBVIOUS
    <2>2. SubSeq(s, 1, k) = Append(SubSeq(s, 1, k - 1), s[k])
      BY SMTT(30)
    <2>3. Append(SubSeq(s, 1, k - 1), s[k]) \in Good
      BY <1>2, <2>1
    <2>4. k \in Nat
      OBVIOUS
    <2> QED
      BY <2>2, <2>3, <2>4
  <1> HIDE DEF Upto, n
  <1>3. n \in Upto
    <2>1. \A k \in 0 .. n : k \in Upto
      BY <1>0, <1>1, <1>2, CountUp
    <2> QED
      BY <1>0, <2>1
  <1>4. SubSeq(s, 1, Len(s)) = s
    OBVIOUS
  <1> QED
    BY <1>3, <1>4 DEF Upto, n

LEMMA ConcatFacts ==
  ASSUME NEW T, NEW a \in Seq(T), NEW b \in Seq(T)
  PROVE  /\ a \o b \in Seq(T) /\ Len(a \o b) = Len(a) + Len(b)
         /\ \A k \in 1 .. Len(a) : (a \o b)[k] = a[k]
         /\ \A k \in 1 .. Len(b) : (a \o b)[Len(a) + k] = b[k]
  OBVIOUS

(* Two sequences of one length with the same members are the same.         *)
LEMMA SameSeq ==
  ASSUME NEW T, NEW a \in Seq(T), NEW b \in Seq(T), Len(a) = Len(b),
         \A k \in 1 .. Len(a) : a[k] = b[k]
  PROVE  a = b
  OBVIOUS

LEMMA SubSeqOf ==
  ASSUME NEW T, NEW s \in Seq(T), NEW m \in 0 .. Len(s)
  PROVE  /\ SubSeq(s, 1, m) \in Seq(T) /\ Len(SubSeq(s, 1, m)) = m
         /\ SubSeq(s, m + 1, Len(s)) \in Seq(T) /\ Len(SubSeq(s, m + 1, Len(s))) = Len(s) - m
         /\ \A k \in 1 .. m : SubSeq(s, 1, m)[k] = s[k]
         /\ \A k \in 1 .. Len(s) - m : SubSeq(s, m + 1, Len(s))[k] = s[m + k]
         /\ s = SubSeq(s, 1, m) \o SubSeq(s, m + 1, Len(s))
  <1> DEFINE a == SubSeq(s, 1, m)
             b == SubSeq(s, m + 1, Len(s))
  <1>1. a \in Seq(T) /\ Len(a) = m /\ \A k \in 1 .. m : a[k] = s[k]
    OBVIOUS
  <1>2. b \in Seq(T) /\ Len(b) = Len(s) - m /\ \A k \in 1 .. Len(s) - m : b[k] = s[m + k]
    <2>1. b \in Seq(T)
      BY SMTT(30)
    <2>2. Len(b) = Len(s) - m
      BY SMTT(30)
    <2>3. \A k \in 1 .. Len(s) - m : b[k] = s[m + k]
      BY SMTT(30)
    <2> QED
      BY <2>1, <2>2, <2>3
  <1>3. s = a \o b
    <2> HIDE DEF a, b
    <2>1. /\ a \o b \in Seq(T) /\ Len(a \o b) = Len(a) + Len(b)
          /\ \A k \in 1 .. Len(a) : (a \o b)[k] = a[k]
          /\ \A k \in 1 .. Len(b) : (a \o b)[Len(a) + k] = b[k]
      BY <1>1, <1>2, ConcatFacts
    <2>2. Len(s) \in Nat /\ m \in Nat /\ m <= Len(s)
      OBVIOUS
    <2> DEFINE u == a \o b
    <2> HIDE DEF u
    <2>3. u \in Seq(T) /\ Len(u) = Len(s)
      BY <1>1, <1>2, <2>1, <2>2 DEF u
    <2>4. \A k \in 1 .. Len(s) : u[k] = s[k]
      <3> TAKE k \in 1 .. Len(s)
      <3>1. CASE k <= m
        <4>1. k \in 1 .. m
          BY <2>2, <3>1
        <4> QED
          BY <1>1, <2>1, <4>1 DEF u
      <3>2. CASE k > m
        <4>1. k - m \in 1 .. Len(s) - m /\ m + (k - m) = k
          BY <2>2, <3>2
        <4>2. u[Len(a) + (k - m)] = b[k - m]
          BY <1>2, <2>1, <4>1 DEF u
        <4>3. b[k - m] = s[m + (k - m)]
          BY <1>2, <4>1
        <4> QED
          BY <1>1, <4>1, <4>2, <4>3
      <3> QED
        BY <2>2, <3>1, <3>2
    <2>5. u = s
      BY <2>3, <2>4, SameSeq
    <2> QED
      BY <2>5 DEF u
  <1> QED
    BY <1>1, <1>2, <1>3

LEMMA AppendRange ==
  ASSUME NEW T, NEW s \in Seq(T), NEW x \in T
  PROVE  /\ Range(Append(s, x)) = Range(s) \cup {x}
         /\ IsInjective(Append(s, x)) <=> IsInjective(s) /\ x \notin Range(s)
  <1> DEFINE t == Append(s, x)
  <1>1. /\ Len(t) = Len(s) + 1 /\ DOMAIN t = 1 .. Len(s) + 1 /\ DOMAIN s = 1 .. Len(s)
        /\ t[Len(s) + 1] = x /\ \A k \in 1 .. Len(s) : t[k] = s[k]
    OBVIOUS
  <1> HIDE DEF t
  <1>2. Range(t) = Range(s) \cup {x}
    <2>1. \A y : y \in Range(t) => y \in Range(s) \cup {x}
      BY <1>1 DEF Range
    <2>2. \A y : y \in Range(s) \cup {x} => y \in Range(t)
      BY <1>1 DEF Range
    <2> QED
      BY <2>1, <2>2
  <1>3. IsInjective(t) => IsInjective(s) /\ x \notin Range(s)
    <2> SUFFICES ASSUME IsInjective(t) PROVE IsInjective(s) /\ x \notin Range(s)
      OBVIOUS
    <2>1. \A a, b \in 1 .. Len(s) + 1 : t[a] = t[b] => a = b
      BY <1>1 DEF IsInjective
    <2>2. \A a, b \in 1 .. Len(s) : s[a] = s[b] => a = b
      BY <1>1, <2>1
    <2>3. \A a \in 1 .. Len(s) : s[a] # x
      BY <1>1, <2>1
    <2> QED
      BY <1>1, <2>2, <2>3 DEF IsInjective, Range
  <1>4. IsInjective(s) /\ x \notin Range(s) => IsInjective(t)
    <2> SUFFICES ASSUME IsInjective(s), x \notin Range(s) PROVE IsInjective(t)
      OBVIOUS
    <2>1. \A a, b \in 1 .. Len(s) : s[a] = s[b] => a = b
      BY <1>1 DEF IsInjective
    <2>2. \A a \in 1 .. Len(s) : s[a] # x
      BY <1>1 DEF Range
    <2>3. \A a, b \in 1 .. Len(s) + 1 : t[a] = t[b] => a = b
      BY <1>1, <2>1, <2>2
    <2> QED
      BY <1>1, <2>3 DEF IsInjective
  <1> QED
    BY <1>2, <1>3, <1>4 DEF t

LEMMA ConcatRange ==
  ASSUME NEW T, NEW s \in Seq(T), NEW t \in Seq(T)
  PROVE  Range(s \o t) = Range(s) \cup Range(t)
  <1> DEFINE u == s \o t
  <1>1. /\ DOMAIN u = 1 .. Len(s) + Len(t) /\ DOMAIN s = 1 .. Len(s) /\ DOMAIN t = 1 .. Len(t)
        /\ \A k \in 1 .. Len(s) : u[k] = s[k]
        /\ \A k \in 1 .. Len(t) : u[Len(s) + k] = t[k]
    OBVIOUS
  <1>2. \A k \in DOMAIN u : k \in DOMAIN s \/ k - Len(s) \in DOMAIN t
    OBVIOUS
  <1> HIDE DEF u
  <1>3. \A y : y \in Range(u) => y \in Range(s) \cup Range(t)
    <2> TAKE y
    <2> HAVE y \in Range(u)
    <2>1. PICK k \in DOMAIN u : u[k] = y
      BY DEF Range
    <2>2. CASE k \in DOMAIN s
      BY <1>1, <2>1, <2>2 DEF Range
    <2>3. CASE k - Len(s) \in DOMAIN t
      <3>1. u[Len(s) + (k - Len(s))] = t[k - Len(s)] /\ Len(s) + (k - Len(s)) = k
        BY <1>1, <2>1, <2>3
      <3> QED
        BY <2>1, <2>3, <3>1 DEF Range
    <2> QED
      BY <1>2, <2>1, <2>2, <2>3
  <1>4. \A y \in Range(s) : y \in Range(u)
    BY <1>1 DEF Range
  <1>5. \A y \in Range(t) : y \in Range(u)
    <2> TAKE y \in Range(t)
    <2>1. PICK k \in DOMAIN t : t[k] = y
      BY DEF Range
    <2>2. Len(s) + k \in DOMAIN u /\ u[Len(s) + k] = y
      BY <1>1, <2>1
    <2> QED
      BY <2>2 DEF Range
  <1> QED
    BY <1>3, <1>4, <1>5 DEF u

-----------------------------------------------------------------------------
(* What keeping some of the items of a sequence does. *)

LEMMA KeepIn ==
  ASSUME NEW T, NEW s \in Seq(T), NEW S
  PROVE  Keep(s, S) \in Seq(T)
  <1> DEFINE kept == Keep(s, S)
  <1>1. kept \in Seq(T \cap S)
    BY KeepFacts
  <1> HIDE DEF kept
  <1>2. kept \in Seq(T)
    BY <1>1
  <1> QED
    BY <1>2 DEF kept

LEMMA KeepNothing ==
  ASSUME NEW S
  PROVE  Keep(<< >>, S) = << >>
  <1>1. << >> \in Seq({}) /\ Len(<< >>) = 0
    OBVIOUS
  <1>2. PICK f : Keeps(f, << >>, S)
    BY <1>1, KeepUnfolds
  <1> QED
    BY <1>1, <1>2 DEF Keeps

LEMMA KeepAppend ==
  ASSUME NEW T, NEW s \in Seq(T), NEW x \in T, NEW S
  PROVE  /\ Keep(<< >>, S) = << >>
         /\ Keep(Append(s, x), S) = IF x \in S THEN Append(Keep(s, S), x) ELSE Keep(s, S)
  <1> DEFINE t == Append(s, x)
             n == Len(s)
  <1>1. t \in Seq(T) /\ Len(t) = n + 1 /\ t[n + 1] = x /\ \A k \in 1 .. n : t[k] = s[k]
    OBVIOUS
  <1>2. PICK f : Keeps(f, s, S)
    BY KeepUnfolds
  <1> HIDE DEF t
  <1>3. PICK g : Keeps(g, t, S)
    BY <1>1, KeepUnfolds
  <1>4. n \in Nat /\ n = Len(s)
    OBVIOUS
  <1> HIDE DEF n
  <1> DEFINE Same == {k \in Nat : g[k] = f[k]}
  <1>5. \A k \in 0 .. n : k \in Same
    <2>1. 0 \in Same
      BY <1>2, <1>3 DEF Keeps
    <2>2. ASSUME NEW k \in 1 .. n, k - 1 \in Same PROVE k \in Same
      BY <1>1, <1>2, <1>3, <1>4, <2>2 DEF Keeps
    <2> HIDE DEF Same
    <2> QED
      BY <1>4, <2>1, <2>2, CountUp
  <1>6. g[n] = f[n]
    BY <1>4, <1>5
  <1>7. g[n + 1] = IF x \in S THEN Append(g[n], x) ELSE g[n]
    BY <1>1, <1>3, <1>4 DEF Keeps
  <1>8. Keep(<< >>, S) = << >>
    BY KeepNothing
  <1> QED
    BY <1>1, <1>2, <1>3, <1>4, <1>6, <1>7, <1>8 DEF t, Keeps

LEMMA KeepRange ==
  ASSUME NEW T, NEW s \in Seq(T), NEW S
  PROVE  /\ Range(Keep(s, S)) = Range(s) \cap S
         /\ IsInjective(s) => IsInjective(Keep(s, S))
  <1> DEFINE Good == {t \in Seq(T) : /\ Range(Keep(t, S)) = Range(t) \cap S
                                     /\ IsInjective(t) => IsInjective(Keep(t, S))}
  <1>1. << >> \in Good
    <2>1. Range(<< >>) = {} /\ IsInjective(<< >>)
      BY DEF Range, IsInjective
    <2>2. Keep(<< >>, S) = << >>
      BY KeepNothing
    <2>3. << >> \in Seq(T)
      OBVIOUS
    <2> QED
      BY <2>1, <2>2, <2>3
  <1>2. ASSUME NEW t \in Seq(T), NEW x \in T, t \in Good
        PROVE  Append(t, x) \in Good
    <2>1. Keep(t, S) \in Seq(T)
      BY KeepIn
    <2>2. Append(t, x) \in Seq(T) /\ Range(Append(t, x)) = Range(t) \cup {x}
      BY AppendRange
    <2>3. CASE x \in S
      <3>1. Keep(Append(t, x), S) = Append(Keep(t, S), x)
        BY <2>3, KeepAppend
      <3>2. Range(Append(Keep(t, S), x)) = Range(Keep(t, S)) \cup {x}
        BY <2>1, AppendRange
      <3>3. IsInjective(Append(t, x)) => IsInjective(t) /\ x \notin Range(t)
        BY AppendRange
      <3>4. IsInjective(Keep(t, S)) /\ x \notin Range(Keep(t, S))
              => IsInjective(Append(Keep(t, S), x))
        BY <2>1, AppendRange
      <3> QED
        BY <1>2, <2>2, <2>3, <3>1, <3>2, <3>3, <3>4
    <2>4. CASE x \notin S
      <3>1. Keep(Append(t, x), S) = Keep(t, S)
        BY <2>4, KeepAppend
      <3>2. IsInjective(Append(t, x)) => IsInjective(t)
        BY AppendRange
      <3> QED
        BY <1>2, <2>2, <2>4, <3>1, <3>2
    <2> QED
      BY <2>3, <2>4
  <1> HIDE DEF Good
  <1>3. s \in Good
    BY <1>1, <1>2, Lengthen
  <1> QED
    BY <1>3 DEF Good

LEMMA KeepConcat ==
  ASSUME NEW T, NEW s \in Seq(T), NEW t \in Seq(T), NEW S
  PROVE  Keep(s \o t, S) = Keep(s, S) \o Keep(t, S)
  <1> DEFINE Good == {u \in Seq(T) : Keep(s \o u, S) = Keep(s, S) \o Keep(u, S)}
  <1>1. << >> \in Good
    <2>1. s \o << >> = s /\ << >> \in Seq(T)
      OBVIOUS
    <2>2. Keep(s, S) \in Seq(T)
      BY KeepIn
    <2>3. Keep(s, S) \o << >> = Keep(s, S)
      BY <2>2
    <2> QED
      BY <2>1, <2>3, KeepNothing
  <1>2. ASSUME NEW u \in Seq(T), NEW x \in T, u \in Good
        PROVE  Append(u, x) \in Good
    <2>1. s \o Append(u, x) = Append(s \o u, x) /\ s \o u \in Seq(T) /\ Append(u, x) \in Seq(T)
      OBVIOUS
    <2> DEFINE ks == Keep(s, S)
               ku == Keep(u, S)
    <2>2. ks \in Seq(T) /\ ku \in Seq(T)
      BY KeepIn
    <2>3. Keep(s \o u, S) = ks \o ku
      BY <1>2
    <2>4. Keep(Append(s \o u, x), S) = IF x \in S THEN Append(ks \o ku, x) ELSE ks \o ku
      <3> DEFINE v == s \o u
      <3>1. v \in Seq(T)
        BY <2>1
      <3> HIDE DEF v, ks, ku
      <3>2. Keep(Append(v, x), S) = IF x \in S THEN Append(Keep(v, S), x) ELSE Keep(v, S)
        BY <3>1, KeepAppend
      <3>3. Keep(v, S) = ks \o ku
        BY <2>3 DEF v
      <3> QED
        BY <3>2, <3>3 DEF v
    <2>5. Keep(Append(u, x), S) = IF x \in S THEN Append(ku, x) ELSE ku
      BY KeepAppend
    <2> HIDE DEF ks, ku
    <2>6. ks \o Append(ku, x) = Append(ks \o ku, x)
      BY <2>2
    <2>7. Keep(s \o Append(u, x), S) = ks \o Keep(Append(u, x), S)
      BY <2>1, <2>4, <2>5, <2>6
    <2> QED
      BY <2>1, <2>7 DEF ks
  <1> HIDE DEF Good
  <1>3. t \in Good
    BY <1>1, <1>2, Lengthen
  <1> QED
    BY <1>3 DEF Good

LEMMA KeepSame ==
  ASSUME NEW T, NEW s \in Seq(T), NEW A, NEW B,
         \A x \in Range(s) : x \in A <=> x \in B
  PROVE  Keep(s, A) = Keep(s, B)
  <1> DEFINE Good == {t \in Seq(T) : (\A x \in Range(t) : x \in A <=> x \in B)
                                       => Keep(t, A) = Keep(t, B)}
  <1>1. << >> \in Good
    BY KeepNothing
  <1>2. ASSUME NEW t \in Seq(T), NEW x \in T, t \in Good
        PROVE  Append(t, x) \in Good
    <2>1. Append(t, x) \in Seq(T) /\ Range(Append(t, x)) = Range(t) \cup {x}
      BY AppendRange
    <2>2. \A S : Keep(Append(t, x), S) = IF x \in S THEN Append(Keep(t, S), x) ELSE Keep(t, S)
      BY KeepAppend
    <2> QED
      BY <1>2, <2>1, <2>2
  <1> HIDE DEF Good
  <1>3. s \in Good
    BY <1>1, <1>2, Lengthen
  <1> QED
    BY <1>3 DEF Good

LEMMA KeepAll ==
  ASSUME NEW T, NEW s \in Seq(T), NEW S, Range(s) \subseteq S
  PROVE  Keep(s, S) = s
  <1> DEFINE Good == {t \in Seq(T) : Range(t) \subseteq S => Keep(t, S) = t}
  <1>1. << >> \in Good
    BY KeepNothing
  <1>2. ASSUME NEW t \in Seq(T), NEW x \in T, t \in Good
        PROVE  Append(t, x) \in Good
    <2>1. Append(t, x) \in Seq(T) /\ Range(Append(t, x)) = Range(t) \cup {x}
      BY AppendRange
    <2>2. Keep(Append(t, x), S) = IF x \in S THEN Append(Keep(t, S), x) ELSE Keep(t, S)
      BY KeepAppend
    <2> QED
      BY <1>2, <2>1, <2>2
  <1> HIDE DEF Good
  <1>3. s \in Good
    BY <1>1, <1>2, Lengthen
  <1> QED
    BY <1>3 DEF Good

LEMMA KeepNone ==
  ASSUME NEW T, NEW s \in Seq(T), NEW S, Range(s) \cap S = {}
  PROVE  Keep(s, S) = << >>
  <1>1. Keep(s, S) \in Seq(T) /\ Range(Keep(s, S)) = {}
    BY KeepIn, KeepRange
  <1> DEFINE k == Keep(s, S)
  <1> HIDE DEF k
  <1>2. k \in Seq(T) /\ Range(k) = {}
    BY <1>1 DEF k
  <1>3. Len(k) = 0
    <2>1. \A i \in 1 .. Len(k) : k[i] \in Range(k)
      BY <1>2 DEF Range
    <2> QED
      BY <1>2, <2>1
  <1> QED
    BY <1>2, <1>3 DEF k

LEMMA KeepKeep ==
  ASSUME NEW T, NEW s \in Seq(T), NEW A, NEW B
  PROVE  Keep(Keep(s, A), B) = Keep(s, A \cap B)
  <1> DEFINE Good == {t \in Seq(T) : Keep(Keep(t, A), B) = Keep(t, A \cap B)}
  <1>1. << >> \in Good
    <2>1. << >> \in Seq(T)
      OBVIOUS
    <2> QED
      BY <2>1, KeepNothing
  <1>2. ASSUME NEW t \in Seq(T), NEW x \in T, t \in Good
        PROVE  Append(t, x) \in Good
    <2>1. Append(t, x) \in Seq(T) /\ Keep(t, A) \in Seq(T)
      BY KeepIn
    <2>2. Keep(Append(t, x), A) = IF x \in A THEN Append(Keep(t, A), x) ELSE Keep(t, A)
      BY KeepAppend
    <2>3. Keep(Append(Keep(t, A), x), B)
            = IF x \in B THEN Append(Keep(Keep(t, A), B), x) ELSE Keep(Keep(t, A), B)
      BY <2>1, KeepAppend
    <2>4. Keep(Append(t, x), A \cap B)
            = IF x \in A \cap B THEN Append(Keep(t, A \cap B), x) ELSE Keep(t, A \cap B)
      BY KeepAppend
    <2>5. Keep(Keep(t, A), B) = Keep(t, A \cap B)
      BY <1>2
    <2>6. Keep(Keep(Append(t, x), A), B) = Keep(Append(t, x), A \cap B)
      <3>1. CASE x \in A
        <4>1. Keep(Keep(Append(t, x), A), B) = Keep(Append(Keep(t, A), x), B)
          BY <2>2, <3>1
        <4> QED
          BY <2>3, <2>4, <2>5, <3>1, <4>1
      <3>2. CASE x \notin A
        BY <2>2, <2>4, <2>5, <3>2
      <3> QED
        BY <3>1, <3>2
    <2> QED
      BY <2>1, <2>6
  <1> HIDE DEF Good
  <1>3. s \in Good
    BY <1>1, <1>2, Lengthen
  <1> QED
    BY <1>3 DEF Good

(* Cutting a sequence around one of its members. *)
LEMMA CutAt ==
  ASSUME NEW T, NEW s \in Seq(T), NEW m \in 1 .. Len(s)
  PROVE  /\ SubSeq(s, 1, m - 1) \in Seq(T) /\ SubSeq(s, m + 1, Len(s)) \in Seq(T)
         /\ SubSeq(s, 1, m) = Append(SubSeq(s, 1, m - 1), s[m])
         /\ s = Append(SubSeq(s, 1, m - 1), s[m]) \o SubSeq(s, m + 1, Len(s))
         /\ RemoveAt(s, m) = SubSeq(s, 1, m - 1) \o SubSeq(s, m + 1, Len(s))
  <1>1. m \in 0 .. Len(s) /\ m - 1 \in 0 .. Len(s)
    OBVIOUS
  <1>2. SubSeq(s, 1, m - 1) \in Seq(T) /\ SubSeq(s, m + 1, Len(s)) \in Seq(T)
    BY <1>1, SubSeqOf
  <1>3. SubSeq(s, 1, m) = Append(SubSeq(s, 1, m - 1), s[m])
    BY SMTT(30)
  <1>4. s = SubSeq(s, 1, m) \o SubSeq(s, m + 1, Len(s))
    BY <1>1, SubSeqOf
  <1>5. RemoveAt(s, m) = SubSeq(s, 1, m - 1) \o SubSeq(s, m + 1, Len(s))
    BY DEF RemoveAt
  <1> QED
    BY <1>2, <1>3, <1>4, <1>5

(* Parts of an injective sequence share nothing. *)
LEMMA InjectiveParts ==
  ASSUME NEW T, NEW s \in Seq(T), NEW t \in Seq(T), IsInjective(s \o t)
  PROVE  IsInjective(s) /\ IsInjective(t) /\ Range(s) \cap Range(t) = {}
  <1> DEFINE u == s \o t
  <1>1. /\ u \in Seq(T) /\ Len(u) = Len(s) + Len(t) /\ Len(s) \in Nat /\ Len(t) \in Nat
        /\ \A k \in 1 .. Len(s) : u[k] = s[k]
        /\ \A k \in 1 .. Len(t) : u[Len(s) + k] = t[k]
    BY ConcatFacts
  <1>2. DOMAIN s = 1 .. Len(s) /\ DOMAIN t = 1 .. Len(t)
    OBVIOUS
  <1> HIDE DEF u
  <1>3. \A a, b \in 1 .. Len(s) + Len(t) : u[a] = u[b] => a = b
    <2>1. IsInjective(u) /\ DOMAIN u = 1 .. Len(s) + Len(t)
      BY <1>1 DEF u
    <2> QED
      BY <2>1 DEF IsInjective
  <1>4. IsInjective(s)
    <2>1. \A a, b \in 1 .. Len(s) : s[a] = s[b] => a = b
      BY <1>1, <1>3
    <2> QED
      BY <1>2, <2>1 DEF IsInjective
  <1>5. \A a \in 1 .. Len(s), b \in 1 .. Len(t) : s[a] # t[b]
    <2> TAKE a \in 1 .. Len(s), b \in 1 .. Len(t)
    <2>1. a \in 1 .. Len(s) + Len(t) /\ Len(s) + b \in 1 .. Len(s) + Len(t) /\ a # Len(s) + b
      BY <1>1
    <2> QED
      BY <1>1, <1>3, <2>1
  <1>6. IsInjective(t)
    <2>1. \A a, b \in 1 .. Len(t) : t[a] = t[b] => a = b
      <3> TAKE a, b \in 1 .. Len(t)
      <3>1. Len(s) + a \in 1 .. Len(s) + Len(t) /\ Len(s) + b \in 1 .. Len(s) + Len(t)
        BY <1>1
      <3>2. t[a] = t[b] => Len(s) + a = Len(s) + b
        BY <1>1, <1>3, <3>1
      <3> QED
        BY <1>1, <3>2
    <2> QED
      BY <1>2, <2>1 DEF IsInjective
  <1> QED
    BY <1>2, <1>4, <1>5, <1>6 DEF Range

LEMMA JoinInjective ==
  ASSUME NEW T, NEW s \in Seq(T), NEW t \in Seq(T),
         IsInjective(s), IsInjective(t), Range(s) \cap Range(t) = {}
  PROVE  IsInjective(s \o t)
  <1> DEFINE u == s \o t
  <1>1. /\ u \in Seq(T) /\ Len(u) = Len(s) + Len(t) /\ Len(s) \in Nat /\ Len(t) \in Nat
        /\ \A k \in 1 .. Len(s) : u[k] = s[k]
        /\ \A k \in 1 .. Len(t) : u[Len(s) + k] = t[k]
    BY ConcatFacts
  <1>2. DOMAIN s = 1 .. Len(s) /\ DOMAIN t = 1 .. Len(t)
    OBVIOUS
  <1> HIDE DEF u
  <1>3. \A a \in 1 .. Len(s), b \in 1 .. Len(t) : s[a] # t[b]
    BY <1>2 DEF Range
  <1>4. /\ \A a, b \in 1 .. Len(s) : s[a] = s[b] => a = b
        /\ \A a, b \in 1 .. Len(t) : t[a] = t[b] => a = b
    BY <1>2 DEF IsInjective
  <1>5. ASSUME NEW a \in 1 .. Len(u), a > Len(s)
        PROVE  a - Len(s) \in 1 .. Len(t) /\ u[a] = t[a - Len(s)]
    <2>1. a - Len(s) \in 1 .. Len(t) /\ Len(s) + (a - Len(s)) = a
      BY <1>1, <1>5
    <2> QED
      BY <1>1, <2>1
  <1>6. \A a, b \in 1 .. Len(u) : u[a] = u[b] => a = b
    <2> SUFFICES ASSUME NEW a \in 1 .. Len(u), NEW b \in 1 .. Len(u), u[a] = u[b]
                 PROVE  a = b
      OBVIOUS
    <2>0. a \in Nat /\ b \in Nat
      BY <1>1
    <2>1. CASE a <= Len(s) /\ b <= Len(s)
      <3>1. a \in 1 .. Len(s) /\ b \in 1 .. Len(s)
        BY <1>1, <2>1
      <3> QED
        BY <1>1, <1>4, <3>1
    <2>2. CASE a <= Len(s) /\ b > Len(s)
      <3>1. a \in 1 .. Len(s)
        BY <1>1, <2>2
      <3> QED
        BY <1>1, <1>3, <1>5, <2>2, <3>1
    <2>3. CASE a > Len(s) /\ b <= Len(s)
      <3>1. b \in 1 .. Len(s)
        BY <1>1, <2>3
      <3> QED
        BY <1>1, <1>3, <1>5, <2>3, <3>1
    <2>4. CASE a > Len(s) /\ b > Len(s)
      <3>1. a - Len(s) = b - Len(s)
        BY <1>4, <1>5, <2>4
      <3> QED
        BY <1>1, <2>0, <3>1
    <2> QED
      BY <1>1, <2>0, <2>1, <2>2, <2>3, <2>4
  <1> QED
    <2>1. DOMAIN u = 1 .. Len(u)
      BY <1>1
    <2> QED
      BY <1>6, <2>1 DEF IsInjective, u

(* Putting an item after the first m of a sequence. *)
LEMMA InsertSplit ==
  ASSUME NEW T, NEW s \in Seq(T), NEW x \in T, NEW m \in 0 .. Len(s)
  PROVE  InsertAt(s, m + 1, x) = Append(SubSeq(s, 1, m), x) \o SubSeq(s, m + 1, Len(s))
  <1> DEFINE a == SubSeq(s, 1, m)
             b == SubSeq(s, m + 1, Len(s))
  <1>1. a \in Seq(T)
    BY SubSeqOf
  <1>2. InsertAt(s, m + 1, x) = SubSeq(s, 1, (m + 1) - 1) \o <<x>> \o SubSeq(s, m + 1, Len(s))
    BY DEF InsertAt
  <1>3. (m + 1) - 1 = m
    OBVIOUS
  <1>4. InsertAt(s, m + 1, x) = (a \o <<x>>) \o b
    BY <1>2, <1>3
  <1>5. Append(a, x) = a \o <<x>>
    <2> HIDE DEF a
    <2> QED
      BY <1>1
  <1> QED
    BY <1>4, <1>5

LEMMA InsertAfter ==
  ASSUME NEW T, NEW s \in Seq(T), NEW x \in T, NEW m \in 0 .. Len(s)
  PROVE  /\ InsertAt(s, m + 1, x) \in Seq(T)
         /\ \A y : y \in Range(InsertAt(s, m + 1, x)) <=> y \in Range(s) \/ y = x
         /\ IsInjective(s) /\ x \notin Range(s) => IsInjective(InsertAt(s, m + 1, x))
  <1> DEFINE a == SubSeq(s, 1, m)
             b == SubSeq(s, m + 1, Len(s))
             u == Append(a, x) \o b
  <1>1. a \in Seq(T) /\ b \in Seq(T) /\ s = a \o b
    BY SubSeqOf
  <1>2. InsertAt(s, m + 1, x) = u
    BY InsertSplit
  <1> HIDE DEF a, b
  <1>3. Append(a, x) \in Seq(T)
    BY <1>1
  <1>4. u \in Seq(T)
    BY <1>1, <1>3, ConcatFacts
  <1>5. Range(u) = Range(a) \cup {x} \cup Range(b) /\ Range(s) = Range(a) \cup Range(b)
    <2>1. Range(s) = Range(a) \cup Range(b)
      BY <1>1, ConcatRange
    <2>2. Range(u) = Range(Append(a, x)) \cup Range(b)
      BY <1>1, <1>3, ConcatRange
    <2>3. Range(Append(a, x)) = Range(a) \cup {x}
      BY <1>1, AppendRange
    <2> QED
      BY <2>1, <2>2, <2>3
  <1>6. ASSUME IsInjective(s), x \notin Range(s)
        PROVE  IsInjective(u)
    <2>1. IsInjective(a) /\ IsInjective(b) /\ Range(a) \cap Range(b) = {}
      BY <1>1, <1>6, InjectiveParts
    <2>2. IsInjective(Append(a, x)) /\ Range(Append(a, x)) = Range(a) \cup {x}
      BY <1>1, <1>5, <1>6, <2>1, AppendRange
    <2>3. Range(Append(a, x)) \cap Range(b) = {}
      BY <1>5, <1>6, <2>1, <2>2
    <2> QED
      BY <1>1, <1>3, <2>1, <2>2, <2>3, JoinInjective
  <1> QED
    BY <1>2, <1>4, <1>5, <1>6 DEF a, b

-----------------------------------------------------------------------------
(* Arrays. *)

Item == [id : (Nat \ {0}) \X Nat, after : Nat \X Nat, val : Nodes]

IdsOf(items) == {i.id : i \in items}

IsArray(a) ==
  /\ a = [items |-> a.items, dead |-> a.dead]
  /\ a.items \in SUBSET Item /\ IsFiniteSet(a.items)
  /\ \A i, j \in a.items : i.id = j.id => i = j
  /\ \A i \in a.items : i.after \in IdsOf(a.items) \cup {Head0}
  /\ a.dead \subseteq IdsOf(a.items)

(* What one client adds to an array has an id of that client above all that *)
(* the array had.                                                          *)
Grows(a, b, client) ==
  /\ a.items \subseteq b.items
  /\ \A i \in b.items \ a.items :
       i.id[2] = client /\ \A j \in a.items : j.id[1] < i.id[1]

LEMMA FiniteIds ==
  ASSUME NEW items, IsFiniteSet(items)
  PROVE  IsFiniteSet(IdsOf(items)) /\ IsFiniteSet({0} \cup {i.id[1] : i \in items})
  <1> DEFINE f == [i \in items |-> i.id]
             g == [i \in items |-> i.id[1]]
  <1>1. f \in Surjection(items, IdsOf(items))
    BY DEF Surjection, IdsOf
  <1>2. g \in Surjection(items, {i.id[1] : i \in items})
    BY DEF Surjection
  <1>3. IsFiniteSet(IdsOf(items)) /\ IsFiniteSet({i.id[1] : i \in items})
    BY <1>1, <1>2, FS_Surjection
  <1>4. IsFiniteSet({0})
    BY FS_Singleton
  <1> QED
    BY <1>3, <1>4, FS_Union

LEMMA NewestOf ==
  ASSUME NEW items \in SUBSET Item, IsFiniteSet(items), items # {},
         \A i, j \in items : i.id = j.id => i = j
  PROVE  Newest(items) \in items /\ \A j \in items : AtLeast(Newest(items).id, j.id)
  <1> DEFINE R == {ss \in items \X items : ~AtLeast(ss[1].id, ss[2].id)}
  <1>1. \A i \in items : i.id[1] \in Nat /\ i.id[2] \in Nat /\ i.id = <<i.id[1], i.id[2]>>
    BY DEF Item
  <1>2. \A i, j \in items : <<i, j>> \in R <=> ~AtLeast(i.id, j.id)
    OBVIOUS
  <1>3. \A i, j \in items : i.id[1] = j.id[1] /\ i.id[2] = j.id[2] => i = j
    BY <1>1
  <1>4. R \in SUBSET (items \X items)
    OBVIOUS
  <1> HIDE DEF R
  <1>5. \A i, j \in items : <<i, j>> \in R \/ <<j, i>> \in R \/ i = j
    <2> SUFFICES ASSUME NEW i \in items, NEW j \in items,
                        AtLeast(i.id, j.id), AtLeast(j.id, i.id)
                 PROVE  i = j
      BY <1>2
    <2>1. i.id[1] = j.id[1] /\ i.id[2] = j.id[2]
      BY <1>1 DEF AtLeast
    <2> QED
      BY <1>3, <2>1
  <1>6. \A i \in items : <<i, i>> \notin R
    BY <1>1, <1>2 DEF AtLeast
  <1>7. \A i, j, k \in items : <<i, j>> \in R /\ <<j, k>> \in R => <<i, k>> \in R
    BY <1>1, <1>2 DEF AtLeast
  <1>8. PICK last \in items : \A j \in items : j # last => <<j, last>> \in R
    BY <1>4, <1>5, <1>6, <1>7, GreatestOf
  <1>9. \A j \in items : AtLeast(last.id, j.id)
    <2> TAKE j \in items
    <2>1. CASE j = last
      BY <1>1, <2>1 DEF AtLeast
    <2>2. CASE j # last
      <3>1. ~AtLeast(j.id, last.id)
        BY <1>2, <1>8, <2>2
      <3> QED
        BY <1>1, <3>1 DEF AtLeast
    <2> QED
      BY <2>1, <2>2
  <1> QED
    BY <1>9 DEF Newest

LEMMA PlaceFacts ==
  ASSUME NEW S, NEW seq \in Seq(S), NEW i \in S
  PROVE  Place(seq, i) \in Seq(S)
  <1> DEFINE I == {k \in 1 .. Len(seq) : seq[k].id = i.after}
             pos == IF I # {} THEN Min(I) ELSE 0
  <1>1. Place(seq, i) = InsertAt(seq, 1 + pos, i)
    BY DEF Place, SelectInSeq
  <1>2. pos \in 0 .. Len(seq)
    <2>1. CASE I # {}
      <3>1. I \in SUBSET Nat
        OBVIOUS
      <3> HIDE DEF I
      <3>2. Min(I) \in I
        BY <2>1, <3>1, FirstOf
      <3> QED
        BY <2>1, <3>2 DEF I
    <2>2. CASE I = {}
      BY <2>2
    <2> QED
      BY <2>1, <2>2
  <1> HIDE DEF pos
  <1>3. 1 + pos \in 1 .. Len(seq) + 1
    BY <1>2
  <1>4. InsertAt(seq, 1 + pos, i) \in Seq(S)
    BY <1>3, InsertAtFacts
  <1> QED
    BY <1>1, <1>4

(* The order of all items grows by the newest one. *)
Orders(all, items) ==
  /\ Ordered(items) = all[items]
  /\ \A T \in SUBSET items :
       all[T] = IF T = {} THEN << >>
                ELSE Place(all[T \ {Newest(T)}], Newest(T))

LEMMA OrderedUnfolds ==
  ASSUME NEW items \in SUBSET Item, IsFiniteSet(items),
         \A i, j \in items : i.id = j.id => i = j
  PROVE  \E all : Orders(all, items) /\ \A T \in SUBSET items : all[T] \in Seq(items)
  <1> DEFINE V == Seq(items)
             none == << >>
             step(f, T) == IF T = {} THEN none
                           ELSE Place(f[T \ {Newest(T)}], Newest(T))
             body(f) == [T \in SUBSET items |-> step(f, T)]
             all == CHOOSE f : f = body(f)
  <1>1. Ordered(items) = all[items]
    BY DEF Ordered
  <1> HIDE DEF all
  <1>3. ASSUME NEW T \in SUBSET items, T # {}
        PROVE  Newest(T) \in T
    BY <1>3, FS_Subset, NewestOf
  <1>4. ASSUME NEW T \in SUBSET items
        PROVE  /\ IsFiniteSet(T) /\ Cardinality(T) \in Nat
               /\ Cardinality(T) <= Cardinality(items)
               /\ Cardinality(T) = 0 <=> T = {}
    BY FS_Subset, FS_CardinalityType, FS_EmptySet
  <1>5. ASSUME NEW T \in SUBSET items, T # {}
        PROVE  /\ T \ {Newest(T)} \in SUBSET items
               /\ Cardinality(T \ {Newest(T)}) = Cardinality(T) - 1
    BY <1>3, <1>4, <1>5, FS_RemoveElement
  <1>6. ASSUME NEW f, NEW g, NEW T \in SUBSET items,
               T # {} => f[T \ {Newest(T)}] = g[T \ {Newest(T)}]
        PROVE  step(f, T) = step(g, T)
    BY <1>6
  <1>7. none \in V /\ Cardinality(items) \in Nat
    BY <1>4
  <1>8. ASSUME NEW f, NEW T \in SUBSET items, T # {} => f[T \ {Newest(T)}] \in V
        PROVE  step(f, T) \in V
    <2>1. CASE T = {}
      BY <1>7, <2>1
    <2>2. CASE T # {}
      <3>1. Newest(T) \in items
        BY <1>3, <2>2
      <3> QED
        BY <1>8, <2>2, <3>1, PlaceFacts
    <2> QED
      BY <2>1, <2>2
  <1>9. step(all, {}) = none
    OBVIOUS
  <1> HIDE DEF V, none, step
  <1> DEFINE Small(m) == {T \in SUBSET items : Cardinality(T) <= m}
             Solved == {m \in Nat : \E f : f = [T \in Small(m) |-> step(f, T)]}
  <1>10. 0 \in Solved
    <2> DEFINE f == [T \in Small(0) |-> step(all, T)]
    <2>1. \A T \in Small(0) : T = {} /\ step(f, T) = step(all, T)
      BY <1>4, <1>6
    <2>2. f = [T \in Small(0) |-> step(f, T)]
      BY <2>1
    <2> QED
      BY <2>2
  <1>11. ASSUME NEW m \in 1 .. Cardinality(items), m - 1 \in Solved PROVE m \in Solved
    <2>1. PICK f : f = [T \in Small(m - 1) |-> step(f, T)]
      BY <1>11
    <2> DEFINE g == [T \in Small(m) |-> step(f, T)]
    <2>2. \A T \in Small(m - 1) : g[T] = f[T]
      <3> TAKE T \in Small(m - 1)
      <3>1. T \in Small(m)
        BY <1>4, <1>7
      <3> QED
        BY <2>1, <3>1
    <2>3. \A T \in Small(m) : step(f, T) = step(g, T)
      <3> TAKE T \in Small(m)
      <3>1. T # {} => T \ {Newest(T)} \in Small(m - 1)
        BY <1>4, <1>5, <1>7
      <3>2. T # {} => f[T \ {Newest(T)}] = g[T \ {Newest(T)}]
        BY <2>2, <3>1
      <3>3. T \in SUBSET items
        OBVIOUS
      <3> HIDE DEF g, Small
      <3> QED
        BY <1>6, <3>2, <3>3, Zenon
    <2>4. g = [T \in Small(m) |-> step(g, T)]
      BY <2>3
    <2> HIDE DEF g
    <2>5. m \in Nat
      BY <1>7
    <2> QED
      BY <2>4, <2>5
  <1>12. Cardinality(items) \in Solved
    <2> HIDE DEF Solved
    <2>1. \A m \in 0 .. Cardinality(items) : m \in Solved
      BY <1>7, <1>10, <1>11, CountUp
    <2> QED
      BY <1>7, <2>1
  <1>13. Small(Cardinality(items)) = SUBSET items
    BY <1>4
  <1>14. PICK f : f = [T \in Small(Cardinality(items)) |-> step(f, T)]
    BY <1>12
  <1>15. f = body(f)
    BY <1>13, <1>14
  <1>16. all = body(all)
    BY <1>15 DEF all
  <1>17. \A T \in SUBSET items : all[T] = step(all, T)
    BY <1>16
  <1> DEFINE Typed == {m \in Nat : \A T \in Small(m) : all[T] \in V}
  <1>18. 0 \in Typed
    <2>1. all[{}] \in V
      BY <1>7, <1>9, <1>17
    <2>2. \A T \in Small(0) : T = {}
      BY <1>4
    <2> QED
      BY <2>1, <2>2
  <1>19. ASSUME NEW m \in 1 .. Cardinality(items), m - 1 \in Typed PROVE m \in Typed
    <2> SUFFICES ASSUME NEW T \in Small(m) PROVE all[T] \in V
      OBVIOUS
    <2>1. T # {} => T \ {Newest(T)} \in Small(m - 1)
      BY <1>4, <1>5, <1>7
    <2>2. T # {} => all[T \ {Newest(T)}] \in V
      BY <1>19, <2>1
    <2> QED
      BY <1>8, <1>17, <2>2
  <1>20. \A T \in SUBSET items : all[T] \in V
    <2> HIDE DEF Typed
    <2>1. \A m \in 0 .. Cardinality(items) : m \in Typed
      BY <1>7, <1>18, <1>19, CountUp
    <2>2. Cardinality(items) \in Typed
      BY <1>7, <2>1
    <2> QED
      BY <1>13, <2>2 DEF Typed
  <1>21. Orders(all, items)
    BY <1>1, <1>17 DEF Orders, none, step
  <1> QED
    BY <1>20, <1>21 DEF V

(* An item is placed right after the one it names, or first. *)
LEMMA PlaceAfter ==
  ASSUME NEW S, NEW seq \in Seq(S), NEW i \in S
  PROVE  \E m \in 0 .. Len(seq) :
           /\ Place(seq, i) = InsertAt(seq, m + 1, i)
           /\ m > 0 => seq[m].id = i.after
           /\ m = 0 => \A k \in 1 .. Len(seq) : seq[k].id # i.after
  <1> DEFINE I == {k \in 1 .. Len(seq) : seq[k].id = i.after}
             m == IF I # {} THEN Min(I) ELSE 0
  <1>1. Place(seq, i) = InsertAt(seq, 1 + m, i)
    BY DEF Place, SelectInSeq
  <1>2. m \in 0 .. Len(seq) /\ (m > 0 => m \in I) /\ (m = 0 => I = {})
    <2>1. CASE I # {}
      <3>1. I \in SUBSET Nat
        OBVIOUS
      <3> HIDE DEF I
      <3>2. Min(I) \in I
        BY <2>1, <3>1, FirstOf
      <3> QED
        BY <2>1, <3>2 DEF I
    <2>2. CASE I = {}
      BY <2>2
    <2> QED
      BY <2>1, <2>2
  <1> HIDE DEF m
  <1>3. 1 + m = m + 1
    BY <1>2
  <1> QED
    BY <1>1, <1>2, <1>3

-----------------------------------------------------------------------------
(* The order of the items of an array. *)

(* Ids name items, and there are finitely many. *)
IsItems(items) ==
  /\ items \in SUBSET Item /\ IsFiniteSet(items)
  /\ \A i, j \in items : i.id = j.id => i = j

LEMMA ItemsFacts ==
  ASSUME NEW items, IsItems(items)
  PROVE  /\ \A T \in SUBSET items : IsItems(T)
         /\ \A T \in SUBSET items : T # {} => Newest(T) \in T
  <1>1. \A T \in SUBSET items : IsItems(T)
    BY FS_Subset DEF IsItems
  <1>2. \A T \in SUBSET items : T # {} => Newest(T) \in T
    BY <1>1, NewestOf DEF IsItems
  <1> QED
    BY <1>1, <1>2

(* What holds of no items and of any with the newest one added holds.      *)
LEMMA AddNewest ==
  ASSUME NEW items, IsItems(items), NEW Good, {} \in Good,
         \A T \in SUBSET items : T # {} /\ T \ {Newest(T)} \in Good => T \in Good
  PROVE  \A T \in SUBSET items : T \in Good
  <1> DEFINE n == Cardinality(items)
             Upto == {m \in Nat : \A T \in SUBSET items : Cardinality(T) <= m => T \in Good}
  <1>1. \A T \in SUBSET items : IsFiniteSet(T) /\ Cardinality(T) \in Nat /\ Cardinality(T) <= n
    BY FS_Subset, FS_CardinalityType DEF IsItems
  <1>2. n \in Nat
    BY FS_CardinalityType DEF IsItems
  <1>3. \A T \in SUBSET items : T # {} =>
          /\ T \ {Newest(T)} \in SUBSET items
          /\ Cardinality(T \ {Newest(T)}) = Cardinality(T) - 1
    BY <1>1, ItemsFacts, FS_RemoveElement
  <1>4. 0 \in Upto
    <2>1. \A T \in SUBSET items : Cardinality(T) <= 0 => T = {}
      BY <1>1, FS_EmptySet
    <2> QED
      BY <2>1
  <1>5. ASSUME NEW m \in 1 .. n, m - 1 \in Upto PROVE m \in Upto
    <2> SUFFICES ASSUME NEW T \in SUBSET items, Cardinality(T) <= m PROVE T \in Good
      BY <1>2
    <2>1. CASE T = {}
      BY <2>1
    <2>2. CASE T # {}
      <3>1. T \ {Newest(T)} \in SUBSET items /\ Cardinality(T \ {Newest(T)}) <= m - 1
        BY <1>1, <1>2, <1>3, <2>2
      <3>2. T \ {Newest(T)} \in Good
        BY <1>5, <3>1
      <3> QED
        BY <2>2, <3>2
    <2> QED
      BY <2>1, <2>2
  <1> HIDE DEF n
  <1>6. n \in Upto
    <2> HIDE DEF Upto
    <2>1. \A m \in 0 .. n : m \in Upto
      BY <1>2, <1>4, <1>5, CountUp
    <2> QED
      BY <1>2, <2>1
  <1> QED
    BY <1>1, <1>6

(* The order of the items without the newest one is the same, and they are  *)
(* all there, once.                                                        *)
LEMMA OrderedSteps ==
  ASSUME NEW items, IsItems(items), items # {}
  PROVE  Ordered(items) = Place(Ordered(items \ {Newest(items)}), Newest(items))
  <1> DEFINE rest == items \ {Newest(items)}
  <1>1. PICK f : Orders(f, items)
    BY OrderedUnfolds, Zenon DEF IsItems
  <1>2. IsItems(rest)
    BY ItemsFacts
  <1> HIDE DEF rest
  <1>3. PICK g : Orders(g, rest)
    BY <1>2, OrderedUnfolds, Zenon DEF IsItems
  <1> DEFINE Same == {T \in SUBSET rest : f[T] = g[T]}
  <1>4. rest \subseteq items
    BY DEF rest
  <1>5. {} \in Same
    <2>1. {} \in SUBSET items /\ {} \in SUBSET rest
      OBVIOUS
    <2>2. f[{}] = << >> /\ g[{}] = << >>
      BY <1>1, <1>3, <2>1 DEF Orders
    <2> QED
      BY <2>1, <2>2
  <1>6. ASSUME NEW T \in SUBSET rest, T # {}, T \ {Newest(T)} \in Same
        PROVE  T \in Same
    <2>1. f[T] = Place(f[T \ {Newest(T)}], Newest(T))
      BY <1>1, <1>4, <1>6 DEF Orders
    <2>2. g[T] = Place(g[T \ {Newest(T)}], Newest(T))
      BY <1>3, <1>6 DEF Orders
    <2> QED
      BY <1>6, <2>1, <2>2
  <1> HIDE DEF Same
  <1>7. rest \in Same
    <2>1. \A T \in SUBSET rest : T \in Same
      BY <1>2, <1>5, <1>6, AddNewest
    <2> QED
      BY <2>1
  <1>8. f[rest] = g[rest]
    BY <1>7 DEF Same
  <1>9. Ordered(items) = Place(f[rest], Newest(items))
    <2>1. items \in SUBSET items
      OBVIOUS
    <2> QED
      BY <1>1, <2>1 DEF rest, Orders
  <1> QED
    BY <1>3, <1>8, <1>9 DEF rest, Orders

LEMMA OrderedFacts ==
  ASSUME NEW items, IsItems(items)
  PROVE  /\ Ordered(items) \in Seq(items)
         /\ IsInjective(Ordered(items)) /\ Range(Ordered(items)) = items
  <1> DEFINE Good == {T \in SUBSET items : /\ Ordered(T) \in Seq(items)
                                           /\ IsInjective(Ordered(T))
                                           /\ Range(Ordered(T)) = T}
  <1>1. {} \in Good
    <2>1. IsItems({})
      BY ItemsFacts
    <2>2. Ordered({}) = << >>
      <3>1. PICK f : Orders(f, {})
        BY <2>1, OrderedUnfolds, Zenon DEF IsItems
      <3> QED
        BY <3>1 DEF Orders
    <2>3. << >> \in Seq(items) /\ IsInjective(<< >>) /\ Range(<< >>) = {}
      BY DEF IsInjective, Range
    <2> QED
      BY <2>2, <2>3
  <1>2. ASSUME NEW T \in SUBSET items, T # {}, T \ {Newest(T)} \in Good
        PROVE  T \in Good
    <2> DEFINE x == Newest(T)
               o == Ordered(T \ {x})
    <2>1. x \in T /\ IsItems(T)
      BY <1>2, ItemsFacts
    <2>2. Ordered(T) = Place(o, x)
      BY <1>2, <2>1, OrderedSteps
    <2>3. o \in Seq(items) /\ IsInjective(o) /\ Range(o) = T \ {x}
      BY <1>2
    <2> HIDE DEF x, o
    <2>4. x \in items
      BY <2>1
    <2>5. PICK m \in 0 .. Len(o) : Place(o, x) = InsertAt(o, m + 1, x)
      BY <2>3, <2>4, PlaceAfter
    <2>6. /\ Place(o, x) \in Seq(items) /\ Range(Place(o, x)) = Range(o) \cup {x}
          /\ IsInjective(Place(o, x))
      <3>1. IsInjective(o) /\ x \notin Range(o) => IsInjective(InsertAt(o, m + 1, x))
        BY <2>3, <2>4, InsertAfter
      <3>2. InsertAt(o, m + 1, x) \in Seq(items)
        BY <2>3, <2>4, InsertAfter
      <3>4. \A y : y \in Range(InsertAt(o, m + 1, x)) <=> y \in Range(o) \/ y = x
        BY <2>3, <2>4, InsertAfter
      <3>3. x \notin Range(o)
        BY <2>3
      <3> QED
        BY <2>3, <2>5, <3>1, <3>2, <3>3, <3>4
    <2>7. Range(Place(o, x)) = T
      BY <2>1, <2>3, <2>6
    <2> QED
      BY <2>2, <2>6, <2>7
  <1> HIDE DEF Good
  <1>3. items \in Good
    <2>1. \A T \in SUBSET items : T \in Good
      BY <1>1, <1>2, AddNewest
    <2> QED
      BY <2>1
  <1> QED
    BY <1>3 DEF Good

(* toArray() names the items of the array that are not deleted, each once. *)
Shown(a) == {i \in a.items : i.id \notin a.dead}

LEMMA VisibleFacts ==
  ASSUME NEW a, IsArray(a)
  PROVE  /\ Visible(a) \in Seq(a.items)
         /\ IsInjective(Visible(a)) /\ Range(Visible(a)) = Shown(a)
  <1> DEFINE all == Ordered(a.items)
  <1>1. all \in Seq(a.items) /\ IsInjective(all) /\ Range(all) = a.items
    BY OrderedFacts DEF IsArray, IsItems
  <1>2. Visible(a) = Keep(all, Shown(a))
    BY DEF Visible, Shown
  <1> HIDE DEF all
  <1>3. /\ Keep(all, Shown(a)) \in Seq(a.items) /\ IsInjective(Keep(all, Shown(a)))
        /\ Range(Keep(all, Shown(a))) = Range(all) \cap Shown(a)
    BY <1>1, KeepIn, KeepRange
  <1>4. a.items \cap Shown(a) = Shown(a)
    BY DEF Shown
  <1> QED
    BY <1>1, <1>2, <1>3, <1>4

(* An item with a clock above all others is the newest one. *)
LEMMA NewestNew ==
  ASSUME NEW items, IsItems(items), NEW x \in Item,
         \A i \in items : i.id[1] < x.id[1]
  PROVE  IsItems(items \cup {x}) /\ x \notin items /\ Newest(items \cup {x}) = x
  <1> DEFINE more == items \cup {x}
  <1>1. \A i \in more : i.id[1] \in Nat /\ i.id[2] \in Nat
    BY DEF IsItems, Item
  <1>2. x \notin items /\ \A i \in items : i.id # x.id
    <2>1. \A i \in items : i.id[1] # x.id[1]
      BY <1>1
    <2> QED
      BY <2>1
  <1>3. IsItems(more)
    <2>1. IsFiniteSet(more)
      BY FS_AddElement DEF IsItems
    <2>2. items \in SUBSET Item /\ \A i, j \in items : i.id = j.id => i = j
      BY DEF IsItems
    <2> QED
      BY <1>2, <2>1, <2>2 DEF IsItems
  <1>4. \A j \in more : AtLeast(Newest(more).id, j.id)
    <2>1. more # {}
      OBVIOUS
    <2> HIDE DEF more
    <2>2. /\ more \in SUBSET Item /\ IsFiniteSet(more)
          /\ \A i, j \in more : i.id = j.id => i = j
      BY <1>3 DEF IsItems
    <2> QED
      BY <2>1, <2>2, NewestOf, Zenon
  <1>5. Newest(more) \in more
    <2>1. more # {}
      OBVIOUS
    <2> HIDE DEF more
    <2> QED
      BY <1>3, <2>1, NewestOf DEF IsItems
  <1>6. Newest(more) = x
    <2> DEFINE w == Newest(more)
    <2> HIDE DEF w
    <2>1. w \in more /\ AtLeast(w.id, x.id)
      BY <1>4, <1>5 DEF w
    <2>2. w.id[1] >= x.id[1]
      BY <1>1, <2>1 DEF AtLeast
    <2>3. w \notin items
      BY <1>1, <2>2
    <2> QED
      BY <2>1, <2>3 DEF w
  <1> QED
    BY <1>2, <1>3, <1>6

LEMMA OrderedAdd ==
  ASSUME NEW items, IsItems(items), NEW x \in Item,
         \A i \in items : i.id[1] < x.id[1]
  PROVE  Ordered(items \cup {x}) = Place(Ordered(items), x)
  <1> DEFINE more == items \cup {x}
  <1>1. IsItems(more) /\ x \notin items /\ Newest(more) = x
    BY NewestNew
  <1>2. more \ {x} = items /\ more # {}
    BY <1>1
  <1> HIDE DEF more
  <1>3. Ordered(more) = Place(Ordered(more \ {Newest(more)}), Newest(more))
    BY <1>1, <1>2, OrderedSteps
  <1> QED
    BY <1>1, <1>2, <1>3 DEF more

(* Two places of one item are one place. *)
LEMMA SamePlace ==
  ASSUME NEW T, NEW s \in Seq(T), IsInjective(s), NEW j \in 1 .. Len(s), NEW k \in 1 .. Len(s),
         s[j] = s[k]
  PROVE  j = k
  BY DEF IsInjective

(* Inserting between two parts. *)
LEMMA InsertBetween ==
  ASSUME NEW T, NEW s \in Seq(T), NEW t \in Seq(T), NEW x \in T
  PROVE  InsertAt(s \o t, Len(s) + 1, x) = Append(s, x) \o t
  <1> DEFINE u == s \o t
             m == Len(s)
  <1>1. /\ u \in Seq(T) /\ Len(u) = m + Len(t) /\ m \in Nat /\ Len(t) \in Nat
        /\ \A k \in 1 .. m : u[k] = s[k]
        /\ \A k \in 1 .. Len(t) : u[m + k] = t[k]
    BY ConcatFacts
  <1> HIDE DEF u
  <1>2. m \in 0 .. Len(u)
    BY <1>1
  <1> DEFINE a == SubSeq(u, 1, m)
             b == SubSeq(u, m + 1, Len(u))
  <1> HIDE DEF m
  <1>3. /\ a \in Seq(T) /\ Len(a) = m /\ \A k \in 1 .. m : a[k] = u[k]
        /\ b \in Seq(T) /\ Len(b) = Len(u) - m /\ \A k \in 1 .. Len(u) - m : b[k] = u[m + k]
    BY <1>1, <1>2, SubSeqOf
  <1>4. InsertAt(u, m + 1, x) = Append(a, x) \o b
    <2>1. u \in Seq(T)
      BY <1>1
    <2> QED
      BY <1>2, <2>1, InsertSplit
  <1> HIDE DEF a, b
  <1>5. a = s
    BY <1>1, <1>3, SameSeq DEF m
  <1>6. b = t
    <2>1. Len(b) = Len(t)
      BY <1>1, <1>3
    <2>2. \A k \in 1 .. Len(b) : b[k] = t[k]
      BY <1>1, <1>3, <2>1
    <2> QED
      BY <1>3, <2>1, <2>2, SameSeq
  <1> QED
    BY <1>4, <1>5, <1>6 DEF u, m

LEMMA RemoveBetween ==
  ASSUME NEW T, NEW s \in Seq(T), NEW t \in Seq(T), NEW x \in T
  PROVE  RemoveAt(Append(s, x) \o t, Len(s) + 1) = s \o t
  <1> DEFINE w == Append(s, x)
             u == w \o t
             m == Len(s) + 1
  <1>0. /\ w \in Seq(T) /\ Len(w) = m /\ m \in Nat /\ m >= 1 /\ w[m] = x
        /\ \A k \in 1 .. m - 1 : w[k] = s[k]
    OBVIOUS
  <1> HIDE DEF w
  <1>1. /\ u \in Seq(T) /\ Len(u) = m + Len(t) /\ Len(t) \in Nat
        /\ \A k \in 1 .. m : u[k] = w[k]
        /\ \A k \in 1 .. Len(t) : u[m + k] = t[k]
    <2>0. w \in Seq(T)
      BY <1>0
    <2>1. Len(w) = m
      BY <1>0
    <2>2. /\ u \in Seq(T) /\ Len(u) = Len(w) + Len(t)
          /\ \A k \in 1 .. Len(w) : u[k] = w[k]
          /\ \A k \in 1 .. Len(t) : u[Len(w) + k] = t[k]
      BY <2>0, ConcatFacts
    <2> HIDE DEF u, m
    <2> QED
      BY <2>1, <2>2
  <1>7. Len(s) = m - 1 /\ m - 1 \in Nat
    OBVIOUS
  <1> HIDE DEF u, m
  <1>2. m \in 1 .. Len(u) /\ m - 1 \in 0 .. Len(u) /\ m \in 0 .. Len(u)
    BY <1>0, <1>1
  <1> DEFINE a == SubSeq(u, 1, m - 1)
             b == SubSeq(u, m + 1, Len(u))
  <1>3. /\ a \in Seq(T) /\ Len(a) = m - 1 /\ \A k \in 1 .. m - 1 : a[k] = u[k]
    BY <1>1, <1>2, SubSeqOf
  <1>4. /\ b \in Seq(T) /\ Len(b) = Len(u) - m /\ \A k \in 1 .. Len(u) - m : b[k] = u[m + k]
    BY <1>1, <1>2, SubSeqOf
  <1>5. RemoveAt(u, m) = a \o b
    <2>1. u \in Seq(T)
      BY <1>1
    <2> QED
      BY <1>2, <2>1, CutAt
  <1> HIDE DEF a, b
  <1>6. a = s
    <2>1. \A k \in 1 .. Len(a) : a[k] = s[k]
      BY <1>0, <1>1, <1>3
    <2> QED
      BY <1>3, <1>7, <2>1, SameSeq
  <1>8. b = t
    <2>1. Len(b) = Len(t)
      BY <1>0, <1>1, <1>4
    <2>2. \A k \in 1 .. Len(b) : b[k] = t[k]
      BY <1>1, <1>4, <2>1
    <2> QED
      BY <1>4, <2>1, <2>2, SameSeq
  <1> QED
    BY <1>5, <1>6, <1>8 DEF u, m, w

(* What insert(at, [id]) leaves visible is what was visible with the new    *)
(* item at its place: the mirror that the caller keeps is right.           *)
LEMMA MirrorInsert ==
  ASSUME NEW a, IsArray(a), NEW x \in Item,
         \A i \in a.items : i.id[1] < x.id[1],
         NEW at \in 1 .. Len(Visible(a)) + 1,
         x.after = IF at = 1 THEN Head0 ELSE Visible(a)[at - 1].id,
         NEW b, b.items = a.items \cup {x}, b.dead = a.dead
  PROVE  Visible(b) = InsertAt(Visible(a), at, x)
  <1> DEFINE items == a.items
             more == items \cup {x}
             o == Ordered(items)
             S == Shown(a)
             v == Visible(a)
  <1>1. /\ IsItems(items) /\ a.dead \subseteq IdsOf(items)
        /\ \A i \in items : i.id[1] \in Nat \ {0}
    BY DEF IsArray, IsItems, Item
  <1>2. /\ x \notin items /\ x.id \notin a.dead /\ Ordered(more) = Place(o, x)
    <2>1. x.id \notin IdsOf(items)
      BY <1>1 DEF IdsOf, Item
    <2>2. Ordered(more) = Place(o, x)
      BY <1>1, OrderedAdd
    <2>3. x \notin items
      BY <2>1 DEF IdsOf
    <2> QED
      BY <1>1, <2>1, <2>2, <2>3
  <1>3. Visible(b) = Keep(Place(o, x), S \cup {x}) /\ v = Keep(o, S)
    <2>1. Shown(b) = S \cup {x}
      BY <1>2 DEF Shown
    <2>2. Visible(b) = Keep(Ordered(b.items), Shown(b)) /\ v = Keep(o, S)
      BY DEF Visible, Shown
    <2> QED
      BY <1>2, <2>1, <2>2
  <1>4. o \in Seq(items) /\ IsInjective(o) /\ Range(o) = items
    BY <1>1, OrderedFacts
  <1>5. v \in Seq(items) /\ IsInjective(v) /\ Range(v) = S /\ S \subseteq items
    BY VisibleFacts DEF Shown
  <1> HIDE DEF items, o, S, v
  <1>6. o \in Seq(more) /\ v \in Seq(more) /\ x \in more
    BY <1>4, <1>5
  <1> HIDE DEF more
  <1>7. PICK m \in 0 .. Len(o) :
          /\ Place(o, x) = InsertAt(o, m + 1, x)
          /\ m > 0 => o[m].id = x.after
          /\ m = 0 => \A k \in 1 .. Len(o) : o[k].id # x.after
    BY <1>6, PlaceAfter
  <1> DEFINE A == SubSeq(o, 1, m)
             B == SubSeq(o, m + 1, Len(o))
             P == Keep(A, S)
             Q == Keep(B, S)
  <1>8. A \in Seq(more) /\ B \in Seq(more) /\ o = A \o B
    BY <1>6, SubSeqOf
  <1>9. Place(o, x) = Append(A, x) \o B
    <2>1. InsertAt(o, m + 1, x) = Append(A, x) \o B
      <3>1. o \in Seq(more) /\ x \in more /\ m \in 0 .. Len(o)
        BY <1>6, <1>7
      <3> HIDE DEF more
      <3> QED
        BY <3>1, InsertSplit
    <2> QED
      BY <1>7, <2>1
  <1>10. Range(A) \subseteq items /\ Range(B) \subseteq items
    <2> HIDE DEF A, B
    <2>1. Range(A \o B) = Range(A) \cup Range(B)
      BY <1>8, ConcatRange
    <2> QED
      BY <1>4, <1>8, <2>1
  <1>16. P \in Seq(more) /\ Q \in Seq(more)
    <2> HIDE DEF A, B
    <2> QED
      BY <1>8, KeepIn
  <1>11. Visible(b) = Append(P, x) \o Q
    <2> DEFINE R == S \cup {x}
    <2> HIDE DEF A, B
    <2>1. Keep(A, R) = Keep(A, S) /\ Keep(B, R) = Keep(B, S)
      <3>1. \A y \in Range(A) : y \in R <=> y \in S
        BY <1>2, <1>10
      <3>2. \A y \in Range(B) : y \in R <=> y \in S
        BY <1>2, <1>10
      <3> HIDE DEF R
      <3> QED
        BY <1>8, <3>1, <3>2, KeepSame
    <2>2. x \in R
      OBVIOUS
    <2> HIDE DEF R
    <2> DEFINE w == Append(A, x)
    <2>3. w \in Seq(more)
      BY <1>6, <1>8
    <2>5. Keep(w, R) = Append(Keep(A, R), x)
      BY <1>6, <1>8, <2>2, KeepAppend
    <2>6. Place(o, x) = w \o B
      BY <1>9
    <2> HIDE DEF w
    <2>7. B \in Seq(more)
      BY <1>8
    <2>4. Keep(w \o B, R) = Keep(w, R) \o Keep(B, R)
      BY <2>3, <2>7, KeepConcat
    <2> QED
      BY <1>3, <2>1, <2>4, <2>5, <2>6 DEF R
  <1>12. v = P \o Q
    <2> HIDE DEF A, B
    <2> QED
      BY <1>3, <1>8, KeepConcat
  <1>13. Len(P) = at - 1
    <2>1. CASE at = 1
      <3>1. x.after = Head0
        BY <2>1
      <3>2. m = 0
        <4> SUFFICES ASSUME m > 0 PROVE FALSE
          BY <1>7
        <4>1. o[m] \in items /\ o[m].id[1] = 0
          <5>1. m \in 1 .. Len(o)
            BY <1>7
          <5>2. o[m].id = Head0
            BY <1>7, <3>1
          <5> QED
            BY <1>4, <5>1, <5>2 DEF Head0
        <4> QED
          BY <1>1, <4>1
      <3>3. A = << >>
        BY <1>8, <3>2
      <3>4. P = << >>
        BY <3>3, KeepNothing
      <3> QED
        BY <2>1, <3>4
    <2>2. CASE at # 1
      <3> DEFINE y == v[at - 1]
      <3>1. at - 1 \in 1 .. Len(v) /\ x.after = y.id
        BY <1>5, <2>2 DEF v
      <3>2. y \in S /\ y \in items
        BY <1>5, <3>1 DEF Range
      <3> HIDE DEF y
      <3>3. PICK k \in 1 .. Len(o) : o[k] = y
        BY <1>4, <3>2 DEF Range
      <3>4. m # 0
        BY <1>7, <3>1, <3>3
      <3>5. m \in 1 .. Len(o) /\ o[m] \in items /\ o[m].id = y.id
        BY <1>4, <1>7, <3>1, <3>4
      <3>6. o[m] = y
        BY <1>1, <3>2, <3>5 DEF IsItems
      <3>7. A = Append(SubSeq(o, 1, m - 1), y) /\ SubSeq(o, 1, m - 1) \in Seq(more)
        BY <1>6, <3>5, <3>6, CutAt
      <3> DEFINE A0 == SubSeq(o, 1, m - 1)
      <3> HIDE DEF A0
      <3>8. y \in more
        BY <3>2 DEF more
      <3>9. P = Append(Keep(A0, S), y) /\ Keep(A0, S) \in Seq(more)
        <4>1. A0 \in Seq(more) /\ A = Append(A0, y)
          BY <3>7 DEF A0
        <4>2. Keep(Append(A0, y), S) = Append(Keep(A0, S), y)
          BY <3>2, <3>8, <4>1, KeepAppend
        <4>3. Keep(A0, S) \in Seq(more)
          BY <4>1, KeepIn
        <4>4. P = Keep(Append(A0, y), S)
          BY <4>1, Zenon
        <4> QED
          BY <4>2, <4>3, <4>4
      <3> HIDE DEF P, Q
      <3>10. Len(P) \in 1 .. Len(v) /\ v[Len(P)] = y
        <4>1. Len(P) >= 1 /\ Len(P) \in Nat /\ P[Len(P)] = y
          BY <3>8, <3>9
        <4>2. Len(P \o Q) = Len(P) + Len(Q) /\ \A j \in 1 .. Len(P) : (P \o Q)[j] = P[j]
          BY <1>16, ConcatFacts
        <4>3. Len(Q) \in Nat
          BY <1>16
        <4> QED
          BY <1>12, <4>1, <4>2, <4>3
      <3>11. v[at - 1] = y
        BY DEF y
      <3> QED
        BY <1>5, <3>1, <3>10, <3>11, SamePlace
    <2> QED
      BY <2>1, <2>2
  <1>14. InsertAt(v, Len(P) + 1, x) = Append(P, x) \o Q
    <2> HIDE DEF P, Q
    <2> QED
      <3>1. InsertAt(P \o Q, Len(P) + 1, x) = Append(P, x) \o Q
        <4>1. x \in more
          BY <1>6
        <4> QED
          BY <1>16, <4>1, InsertBetween
      <3> QED
        BY <1>12, <3>1
  <1>15. Len(P) + 1 = at
    <2> HIDE DEF P
    <2> QED
      BY <1>13
  <1> QED
    BY <1>11, <1>14, <1>15 DEF v

(* Deleting some items leaves the others visible, in their order.          *)
LEMMA MirrorHide ==
  ASSUME NEW a, IsArray(a), NEW b, b.items = a.items, NEW S,
         Shown(b) = Shown(a) \cap S
  PROVE  Visible(b) = Keep(Visible(a), S)
  <1> DEFINE o == Ordered(a.items)
  <1>1. o \in Seq(a.items)
    BY OrderedFacts DEF IsArray, IsItems
  <1>2. Visible(a) = Keep(o, Shown(a)) /\ Visible(b) = Keep(o, Shown(a) \cap S)
    BY DEF Visible, Shown
  <1> HIDE DEF o
  <1> QED
    BY <1>1, <1>2, KeepKeep

LEMMA KeepOthers ==
  ASSUME NEW T, NEW s \in Seq(T), IsInjective(s), NEW m \in 1 .. Len(s), NEW S,
         \A y \in Range(s) : y \in S <=> y # s[m]
  PROVE  Keep(s, S) = RemoveAt(s, m)
  <1> DEFINE a == SubSeq(s, 1, m - 1)
             b == SubSeq(s, m + 1, Len(s))
             y == s[m]
  <1>1. /\ a \in Seq(T) /\ b \in Seq(T) /\ s = Append(a, y) \o b
        /\ RemoveAt(s, m) = a \o b
    BY CutAt
  <1>2. y \in T
    OBVIOUS
  <1> HIDE DEF a, b, y
  <1>3. Append(a, y) \in Seq(T)
    BY <1>1, <1>2
  <1>4. IsInjective(Append(a, y)) /\ Range(Append(a, y)) \cap Range(b) = {}
    BY <1>1, <1>3, InjectiveParts
  <1>5. Range(Append(a, y)) = Range(a) \cup {y} /\ y \notin Range(a)
    BY <1>1, <1>2, <1>4, AppendRange
  <1>6. Range(s) = Range(Append(a, y)) \cup Range(b)
    <2> DEFINE w == Append(a, y)
    <2>1. w \in Seq(T) /\ b \in Seq(T) /\ s = w \o b
      BY <1>1, <1>3
    <2> HIDE DEF w
    <2>2. Range(s) = Range(w) \cup Range(b)
      BY <2>1, ConcatRange
    <2> QED
      BY <2>2 DEF w
  <1>7. y \notin S /\ Range(a) \subseteq S /\ Range(b) \subseteq S
    BY <1>4, <1>5, <1>6 DEF y
  <1>8. Keep(a, S) = a /\ Keep(b, S) = b
    BY <1>1, <1>7, KeepAll
  <1>9. Keep(Append(a, y), S) = Keep(a, S)
    BY <1>1, <1>2, <1>7, KeepAppend
  <1>10. Keep(s, S) = Keep(Append(a, y), S) \o Keep(b, S)
    <2> DEFINE w == Append(a, y)
    <2>1. w \in Seq(T) /\ s = w \o b
      BY <1>1, <1>3
    <2> HIDE DEF w
    <2>2. Keep(w \o b, S) = Keep(w, S) \o Keep(b, S)
      BY <1>1, <2>1, KeepConcat
    <2> QED
      BY <2>1, <2>2 DEF w
  <1> QED
    BY <1>1, <1>8, <1>9, <1>10

LEMMA MirrorDelete ==
  ASSUME NEW a, IsArray(a), NEW at \in 1 .. Len(Visible(a)),
         NEW b, b.items = a.items, b.dead = a.dead \cup {Visible(a)[at].id}
  PROVE  Visible(b) = RemoveAt(Visible(a), at)
  <1> DEFINE v == Visible(a)
             S == {i \in a.items : i # v[at]}
  <1>1. v \in Seq(a.items) /\ IsInjective(v) /\ Range(v) = Shown(a)
    BY VisibleFacts
  <1>2. at \in 1 .. Len(v)
    OBVIOUS
  <1> HIDE DEF v
  <1>3. v[at] \in a.items
    BY <1>1, <1>2
  <1>4. \A i \in a.items : i.id = v[at].id => i = v[at]
    BY <1>3 DEF IsArray
  <1>5. Shown(b) = Shown(a) \cap S
    BY <1>3, <1>4 DEF Shown, v
  <1>6. \A y \in Range(v) : y \in S <=> y # v[at]
    BY <1>1 DEF Shown
  <1> HIDE DEF S
  <1>7. Visible(b) = Keep(v, S)
    BY <1>5, MirrorHide DEF v
  <1>8. Keep(v, S) = RemoveAt(v, at)
    BY <1>1, <1>2, <1>6, KeepOthers
  <1> QED
    BY <1>7, <1>8 DEF v

LEMMA FindFacts ==
  ASSUME NEW S, NEW s \in Seq(S), NEW id
  PROVE  Find(s, id) \in 0 .. Len(s) /\ (Find(s, id) > 0 => s[Find(s, id)].val = id)
  <1> DEFINE I == {k \in 1 .. Len(s) : s[k].val = id}
  <1>1. Find(s, id) = IF I # {} THEN Min(I) ELSE 0
    BY DEF Find, SelectInSeq
  <1>2. CASE I # {}
    <2>1. Min(I) \in I
      BY <1>2, FirstOf, SMTT(30)
    <2> QED
      BY <1>1, <1>2, <2>1
  <1> QED
    BY <1>1, <1>2

-----------------------------------------------------------------------------
(* An array under reconciliation, and the mirror of its visible items. *)
Working(s, a, client) ==
  /\ s = [array |-> s.array, work |-> s.work]
  /\ IsArray(s.array) /\ Grows(a, s.array, client)
  /\ s.work = Visible(s.array)

LEMMA WorkFacts ==
  ASSUME NEW s, NEW a, NEW client, Working(s, a, client)
  PROVE  /\ s.work \in Seq(s.array.items) /\ IsInjective(s.work)
         /\ Range(s.work) = Shown(s.array)
  BY VisibleFacts DEF Working

(* The new item of an array. *)
Adds(i, a, b, id) ==
  /\ b.items = a.items \cup {i} /\ b.dead = a.dead
  /\ i \notin a.items /\ i.val = id /\ \A j \in a.items : j.id[1] < i.id[1]

(* insert(at, [id]): the new item's id is above all there are. *)
LEMMA InsertWorks ==
  ASSUME NEW client \in Nat, NEW a, NEW s, Working(s, a, client),
         NEW at \in 1 .. Len(s.work) + 1, NEW id \in Nodes
  PROVE  /\ Working(Insert(s, client, at, id), a, client)
         /\ Len(Insert(s, client, at, id).work) = Len(s.work) + 1
         /\ \E i : Adds(i, s.array, Insert(s, client, at, id).array, id)
  <1> DEFINE items == s.array.items
             clocks == {i.id[1] : i \in items}
             clock == 1 + Max({0} \cup clocks)
             after == IF at = 1 THEN Head0 ELSE s.work[at - 1].id
             item == [id |-> <<clock, client>>, after |-> after, val |-> id]
             done == [array |-> [s.array EXCEPT !.items = @ \cup {item}],
                      work  |-> InsertAt(s.work, at, item)]
  <1>1. Insert(s, client, at, id) = done
    BY DEF Insert
  <1>2. /\ IsArray(s.array) /\ items \in SUBSET Item /\ IsFiniteSet(items)
        /\ s.work \in Seq(items)
        /\ s.array = [items |-> items, dead |-> s.array.dead]
    BY WorkFacts DEF Working, IsArray
  <1>3. \A i \in items : i.id \in Nat \X Nat /\ i.id[1] \in Nat /\ i.id = <<i.id[1], i.id[2]>>
    BY <1>2 DEF Item
  <1>4. clock \in Nat \ {0} /\ \A i \in items : i.id[1] < clock
    <2>1. {0} \cup clocks \in SUBSET Nat
      BY <1>3
    <2>2. IsFiniteSet({0} \cup clocks)
      BY <1>2, FiniteIds
    <2> DEFINE max == Max({0} \cup clocks)
    <2>3. max \in {0} \cup clocks /\ \A j \in {0} \cup clocks : j <= max
      BY <2>1, <2>2, MaxOf
    <2>4. max \in Nat /\ \A i \in items : i.id[1] <= max
      BY <2>1, <2>3
    <2> HIDE DEF max
    <2>5. clock = 1 + max
      BY DEF max
    <2> HIDE DEF clock
    <2> QED
      BY <1>3, <2>4, <2>5
  <1> HIDE DEF clock
  <1>5. after \in IdsOf(items) \cup {Head0} /\ after \in Nat \X Nat
    <2>1. CASE at = 1
      BY <2>1 DEF Head0
    <2>2. CASE at # 1
      <3>1. at - 1 \in 1 .. Len(s.work)
        BY <1>2, <2>2
      <3>2. s.work[at - 1] \in items
        BY <1>2, <3>1
      <3> QED
        BY <1>3, <2>2, <3>2 DEF IdsOf
    <2> QED
      BY <2>1, <2>2
  <1> HIDE DEF after
  <1>6. /\ item \in Item /\ item.id = <<clock, client>> /\ item.id[1] = clock
        /\ item.id[2] = client /\ item.after = after
    BY <1>4, <1>5 DEF Item
  <1>14. item.val = id
    OBVIOUS
  <1> HIDE DEF item
  <1>7. done.array = [items |-> items \cup {item}, dead |-> s.array.dead]
    BY <1>2
  <1>8. /\ done.array.items = items \cup {item} /\ done.array.dead = s.array.dead
        /\ done.work = InsertAt(s.work, at, item)
    BY <1>7
  <1>9. IsArray(done.array)
    <2>1. IsFiniteSet(items \cup {item})
      BY <1>2, FS_AddElement
    <2>2. \A i \in items : i.id # item.id
      BY <1>3, <1>4, <1>6
    <2>3. IdsOf(items) \subseteq IdsOf(items \cup {item})
      BY DEF IdsOf
    <2>4. \A i \in items : i.after \in IdsOf(items) \cup {Head0}
      BY <1>2 DEF IsArray
    <2>5. s.array.dead \subseteq IdsOf(items)
      BY <1>2 DEF IsArray
    <2>6. \A i, j \in items : i.id = j.id => i = j
      BY <1>2 DEF IsArray
    <2>7. \A i, j \in items \cup {item} : i.id = j.id => i = j
      BY <2>2, <2>6
    <2>8. \A i \in items \cup {item} : i.after \in IdsOf(items \cup {item}) \cup {Head0}
      BY <1>5, <1>6, <2>3, <2>4
    <2> HIDE DEF done
    <2> QED
      BY <1>2, <1>6, <1>7, <1>8, <2>1, <2>3, <2>5, <2>7, <2>8 DEF IsArray
  <1>10. Grows(a, done.array, client)
    <2>1. Grows(a, s.array, client)
      BY DEF Working
    <2> HIDE DEF done
    <2> QED
      BY <1>3, <1>4, <1>6, <1>8, <2>1 DEF Grows
  <1>11. done.work \in Seq(items \cup {item}) /\ Len(done.work) = Len(s.work) + 1
    <2> DEFINE larger == items \cup {item}
    <2>1. s.work \in Seq(larger) /\ item \in larger
      BY <1>2
    <2> HIDE DEF done, larger
    <2>2. /\ InsertAt(s.work, at, item) \in Seq(larger)
          /\ Len(InsertAt(s.work, at, item)) = Len(s.work) + 1
      BY <2>1, InsertAtFacts
    <2> QED
      BY <1>8, <2>2 DEF larger
  <1>13. done.work = Visible(done.array)
    <2>1. s.work = Visible(s.array)
      BY DEF Working
    <2>2. item.after = IF at = 1 THEN Head0 ELSE s.work[at - 1].id
      BY <1>6 DEF after
    <2>3. \A i \in items : i.id[1] < item.id[1]
      BY <1>4, <1>6
    <2>4. item \in Item /\ at \in 1 .. Len(Visible(s.array)) + 1
      BY <1>6, <2>1
    <2>5. done.array.items = s.array.items \cup {item} /\ done.array.dead = s.array.dead
      BY <1>8
    <2> HIDE DEF done
    <2>6. Visible(done.array) = InsertAt(Visible(s.array), at, item)
      BY <1>2, <2>1, <2>2, <2>3, <2>4, <2>5, MirrorInsert
    <2> QED
      BY <1>8, <2>1, <2>6
  <1>15. Adds(item, s.array, done.array, id)
    <2>1. \A i \in items : i.id[1] < item.id[1]
      BY <1>4, <1>6
    <2>2. item \notin items
      BY <1>3, <1>4, <2>1
    <2> HIDE DEF done
    <2> QED
      BY <1>8, <1>14, <2>1, <2>2 DEF Adds
  <1>12. done = [array |-> done.array, work |-> done.work]
    OBVIOUS
  <1> HIDE DEF done
  <1>16. Working(done, a, client)
    BY <1>8, <1>9, <1>10, <1>11, <1>12, <1>13 DEF Working
  <1> QED
    BY <1>1, <1>11, <1>15, <1>16

LEMMA DeleteWorks ==
  ASSUME NEW client, NEW a, NEW s, Working(s, a, client), NEW at \in 1 .. Len(s.work)
  PROVE  /\ Working(Delete(s, at), a, client)
         /\ Len(Delete(s, at).work) = Len(s.work) - 1
         /\ Delete(s, at).array.items = s.array.items
         /\ Delete(s, at).array.dead = s.array.dead \cup {s.work[at].id}
  <1> DEFINE gone == s.work[at].id
             done == [array |-> [s.array EXCEPT !.dead = @ \cup {gone}],
                      work  |-> RemoveAt(s.work, at)]
  <1>1. Delete(s, at) = done
    BY DEF Delete
  <1>2. /\ IsArray(s.array) /\ s.work \in Seq(s.array.items) /\ Grows(a, s.array, client)
        /\ s.array = [items |-> s.array.items, dead |-> s.array.dead]
    BY WorkFacts DEF Working, IsArray
  <1>3. gone \in IdsOf(s.array.items)
    BY <1>2 DEF IdsOf
  <1> HIDE DEF gone
  <1>4. done.array = [items |-> s.array.items, dead |-> s.array.dead \cup {gone}]
    BY <1>2
  <1>7. done.work = RemoveAt(s.work, at)
    OBVIOUS
  <1>5. /\ done.work \in Seq(s.array.items) /\ Len(done.work) = Len(s.work) - 1
        /\ done = [array |-> done.array, work |-> done.work]
    BY <1>2, RemoveAtFacts
  <1> HIDE DEF done
  <1>6. IsArray(done.array) /\ Grows(a, done.array, client)
    BY <1>2, <1>3, <1>4 DEF IsArray, Grows
  <1>8. done.work = Visible(done.array)
    <2>1. s.work = Visible(s.array)
      BY DEF Working
    <2>2. done.array.items = s.array.items
      BY <1>4
    <2>3. done.array.dead = s.array.dead \cup {Visible(s.array)[at].id}
      BY <1>4, <2>1 DEF gone
    <2>4. Visible(done.array) = RemoveAt(Visible(s.array), at)
      BY <1>2, <2>1, <2>2, <2>3, MirrorDelete
    <2> QED
      BY <1>7, <2>1, <2>4
  <1>9. Working(done, a, client)
    BY <1>4, <1>5, <1>6, <1>8 DEF Working
  <1> QED
    BY <1>1, <1>4, <1>5, <1>9 DEF gone

-----------------------------------------------------------------------------
(* Reconciling: each pass keeps the array well formed, and all it adds has   *)
(* new ids of the client.                                                  *)

Works(a, client) ==
  {s \in [array : [items : SUBSET Item, dead : SUBSET (Nat \X Nat)], work : Seq(Item)] :
     Working(s, a, client)}

LEMMA WorksIsWorking ==
  ASSUME NEW a, NEW client
  PROVE  \A s : s \in Works(a, client) <=> Working(s, a, client)
  <1> SUFFICES ASSUME NEW s, Working(s, a, client) PROVE s \in Works(a, client)
    BY DEF Works
  <1>1. /\ s = [array |-> s.array, work |-> s.work] /\ s.work \in Seq(s.array.items)
        /\ s.array = [items |-> s.array.items, dead |-> s.array.dead]
        /\ s.array.items \in SUBSET Item /\ s.array.dead \subseteq IdsOf(s.array.items)
    BY WorkFacts DEF Working, IsArray
  <1>2. IdsOf(s.array.items) \subseteq Nat \X Nat
    BY <1>1 DEF IdsOf, Item
  <1>3. s.array \in [items : SUBSET Item, dead : SUBSET (Nat \X Nat)]
    BY <1>1, <1>2
  <1>4. s.work \in Seq(Item)
    BY <1>1
  <1> QED
    BY <1>1, <1>3, <1>4 DEF Works

(* A desired id is added at one place or other, or not at all. *)
AddsAt(at, s, client, base, desired, k) ==
  \/ /\ desired[k] \in Range(base) \/ Find(s.work, desired[k]) > 0
     /\ AddOne(s, client, base, desired, k) = s
  \/ /\ desired[k] \notin Range(base) /\ ~(Find(s.work, desired[k]) > 0)
     /\ AddOne(s, client, base, desired, k) = Insert(s, client, at, desired[k])

LEMMA AddOneIs ==
  ASSUME NEW client \in Nat, NEW a, NEW s, Working(s, a, client), NEW base,
         NEW desired \in Seq(Nodes), NEW k \in 1 .. Len(desired)
  PROVE  \E at \in 1 .. Len(s.work) + 1 : AddsAt(at, s, client, base, desired, k)
  <1> DEFINE there == {j \in 1 .. k - 1 : Find(s.work, desired[j]) > 0}
             at == IF there = {} THEN 1 ELSE Find(s.work, desired[Max(there)]) + 1
  <1>1. s.work \in Seq(s.array.items) /\ desired[k] \in Nodes
    BY WorkFacts
  <1>2. at \in 1 .. Len(s.work) + 1
    <2>1. CASE there = {}
      BY <1>1, <2>1
    <2>2. CASE there # {}
      <3>1. IsFiniteSet(1 .. k - 1)
        BY FS_Interval
      <3>2. there \in SUBSET Nat /\ IsFiniteSet(there)
        BY <3>1, FS_Subset
      <3>3. Max(there) \in there
        <4> HIDE DEF there
        <4> QED
          BY <2>2, <3>2, MaxOf
      <3> DEFINE found == Find(s.work, desired[Max(there)])
      <3>4. found \in 0 .. Len(s.work)
        BY <1>1, FindFacts
      <3>5. at = found + 1
        BY <2>2
      <3> HIDE DEF at, found, there
      <3> QED
        BY <1>1, <3>4, <3>5
    <2> QED
      BY <2>1, <2>2
  <1>3. AddsAt(at, s, client, base, desired, k)
    BY DEF AddOne, AddsAt
  <1> HIDE DEF at
  <1> QED
    BY <1>2, <1>3, Zenon

LEMMA AddOneWorks ==
  ASSUME NEW client \in Nat, NEW a, NEW s, Working(s, a, client), NEW base,
         NEW desired \in Seq(Nodes), NEW k \in 1 .. Len(desired)
  PROVE  Working(AddOne(s, client, base, desired, k), a, client)
  <1>1. PICK at \in 1 .. Len(s.work) + 1 : AddsAt(at, s, client, base, desired, k)
    BY AddOneIs
  <1>2. Working(Insert(s, client, at, desired[k]), a, client)
    BY <1>1, InsertWorks
  <1> QED
    BY <1>1, <1>2 DEF AddsAt

(* An id is moved from one place to another, or not at all. *)
MovesTo(from, to, s, client, desired, k) ==
  /\ s.work[from].val = desired[k]
  /\ MoveOne(s, client, desired, k) = Insert(Delete(s, from), client, to, desired[k])

LEMMA MoveOneIs ==
  ASSUME NEW client \in Nat, NEW a, NEW s, Working(s, a, client),
         NEW desired \in Seq(Nodes), NEW k \in 1 .. Len(desired)
  PROVE  \/ MoveOne(s, client, desired, k) = s
         \/ \E from, to \in 1 .. Len(s.work) : MovesTo(from, to, s, client, desired, k)
  <1> DEFINE slots == {i \in DOMAIN s.work : s.work[i].val \in Range(desired)}
             at == {i \in slots : Cardinality({j \in slots : j <= i}) = k}
             from == Find(s.work, desired[k])
             abs == CHOOSE i \in at : TRUE
             to == IF from < abs THEN abs - 1 ELSE abs
             idle == at = {} \/ from = 0 \/ s.work[abs].val = desired[k]
             less == Delete(s, from)
  <1>1. s.work \in Seq(s.array.items) /\ desired[k] \in Nodes
    BY WorkFacts
  <1>2. MoveOne(s, client, desired, k) = IF idle THEN s ELSE Insert(less, client, to, desired[k])
    BY DEF MoveOne
  <1>3. ASSUME ~idle
        PROVE  \E at1, at2 \in 1 .. Len(s.work) : MovesTo(at1, at2, s, client, desired, k)
    <2>1. abs \in at
      BY <1>3
    <2>2. abs \in 1 .. Len(s.work)
      BY <1>1, <2>1
    <2>3. from \in 1 .. Len(s.work) /\ s.work[from].val = desired[k]
      <3>1. /\ from \in 0 .. Len(s.work)
            /\ from > 0 => s.work[from].val = desired[k]
        BY <1>1, FindFacts
      <3>2. from # 0
        BY <1>3
      <3> HIDE DEF from
      <3> QED
        BY <1>1, <3>1, <3>2
    <2>4. from # abs
      BY <1>3, <2>3
    <2>5. to \in 1 .. Len(s.work)
      <3> HIDE DEF from, abs
      <3> QED
        BY <1>1, <2>2, <2>3, <2>4
    <2>6. MovesTo(from, to, s, client, desired, k)
      BY <1>2, <1>3, <2>3 DEF MovesTo
    <2> HIDE DEF from, to
    <2> QED
      BY <2>3, <2>5, <2>6
  <1> HIDE DEF idle, less, to
  <1> QED
    BY <1>2, <1>3

LEMMA MoveOneWorks ==
  ASSUME NEW client \in Nat, NEW a, NEW s, Working(s, a, client),
         NEW desired \in Seq(Nodes), NEW k \in 1 .. Len(desired)
  PROVE  Working(MoveOne(s, client, desired, k), a, client)
  <1> SUFFICES ASSUME NEW from \in 1 .. Len(s.work), NEW to \in 1 .. Len(s.work),
                      MovesTo(from, to, s, client, desired, k)
               PROVE  Working(MoveOne(s, client, desired, k), a, client)
    BY MoveOneIs
  <1> DEFINE less == Delete(s, from)
  <1>1. Working(less, a, client) /\ Len(less.work) = Len(s.work) - 1
    BY DeleteWorks
  <1>2. MoveOne(s, client, desired, k) = Insert(less, client, to, desired[k])
    BY DEF MovesTo
  <1>3. desired[k] \in Nodes /\ Len(s.work) \in Nat
    BY WorkFacts
  <1> HIDE DEF less
  <1>4. to \in 1 .. Len(less.work) + 1
    BY <1>1, <1>3
  <1>5. Working(Insert(less, client, to, desired[k]), a, client)
    BY <1>1, <1>3, <1>4, InsertWorks
  <1> QED
    BY <1>2, <1>5

(* done[k] is what the first k steps of a pass leave. *)
AddSteps(done, st, a, client, base, desired) ==
  /\ done[0] = st /\ AddDesired(st, client, base, desired) = done[Len(desired)]
  /\ \A k \in 1 .. Len(desired) : done[k] = AddOne(done[k - 1], client, base, desired, k)
  /\ \A k \in 0 .. Len(desired) : Working(done[k], a, client)

MoveSteps(done, st, a, client, desired) ==
  /\ done[0] = st /\ Reorder(st, client, desired) = done[Len(desired)]
  /\ \A k \in 1 .. Len(desired) : done[k] = MoveOne(done[k - 1], client, desired, k)
  /\ \A k \in 0 .. Len(desired) : Working(done[k], a, client)

FillSteps(done, a, client, desired) ==
  /\ done[0] = [array |-> a, work |-> << >>]
  /\ Fill(a, client, desired) = done[Len(desired)].array
  /\ \A k \in 1 .. Len(desired) : done[k] = Insert(done[k - 1], client, k, desired[k])
  /\ \A k \in 0 .. Len(desired) : Working(done[k], a, client) /\ Len(done[k].work) = k

LEMMA AddDesiredUnfolds ==
  ASSUME NEW client \in Nat, NEW a, NEW st, Working(st, a, client),
         NEW desired \in Seq(Nodes), NEW base
  PROVE  \E done : AddSteps(done, st, a, client, base, desired)
  <1> DEFINE V == Works(a, client)
             n == Len(desired)
             start == st
             step(s, k) == AddOne(s, client, base, desired, k)
             next == [k \in 1 .. n |-> [s \in V |-> step(s, k)]]
             body(f) == [k \in 0 .. n |-> IF k = 0 THEN start ELSE step(f[k - 1], k)]
             all == CHOOSE f : f = body(f)
  <1>1. AddDesired(st, client, base, desired) = all[n]
    BY DEF AddDesired
  <1> HIDE DEF all
  <1>2. n \in Nat /\ start \in V
    BY WorksIsWorking
  <1>3. ASSUME NEW s \in V, NEW k \in 1 .. n PROVE step(s, k) \in V
    BY <1>3, AddOneWorks, WorksIsWorking
  <1> HIDE DEF V, n, start, step
  <1>20. \A k \in 1 .. n : \A s \in V : next[k][s] = step(s, k)
    OBVIOUS
  <1>21. PICK f : Solution(f, n, V, start, next)
    <2>1. next \in [1 .. n -> [V -> V]]
      BY <1>3
    <2> HIDE DEF next
    <2> QED
      BY <1>2, <2>1, Recursion
  <1> HIDE DEF next
  <1>22. \A k \in 1 .. n : f[k] = step(f[k - 1], k)
    <2> TAKE k \in 1 .. n
    <2>1. f[k - 1] \in V
      BY <1>2, <1>21 DEF Solution
    <2> QED
      BY <1>20, <1>21, <2>1 DEF Solution
  <1>23. f = body(f)
    <2>1. \A k \in 0 .. n : f[k] = IF k = 0 THEN start ELSE step(f[k - 1], k)
      BY <1>2, <1>21, <1>22 DEF Solution
    <2> QED
      BY <1>21, <2>1 DEF Solution
  <1>24. all = body(all)
    BY <1>23 DEF all
  <1>25. all[0] = start /\ \A k \in 1 .. n : all[k] = step(all[k - 1], k)
    BY <1>2, <1>24
  <1> DEFINE Good == {k \in Nat : all[k] \in V}
  <1>26. \A k \in 0 .. n : k \in Good
    <2>1. 0 \in Good
      BY <1>2, <1>25
    <2>2. ASSUME NEW k \in 1 .. n, k - 1 \in Good PROVE k \in Good
      BY <1>2, <1>3, <1>25, <2>2
    <2> HIDE DEF Good
    <2> QED
      BY <1>2, <2>1, <2>2, CountUp
  <1>27. \A k \in 0 .. n : Working(all[k], a, client)
    BY <1>26, WorksIsWorking DEF V
  <1>28. AddSteps(all, st, a, client, base, desired)
    BY <1>1, <1>25, <1>27 DEF n, start, step, AddSteps
  <1> QED
    BY <1>28

LEMMA AddDesiredWorks ==
  ASSUME NEW client \in Nat, NEW a, NEW st, Working(st, a, client),
         NEW desired \in Seq(Nodes), NEW base
  PROVE  Working(AddDesired(st, client, base, desired), a, client)
  BY AddDesiredUnfolds DEF AddSteps

LEMMA ReorderUnfolds ==
  ASSUME NEW client \in Nat, NEW a, NEW st, Working(st, a, client),
         NEW desired \in Seq(Nodes)
  PROVE  \E done : MoveSteps(done, st, a, client, desired)
  <1> DEFINE V == Works(a, client)
             n == Len(desired)
             start == st
             step(s, k) == MoveOne(s, client, desired, k)
             next == [k \in 1 .. n |-> [s \in V |-> step(s, k)]]
             body(f) == [k \in 0 .. n |-> IF k = 0 THEN start ELSE step(f[k - 1], k)]
             all == CHOOSE f : f = body(f)
  <1>1. Reorder(st, client, desired) = all[n]
    BY DEF Reorder
  <1> HIDE DEF all
  <1>2. n \in Nat /\ start \in V
    BY WorksIsWorking
  <1>3. ASSUME NEW s \in V, NEW k \in 1 .. n PROVE step(s, k) \in V
    BY <1>3, MoveOneWorks, WorksIsWorking
  <1> HIDE DEF V, n, start, step
  <1>20. \A k \in 1 .. n : \A s \in V : next[k][s] = step(s, k)
    OBVIOUS
  <1>21. PICK f : Solution(f, n, V, start, next)
    <2>1. next \in [1 .. n -> [V -> V]]
      BY <1>3
    <2> HIDE DEF next
    <2> QED
      BY <1>2, <2>1, Recursion
  <1> HIDE DEF next
  <1>22. \A k \in 1 .. n : f[k] = step(f[k - 1], k)
    <2> TAKE k \in 1 .. n
    <2>1. f[k - 1] \in V
      BY <1>2, <1>21 DEF Solution
    <2> QED
      BY <1>20, <1>21, <2>1 DEF Solution
  <1>23. f = body(f)
    <2>1. \A k \in 0 .. n : f[k] = IF k = 0 THEN start ELSE step(f[k - 1], k)
      BY <1>2, <1>21, <1>22 DEF Solution
    <2> QED
      BY <1>21, <2>1 DEF Solution
  <1>24. all = body(all)
    BY <1>23 DEF all
  <1>25. all[0] = start /\ \A k \in 1 .. n : all[k] = step(all[k - 1], k)
    BY <1>2, <1>24
  <1> DEFINE Good == {k \in Nat : all[k] \in V}
  <1>26. \A k \in 0 .. n : k \in Good
    <2>1. 0 \in Good
      BY <1>2, <1>25
    <2>2. ASSUME NEW k \in 1 .. n, k - 1 \in Good PROVE k \in Good
      BY <1>2, <1>3, <1>25, <2>2
    <2> HIDE DEF Good
    <2> QED
      BY <1>2, <2>1, <2>2, CountUp
  <1>27. \A k \in 0 .. n : Working(all[k], a, client)
    BY <1>26, WorksIsWorking DEF V
  <1>28. MoveSteps(all, st, a, client, desired)
    BY <1>1, <1>25, <1>27 DEF n, start, step, MoveSteps
  <1> QED
    BY <1>28

LEMMA ReorderWorks ==
  ASSUME NEW client \in Nat, NEW a, NEW st, Working(st, a, client),
         NEW desired \in Seq(Nodes)
  PROVE  Working(Reorder(st, client, desired), a, client)
  BY ReorderUnfolds DEF MoveSteps

LEMMA StartWorks ==
  ASSUME NEW a, IsArray(a), NEW client, NEW b, NEW work,
         b = [items |-> a.items, dead |-> b.dead], b.dead \subseteq IdsOf(a.items),
         work = Visible(b)
  PROVE  Working([array |-> b, work |-> work], a, client)
  <1>1. b.items = a.items
    OBVIOUS
  <1>2. IsArray(b) /\ Grows(a, b, client)
    BY <1>1 DEF IsArray, Grows
  <1> QED
    BY <1>1, <1>2 DEF Working

LEMMA RemoveUndesiredWorks ==
  ASSUME NEW a, IsArray(a), NEW client, NEW base, NEW desired
  PROVE  Working(RemoveUndesired(a, base, desired), a, client)
  <1> DEFINE gone == Range(base) \ Range(desired)
             seen == Visible(a)
             went == {i.id : i \in {j \in Range(seen) : j.val \in gone}}
             b == [a EXCEPT !.dead = @ \cup went]
             kept == {i \in Range(seen) : i.val \notin gone}
             work == Keep(seen, kept)
  <1>1. RemoveUndesired(a, base, desired) = [array |-> b, work |-> work]
    BY DEF RemoveUndesired
  <1>2. seen \in Seq(a.items)
    BY VisibleFacts
  <1>3. \A i \in Range(seen) : i \in a.items
    BY <1>2 DEF Range
  <1>4. went \subseteq IdsOf(a.items)
    BY <1>3 DEF IdsOf
  <1>5. work = Visible(b)
    <2>1. b.items = a.items /\ b.dead = a.dead \cup went
      <3>1. a = [items |-> a.items, dead |-> a.dead]
        BY DEF IsArray
      <3> QED
        BY <3>1
    <2>2. seen = Visible(a) /\ Range(seen) = Shown(a)
      BY VisibleFacts
    <2>3. \A i \in a.items : i.id \in went <=> i \in Range(seen) /\ i.val \in gone
      BY <1>3 DEF IsArray
    <2> HIDE DEF went, b, seen, gone
    <2>4. Shown(b) = Shown(a) \cap kept
      BY <2>1, <2>2, <2>3 DEF Shown
    <2> HIDE DEF kept
    <2> QED
      BY <2>1, <2>2, <2>4, MirrorHide
  <1> HIDE DEF work, went
  <1>6. b = [items |-> a.items, dead |-> b.dead] /\ b.dead \subseteq IdsOf(a.items)
    <2>1. a = [items |-> a.items, dead |-> a.dead] /\ a.dead \subseteq IdsOf(a.items)
      BY DEF IsArray
    <2> QED
      BY <1>4, <2>1
  <1> HIDE DEF b
  <1> QED
    BY <1>1, <1>5, <1>6, StartWorks

LEMMA FillUnfolds ==
  ASSUME NEW client \in Nat, NEW a, IsArray(a), Visible(a) = << >>,
         NEW desired \in Seq(Nodes)
  PROVE  \E done : FillSteps(done, a, client, desired)
  <1> DEFINE V == Works(a, client)
             n == Len(desired)
             start == [array |-> a, work |-> << >>]
             step(s, k) == Insert(s, client, k, desired[k])
             guarded(s, k) == IF Len(s.work) = k - 1 THEN step(s, k) ELSE s
             next == [k \in 1 .. n |-> [s \in V |-> guarded(s, k)]]
             body(f) == [k \in 0 .. n |-> IF k = 0 THEN start ELSE step(f[k - 1], k)]
             all == CHOOSE f : f = body(f)
  <1>1. Fill(a, client, desired) = all[n].array
    BY DEF Fill
  <1> HIDE DEF all
  <1>2. n \in Nat /\ start \in V /\ Len(start.work) = 0
    <2>1. a = [items |-> a.items, dead |-> a.dead] /\ a.dead \subseteq IdsOf(a.items)
      BY DEF IsArray
    <2>3. Working(start, a, client)
      BY <2>1, StartWorks
    <2> QED
      BY <2>3, WorksIsWorking
  <1>3. ASSUME NEW s \in V, NEW k \in 1 .. n, Len(s.work) = k - 1
        PROVE  step(s, k) \in V /\ Len(step(s, k).work) = k
    <2>1. Working(s, a, client) /\ k \in 1 .. Len(s.work) + 1 /\ desired[k] \in Nodes
      BY <1>3, WorksIsWorking
    <2> QED
      BY <1>3, <2>1, InsertWorks, WorksIsWorking
  <1> HIDE DEF V, n, start, step
  <1>4. \A k \in 1 .. n : \A s \in V : next[k][s] = guarded(s, k)
    OBVIOUS
  <1>5. PICK f : Solution(f, n, V, start, next)
    <2>1. next \in [1 .. n -> [V -> V]]
      BY <1>3
    <2> HIDE DEF next
    <2> QED
      BY <1>2, <2>1, Recursion
  <1> HIDE DEF next
  <1> DEFINE Counted == {k \in Nat : Len(f[k].work) = k}
  <1>6. \A k \in 0 .. n : k \in Counted
    <2>1. 0 \in Counted
      BY <1>2, <1>5 DEF Solution
    <2>2. ASSUME NEW k \in 1 .. n, k - 1 \in Counted PROVE k \in Counted
      <3>1. f[k - 1] \in V /\ Len(f[k - 1].work) = k - 1
        BY <1>2, <1>5, <2>2 DEF Solution
      <3>2. f[k] = step(f[k - 1], k)
        BY <1>4, <1>5, <3>1 DEF Solution
      <3> QED
        BY <1>2, <1>3, <3>1, <3>2
    <2> HIDE DEF Counted
    <2> QED
      BY <1>2, <2>1, <2>2, CountUp
  <1>7. \A k \in 1 .. n : f[k] = step(f[k - 1], k)
    <2> TAKE k \in 1 .. n
    <2>0. k - 1 \in 0 .. n /\ f \in [0 .. n -> V]
      BY <1>2, <1>5 DEF Solution
    <2>1. f[k - 1] \in V /\ Len(f[k - 1].work) = k - 1
      <3>1. k - 1 \in Counted
        BY <1>6, <2>0
      <3> QED
        BY <2>0, <3>1
    <2> QED
      BY <1>4, <1>5, <2>1 DEF Solution
  <1>8. f = body(f)
    <2>1. \A k \in 0 .. n : f[k] = IF k = 0 THEN start ELSE step(f[k - 1], k)
      BY <1>2, <1>5, <1>7 DEF Solution
    <2> QED
      BY <1>5, <2>1 DEF Solution
  <1>9. all = body(all)
    BY <1>8 DEF all
  <1>10. all[0] = start /\ \A k \in 1 .. n : all[k] = step(all[k - 1], k)
    BY <1>2, <1>9
  <1> DEFINE Good == {k \in Nat : all[k] \in V /\ Len(all[k].work) = k}
  <1>11. \A k \in 0 .. n : k \in Good
    <2>1. 0 \in Good
      BY <1>2, <1>10
    <2>2. ASSUME NEW k \in 1 .. n, k - 1 \in Good PROVE k \in Good
      BY <1>2, <1>3, <1>10, <2>2
    <2> HIDE DEF Good
    <2> QED
      BY <1>2, <2>1, <2>2, CountUp
  <1>12. \A k \in 0 .. n : Working(all[k], a, client) /\ Len(all[k].work) = k
    BY <1>11, WorksIsWorking DEF V
  <1>13. FillSteps(all, a, client, desired)
    BY <1>1, <1>10, <1>12 DEF n, start, step, FillSteps
  <1> QED
    BY <1>13

LEMMA FillWorks ==
  ASSUME NEW client \in Nat, NEW a, IsArray(a), Visible(a) = << >>,
         NEW desired \in Seq(Nodes)
  PROVE  IsArray(Fill(a, client, desired)) /\ Grows(a, Fill(a, client, desired), client)
  <1>1. PICK done : /\ Fill(a, client, desired) = done[Len(desired)].array
                    /\ \A k \in 0 .. Len(desired) : Working(done[k], a, client)
    BY FillUnfolds DEF FillSteps
  <1>2. Working(done[Len(desired)], a, client)
    BY <1>1
  <1> QED
    BY <1>1, <1>2 DEF Working

LEMMA ReconcileWorks ==
  ASSUME NEW client \in Nat, NEW a, IsArray(a), NEW base, NEW desired \in Seq(Nodes)
  PROVE  /\ IsArray(Reconcile(a, client, base, desired))
         /\ Grows(a, Reconcile(a, client, base, desired), client)
  <1> DEFINE removed == RemoveUndesired(a, base, desired)
             added == AddDesired(removed, client, base, desired)
             moved == Reorder(added, client, desired)
  <1>1. Working(removed, a, client)
    BY RemoveUndesiredWorks
  <1>2. Working(added, a, client)
    BY <1>1, AddDesiredWorks
  <1>3. Working(moved, a, client)
    BY <1>2, ReorderWorks
  <1>4. \/ Reconcile(a, client, base, desired) \in {a, moved.array}
        \/ /\ Reconcile(a, client, base, desired) = Fill(a, client, desired)
           /\ Vals(Visible(a)) = << >>
    BY DEF Reconcile
  <1> HIDE DEF moved
  <1>6. Vals(Visible(a)) = << >> => Visible(a) = << >>
    <2> DEFINE v == Visible(a)
    <2>1. v \in Seq(a.items)
      BY VisibleFacts
    <2> HIDE DEF v
    <2>2. Vals(v) = << >> => v = << >>
      BY <2>1 DEF Vals
    <2> QED
      BY <2>2 DEF v
  <1>5. Grows(a, a, client)
    BY DEF Grows
  <1> QED
    BY <1>3, <1>4, <1>5, <1>6, FillWorks DEF Working
-----------------------------------------------------------------------------
(* The order of items of a key is total on the paths of their writers.      *)

SameUpto(a, b, n) == \A j \in 1 .. n : a[j] = b[j]

(* The first position at which two paths differ, or one of them ends.       *)
Parts(a, b, i) ==
  /\ i \in 1 .. Len(a) + 1 /\ i <= Len(b) + 1 /\ SameUpto(a, b, i - 1)
  /\ i <= Len(a) /\ i <= Len(b) => a[i] # b[i]

LEMMA PartsExists ==
  ASSUME NEW a \in Seq(Nat), NEW b \in Seq(Nat)
  PROVE  \E i : Parts(a, b, i)
  <1> DEFINE ends == {i \in Nat : /\ i >= 1
                                  /\ i > Len(a) \/ i > Len(b) \/ a[i] # b[i]}
  <1>1. Len(a) \in Nat /\ Len(b) \in Nat /\ Len(a) + 1 \in ends /\ Len(b) + 1 \in ends
    OBVIOUS
  <1>2. PICK i \in ends : \A j \in ends : i <= j
    BY <1>1, LeastOf
  <1>3. i \in Nat /\ i >= 1 /\ i <= Len(a) + 1 /\ i <= Len(b) + 1
    BY <1>1, <1>2
  <1>4. ASSUME NEW j \in 1 .. i - 1 PROVE a[j] = b[j]
    BY <1>1, <1>2, <1>3
  <1> QED
    <2>1. i \in 1 .. Len(a) + 1 /\ (i <= Len(a) /\ i <= Len(b) => a[i] # b[i])
      BY <1>1, <1>2, <1>3
    <2>2. SameUpto(a, b, i - 1)
      BY <1>4 DEF SameUpto
    <2>3. Parts(a, b, i)
      BY <1>3, <2>1, <2>2 DEF Parts
    <2> QED
      BY <2>3

LEMMA AfterAtParting ==
  ASSUME NEW a \in Seq(Nat), NEW b \in Seq(Nat), NEW i, Parts(a, b, i)
  PROVE  After(a, b) <=> i <= Len(a) /\ (i > Len(b) \/ a[i] > b[i])
  <1>1. After(a, b) <=> \/ Len(b) < Len(a) /\ SameUpto(a, b, Len(b))
                        \/ \E k \in 1 .. Len(a) :
                             k <= Len(b) /\ a[k] > b[k] /\ SameUpto(a, b, k - 1)
    <2>1. Keys!After(a, b) <=> After(a, b)
      BY DEF After, Keys!After, IsStrictPrefix, Keys!IsStrictPrefix, IsPrefix, Keys!IsPrefix
    <2>2. Keys!After(a, b) <=>
            \/ Len(b) < Len(a) /\ Keys!SameUpto(a, b, Len(b))
            \/ \E k \in 1 .. Len(a) :
                 k <= Len(b) /\ a[k] > b[k] /\ Keys!SameUpto(a, b, k - 1)
      BY Keys!AfterMeans
    <2>3. \A n : Keys!SameUpto(a, b, n) <=> SameUpto(a, b, n)
      BY DEF SameUpto, Keys!SameUpto
    <2> QED
      BY <2>1, <2>2, <2>3
  <1>2. /\ i \in Nat /\ i >= 1 /\ Len(a) \in Nat /\ Len(b) \in Nat
        /\ i <= Len(a) + 1 /\ i <= Len(b) + 1 /\ \A j \in 1 .. i - 1 : a[j] = b[j]
        /\ i <= Len(a) /\ i <= Len(b) => a[i] # b[i]
    BY DEF Parts, SameUpto
  <1>3. ASSUME i <= Len(a), i > Len(b) PROVE After(a, b)
    <2>1. Len(b) = i - 1
      BY <1>2, <1>3
    <2> QED
      BY <1>1, <1>2, <1>3, <2>1 DEF SameUpto
  <1>4. ASSUME i <= Len(a), i <= Len(b), a[i] > b[i] PROVE After(a, b)
    BY <1>1, <1>2, <1>4 DEF SameUpto
  <1>5. ASSUME Len(b) < Len(a), SameUpto(a, b, Len(b))
        PROVE  i <= Len(a) /\ i > Len(b)
    <2>1. ~(i <= Len(b))
      <3> SUFFICES ASSUME i <= Len(b) PROVE FALSE
        OBVIOUS
      <3>1. i \in 1 .. Len(b) /\ i <= Len(a)
        BY <1>2, <1>5
      <3>2. a[i] = b[i]
        BY <1>5, <3>1 DEF SameUpto
      <3> QED
        BY <1>2, <3>1, <3>2
    <2> QED
      BY <1>2, <1>5, <2>1
  <1>6. ASSUME NEW k \in 1 .. Len(a), k <= Len(b), a[k] > b[k], SameUpto(a, b, k - 1)
        PROVE  i <= Len(a) /\ i <= Len(b) /\ a[i] > b[i]
    <2>1. a[k] \in Nat /\ b[k] \in Nat
      BY <1>6
    <2>2. ~(k < i)
      BY <1>2, <1>6, <2>1
    <2>3. ~(i < k)
      BY <1>2, <1>6 DEF SameUpto
    <2>4. i = k
      BY <1>2, <2>2, <2>3
    <2> QED
      BY <1>6, <2>4
  <1> QED
    BY <1>1, <1>2, <1>3, <1>4, <1>5, <1>6

LEMMA PartsSymmetric ==
  ASSUME NEW a \in Seq(Nat), NEW b \in Seq(Nat), NEW i, Parts(a, b, i)
  PROVE  Parts(b, a, i)
  BY DEF Parts, SameUpto

LEMMA AfterTotal ==
  ASSUME NEW a \in Seq(Nat), NEW b \in Seq(Nat), a # b
  PROVE  After(a, b) \/ After(b, a)
  <1>1. PICK i : Parts(a, b, i)
    BY PartsExists
  <1>2. /\ After(a, b) <=> i <= Len(a) /\ (i > Len(b) \/ a[i] > b[i])
        /\ After(b, a) <=> i <= Len(b) /\ (i > Len(a) \/ b[i] > a[i])
    BY <1>1, AfterAtParting, PartsSymmetric
  <1>3. /\ i \in Nat /\ i >= 1 /\ i <= Len(a) + 1 /\ i <= Len(b) + 1
        /\ \A j \in 1 .. i - 1 : a[j] = b[j]
        /\ i <= Len(a) /\ i <= Len(b) => a[i] # b[i]
    BY <1>1 DEF Parts, SameUpto
  <1>4. CASE i > Len(a) /\ i > Len(b)
    <2>1. Len(a) = i - 1 /\ Len(b) = i - 1
      BY <1>3, <1>4
    <2> QED
      BY <1>3, <2>1
  <1>5. CASE i <= Len(a) /\ i <= Len(b)
    <2>1. a[i] \in Nat /\ b[i] \in Nat
      BY <1>3, <1>5
    <2> QED
      BY <1>2, <1>3, <1>5, <2>1
  <1> QED
    BY <1>2, <1>3, <1>4, <1>5

LEMMA AfterAsymmetric ==
  ASSUME NEW a \in Seq(Nat), NEW b \in Seq(Nat), After(a, b)
  PROVE  ~After(b, a) /\ a # b
  <1>1. PICK i : Parts(a, b, i)
    BY PartsExists
  <1>2. /\ After(a, b) <=> i <= Len(a) /\ (i > Len(b) \/ a[i] > b[i])
        /\ After(b, a) <=> i <= Len(b) /\ (i > Len(a) \/ b[i] > a[i])
    BY <1>1, AfterAtParting, PartsSymmetric
  <1>3. i \in Nat /\ i >= 1
    BY <1>1 DEF Parts
  <1>4. i <= Len(a) /\ i <= Len(b) => a[i] \in Nat /\ b[i] \in Nat
    BY <1>3
  <1> QED
    BY <1>2, <1>3, <1>4

LEMMA AfterTransitive ==
  ASSUME NEW a \in Seq(Nat), NEW b \in Seq(Nat), NEW c \in Seq(Nat),
         After(a, b), After(b, c)
  PROVE  After(a, c)
  <1>1. PICK i : Parts(a, b, i)
    BY PartsExists
  <1>2. PICK j : Parts(b, c, j)
    BY PartsExists
  <1>3. i <= Len(a) /\ (i > Len(b) \/ a[i] > b[i])
    BY <1>1, AfterAtParting
  <1>4. j <= Len(b) /\ (j > Len(c) \/ b[j] > c[j])
    BY <1>2, AfterAtParting
  <1>5. /\ i \in Nat /\ i >= 1 /\ i <= Len(b) + 1 /\ \A k \in 1 .. i - 1 : a[k] = b[k]
        /\ j \in Nat /\ j >= 1 /\ j <= Len(c) + 1 /\ \A k \in 1 .. j - 1 : b[k] = c[k]
        /\ Len(a) \in Nat /\ Len(b) \in Nat /\ Len(c) \in Nat
    BY <1>1, <1>2, SMTT(30) DEF Parts, SameUpto
  <1>6. /\ \A k \in 1 .. Len(a) : a[k] \in Nat
        /\ \A k \in 1 .. Len(b) : b[k] \in Nat
        /\ \A k \in 1 .. Len(c) : c[k] \in Nat
    OBVIOUS
  <1>7. CASE i < j
    <2>1. i <= Len(c) /\ c[i] = b[i] /\ i <= Len(b) /\ a[i] > b[i]
      BY <1>3, <1>4, <1>5, <1>7, SMTT(30)
    <2>2. \A k \in 1 .. i - 1 : a[k] = c[k]
      BY <1>5, <1>7
    <2>3. a[i] # c[i] /\ a[i] > c[i]
      BY <1>3, <1>5, <1>6, <2>1, SMTT(30)
    <2>4. Parts(a, c, i)
      BY <1>3, <1>5, <2>1, <2>2, <2>3, SMTT(30) DEF Parts, SameUpto
    <2> QED
      BY <1>3, <2>3, <2>4, AfterAtParting
  <1>8. CASE j < i
    <2>1. j <= Len(a) /\ a[j] = b[j]
      BY <1>3, <1>5, <1>8
    <2>2. \A k \in 1 .. j - 1 : a[k] = c[k]
      BY <1>5, <1>8
    <2>3. j > Len(c) \/ a[j] > c[j]
      BY <1>4, <2>1
    <2>4. j <= Len(c) => a[j] # c[j]
      BY <1>5, <1>6, <2>1, <2>3
    <2>5. Parts(a, c, j)
      BY <1>5, <2>1, <2>2, <2>4 DEF Parts, SameUpto
    <2> QED
      BY <2>1, <2>3, <2>5, AfterAtParting
  <1>9. CASE i = j
    <2>1. i <= Len(b) /\ a[i] > b[i]
      BY <1>3, <1>4, <1>5, <1>9
    <2>2. \A k \in 1 .. i - 1 : a[k] = c[k]
      BY <1>5, <1>9
    <2>3. i > Len(c) \/ a[i] > c[i]
      BY <1>3, <1>4, <1>5, <1>6, <1>9, <2>1, SMTT(30)
    <2>4. i <= Len(c) => a[i] # c[i]
      BY <1>3, <1>5, <1>6, <2>3
    <2>5. Parts(a, c, i)
      BY <1>3, <1>5, <1>9, <2>2, <2>4 DEF Parts, SameUpto
    <2> QED
      BY <1>3, <2>3, <2>5, AfterAtParting
  <1> QED
    BY <1>5, <1>7, <1>8, <1>9

LEMMA AppendAfter ==
  ASSUME NEW a \in Seq(Nat), NEW c \in Nat
  PROVE  /\ Append(a, c) \in Seq(Nat) /\ Append(a, c) # << >>
         /\ After(Append(a, c), a)
  <1> DEFINE b == Append(a, c)
  <1>1. b \in Seq(Nat) /\ Len(b) = Len(a) + 1 /\ \A j \in 1 .. Len(a) : b[j] = a[j]
    OBVIOUS
  <1> HIDE DEF b
  <1>2. Parts(b, a, Len(a) + 1)
    BY <1>1 DEF Parts, SameUpto
  <1>3. After(b, a)
    BY <1>1, <1>2, AfterAtParting
  <1>4. b # << >>
    BY <1>1
  <1> QED
    BY <1>1, <1>3, <1>4 DEF b
-----------------------------------------------------------------------------
(* One node's key and list on every replica. *)

IsNode(node) ==
  \/ node = Unset
  \/ /\ node = [path |-> node.path, dead |-> node.dead, val |-> node.val]
     /\ node.path \in Seq(Nat) /\ node.path # << >>
     /\ node.dead \in BOOLEAN /\ IsArray(node.val)

(* p set the key, or put an item into the list. *)
Wrote(p, node) ==
  /\ node.path # << >>
  /\ node.path[Len(node.path)] = p \/ \E i \in node.val.items : i.id[2] = p

(* Replicas of one node: those of the same item agree on what an id names,  *)
(* and whatever p wrote anywhere p still has, unless it has moved on to a   *)
(* later item, from which nobody returns.                                  *)
Sound(k) ==
  /\ \A p \in Peers : IsNode(k[p])
  /\ \A p, q \in Peers : k[p].path = k[q].path /\ k[p].path # << >> =>
       \A i \in k[p].val.items, j \in k[q].val.items : i.id = j.id => i = j
  /\ \A p, q \in Peers : Wrote(p, k[q]) =>
       \/ After(k[p].path, k[q].path)
       \/ /\ k[p].path = k[q].path
          /\ \A i \in k[q].val.items : i.id[2] = p => i \in k[p].val.items

LEMMA NodeFacts ==
  ASSUME NEW node, IsNode(node)
  PROVE  /\ node.path \in Seq(Nat) /\ node.dead \in BOOLEAN
         /\ node.path # << >> => /\ IsArray(node.val)
                                 /\ node = [path |-> node.path, dead |-> node.dead,
                                            val |-> node.val]
         /\ Live(node) => node.path # << >>
  <1>1. CASE node = Unset
    <2>1. node.path = << >> /\ node.dead = TRUE
      BY <1>1 DEF Unset
    <2>2. node.path \in Seq(Nat)
      BY <2>1
    <2>3. node.dead \in BOOLEAN /\ ~Live(node)
      BY <2>1 DEF Live
    <2> QED
      BY <2>1, <2>2, <2>3, Zenon
  <1>2. CASE node # Unset
    BY <1>2 DEF IsNode
  <1> QED
    BY <1>1, <1>2

LEMMA WithVal ==
  ASSUME NEW path, NEW dead, NEW val, NEW new
  PROVE  [[path |-> path, dead |-> dead, val |-> val] EXCEPT !.val = new]
           = [path |-> path, dead |-> dead, val |-> new]
  OBVIOUS

LEMMA NoItemsFacts ==
  /\ IsArray(NoItems) /\ NoItems.items = {} /\ NoItems.dead = {}
  /\ Visible(NoItems) = << >> /\ Vals(Visible(NoItems)) = << >>
  /\ \A client, base : Reconcile(NoItems, client, base, << >>) = NoItems
  <1>1. IsArray(NoItems) /\ NoItems.items = {} /\ NoItems.dead = {}
    <2>1. IsFiniteSet({})
      BY FS_EmptySet
    <2> QED
      BY <2>1 DEF NoItems, IsArray
  <1> DEFINE v == Visible(NoItems)
  <1>2. v \in Seq({})
    BY <1>1, VisibleFacts
  <1> HIDE DEF v
  <1>3. v = << >>
    BY <1>2
  <1>4. Vals(<< >>) = << >>
    BY DEF Vals
  <1>5. Vals(v) = << >>
    BY <1>3, <1>4
  <1>6. \A client, base : Reconcile(NoItems, client, base, << >>) = NoItems
    BY <1>5 DEF Reconcile, v
  <1> QED
    BY <1>1, <1>3, <1>5, <1>6 DEF v

(* A client writes the list of a live node, or that of a new item.          *)
LEMMA WriteNodeIs ==
  ASSUME NEW node, IsNode(node), NEW client \in Nat, NEW base, NEW kids \in Seq(Nodes),
         NEW w, w = WriteNode(node, client, base, kids)
  PROVE  /\ IsNode(w) /\ Live(w) /\ w.path # << >>
         /\ Live(node) => /\ w.path = node.path /\ IsArray(node.val)
                          /\ w.val = Reconcile(node.val, client, base, kids)
         /\ ~Live(node) => /\ w.path = Append(node.path, client)
                           /\ w.val = Reconcile(NoItems, client, base, kids)
  <1> DEFINE old == IF Live(node) THEN node ELSE SetKey(node, client, NoItems)
             new == Reconcile(old.val, client, base, kids)
  <1>1. w = [old EXCEPT !.val = new]
    BY DEF WriteNode
  <1>2. IsArray(NoItems)
    BY NoItemsFacts
  <1>3. /\ old = [path |-> old.path, dead |-> FALSE, val |-> old.val]
        /\ old.path \in Seq(Nat) /\ old.path # << >> /\ IsArray(old.val)
        /\ Live(node) => old = node
        /\ ~Live(node) => old.path = Append(node.path, client) /\ old.val = NoItems
    <2>1. CASE Live(node)
      BY <2>1, NodeFacts DEF Live
    <2>2. CASE ~Live(node)
      <3>1. old = [path |-> Append(node.path, client), dead |-> FALSE, val |-> NoItems]
        BY <2>2 DEF SetKey
      <3>2. Append(node.path, client) \in Seq(Nat) /\ Append(node.path, client) # << >>
        BY NodeFacts, AppendAfter
      <3> HIDE DEF old
      <3> QED
        BY <1>2, <2>2, <3>1, <3>2
    <2> QED
      BY <2>1, <2>2
  <1> HIDE DEF old
  <1>4. IsArray(new) /\ Grows(old.val, new, client)
    BY <1>3, ReconcileWorks
  <1> HIDE DEF new
  <1>5. w = [path |-> old.path, dead |-> FALSE, val |-> new]
    <2> DEFINE path == old.path
               val == old.val
    <2>1. old = [path |-> path, dead |-> FALSE, val |-> val]
      BY <1>3
    <2> HIDE DEF path, val
    <2>2. w = [[path |-> path, dead |-> FALSE, val |-> val] EXCEPT !.val = new]
      BY <1>1, <2>1, Zenon
    <2>3. [[path |-> path, dead |-> FALSE, val |-> val] EXCEPT !.val = new]
            = [path |-> path, dead |-> FALSE, val |-> new]
      BY WithVal, Zenon
    <2> QED
      BY <2>2, <2>3 DEF path
  <1>6. IsNode(w) /\ Live(w) /\ w.path = old.path /\ w.val = new
    BY <1>3, <1>4, <1>5 DEF IsNode, Live
  <1> QED
    BY <1>3, <1>6 DEF new

(* A client writing a live node adds to its list; one that is gone gets a   *)
(* later item, with nothing in its list that is not the client's.          *)
Written(node, client, w) ==
  /\ IsNode(w) /\ Live(w) /\ w.path # << >>
  /\ Live(node) => w.path = node.path /\ Grows(node.val, w.val, client)
  /\ ~Live(node) => /\ w.path = Append(node.path, client)
                    /\ \A i \in w.val.items : i.id[2] = client

LEMMA WriteNodeFacts ==
  ASSUME NEW node, IsNode(node), NEW client \in Nat, NEW base, NEW kids \in Seq(Nodes)
  PROVE  Written(node, client, WriteNode(node, client, base, kids))
  <1> DEFINE w == WriteNode(node, client, base, kids)
  <1>1. /\ IsNode(w) /\ Live(w) /\ w.path # << >>
        /\ Live(node) => /\ w.path = node.path /\ IsArray(node.val)
                         /\ w.val = Reconcile(node.val, client, base, kids)
        /\ ~Live(node) => /\ w.path = Append(node.path, client)
                          /\ w.val = Reconcile(NoItems, client, base, kids)
    BY WriteNodeIs
  <1>2. Live(node) => Grows(node.val, w.val, client)
    BY <1>1, ReconcileWorks
  <1>3. IsArray(NoItems) /\ NoItems.items = {}
    BY NoItemsFacts
  <1> HIDE DEF w
  <1>4. ~Live(node) => Grows(NoItems, w.val, client)
    BY <1>1, <1>3, ReconcileWorks
  <1>5. ~Live(node) => \A i \in w.val.items : i.id[2] = client
    BY <1>3, <1>4 DEF Grows
  <1> QED
    BY <1>1, <1>2, <1>5 DEF Written, w

LEMMA SoundStart ==
  ASSUME NEW kids \in Seq(Nodes)
  PROVE  LET w == WriteNode(Unset, 0, << >>, kids)
         IN  Live(w) /\ Sound([p \in Peers |-> w])
  <1> DEFINE w == WriteNode(Unset, 0, << >>, kids)
             k == [p \in Peers |-> w]
  <1>1. IsNode(Unset) /\ ~Live(Unset) /\ Unset.path = << >>
    BY DEF IsNode, Live, Unset
  <1>2. /\ IsNode(w) /\ Live(w) /\ w.path = Append(Unset.path, 0)
        /\ \A i \in w.val.items : i.id[2] = 0
    <2>1. Written(Unset, 0, w)
      BY <1>1, WriteNodeFacts
    <2> HIDE DEF w
    <2> QED
      BY <1>1, <2>1 DEF Written
  <1>3. w.path[Len(w.path)] = 0
    BY <1>1, <1>2
  <1>4. IsArray(w.val)
    BY <1>2, NodeFacts
  <1>5. \A p \in Peers : k[p] = w
    OBVIOUS
  <1> HIDE DEF w, k
  <1>6. \A p \in Peers : p # 0
    BY ListsAssumption
  <1>7. \A p \in Peers : ~Wrote(p, w)
    BY <1>2, <1>3, <1>6 DEF Wrote
  <1>8. \A i, j \in w.val.items : i.id = j.id => i = j
    BY <1>4 DEF IsArray
  <1>9. Sound(k)
    BY <1>2, <1>5, <1>7, <1>8 DEF Sound
  <1> QED
    BY <1>2, <1>9 DEF w, k

LEMMA SoundUnset == Sound([p \in Peers |-> Unset])
  <1> DEFINE k == [p \in Peers |-> Unset]
  <1>1. \A p \in Peers : k[p] = Unset
    OBVIOUS
  <1>2. IsNode(Unset) /\ Unset.path = << >>
    BY DEF IsNode, Unset
  <1> HIDE DEF k
  <1>3. \A p, q \in Peers : ~Wrote(p, k[q])
    BY <1>1, <1>2 DEF Wrote
  <1>4. Sound(k)
    BY <1>1, <1>2, <1>3 DEF Sound
  <1> QED
    BY <1>4 DEF k

LEMMA SoundWrite ==
  ASSUME NEW k, Sound(k), NEW p \in Peers, NEW base, NEW kids \in Seq(Nodes),
         NEW new, \A q \in Peers \ {p} : new[q] = k[q],
         new[p] = WriteNode(k[p], p, base, kids)
  PROVE  Sound(new)
  <1> DEFINE w == WriteNode(k[p], p, base, kids)
  <1>1. \A q \in Peers : IsNode(k[q]) /\ k[q].path \in Seq(Nat)
    BY NodeFacts DEF Sound
  <1>2. p \in Nat /\ p # 0
    BY ListsAssumption
  <1>3. /\ IsNode(w) /\ Live(w) /\ w.path # << >>
        /\ Live(k[p]) => w.path = k[p].path /\ Grows(k[p].val, w.val, p)
        /\ ~Live(k[p]) => /\ w.path = Append(k[p].path, p)
                          /\ \A i \in w.val.items : i.id[2] = p
    <2>1. IsNode(k[p])
      BY <1>1
    <2>2. Written(k[p], p, w)
      BY <1>2, <2>1, WriteNodeFacts
    <2> HIDE DEF w
    <2> QED
      BY <2>2 DEF Written
  <1>4. new[p] = w
    OBVIOUS
  <1> HIDE DEF w
  <1>5. IsArray(w.val) /\ \A i, j \in w.val.items : i.id = j.id => i = j
    BY <1>3, NodeFacts DEF IsArray
  <1>6. \A q \in Peers : IsNode(new[q])
    BY <1>1, <1>3, <1>4
  <1>7. CASE Live(k[p])
    <2>1. /\ w.path = k[p].path /\ k[p].val.items \subseteq w.val.items
          /\ \A i \in w.val.items \ k[p].val.items :
               i.id[2] = p /\ \A j \in k[p].val.items : j.id[1] < i.id[1]
      BY <1>3, <1>7 DEF Grows
    <2>2. IsArray(k[p].val) /\ \A i \in k[p].val.items : i.id[1] \in Nat
      BY <1>1, <1>7, NodeFacts DEF IsArray, Item
    <2>3. ASSUME NEW q \in Peers, q # p, k[q].path = w.path,
                 NEW i \in w.val.items, NEW j \in k[q].val.items, i.id = j.id
          PROVE  i = j
      <3>1. CASE i \in k[p].val.items
        BY <1>3, <2>1, <2>3, <3>1 DEF Sound
      <3>2. CASE i \notin k[p].val.items
        <4>1. j.id[2] = p
          BY <2>1, <2>3, <3>2
        <4>2. Wrote(p, k[q])
          BY <1>3, <2>3, <4>1 DEF Wrote
        <4>3. ~After(k[p].path, k[q].path)
          BY <1>1, <2>1, <2>3, AfterAsymmetric
        <4>4. j \in k[p].val.items
          BY <4>1, <4>2, <4>3 DEF Sound
        <4>5. j.id[1] < i.id[1] /\ j.id[1] \in Nat
          BY <2>1, <2>2, <3>2, <4>4
        <4> QED
          BY <2>3, <4>5
      <3> QED
        BY <3>1, <3>2
    <2>4. \A q, r \in Peers : new[q].path = new[r].path /\ new[q].path # << >> =>
            \A i \in new[q].val.items, j \in new[r].val.items : i.id = j.id => i = j
      <3> SUFFICES ASSUME NEW q \in Peers, NEW r \in Peers,
                          new[q].path = new[r].path, new[q].path # << >>,
                          NEW i \in new[q].val.items, NEW j \in new[r].val.items,
                          i.id = j.id
                   PROVE  i = j
        OBVIOUS
      <3>1. CASE q = p /\ r = p
        BY <1>4, <1>5, <3>1
      <3>2. CASE q = p /\ r # p
        BY <1>4, <2>3, <3>2
      <3>3. CASE q # p /\ r = p
        BY <1>4, <2>3, <3>3
      <3>4. CASE q # p /\ r # p
        BY <3>4 DEF Sound
      <3> QED
        BY <3>1, <3>2, <3>3, <3>4
    <2>5. ASSUME NEW q \in Peers, NEW r \in Peers, Wrote(q, new[r])
          PROVE  \/ After(new[q].path, new[r].path)
                 \/ /\ new[q].path = new[r].path
                    /\ \A i \in new[r].val.items : i.id[2] = q => i \in new[q].val.items
      <3>1. new[q].path = k[q].path /\ new[r].path = k[r].path
        BY <1>4, <2>1
      <3>2. k[q].val.items \subseteq new[q].val.items
        BY <1>4, <2>1
      <3>3. CASE q = r
        BY <3>3
      <3>4. CASE q # r
        <4>1. \A i \in new[r].val.items : i.id[2] = q => i \in k[r].val.items
          BY <1>4, <2>1, <3>4
        <4>2. Wrote(q, k[r])
          BY <2>5, <3>1, <4>1 DEF Wrote
        <4> QED
          BY <3>1, <3>2, <4>1, <4>2 DEF Sound
      <3> QED
        BY <3>3, <3>4
    <2> QED
      BY <1>6, <2>4, <2>5 DEF Sound
  <1>8. CASE ~Live(k[p])
    <2>1. /\ w.path = Append(k[p].path, p) /\ \A i \in w.val.items : i.id[2] = p
          /\ w.path \in Seq(Nat) /\ After(w.path, k[p].path)
      BY <1>1, <1>2, <1>3, <1>8, AppendAfter
    <2>2. w.path[Len(w.path)] = p
      BY <1>1, <2>1
    <2>3. ASSUME NEW q \in Peers, Wrote(p, k[q])
          PROVE  After(w.path, k[q].path)
      <3>1. After(k[p].path, k[q].path) \/ k[p].path = k[q].path
        BY <2>3 DEF Sound
      <3> QED
        BY <1>1, <2>1, <3>1, AfterTransitive
    <2>4. ASSUME NEW q \in Peers, k[q].path = w.path PROVE FALSE
      <3>1. Wrote(p, k[q])
        BY <1>3, <2>2, <2>4 DEF Wrote
      <3>2. After(w.path, k[q].path)
        BY <2>3, <3>1
      <3> QED
        BY <2>1, <2>4, <3>2, AfterAsymmetric
    <2>5. \A q, r \in Peers : new[q].path = new[r].path /\ new[q].path # << >> =>
            \A i \in new[q].val.items, j \in new[r].val.items : i.id = j.id => i = j
      <3> SUFFICES ASSUME NEW q \in Peers, NEW r \in Peers,
                          new[q].path = new[r].path, new[q].path # << >>
                   PROVE  \A i \in new[q].val.items, j \in new[r].val.items :
                            i.id = j.id => i = j
        OBVIOUS
      <3>1. CASE q = p /\ r = p
        BY <1>4, <1>5, <3>1
      <3>2. CASE q = p /\ r # p
        BY <1>4, <2>4, <3>2
      <3>3. CASE q # p /\ r = p
        BY <1>4, <2>4, <3>3
      <3>4. CASE q # p /\ r # p
        BY <3>4 DEF Sound
      <3> QED
        BY <3>1, <3>2, <3>3, <3>4
    <2>6. ASSUME NEW q \in Peers, NEW r \in Peers, Wrote(q, new[r])
          PROVE  \/ After(new[q].path, new[r].path)
                 \/ /\ new[q].path = new[r].path
                    /\ \A i \in new[r].val.items : i.id[2] = q => i \in new[q].val.items
      <3>1. CASE q = r
        BY <3>1
      <3>2. CASE q # r /\ r = p
        <4>1. ~Wrote(q, w)
          BY <2>1, <2>2, <3>2 DEF Wrote
        <4> QED
          BY <1>4, <2>6, <3>2, <4>1
      <3>3. CASE q = p /\ r # p
        BY <1>4, <2>3, <2>6, <3>3
      <3>4. CASE q # p /\ r # p
        BY <2>6, <3>4 DEF Sound
      <3> QED
        BY <3>1, <3>2, <3>3, <3>4
    <2> QED
      BY <1>6, <2>5, <2>6 DEF Sound
  <1> QED
    BY <1>7, <1>8
LEMMA DeleteKeyFacts ==
  ASSUME NEW node, IsNode(node)
  PROVE  /\ IsNode(DeleteKey(node)) /\ ~Live(DeleteKey(node))
         /\ DeleteKey(node).path = node.path /\ DeleteKey(node).val = node.val
  <1>1. node = [path |-> node.path, dead |-> node.dead, val |-> node.val]
    <2>1. Unset = [path |-> Unset.path, dead |-> Unset.dead, val |-> Unset.val]
      BY DEF Unset
    <2> QED
      BY <2>1 DEF IsNode
  <1>2. DeleteKey(node) = [path |-> node.path, dead |-> TRUE, val |-> node.val]
    <2>1. PICK path, dead, val, new :
            /\ path = node.path /\ dead = node.dead /\ val = node.val /\ new = TRUE
            /\ node = [path |-> path, dead |-> dead, val |-> val]
      BY <1>1
    <2>2. [node EXCEPT !.dead = new]
            = [[path |-> path, dead |-> dead, val |-> val] EXCEPT !.dead = new]
      BY <2>1, Zenon
    <2>3. [[path |-> path, dead |-> dead, val |-> val] EXCEPT !.dead = new]
            = [path |-> path, dead |-> new, val |-> val]
      OBVIOUS
    <2> QED
      BY <2>1, <2>2, <2>3, Zenon DEF DeleteKey
  <1>3. CASE node = Unset
    <2>1. node.path = << >> /\ node.val = Nothing
      BY <1>3 DEF Unset
    <2>2. DeleteKey(node) = Unset
      BY <1>2, <2>1, Zenon DEF Unset
    <2> QED
      BY <1>2, <1>3, <2>2 DEF IsNode, Live
  <1>4. CASE node # Unset
    <2>1. node.path \in Seq(Nat) /\ node.path # << >> /\ IsArray(node.val)
      BY <1>4 DEF IsNode
    <2> QED
      BY <1>2, <2>1 DEF IsNode, Live
  <1> QED
    BY <1>3, <1>4

LEMMA SoundDelete ==
  ASSUME NEW k, Sound(k), NEW p \in Peers,
         NEW new, \A q \in Peers \ {p} : new[q] = k[q], new[p] = DeleteKey(k[p])
  PROVE  Sound(new)
  <1>1. \A q \in Peers : IsNode(k[q])
    BY DEF Sound
  <1>2. \A q \in Peers : IsNode(new[q]) /\ new[q].path = k[q].path /\ new[q].val = k[q].val
    BY <1>1, DeleteKeyFacts
  <1>3. \A q, r \in Peers : Wrote(q, new[r]) <=> Wrote(q, k[r])
    BY <1>2 DEF Wrote
  <1> QED
    BY <1>2, <1>3 DEF Sound

(* Merging keeps the later item, and of the same item what either has.       *)
LEMMA MergeNodeFacts ==
  ASSUME NEW a, NEW b, IsNode(a), IsNode(b),
         a.path = b.path /\ a.path # << >> =>
           \A i \in a.val.items, j \in b.val.items : i.id = j.id => i = j
  PROVE  LET m == MergeNode(a, b)
         IN  /\ IsNode(m)
             /\ \/ m = a /\ (IF a.path = b.path THEN a.path = << >> ELSE After(a.path, b.path))
                \/ m = b /\ After(b.path, a.path)
                \/ /\ a.path = b.path /\ m.path = a.path /\ a.path # << >>
                   /\ m.val.items = a.val.items \cup b.val.items
                   /\ m.val = MergeArray(a.val, b.val) /\ (Live(m) <=> Live(a) /\ Live(b))
  <1> DEFINE m == MergeNode(a, b)
  <1>1. CASE a.path = b.path /\ a.path # << >>
    <2> DEFINE path == a.path
               dead == a.dead \/ b.dead
               val == MergeArray(a.val, b.val)
    <2>1. /\ a = [path |-> a.path, dead |-> a.dead, val |-> a.val] /\ a.path \in Seq(Nat)
          /\ IsArray(a.val) /\ IsArray(b.val)
      BY <1>1, NodeFacts
    <2>2. m = [a EXCEPT !.dead = dead, !.val = val]
      BY <1>1 DEF MergeNode
    <2>3. [a EXCEPT !.dead = dead, !.val = val] = [path |-> path, dead |-> dead, val |-> val]
      <3>1. PICK path0, dead0, val0, dead1, val1 :
              /\ path0 = path /\ dead1 = dead /\ val1 = val
              /\ a = [path |-> path0, dead |-> dead0, val |-> val0]
        BY <2>1
      <3>2. [a EXCEPT !.dead = dead1, !.val = val1]
              = [[path |-> path0, dead |-> dead0, val |-> val0]
                   EXCEPT !.dead = dead1, !.val = val1]
        BY <3>1, Zenon
      <3>3. [[path |-> path0, dead |-> dead0, val |-> val0]
                EXCEPT !.dead = dead1, !.val = val1]
              = [path |-> path0, dead |-> dead1, val |-> val1]
        <4> DEFINE r == [path |-> path0, dead |-> dead0, val |-> val0]
        <4>1. [r EXCEPT !.dead = dead1, !.val = val1]
                = [[r EXCEPT !.dead = dead1] EXCEPT !.val = val1]
          BY Zenon
        <4>2. [r EXCEPT !.dead = dead1] = [path |-> path0, dead |-> dead1, val |-> val0]
          OBVIOUS
        <4>3. [[path |-> path0, dead |-> dead1, val |-> val0] EXCEPT !.val = val1]
                = [path |-> path0, dead |-> dead1, val |-> val1]
          OBVIOUS
        <4> QED
          BY <4>1, <4>2, <4>3, Zenon
      <3> QED
        BY <3>1, <3>2, <3>3, Zenon
    <2>4. val = [items |-> a.val.items \cup b.val.items, dead |-> a.val.dead \cup b.val.dead]
      BY DEF MergeArray
    <2>5. IsArray(val)
      <3>1. IsFiniteSet(a.val.items \cup b.val.items)
        BY <2>1, FS_Union DEF IsArray
      <3>2. \A i, j \in a.val.items \cup b.val.items : i.id = j.id => i = j
        BY <1>1, <2>1 DEF IsArray
      <3>3. IdsOf(a.val.items) \cup IdsOf(b.val.items) = IdsOf(a.val.items \cup b.val.items)
        BY DEF IdsOf
      <3> HIDE DEF val
      <3>4. \A i \in a.val.items \cup b.val.items :
              i.after \in IdsOf(a.val.items \cup b.val.items) \cup {Head0}
        BY <2>1, <3>3 DEF IsArray
      <3>5. val.dead \subseteq IdsOf(a.val.items \cup b.val.items)
        BY <2>1, <2>4, <3>3 DEF IsArray
      <3>6. a.val.items \cup b.val.items \in SUBSET Item
        BY <2>1 DEF IsArray
      <3> QED
        BY <2>4, <3>1, <3>2, <3>4, <3>5, <3>6 DEF IsArray
    <2>6. dead \in BOOLEAN
      OBVIOUS
    <2> HIDE DEF val, dead, m
    <2>7. m = [path |-> path, dead |-> dead, val |-> val]
      BY <2>2, <2>3
    <2>8. IsNode(m)
      BY <1>1, <2>1, <2>5, <2>6, <2>7 DEF IsNode
    <2>9. m.path = a.path /\ m.val.items = a.val.items \cup b.val.items
          /\ m.val = MergeArray(a.val, b.val) /\ m.dead = dead
      BY <2>4, <2>7 DEF val
    <2>10. Live(m) <=> Live(a) /\ Live(b)
      BY <2>9, Zenon DEF Live, dead
    <2> QED
      BY <1>1, <2>8, <2>9, <2>10 DEF m
  <1>2. CASE a.path = b.path /\ a.path = << >>
    <2>1. a = Unset /\ b = Unset
      BY <1>2 DEF IsNode
    <2>2. m = [Unset EXCEPT !.dead = Unset.dead \/ Unset.dead]
      BY <1>2, <2>1 DEF MergeNode, MergeKey
    <2>3. m = Unset
      BY <2>2 DEF Unset
    <2> QED
      BY <1>2, <2>1, <2>3 DEF IsNode
  <1>3. CASE a.path # b.path
    <2>1. m = IF After(a.path, b.path) THEN a ELSE b
      BY <1>3 DEF MergeNode, MergeKey
    <2>2. After(a.path, b.path) \/ After(b.path, a.path)
      BY <1>3, NodeFacts, AfterTotal
    <2> QED
      BY <1>3, <2>1, <2>2
  <1> QED
    BY <1>1, <1>2, <1>3

LEMMA SoundMerge ==
  ASSUME NEW k, Sound(k), NEW p \in Peers, NEW s \in Peers,
         NEW new, \A q \in Peers \ {p} : new[q] = k[q],
         new[p] = MergeNode(k[p], k[s])
  PROVE  Sound(new)
  <1>1. \A q \in Peers : IsNode(k[q]) /\ k[q].path \in Seq(Nat)
    BY NodeFacts DEF Sound
  <1>2. \A q, r \in Peers : k[q].path = k[r].path /\ k[q].path # << >> =>
          \A i \in k[q].val.items, j \in k[r].val.items : i.id = j.id => i = j
    BY DEF Sound
  <1>3. \A q, r \in Peers : Wrote(q, k[r]) =>
          \/ After(k[q].path, k[r].path)
          \/ /\ k[q].path = k[r].path
             /\ \A i \in k[r].val.items : i.id[2] = q => i \in k[q].val.items
    BY DEF Sound
  <1>4. /\ IsNode(new[p])
        /\ \/ new[p] = k[p] /\ (k[p].path # k[s].path => After(k[p].path, k[s].path))
           \/ new[p] = k[s] /\ After(k[s].path, k[p].path)
           \/ /\ k[p].path = k[s].path /\ new[p].path = k[p].path /\ k[p].path # << >>
              /\ new[p].val.items = k[p].val.items \cup k[s].val.items
    BY <1>1, <1>2, MergeNodeFacts
  <1>5. \A q \in Peers : IsNode(new[q])
    BY <1>1, <1>4
  <1>6. CASE new[p] = k[p]
    <2>1. \A q \in Peers : new[q] = k[q]
      BY <1>6
    <2> QED
      BY <1>1, <1>2, <1>3, <2>1 DEF Sound
  <1>7. CASE new[p] = k[s] /\ After(k[s].path, k[p].path)
    <2> DEFINE from(q) == IF q = p THEN s ELSE q
    <2>1. \A q \in Peers : from(q) \in Peers /\ new[q] = k[from(q)]
      BY <1>7
    <2>2. \A q, r \in Peers : new[q].path = new[r].path /\ new[q].path # << >> =>
            \A i \in new[q].val.items, j \in new[r].val.items : i.id = j.id => i = j
      <3> HIDE DEF from
      <3> QED
        BY <1>2, <2>1
    <2>3. ASSUME NEW q \in Peers, NEW r \in Peers, Wrote(q, new[r])
          PROVE  \/ After(new[q].path, new[r].path)
                 \/ /\ new[q].path = new[r].path
                    /\ \A i \in new[r].val.items : i.id[2] = q => i \in new[q].val.items
      <3>1. Wrote(q, k[from(r)]) /\ from(r) \in Peers /\ new[r] = k[from(r)]
        BY <2>1, <2>3
      <3> HIDE DEF from
      <3>2. CASE q # p
        <4>1. new[q] = k[q]
          BY <3>2
        <4> QED
          BY <1>3, <3>1, <4>1
      <3>3. CASE q = p
        <4>1. After(k[p].path, new[r].path) \/ k[p].path = new[r].path
          BY <1>3, <3>1, <3>3
        <4>2. After(k[s].path, new[r].path)
          BY <1>1, <1>7, <3>1, <4>1, AfterTransitive
        <4> QED
          BY <1>7, <3>3, <4>2
      <3> QED
        BY <3>2, <3>3
    <2> QED
      BY <1>5, <2>2, <2>3 DEF Sound
  <1>8. CASE /\ k[p].path = k[s].path /\ new[p].path = k[p].path /\ k[p].path # << >>
             /\ new[p].val.items = k[p].val.items \cup k[s].val.items
    <2>1. \A q \in Peers : new[q].path = k[q].path /\ k[q].val.items \subseteq new[q].val.items
      BY <1>8
    <2>2. ASSUME NEW q \in Peers, NEW i \in new[q].val.items
          PROVE  \E r \in Peers : k[r].path = k[q].path /\ i \in k[r].val.items
      BY <1>8, <2>2
    <2>3. \A q, r \in Peers : new[q].path = new[r].path /\ new[q].path # << >> =>
            \A i \in new[q].val.items, j \in new[r].val.items : i.id = j.id => i = j
      <3> SUFFICES ASSUME NEW q \in Peers, NEW r \in Peers,
                          new[q].path = new[r].path, new[q].path # << >>,
                          NEW i \in new[q].val.items, NEW j \in new[r].val.items,
                          i.id = j.id
                   PROVE  i = j
        OBVIOUS
      <3>1. PICK qq \in Peers : k[qq].path = k[q].path /\ i \in k[qq].val.items
        BY <2>2
      <3>2. PICK rr \in Peers : k[rr].path = k[r].path /\ j \in k[rr].val.items
        BY <2>2
      <3>3. k[qq].path = k[rr].path /\ k[qq].path # << >>
        BY <2>1, <3>1, <3>2
      <3> QED
        BY <1>2, <3>1, <3>2, <3>3
    <2>4. ASSUME NEW q \in Peers, NEW r \in Peers, Wrote(q, new[r])
          PROVE  \/ After(new[q].path, new[r].path)
                 \/ /\ new[q].path = new[r].path
                    /\ \A i \in new[r].val.items : i.id[2] = q => i \in new[q].val.items
      <3>1. \E t \in Peers : k[t].path = k[r].path /\ Wrote(q, k[t])
        <4>1. CASE new[r].path[Len(new[r].path)] = q
          BY <2>1, <2>4, <4>1 DEF Wrote
        <4>2. CASE \E i \in new[r].val.items : i.id[2] = q
          <5>1. PICK i \in new[r].val.items : i.id[2] = q
            BY <4>2
          <5>2. PICK t \in Peers : k[t].path = k[r].path /\ i \in k[t].val.items
            BY <2>2
          <5> QED
            BY <2>1, <2>4, <5>1, <5>2 DEF Wrote
        <4> QED
          BY <2>4, <4>1, <4>2 DEF Wrote
      <3>2. After(k[q].path, k[r].path) \/ k[q].path = k[r].path
        BY <1>3, <3>1
      <3>3. ASSUME k[q].path = k[r].path, NEW i \in new[r].val.items, i.id[2] = q
            PROVE  i \in new[q].val.items
        <4>1. PICK t \in Peers : k[t].path = k[r].path /\ i \in k[t].val.items
          BY <2>2
        <4>2. Wrote(q, k[t])
          BY <2>1, <2>4, <3>3, <4>1 DEF Wrote
        <4>3. ~After(k[q].path, k[t].path)
          BY <1>1, <3>3, <4>1, AfterAsymmetric
        <4>4. i \in k[q].val.items
          BY <1>3, <3>3, <4>1, <4>2, <4>3
        <4> QED
          BY <2>1, <4>4
      <3> QED
        BY <2>1, <3>2, <3>3
    <2> QED
      BY <1>5, <2>3, <2>4 DEF Sound
  <1> QED
    BY <1>4, <1>6, <1>7, <1>8
-----------------------------------------------------------------------------
(* The ids of an array, and the walks over lists of ids. *)

(* The nodes of a replica's tree t. *)
Here(t) == {n \in Ids : Live(t[n])}

LEMMA ValsFacts ==
  ASSUME NEW s \in Seq(Item)
  PROVE  /\ Vals(s) \in Seq(Nodes) /\ Len(Vals(s)) = Len(s)
         /\ \A k \in 1 .. Len(s) : Vals(s)[k] = s[k].val
         /\ \A v : v \in Range(Vals(s)) <=> \E i \in Range(s) : i.val = v
  <1> DEFINE u == Vals(s)
  <1>1. /\ DOMAIN s = 1 .. Len(s) /\ Len(s) \in Nat
        /\ \A k \in 1 .. Len(s) : s[k] \in Item /\ s[k].val \in Nodes
    <2>1. \A i \in Item : i.val \in Nodes
      BY DEF Item
    <2>2. \A k \in 1 .. Len(s) : s[k] \in Item
      OBVIOUS
    <2>3. DOMAIN s = 1 .. Len(s) /\ Len(s) \in Nat
      OBVIOUS
    <2> QED
      BY <2>1, <2>2, <2>3
  <1>2. u = [k \in 1 .. Len(s) |-> s[k].val]
    BY <1>1 DEF Vals
  <1> HIDE DEF u
  <1>3. u \in Seq(Nodes) /\ Len(u) = Len(s) /\ \A k \in 1 .. Len(s) : u[k] = s[k].val
    BY <1>1, <1>2
  <1>4. \A v : v \in Range(u) <=> \E i \in Range(s) : i.val = v
    BY <1>1, <1>3 DEF Range
  <1> QED
    BY <1>3, <1>4 DEF u

LEMMA SeenFacts ==
  ASSUME NEW a, IsArray(a)
  PROVE  /\ Vals(Visible(a)) \in Seq(Nodes)
         /\ \A v : v \in Range(Vals(Visible(a))) <=>
              \E i \in a.items : i.id \notin a.dead /\ i.val = v
  <1> DEFINE seen == Visible(a)
  <1>1. seen \in Seq(a.items) /\ a.items \subseteq Item /\ Range(seen) = Shown(a)
    BY VisibleFacts DEF IsArray
  <1> HIDE DEF seen
  <1>2. seen \in Seq(Item)
    BY <1>1
  <1>3. /\ Vals(seen) \in Seq(Nodes)
        /\ \A v : v \in Range(Vals(seen)) <=> \E i \in Range(seen) : i.val = v
    BY <1>2, ValsFacts
  <1> QED
    BY <1>1, <1>3 DEF seen, Shown

(* The definitions inside Walk, on their own. *)
Entries(lists, parent) ==
  LET kids == lists[parent] IN [k \in DOMAIN kids |-> <<parent, kids[k]>>]

Visit(lists, guarded, s, parent, n, rest) ==
  IF n \in s.met
  THEN [s EXCEPT !.todo = IF guarded THEN << >> ELSE rest]
  ELSE IF n \notin DOMAIN lists
  THEN [s EXCEPT !.todo = rest,
                 !.met = IF guarded THEN @ \cup {n} ELSE @]
  ELSE [todo |-> Entries(lists, n) \o rest,
        met  |-> s.met \cup {n},
        page |-> [m \in DOMAIN s.page \cup {n} |->
                    IF m = n THEN << >>
                    ELSE IF m = parent THEN Append(s.page[m], n)
                    ELSE s.page[m]]]

WalkStart(lists) ==
  [todo |-> Entries(lists, Root), met |-> {Root}, page |-> [m \in {Root} |-> << >>]]
WalkStep(lists, guarded, s) ==
  IF s.todo = << >> THEN s
  ELSE Visit(lists, guarded, s, s.todo[1][1], s.todo[1][2], Tail(s.todo))
Entered(lists) == Cardinality(UNION {{n} \X DOMAIN lists[n] : n \in DOMAIN lists})

(* Where a walk can be: what it still has to visit, what it met, its page.  *)
PartPages(D) == UNION {[S -> Seq(Nodes)] : S \in SUBSET D}
Tasks == Ids \X Nodes
Walking(D) == [todo : Seq(Tasks), met : SUBSET Ids, page : PartPages(D)]

Walks(w, lists, guarded) ==
  /\ w[0] = WalkStart(lists) /\ Walk(lists, guarded) = w[Entered(lists)].page
  /\ \A k \in 1 .. Entered(lists) : w[k] = WalkStep(lists, guarded, w[k - 1])
  /\ \A k \in 0 .. Entered(lists) : w[k] \in Walking(DOMAIN lists)

(* The nodes a page may be of, and their lists. *)
SomeLists(lists) ==
  /\ DOMAIN lists \subseteq Ids /\ Root \in DOMAIN lists
  /\ \A n \in DOMAIN lists : lists[n] \in Seq(Nodes)

LEMMA EnteredFinite ==
  ASSUME NEW lists, SomeLists(lists)
  PROVE  Entered(lists) \in Nat
  <1> DEFINE D == DOMAIN lists
             of == [n \in D |-> {n} \X DOMAIN lists[n]]
             each == {of[n] : n \in D}
  <1>1. IsFiniteSet(Ids)
    BY ListsAssumption, FS_AddElement DEF Ids
  <1>2. IsFiniteSet(D)
    BY <1>1, FS_Subset DEF SomeLists
  <1>3. of \in Surjection(D, each)
    BY DEF Surjection
  <1>4. IsFiniteSet(each)
    BY <1>2, <1>3, FS_Surjection
  <1>5. \A T \in each : IsFiniteSet(T)
    <2> TAKE T \in each
    <2>1. PICK n \in D : T = {n} \X DOMAIN lists[n]
      OBVIOUS
    <2>2. lists[n] \in Seq(Nodes)
      BY DEF SomeLists
    <2>3. DOMAIN lists[n] = 1 .. Len(lists[n]) /\ Len(lists[n]) \in Nat
      BY <2>2
    <2>4. IsFiniteSet(DOMAIN lists[n])
      BY <2>3, FS_Interval
    <2>5. IsFiniteSet({n})
      BY FS_Singleton
    <2> QED
      BY <2>1, <2>4, <2>5, FS_Product
  <1>6. IsFiniteSet(UNION each)
    BY <1>4, <1>5, FS_UNION
  <1>7. UNION each = UNION {{n} \X DOMAIN lists[n] : n \in DOMAIN lists}
    OBVIOUS
  <1> QED
    BY <1>6, <1>7, FS_CardinalityType DEF Entered

LEMMA TaskOf == \A x \in Ids, n \in Nodes : <<x, n>> \in Tasks
  BY DEF Tasks
LEMMA OfTask == \A x \in Tasks : x[1] \in Ids /\ x[2] \in Nodes
  BY DEF Tasks

LEMMA EntriesFacts ==
  ASSUME NEW lists, SomeLists(lists), NEW n \in DOMAIN lists
  PROVE  /\ Entries(lists, n) \in Seq(Tasks)
         /\ Len(Entries(lists, n)) = Len(lists[n])
         /\ \A k \in 1 .. Len(lists[n]) : Entries(lists, n)[k] = <<n, lists[n][k]>>
  <1> DEFINE kids == lists[n]
  <1>1. kids \in Seq(Nodes) /\ Entries(lists, n) = [k \in DOMAIN kids |-> <<n, kids[k]>>]
    BY DEF Entries, SomeLists
  <1> HIDE DEF kids
  <1>2. DOMAIN kids = 1 .. Len(kids) /\ Len(kids) \in Nat /\ \A k \in 1 .. Len(kids) : kids[k] \in Nodes
    BY <1>1
  <1>3. \A k \in 1 .. Len(kids) : <<n, kids[k]>> \in Tasks
    BY <1>2, TaskOf DEF SomeLists
  <1> DEFINE e == [k \in DOMAIN kids |-> <<n, kids[k]>>]
  <1>4. /\ DOMAIN e = 1 .. Len(kids)
        /\ \A k \in 1 .. Len(kids) : e[k] = <<n, kids[k]>> /\ e[k] \in Tasks
        /\ e = [k \in 1 .. Len(kids) |-> e[k]]
    BY <1>2, <1>3
  <1> HIDE DEF e
  <1>5. e \in Seq(Tasks) /\ Len(e) = Len(kids)
    BY <1>2, <1>4
  <1> QED
    BY <1>1, <1>4, <1>5 DEF kids, e

LEMMA VisitWalks ==
  ASSUME NEW lists, SomeLists(lists), NEW guarded \in BOOLEAN,
         NEW s \in Walking(DOMAIN lists), NEW parent, NEW n \in Nodes,
         NEW rest \in Seq(Tasks)
  PROVE  Visit(lists, guarded, s, parent, n, rest) \in Walking(DOMAIN lists)
  <1> DEFINE D == DOMAIN lists
             pages == PartPages(D)
             V == Walking(D)
             v == Visit(lists, guarded, s, parent, n, rest)
  <1>0. n \in Ids /\ << >> \in Seq(Tasks) /\ rest \in Seq(Tasks)
    BY DEF Ids
  <1>1. V = [todo : Seq(Tasks), met : SUBSET Ids, page : pages]
    BY DEF Walking
  <1>2. s \in V
    OBVIOUS
  <1> HIDE DEF V, pages
  <1>3. ASSUME NEW t \in Seq(Tasks)
        PROVE  [s EXCEPT !.todo = t] \in V
    BY <1>1, <1>2, <1>3
  <1>4. CASE n \in s.met
    <2>1. v = [s EXCEPT !.todo = IF guarded THEN << >> ELSE rest]
      BY <1>4 DEF Visit
    <2>2. (IF guarded THEN << >> ELSE rest) \in Seq(Tasks)
      BY <1>0
    <2> HIDE DEF v
    <2>3. v \in V
      BY <1>3, <2>1, <2>2
    <2> QED
      BY <2>3 DEF v, V
  <1>5. CASE n \notin s.met /\ n \notin D
    <2>1. v = [s EXCEPT !.todo = rest, !.met = IF guarded THEN @ \cup {n} ELSE @]
      BY <1>5 DEF Visit
    <2> HIDE DEF v
    <2>2. v \in V
      BY <1>0, <1>1, <1>2, <2>1
    <2> QED
      BY <2>2 DEF v, V
  <1>6. CASE n \notin s.met /\ n \in D
    <2> DEFINE todo == Entries(lists, n) \o rest
               met == s.met \cup {n}
               page == [m \in DOMAIN s.page \cup {n} |->
                          IF m = n THEN << >>
                          ELSE IF m = parent THEN Append(s.page[m], n)
                          ELSE s.page[m]]
    <2>1. v = [todo |-> todo, met |-> met, page |-> page]
      BY <1>6 DEF Visit
    <2>2. todo \in Seq(Tasks)
      <3> DEFINE e == Entries(lists, n)
      <3>1. e \in Seq(Tasks)
        BY <1>6, EntriesFacts
      <3> HIDE DEF e
      <3>2. e \o rest \in Seq(Tasks)
        BY <1>0, <3>1
      <3> QED
        BY <3>2 DEF e
    <2>3. page \in pages
      <3>1. PICK S \in SUBSET D : s.page \in [S -> Seq(Nodes)]
        BY <1>1, <1>2 DEF pages, PartPages
      <3>2. S \cup {n} \in SUBSET D
        BY <1>6
      <3>3. page \in [S \cup {n} -> Seq(Nodes)]
        BY <3>1
      <3> QED
        BY <3>2, <3>3 DEF pages, PartPages
    <2> HIDE DEF todo, met, page
    <2>4. met \in SUBSET Ids
      BY <1>0, <1>1, <1>2 DEF met
    <2> HIDE DEF v
    <2>5. v \in V
      BY <1>1, <2>1, <2>2, <2>3, <2>4
    <2> QED
      BY <2>5 DEF v, V
  <1> QED
    BY <1>4, <1>5, <1>6

LEMMA WalkingTodo ==
  ASSUME NEW D, NEW s \in Walking(D)
  PROVE  s.todo \in Seq(Tasks)
  <1>1. s \in [todo : Seq(Tasks), met : SUBSET Ids, page : PartPages(D)]
    BY DEF Walking
  <1> QED
    BY <1>1

LEMMA WalkUnfolds ==
  ASSUME NEW lists, SomeLists(lists), NEW guarded \in BOOLEAN
  PROVE  \E w : Walks(w, lists, guarded)
  <1> DEFINE V == Walking(DOMAIN lists)
             n == Entered(lists)
             start == WalkStart(lists)
             step(s) == WalkStep(lists, guarded, s)
             next == [k \in 1 .. n |-> [s \in V |-> step(s)]]
             body(f) == [k \in 0 .. n |-> IF k = 0 THEN start ELSE step(f[k - 1])]
             walk == CHOOSE f : f = body(f)
  <1>1. Walk(lists, guarded) = walk[n].page
    BY DEF Walk, Entered, WalkStart, WalkStep, Visit, Entries
  <1> HIDE DEF walk
  <1>0. V = [todo : Seq(Tasks), met : SUBSET Ids, page : PartPages(DOMAIN lists)]
    BY DEF Walking
  <1>2. ASSUME NEW s \in V PROVE step(s) \in V
    <2>1. CASE s.todo = << >>
      BY <2>1 DEF WalkStep
    <2>2. CASE s.todo # << >>
      <3> DEFINE todo == s.todo
      <3>1. todo \in Seq(Tasks)
        BY WalkingTodo
      <3>2. \A x \in Tasks : x[2] \in Nodes
        BY OfTask
      <3> HIDE DEF todo
      <3>3. todo[1] \in Tasks /\ Tail(todo) \in Seq(Tasks)
        BY <2>2, <3>1 DEF todo
      <3>4. step(s) = Visit(lists, guarded, s, todo[1][1], todo[1][2], Tail(todo))
        BY <2>2 DEF WalkStep, todo
      <3>5. todo[1][2] \in Nodes /\ Tail(todo) \in Seq(Tasks)
        BY <3>2, <3>3
      <3> HIDE DEF step
      <3> QED
        BY <3>4, <3>5, VisitWalks
    <2> QED
      BY <2>1, <2>2
  <1>3. n \in Nat /\ start \in V
    <2>1. n \in Nat
      BY EnteredFinite
    <2>2. Root \in DOMAIN lists /\ Root \in Ids
      BY DEF SomeLists, Ids
    <2>3. Entries(lists, Root) \in Seq(Tasks)
      BY <2>2, EntriesFacts
    <2>4. [m \in {Root} |-> << >>] \in [{Root} -> Seq(Nodes)]
      OBVIOUS
    <2>5. [m \in {Root} |-> << >>] \in PartPages(DOMAIN lists)
      BY <2>2, <2>4 DEF PartPages
    <2>6. start \in V
      <3> DEFINE e == Entries(lists, Root)
                 none == [m \in {Root} |-> << >>]
                 pages == PartPages(DOMAIN lists)
      <3>1. /\ V = [todo : Seq(Tasks), met : SUBSET Ids, page : pages]
            /\ start = [todo |-> e, met |-> {Root}, page |-> none]
            /\ e \in Seq(Tasks) /\ none \in pages
        BY <1>0, <2>3, <2>5 DEF WalkStart
      <3> HIDE DEF e, none, pages, V, start
      <3> QED
        BY <2>2, <3>1
    <2> QED
      BY <2>1, <2>6
  <1> HIDE DEF V, n, start, step
  <1>4. \A k \in 1 .. n : \A s \in V : next[k][s] = step(s)
    OBVIOUS
  <1>5. PICK f : Solution(f, n, V, start, next)
    <2>1. next \in [1 .. n -> [V -> V]]
      BY <1>2
    <2> HIDE DEF next
    <2> QED
      BY <1>3, <2>1, Recursion
  <1> HIDE DEF next
  <1>6. \A k \in 1 .. n : f[k] = step(f[k - 1])
    <2> TAKE k \in 1 .. n
    <2>1. f[k - 1] \in V
      BY <1>3, <1>5 DEF Solution
    <2> QED
      BY <1>4, <1>5, <2>1 DEF Solution
  <1>7. f = body(f)
    <2>1. \A k \in 0 .. n : f[k] = IF k = 0 THEN start ELSE step(f[k - 1])
      BY <1>3, <1>5, <1>6 DEF Solution
    <2> QED
      BY <1>5, <2>1 DEF Solution
  <1>8. walk = body(walk)
    BY <1>7 DEF walk
  <1>9. walk[0] = start /\ \A k \in 1 .. n : walk[k] = step(walk[k - 1])
    BY <1>3, <1>8
  <1> DEFINE Good == {k \in Nat : walk[k] \in V}
  <1>10. \A k \in 0 .. n : k \in Good
    <2>1. 0 \in Good
      BY <1>3, <1>9
    <2>2. ASSUME NEW k \in 1 .. n, k - 1 \in Good PROVE k \in Good
      BY <1>2, <1>3, <1>9, <2>2
    <2> HIDE DEF Good
    <2> QED
      BY <1>3, <2>1, <2>2, CountUp
  <1>11. \A k \in 0 .. n : walk[k] \in V
    BY <1>10
  <1>12. Walks(walk, lists, guarded)
    BY <1>1, <1>9, <1>11, Zenon DEF V, n, start, step, Walks
  <1> QED
    BY <1>12

(* No walk makes a page of other nodes than the lists are of. *)
LEMMA WalkWithin ==
  ASSUME NEW lists, SomeLists(lists), NEW guarded \in BOOLEAN
  PROVE  DOMAIN Walk(lists, guarded) \subseteq DOMAIN lists
  <1>1. PICK w : Walks(w, lists, guarded)
    BY WalkUnfolds
  <1>2. Entered(lists) \in Nat
    BY EnteredFinite
  <1> DEFINE last == w[Entered(lists)]
  <1>3. last \in Walking(DOMAIN lists) /\ Walk(lists, guarded) = last.page
    BY <1>1, <1>2 DEF Walks
  <1> HIDE DEF last
  <1>4. last.page \in PartPages(DOMAIN lists)
    BY <1>3 DEF Walking
  <1> QED
    BY <1>3, <1>4 DEF PartPages

LEMMA ListsOfFacts ==
  ASSUME NEW t, \A n \in Ids : IsNode(t[n]), Live(t[Root])
  PROVE  SomeLists(ListsOf(t)) /\ DOMAIN ListsOf(t) = Here(t)
  <1> DEFINE lists == ListsOf(t)
  <1>1. DOMAIN lists = Here(t) /\ \A n \in Here(t) : lists[n] = Vals(Visible(t[n].val))
    BY DEF ListsOf, Here
  <1>2. \A n \in Here(t) : Vals(Visible(t[n].val)) \in Seq(Nodes)
    <2> TAKE n \in Here(t)
    <2> DEFINE a == t[n].val
    <2>1. IsNode(t[n]) /\ Live(t[n])
      BY DEF Here
    <2>2. IsArray(a)
      BY <2>1, NodeFacts
    <2> HIDE DEF a
    <2>3. Vals(Visible(a)) \in Seq(Nodes)
      BY <2>2, SeenFacts
    <2> QED
      BY <2>3 DEF a
  <1>3. Root \in Here(t) /\ Here(t) \subseteq Ids
    BY DEF Here, Ids
  <1> HIDE DEF lists
  <1> QED
    BY <1>1, <1>2, <1>3 DEF SomeLists, lists

-----------------------------------------------------------------------------
(* The replicas. *)

(* Every replica has all nodes, those of one id are sound together, the     *)
(* root stays, and the cache knows no node that is gone.                   *)
ListsIInv ==
  /\ tree = [p \in Peers |-> [n \in Ids |-> tree[p][n]]]
  /\ cache = [p \in Peers |-> cache[p]]
  /\ \A n \in Ids : Sound([p \in Peers |-> tree[p][n]])
  /\ \A p \in Peers : Live(tree[p][Root]) /\ DOMAIN cache[p] \subseteq Here(tree[p])
  /\ seeded \in [Peers -> BOOLEAN] /\ cut \in [Peers -> BOOLEAN]
  /\ saves \in 0 .. MaxSaves
  /\ placed \in [Nodes -> SUBSET Ids]

(* Unless a read left a node out, every cache knows every node.             *)
Knows == \A p \in Peers : DOMAIN cache[p] = Here(tree[p])

LEMMA PageFacts ==
  ASSUME NEW page \in Shapes
  PROVE  /\ DOMAIN page \subseteq Ids /\ Root \in DOMAIN page
         /\ \A n \in DOMAIN page : page[n] \in Seq(Nodes)
         /\ \A n : Parent(page, n) \subseteq Ids
  <1>1. PICK S \in SUBSET Nodes : page \in [S \cup {Root} -> Seq(Nodes)]
    BY ListsAssumption
  <1> QED
    BY <1>1 DEF Parent, Ids

LEMMA ListsInit == Init => ListsIInv /\ Knows
  <1> SUFFICES ASSUME Init
               PROVE  ListsIInv /\ Knows
    OBVIOUS
  <1> DEFINE start(page, n) ==
               IF n \in DOMAIN page THEN WriteNode(Unset, 0, << >>, page[n]) ELSE Unset
  <1>1. PICK page \in Shapes :
          /\ tree = [p \in Peers |-> [n \in Ids |-> start(page, n)]]
          /\ cache = [p \in Peers |-> page]
          /\ seeded \in [Peers -> BOOLEAN] /\ cut = [p \in Peers |-> FALSE]
          /\ saves = 0
          /\ placed = [n \in Nodes |-> Parent(page, n)]
    BY DEF Init
  <1>2. DOMAIN page \subseteq Ids /\ Root \in DOMAIN page /\ \A n \in DOMAIN page : page[n] \in Seq(Nodes)
    BY <1>1, PageFacts
  <1>3. ASSUME NEW n \in Ids
        PROVE  /\ Live(start(page, n)) <=> n \in DOMAIN page
               /\ Sound([p \in Peers |-> start(page, n)])
    <2>1. CASE n \in DOMAIN page
      BY <1>2, <2>1, SoundStart
    <2>2. CASE n \notin DOMAIN page
      <3>1. start(page, n) = Unset
        BY <2>2
      <3>2. ~Live(Unset)
        BY DEF Unset, Live
      <3> QED
        BY <2>2, <3>1, <3>2, SoundUnset
    <2> QED
      BY <2>1, <2>2
  <1> HIDE DEF start
  <1>4. \A p \in Peers, n \in Ids : tree[p][n] = start(page, n)
    BY <1>1
  <1>5. ASSUME NEW n \in Ids
        PROVE  Sound([p \in Peers |-> tree[p][n]])
    <2>1. [p \in Peers |-> tree[p][n]] = [p \in Peers |-> start(page, n)]
      BY <1>4, Zenon
    <2> QED
      BY <1>3, <2>1, Zenon
  <1>6. tree = [p \in Peers |-> [n \in Ids |-> tree[p][n]]]
    <2>1. [p \in Peers |-> [n \in Ids |-> tree[p][n]]]
            = [p \in Peers |-> [n \in Ids |-> start(page, n)]]
      BY <1>4, Zenon
    <2> QED
      BY <1>1, <2>1, Zenon
  <1>7. cache = [p \in Peers |-> cache[p]]
    BY <1>1
  <1>8. Knows /\ \A p \in Peers : Live(tree[p][Root])
    <2>1. \A p \in Peers : cache[p] = page
      BY <1>1
    <2> QED
      BY <1>2, <1>3, <1>4, <2>1 DEF Knows, Here, Ids
  <1>9. saves \in 0 .. MaxSaves
    BY <1>1, ListsAssumption
  <1>10. placed \in [Nodes -> SUBSET Ids]
    BY <1>1, PageFacts
  <1>11. seeded \in [Peers -> BOOLEAN] /\ cut \in [Peers -> BOOLEAN]
    BY <1>1
  <1> QED
    BY <1>5, <1>6, <1>7, <1>8, <1>9, <1>10, <1>11 DEF ListsIInv, Knows

(* One replica's nodes change: the others' stay.                           *)
LEMMA OneReplica ==
  ASSUME ListsIInv, NEW p \in Peers, NEW new,
         tree' = [tree EXCEPT ![p] = [n \in Ids |-> new[n]]],
         NEW n \in Ids
  PROVE  LET k == [q \in Peers |-> tree[q][n]]
             k1 == [q \in Peers |-> tree'[q][n]]
         IN  /\ \A q \in Peers : k[q] = tree[q][n] /\ k1[q] = tree'[q][n]
             /\ \A q \in Peers \ {p} : k1[q] = k[q]
             /\ k1[p] = new[n]
             /\ Sound(k)
  <1>1. DOMAIN tree = Peers
    BY DEF ListsIInv
  <1>2. tree'[p] = [m \in Ids |-> new[m]] /\ \A q \in Peers \ {p} : tree'[q] = tree[q]
    BY <1>1
  <1>3. tree'[p][n] = new[n]
    BY <1>2
  <1>4. Sound([q \in Peers |-> tree[q][n]])
    BY DEF ListsIInv
  <1> QED
    BY <1>2, <1>3, <1>4

(* What one replica's step leaves of the shape of the whole.                *)
LEMMA OneReplicaShape ==
  ASSUME ListsIInv, NEW p \in Peers, NEW new, NEW lists,
         tree' = [tree EXCEPT ![p] = [n \in Ids |-> new[n]]],
         cache' = [cache EXCEPT ![p] = lists]
  PROVE  /\ tree' = [q \in Peers |-> [n \in Ids |-> tree'[q][n]]]
         /\ cache' = [q \in Peers |-> cache'[q]]
         /\ cache'[p] = lists
         /\ \A q \in Peers \ {p} : cache'[q] = cache[q] /\ tree'[q] = tree[q]
  <1>1. DOMAIN tree = Peers /\ DOMAIN cache = Peers
    BY DEF ListsIInv
  <1>2. /\ DOMAIN tree' = Peers /\ tree' = [q \in Peers |-> tree'[q]]
        /\ DOMAIN cache' = Peers /\ cache' = [q \in Peers |-> cache'[q]]
    BY <1>1
  <1>3. \A q \in Peers : tree[q] = [n \in Ids |-> tree[q][n]]
    BY DEF ListsIInv
  <1>4. \A q \in Peers \ {p} : cache'[q] = cache[q] /\ tree'[q] = tree[q]
    BY <1>1
  <1>5. tree'[p] = [n \in Ids |-> new[n]] /\ cache'[p] = lists
    BY <1>1
  <1>6. tree'[p] = [n \in Ids |-> tree'[p][n]]
    BY <1>5
  <1>7. \A q \in Peers : tree'[q] = [n \in Ids |-> tree'[q][n]]
    BY <1>3, <1>4, <1>6
  <1>8. tree' = [q \in Peers |-> [n \in Ids |-> tree'[q][n]]]
    BY <1>2, <1>7, Zenon
  <1> QED
    BY <1>2, <1>4, <1>5, <1>8

LEMMA SaveKeeps ==
  ASSUME ListsIInv, NEW p \in Peers, NEW prev, NEW page \in Shapes, Save(p, prev, page)
  PROVE  ListsIInv' /\ (Knows => Knows')
  <1> DEFINE changed == Changed(prev, page)
             removed == DOMAIN prev \ DOMAIN page
             base(n) == IF n \in DOMAIN prev THEN prev[n] ELSE << >>
             new == [n \in Ids |->
                       IF n \in changed THEN WriteNode(tree[p][n], p, base(n), page[n])
                       ELSE IF n \in removed THEN DeleteKey(tree[p][n])
                       ELSE tree[p][n]]
             lists == [n \in (DOMAIN cache[p] \ removed) \cup changed |->
                         IF n \in changed THEN page[n] ELSE cache[p][n]]
  <1>1. /\ tree' = [tree EXCEPT ![p] = new]
        /\ cache' = [cache EXCEPT ![p] = lists]
        /\ seeded' = [seeded EXCEPT ![p] = TRUE] /\ cut' = cut
        /\ saves < MaxSaves /\ saves' = saves + 1
        /\ placed' = [n \in Nodes |-> IF n \in Grant[p] THEN Parent(page, n)
                                                       ELSE placed[n]]
    <2>1. DOMAIN tree = Peers /\ DOMAIN cache = Peers
      BY DEF ListsIInv
    <2> QED
      BY <2>1, Zenon DEF Save
  <1>2. /\ changed \subseteq Ids /\ changed \cap removed = {} /\ Root \notin removed
        /\ \A n \in changed : page[n] \in Seq(Nodes)
    BY PageFacts DEF Changed
  <1>3. p \in Nat
    BY ListsAssumption
  <1>4. \A n \in Ids :
          /\ n \in changed => new[n] = WriteNode(tree[p][n], p, base(n), page[n])
          /\ n \notin changed /\ n \in removed => new[n] = DeleteKey(tree[p][n])
          /\ n \notin changed /\ n \notin removed => new[n] = tree[p][n]
    BY DEF Ids
  <1>5. DOMAIN lists = (DOMAIN cache[p] \ removed) \cup changed
    OBVIOUS
  <1>6. new = [n \in Ids |-> new[n]]
    OBVIOUS
  <1> HIDE DEF new, lists, changed, removed, base
  <1>7. tree' = [tree EXCEPT ![p] = [n \in Ids |-> new[n]]]
    BY <1>1, <1>6, Zenon
  <1>8. ASSUME NEW n \in Ids
        PROVE  /\ Sound([q \in Peers |-> tree'[q][n]])
               /\ Live(tree'[p][n]) <=> n \in changed \/ (Live(tree[p][n]) /\ n \notin removed)
    <2> DEFINE k == [q \in Peers |-> tree[q][n]]
               k1 == [q \in Peers |-> tree'[q][n]]
    <2>1. /\ k[p] = tree[p][n] /\ k1[p] = tree'[p][n]
          /\ \A q \in Peers \ {p} : k1[q] = k[q]
          /\ k1[p] = new[n]
          /\ Sound(k)
      BY <1>7, OneReplica
    <2>2. k1 = [q \in Peers |-> k1[q]] /\ k = [q \in Peers |-> k[q]]
      OBVIOUS
    <2> HIDE DEF k, k1
    <2>3. IsNode(k[p])
      BY <2>1 DEF Sound
    <2>4. CASE n \in changed
      <3>1. k1[p] = WriteNode(k[p], p, base(n), page[n]) /\ page[n] \in Seq(Nodes)
        BY <1>2, <1>4, <2>1, <2>4
      <3>2. Sound(k1)
        BY <2>1, <3>1, SoundWrite, ZenonT(30)
      <3>3. Live(k1[p])
        BY <1>3, <2>3, <3>1, WriteNodeFacts DEF Written
      <3> QED
        BY <2>1, <2>4, <3>2, <3>3 DEF k1
    <2>5. CASE n \notin changed /\ n \in removed
      <3>1. k1[p] = DeleteKey(k[p])
        BY <1>4, <2>1, <2>5
      <3>2. Sound(k1)
        BY <2>1, <3>1, SoundDelete
      <3>3. ~Live(k1[p])
        BY <2>3, <3>1, DeleteKeyFacts
      <3> QED
        BY <2>1, <2>5, <3>2, <3>3 DEF k1
    <2>6. CASE n \notin changed /\ n \notin removed
      <3>1. k1[p] = k[p]
        BY <1>4, <2>1, <2>6
      <3>2. \A q \in Peers : k1[q] = k[q]
        BY <2>1, <3>1
      <3>3. k1 = k
        BY <2>2, <3>2, Zenon DEF k, k1
      <3> QED
        BY <2>1, <2>6, <3>3, Zenon DEF k1
    <2> QED
      BY <2>4, <2>5, <2>6
  <1>9. /\ tree' = [q \in Peers |-> [n \in Ids |-> tree'[q][n]]]
        /\ cache' = [q \in Peers |-> cache'[q]]
        /\ cache'[p] = lists
        /\ \A q \in Peers \ {p} : cache'[q] = cache[q] /\ tree'[q] = tree[q]
    BY <1>1, <1>7, OneReplicaShape
  <1>10. ASSUME NEW q \in Peers
         PROVE  /\ Live(tree'[q][Root]) /\ DOMAIN cache'[q] \subseteq Here(tree'[q])
                /\ DOMAIN cache[q] = Here(tree[q]) => DOMAIN cache'[q] = Here(tree'[q])
    <2>1. Live(tree[q][Root]) /\ DOMAIN cache[q] \subseteq Here(tree[q]) /\ Root \in Ids
      BY DEF ListsIInv, Ids
    <2>2. CASE q = p
      <3>1. \A n \in Ids : n \in Here(tree'[q]) <=> n \in changed \/ (n \in Here(tree[q]) /\ n \notin removed)
        BY <1>8, <2>2 DEF Here
      <3>2. Here(tree[q]) \subseteq Ids /\ Here(tree'[q]) \subseteq Ids
        BY DEF Here
      <3>3. DOMAIN cache'[q] = (DOMAIN cache[q] \ removed) \cup changed
        BY <1>5, <1>9, <2>2
      <3>4. Root \in Here(tree[q])
        BY <2>1 DEF Here
      <3>5. Root \in Here(tree'[q])
        BY <1>2, <2>1, <3>1, <3>4
      <3> QED
        BY <1>2, <2>1, <3>1, <3>2, <3>3, <3>5 DEF Here
    <2>3. CASE q # p
      <3>1. cache'[q] = cache[q] /\ tree'[q] = tree[q]
        BY <1>9, <2>3
      <3> QED
        BY <2>1, <3>1
    <2> QED
      BY <2>2, <2>3
  <1>11. saves' \in 0 .. MaxSaves
    BY <1>1, ListsAssumption DEF ListsIInv
  <1>12. placed' \in [Nodes -> SUBSET Ids]
    <2>1. placed \in [Nodes -> SUBSET Ids] /\ \A n : Parent(page, n) \subseteq Ids
      BY PageFacts DEF ListsIInv
    <2> QED
      BY <1>1, <2>1
  <1>13. seeded' \in [Peers -> BOOLEAN] /\ cut' \in [Peers -> BOOLEAN]
    BY <1>1 DEF ListsIInv
  <1> QED
    BY <1>8, <1>9, <1>10, <1>11, <1>12, <1>13 DEF ListsIInv, Knows

LEMMA MergedNodes ==
  ASSUME ListsIInv, NEW p \in Peers, NEW s \in Peers
  PROVE  /\ \A n \in Ids : IsNode(Merged(p, s)[n])
         /\ Live(Merged(p, s)[Root])
  <1>1. ASSUME NEW n \in Ids
        PROVE  /\ IsNode(Merged(p, s)[n])
               /\ Live(tree[p][n]) /\ Live(tree[s][n]) => Live(Merged(p, s)[n])
    <2> DEFINE k == [q \in Peers |-> tree[q][n]]
               m == MergeNode(k[p], k[s])
    <2>1. Sound(k)
      BY DEF ListsIInv
    <2>2. /\ k[p] = tree[p][n] /\ k[s] = tree[s][n] /\ m = Merged(p, s)[n]
      BY DEF Merged
    <2> HIDE DEF k
    <2>3. /\ IsNode(k[p]) /\ IsNode(k[s])
          /\ k[p].path = k[s].path /\ k[p].path # << >> =>
               \A i \in k[p].val.items, j \in k[s].val.items : i.id = j.id => i = j
      BY <2>1 DEF Sound
    <2>4. /\ IsNode(m)
          /\ Live(k[p]) /\ Live(k[s]) => Live(m)
      BY <2>3, MergeNodeFacts
    <2> QED
      BY <2>2, <2>4
  <1> QED
    BY <1>1 DEF ListsIInv, Ids

(* A replica takes what another has, whatever its cache makes of it.        *)
LEMMA MergeKeeps ==
  ASSUME ListsIInv, NEW p \in Peers, NEW s \in Peers, NEW lists,
         tree' = [tree EXCEPT ![p] = Merged(p, s)], cache' = [cache EXCEPT ![p] = lists],
         DOMAIN lists \subseteq Here(Merged(p, s)),
         seeded' \in [Peers -> BOOLEAN], cut' \in [Peers -> BOOLEAN],
         saves' = saves, placed' = placed
  PROVE  /\ ListsIInv'
         /\ tree'[p] = Merged(p, s) /\ cache'[p] = lists
         /\ \A q \in Peers \ {p} : tree'[q] = tree[q] /\ cache'[q] = cache[q]
  <1> DEFINE merged == Merged(p, s)
  <1>1. \A n \in Ids : merged[n] = MergeNode(tree[p][n], tree[s][n])
    BY DEF Merged
  <1>2. merged = [n \in Ids |-> merged[n]]
    BY DEF Merged
  <1> HIDE DEF merged
  <1>3. tree' = [tree EXCEPT ![p] = [n \in Ids |-> merged[n]]]
    BY <1>2, Zenon DEF merged
  <1>4. ASSUME NEW n \in Ids
        PROVE  Sound([q \in Peers |-> tree'[q][n]])
    <2> DEFINE k == [q \in Peers |-> tree[q][n]]
               k1 == [q \in Peers |-> tree'[q][n]]
    <2>1. /\ \A q \in Peers : k[q] = tree[q][n] /\ k1[q] = tree'[q][n]
          /\ \A q \in Peers \ {p} : k1[q] = k[q]
          /\ k1[p] = merged[n]
          /\ Sound(k)
      BY ONLY ListsIInv, p \in Peers, n \in Ids, <1>3, OneReplica
    <2> HIDE DEF k, k1
    <2>2. k1[p] = MergeNode(k[p], k[s])
      BY <1>1, <2>1
    <2>3. Sound(k1)
      BY <2>1, <2>2, SoundMerge
    <2> QED
      BY <2>3 DEF k1
  <1>5. /\ tree' = [q \in Peers |-> [n \in Ids |-> tree'[q][n]]]
        /\ cache' = [q \in Peers |-> cache'[q]]
        /\ cache'[p] = lists
        /\ \A q \in Peers \ {p} : cache'[q] = cache[q] /\ tree'[q] = tree[q]
    BY <1>3, OneReplicaShape
  <1>6. tree'[p] = merged
    <2>1. DOMAIN tree = Peers
      BY DEF ListsIInv
    <2> QED
      BY <2>1 DEF merged
  <1>7. ASSUME NEW q \in Peers
        PROVE  Live(tree'[q][Root]) /\ DOMAIN cache'[q] \subseteq Here(tree'[q])
    <2>1. CASE q = p
      BY <1>5, <1>6, <2>1, MergedNodes DEF merged
    <2>2. CASE q # p
      <3>1. cache'[q] = cache[q] /\ tree'[q] = tree[q]
        BY <1>5, <2>2
      <3>2. Live(tree[q][Root]) /\ DOMAIN cache[q] \subseteq Here(tree[q])
        BY DEF ListsIInv
      <3> QED
        BY <3>1, <3>2
    <2> QED
      BY <2>1, <2>2
  <1>8. saves' \in 0 .. MaxSaves /\ placed' \in [Nodes -> SUBSET Ids]
    BY DEF ListsIInv
  <1>9. ListsIInv'
    BY <1>4, <1>5, <1>7, <1>8 DEF ListsIInv
  <1> QED
    BY <1>5, <1>6, <1>9 DEF merged

LEMMA DeliverKeeps ==
  ASSUME ListsIInv, NEW p \in Peers, NEW s \in Peers, Deliver(p, s)
  PROVE  /\ ListsIInv' /\ (Knows => Knows')
         /\ tree'[p] = Merged(p, s)
         /\ cache'[p] = Refreshed(cache[p], Merged(p, s),
                                  {n \in Ids : Merged(p, s)[n] # tree[p][n]})
         /\ \A q \in Peers \ {p} : tree'[q] = tree[q] /\ cache'[q] = cache[q]
  <1> DEFINE merged == Merged(p, s)
             touched == {n \in Ids : merged[n] # tree[p][n]}
             lists == Refreshed(cache[p], merged, touched)
  <1>1. /\ tree' = [tree EXCEPT ![p] = merged]
        /\ cache' = [cache EXCEPT ![p] = lists]
        /\ seeded' = seeded /\ cut' = cut /\ saves' = saves /\ placed' = placed
    <2>1. DOMAIN cache = Peers
      BY DEF ListsIInv
    <2> QED
      BY <2>1, Zenon DEF Deliver
  <1>2. DOMAIN lists = (DOMAIN cache[p] \ touched) \cup {n \in touched : Live(merged[n])}
    BY DEF Refreshed
  <1>3. touched \subseteq Ids /\ \A n \in Ids \ touched : merged[n] = tree[p][n]
    OBVIOUS
  <1>4. DOMAIN cache[p] \subseteq Here(tree[p])
    BY DEF ListsIInv
  <1> HIDE DEF merged, touched, lists
  <1>5. /\ DOMAIN lists \subseteq Here(merged)
        /\ DOMAIN cache[p] = Here(tree[p]) => DOMAIN lists = Here(merged)
    BY <1>2, <1>3, <1>4 DEF Here
  <1>6. seeded' \in [Peers -> BOOLEAN] /\ cut' \in [Peers -> BOOLEAN]
    BY <1>1 DEF ListsIInv
  <1>7. /\ ListsIInv' /\ tree'[p] = merged /\ cache'[p] = lists
        /\ \A q \in Peers \ {p} : tree'[q] = tree[q] /\ cache'[q] = cache[q]
    BY <1>1, <1>5, <1>6, MergeKeeps DEF merged
  <1>8. Knows => Knows'
    <2> SUFFICES ASSUME Knows, NEW q \in Peers
                 PROVE  DOMAIN cache'[q] = Here(tree'[q])
      BY DEF Knows
    <2>1. DOMAIN cache[q] = Here(tree[q]) /\ DOMAIN cache[p] = Here(tree[p])
      BY DEF Knows
    <2>2. CASE q = p
      BY <1>5, <1>7, <2>1, <2>2
    <2>3. CASE q # p
      <3>1. cache'[q] = cache[q] /\ tree'[q] = tree[q]
        BY <1>7, <2>3
      <3> QED
        BY <2>1, <3>1
    <2> QED
      BY <2>2, <2>3
  <1> QED
    BY <1>7, <1>8 DEF merged, touched, lists

LEMMA DeliverWholeKeeps ==
  ASSUME ListsIInv, NEW p \in Peers, NEW s \in Peers, DeliverWhole(p, s)
  PROVE  /\ ListsIInv'
         /\ tree'[p] = Merged(p, s) /\ cache'[p] = FullRead(Merged(p, s))
         /\ \A q \in Peers \ {p} : tree'[q] = tree[q] /\ cache'[q] = cache[q]
         /\ cut' = [cut EXCEPT ![p] = @ \/ LeavesOut(Merged(p, s), FullRead(Merged(p, s)))]
  <1> DEFINE merged == Merged(p, s)
             page == FullRead(merged)
             lists == ListsOf(merged)
  <1>1. /\ tree' = [tree EXCEPT ![p] = merged]
        /\ cache' = [cache EXCEPT ![p] = page]
        /\ seeded' = [seeded EXCEPT ![p] = TRUE]
        /\ cut' = [cut EXCEPT ![p] = @ \/ LeavesOut(merged, page)]
        /\ saves' = saves /\ placed' = placed
    BY DEF DeliverWhole
  <1>2. SomeLists(lists) /\ DOMAIN lists = Here(merged)
    BY MergedNodes, ListsOfFacts
  <1>3. page = Walk(lists, TRUE)
    BY DEF FullRead
  <1> HIDE DEF merged, page, lists
  <1>4. DOMAIN page \subseteq Here(merged)
    BY <1>2, <1>3, WalkWithin
  <1>5. seeded' \in [Peers -> BOOLEAN]
    BY <1>1 DEF ListsIInv
  <1>6. cut' \in [Peers -> BOOLEAN]
    <2> DEFINE left == LeavesOut(merged, page)
    <2>1. left \in BOOLEAN
      BY DEF LeavesOut
    <2>2. cut \in [Peers -> BOOLEAN] /\ cut' = [cut EXCEPT ![p] = cut[p] \/ left]
      BY <1>1 DEF ListsIInv
    <2> HIDE DEF left
    <2>3. (cut[p] \/ left) \in BOOLEAN
      OBVIOUS
    <2> QED
      BY <2>2, <2>3, Zenon
  <1>7. /\ ListsIInv' /\ tree'[p] = merged /\ cache'[p] = page
        /\ \A q \in Peers \ {p} : tree'[q] = tree[q] /\ cache'[q] = cache[q]
    BY <1>1, <1>4, <1>5, <1>6, MergeKeeps DEF merged
  <1> QED
    BY <1>1, <1>7 DEF merged, page

LEMMA ListsStep == ListsIInv /\ [Next]_vars => ListsIInv'
  <1> SUFFICES ASSUME ListsIInv, [Next]_vars
               PROVE  ListsIInv'
    OBVIOUS
  <1>1. CASE Next
    <2>1. ASSUME NEW p \in Peers, NEW page \in Shapes, Save(p, Page(p), page)
          PROVE  ListsIInv'
      BY <2>1, SaveKeeps
    <2>2. ASSUME NEW p \in Peers, NEW q \in Peers, Deliver(p, q)
          PROVE  ListsIInv'
      BY <2>2, DeliverKeeps
    <2>3. ASSUME NEW p \in Peers, NEW q \in Peers, DeliverWhole(p, q)
          PROVE  ListsIInv'
      BY <2>3, DeliverWholeKeeps
    <2> QED
      BY <1>1, <2>1, <2>2, <2>3 DEF Next
  <1>2. CASE UNCHANGED vars
    <2>1. /\ tree' = tree /\ cache' = cache /\ seeded' = seeded /\ cut' = cut
          /\ saves' = saves /\ placed' = placed
      BY <1>2 DEF vars
    <2> QED
      BY <2>1 DEF ListsIInv
  <1> QED
    BY <1>1, <1>2

(* As many ids as items, because no two items share one.                   *)
LEMMA OneIdEach ==
  ASSUME NEW items, IsFiniteSet(items), \A i, j \in items : i.id = j.id => i = j
  PROVE  Cardinality(IdsOf(items)) = Cardinality(items)
  <1> DEFINE name == [i \in items |-> i.id]
  <1>1. name \in Surjection(items, IdsOf(items))
    BY DEF Surjection, IdsOf
  <1>2. name \in Injection(items, IdsOf(items))
    BY DEF Injection, IsInjective, IdsOf
  <1>3. ExistsBijection(items, IdsOf(items))
    BY <1>1, <1>2 DEF ExistsBijection, Bijection
  <1> QED
    BY <1>3, FS_Bijection

LEMMA ListsTypes == ListsIInv => TypeOK
  <1> SUFFICES ASSUME ListsIInv
               PROVE  TypeOK
    OBVIOUS
  <1>1. ASSUME NEW p \in Peers, NEW n \in Ids, Live(tree[p][n])
        PROVE  LET array == tree[p][n].val
                   ids == {i.id : i \in array.items}
               IN  /\ Cardinality(ids) = Cardinality(array.items)
                   /\ \A i \in array.items : i.after \in ids \cup {Head0} /\ i.val \in Nodes
                   /\ array.dead \subseteq ids
    <2>1. Sound([q \in Peers |-> tree[q][n]])
      BY DEF ListsIInv
    <2>2. IsNode(tree[p][n])
      BY <2>1 DEF Sound
    <2>3. IsArray(tree[p][n].val)
      BY <1>1, <2>2, NodeFacts
    <2> DEFINE array == tree[p][n].val
    <2> HIDE DEF array
    <2>4. IsArray(array)
      BY <2>3 DEF array
    <2>5. Cardinality(IdsOf(array.items)) = Cardinality(array.items)
      BY <2>4, OneIdEach DEF IsArray
    <2>6. /\ \A i \in array.items : i.after \in IdsOf(array.items) \cup {Head0} /\ i.val \in Nodes
          /\ array.dead \subseteq IdsOf(array.items)
      BY <2>4 DEF IsArray, Item
    <2> QED
      BY <2>5, <2>6, Zenon DEF IdsOf, array
  <1> QED
    BY <1>1 DEF ListsIInv, TypeOK, Here

(* Every array of child ids stays well formed: no two items share an id,    *)
(* each hangs on one that is there, and only items that are there are       *)
(* deleted, however many replicas write and merge concurrently; and the     *)
(* cache of live-ir.ts knows no node that is gone, be it filled by a save,  *)
(* an update at a time or by a read of the whole tree.                      *)
THEOREM ListsTypeCorrect == Spec => []TypeOK
  <1>1. Init => ListsIInv
    BY ListsInit
  <1>2. ListsIInv /\ [Next]_vars => ListsIInv'
    BY ListsStep
  <1>3. ListsIInv => TypeOK
    BY ListsTypes
  <1> QED
    BY <1>1, <1>2, <1>3, PTL DEF Spec

-----------------------------------------------------------------------------
(* The ids a mirror stands for. *)

LEMMA ValsConcat ==
  ASSUME NEW s \in Seq(Item), NEW t \in Seq(Item)
  PROVE  Vals(s \o t) = Vals(s) \o Vals(t)
  <1> DEFINE u == s \o t
             x == Vals(s)
             y == Vals(t)
             l == Vals(u)
             r == x \o y
  <1>1. /\ u \in Seq(Item) /\ Len(u) = Len(s) + Len(t)
        /\ \A k \in 1 .. Len(s) : u[k] = s[k]
        /\ \A k \in 1 .. Len(t) : u[Len(s) + k] = t[k]
    BY ConcatFacts
  <1>2. /\ x \in Seq(Nodes) /\ Len(x) = Len(s) /\ \A k \in 1 .. Len(s) : x[k] = s[k].val
        /\ y \in Seq(Nodes) /\ Len(y) = Len(t) /\ \A k \in 1 .. Len(t) : y[k] = t[k].val
    BY ValsFacts
  <1> HIDE DEF u, x, y
  <1>3. l \in Seq(Nodes) /\ Len(l) = Len(u) /\ \A k \in 1 .. Len(u) : l[k] = u[k].val
    BY <1>1, ValsFacts
  <1>4. /\ r \in Seq(Nodes) /\ Len(r) = Len(x) + Len(y)
        /\ \A k \in 1 .. Len(x) : r[k] = x[k]
        /\ \A k \in 1 .. Len(y) : r[Len(x) + k] = y[k]
    <2>1. x \in Seq(Nodes) /\ y \in Seq(Nodes)
      BY <1>2
    <2> QED
      BY <2>1, ConcatFacts
  <1> HIDE DEF l, r
  <1> DEFINE m == Len(s)
             n == Len(t)
  <1>5. m \in Nat /\ n \in Nat
    OBVIOUS
  <1>6. \A k \in 1 .. Len(l) : l[k] = r[k]
    <2> TAKE k \in 1 .. Len(l)
    <2>1. CASE k <= m
      <3>1. k \in 1 .. m
        BY <1>1, <1>3, <2>1
      <3>2. l[k] = s[k].val
        BY <1>1, <1>3, <3>1
      <3>3. r[k] = x[k] /\ x[k] = s[k].val
        BY <1>2, <1>4, <3>1
      <3> QED
        BY <3>2, <3>3
    <2>2. CASE k > m
      <3>1. k - m \in 1 .. n /\ m + (k - m) = k
        BY <1>1, <1>3, <1>5, <2>2
      <3>2. r[m + (k - m)] = y[k - m] /\ y[k - m] = t[k - m].val
        BY <1>2, <1>4, <3>1
      <3>3. u[m + (k - m)] = t[k - m]
        BY <1>1, <3>1
      <3>4. l[k] = u[k].val
        BY <1>3
      <3> QED
        BY <3>1, <3>2, <3>3, <3>4
    <2>3. k \in Nat
      BY <1>3
    <2> QED
      BY <1>5, <2>1, <2>2, <2>3
  <1>7. Len(l) = Len(r)
    BY <1>1, <1>2, <1>3, <1>4
  <1>8. l = r
    BY <1>3, <1>4, <1>6, <1>7, SameSeq
  <1> QED
    BY <1>8 DEF l, r, u, x, y

LEMMA ValsAppend ==
  ASSUME NEW s \in Seq(Item), NEW x \in Item
  PROVE  Vals(Append(s, x)) = Append(Vals(s), x.val)
  <1> DEFINE u == Append(s, x)
             v == Vals(s)
             l == Vals(u)
             r == Append(v, x.val)
  <1>1. u \in Seq(Item) /\ Len(u) = Len(s) + 1 /\ u[Len(s) + 1] = x
        /\ \A k \in 1 .. Len(s) : u[k] = s[k]
    OBVIOUS
  <1>2. v \in Seq(Nodes) /\ Len(v) = Len(s) /\ \A k \in 1 .. Len(s) : v[k] = s[k].val
    BY ValsFacts
  <1> HIDE DEF u, v
  <1>3. l \in Seq(Nodes) /\ Len(l) = Len(u) /\ \A k \in 1 .. Len(u) : l[k] = u[k].val
    BY <1>1, ValsFacts
  <1>4. x.val \in Nodes
    BY DEF Item
  <1>5. r \in Seq(Nodes) /\ Len(r) = Len(v) + 1 /\ r[Len(v) + 1] = x.val
        /\ \A k \in 1 .. Len(v) : r[k] = v[k]
    BY <1>2, <1>4
  <1> HIDE DEF l, r
  <1>6. \A k \in 1 .. Len(l) : l[k] = r[k]
    <2> TAKE k \in 1 .. Len(l)
    <2>1. k \in 1 .. Len(s) \/ k = Len(s) + 1
      BY <1>1, <1>3
    <2> QED
      BY <1>1, <1>2, <1>3, <1>5, <2>1
  <1>7. Len(l) = Len(r)
    BY <1>1, <1>2, <1>3, <1>5
  <1>8. l = r
    BY <1>3, <1>5, <1>6, <1>7, SameSeq
  <1> QED
    BY <1>8 DEF l, r, u, v

LEMMA ValsInsert ==
  ASSUME NEW s \in Seq(Item), NEW x \in Item, NEW at \in 1 .. Len(s) + 1
  PROVE  Vals(InsertAt(s, at, x)) = InsertAt(Vals(s), at, x.val)
  <1> DEFINE m == at - 1
             a == SubSeq(s, 1, m)
             b == SubSeq(s, m + 1, Len(s))
             c == Vals(a)
             d == Vals(b)
  <1>1. m \in 0 .. Len(s) /\ at = m + 1
    OBVIOUS
  <1> HIDE DEF m
  <1>2. a \in Seq(Item) /\ b \in Seq(Item) /\ s = a \o b /\ Len(a) = m
    BY <1>1, SubSeqOf
  <1>3. InsertAt(s, m + 1, x) = Append(a, x) \o b
    BY <1>1, InsertSplit
  <1> HIDE DEF a, b
  <1>4. c \in Seq(Nodes) /\ d \in Seq(Nodes) /\ Len(c) = m /\ Vals(s) = c \o d
    <2>1. c \in Seq(Nodes) /\ Len(c) = Len(a) /\ d \in Seq(Nodes)
      BY <1>2, ValsFacts
    <2>2. Vals(a \o b) = c \o d
      BY <1>2, ValsConcat
    <2> QED
      BY <1>2, <2>1, <2>2
  <1>5. Vals(Append(a, x) \o b) = Append(c, x.val) \o d
    <2> DEFINE w == Append(a, x)
    <2>1. w \in Seq(Item) /\ Vals(w) = Append(c, x.val)
      BY <1>2, ValsAppend
    <2> HIDE DEF w, c, d
    <2>2. Vals(w \o b) = Vals(w) \o Vals(b)
      BY <1>2, <2>1, ValsConcat
    <2> QED
      BY <2>1, <2>2 DEF w, d
  <1> HIDE DEF c, d
  <1>6. InsertAt(c \o d, Len(c) + 1, x.val) = Append(c, x.val) \o d
    <2>1. x.val \in Nodes
      BY DEF Item
    <2> QED
      BY <1>4, <2>1, InsertBetween
  <1> QED
    BY <1>1, <1>3, <1>4, <1>5, <1>6

LEMMA ValsRemove ==
  ASSUME NEW s \in Seq(Item), NEW m \in 1 .. Len(s)
  PROVE  Vals(RemoveAt(s, m)) = RemoveAt(Vals(s), m)
  <1> DEFINE a == SubSeq(s, 1, m - 1)
             b == SubSeq(s, m + 1, Len(s))
             x == s[m]
             c == Vals(a)
             d == Vals(b)
  <1>1. /\ a \in Seq(Item) /\ b \in Seq(Item) /\ s = Append(a, x) \o b
        /\ RemoveAt(s, m) = a \o b
    BY CutAt
  <1>2. x \in Item /\ x.val \in Nodes
    <2>1. \A i \in Item : i.val \in Nodes
      BY DEF Item
    <2>2. x \in Item
      OBVIOUS
    <2> QED
      BY <2>1, <2>2
  <1>3. Len(a) = m - 1
    OBVIOUS
  <1> HIDE DEF a, b, x
  <1>4. c \in Seq(Nodes) /\ d \in Seq(Nodes) /\ Len(c) = m - 1
    BY <1>1, <1>3, ValsFacts
  <1>5. Vals(s) = Append(c, x.val) \o d
    <2> DEFINE w == Append(a, x)
    <2>1. w \in Seq(Item) /\ Vals(w) = Append(c, x.val) /\ s = w \o b
      BY <1>1, <1>2, ValsAppend
    <2> HIDE DEF w, c, d
    <2>2. Vals(w \o b) = Vals(w) \o Vals(b)
      BY <1>1, <2>1, ValsConcat
    <2> QED
      BY <2>1, <2>2 DEF d
  <1>6. Vals(a \o b) = c \o d
    BY <1>1, ValsConcat
  <1> HIDE DEF c, d
  <1>7. RemoveAt(Append(c, x.val) \o d, Len(c) + 1) = c \o d
    BY <1>2, <1>4, RemoveBetween
  <1>8. Len(c) + 1 = m
    BY <1>4
  <1> QED
    BY <1>1, <1>5, <1>6, <1>7, <1>8

(* The list of ids that insert(at, [id]) and delete(at) leave.             *)
LEMMA WorkVals ==
  ASSUME NEW s, NEW a, NEW client, Working(s, a, client)
  PROVE  s.work \in Seq(Item) /\ Vals(s.work) \in Seq(Nodes) /\ Len(Vals(s.work)) = Len(s.work)
         /\ \A k \in 1 .. Len(s.work) : Vals(s.work)[k] = s.work[k].val
         /\ Vals(s.work) = Vals(Visible(s.array))
  <1> DEFINE w == s.work
  <1>1. w \in Seq(s.array.items) /\ s.array.items \subseteq Item /\ s.work = Visible(s.array)
    BY WorkFacts DEF Working, IsArray
  <1> HIDE DEF w
  <1>2. w \in Seq(Item)
    BY <1>1
  <1>3. Vals(w) \in Seq(Nodes) /\ Len(Vals(w)) = Len(w) /\ \A k \in 1 .. Len(w) : Vals(w)[k] = w[k].val
    BY <1>2, ValsFacts
  <1> QED
    BY <1>1, <1>2, <1>3 DEF w

LEMMA InsertVals ==
  ASSUME NEW client \in Nat, NEW a, NEW s, Working(s, a, client),
         NEW at \in 1 .. Len(s.work) + 1, NEW id \in Nodes
  PROVE  Vals(Insert(s, client, at, id).work) = InsertAt(Vals(s.work), at, id)
  <1> DEFINE clocks == {i.id[1] : i \in s.array.items}
             item == [id    |-> <<1 + Max({0} \cup clocks), client>>,
                      after |-> IF at = 1 THEN Head0 ELSE s.work[at - 1].id,
                      val   |-> id]
             w == s.work
  <1>1. Insert(s, client, at, id).work = InsertAt(w, at, item)
    BY DEF Insert
  <1>2. Insert(s, client, at, id).array.items = s.array.items \cup {item}
    <2>1. s.array = [items |-> s.array.items, dead |-> s.array.dead]
      BY DEF Working, IsArray
    <2> HIDE DEF item
    <2>2. [s.array EXCEPT !.items = @ \cup {item}].items = s.array.items \cup {item}
      BY <2>1
    <2> QED
      BY <2>2 DEF Insert, item
  <1>3. item.val = id
    OBVIOUS
  <1>4. w \in Seq(Item)
    BY WorkVals
  <1> HIDE DEF item, w
  <1>5. item \in Item
    <2>1. Working(Insert(s, client, at, id), a, client)
      BY InsertWorks
    <2>2. Insert(s, client, at, id).array.items \subseteq Item
      BY <2>1 DEF Working, IsArray
    <2> QED
      BY <1>2, <2>2
  <1>6. at \in 1 .. Len(w) + 1
    BY DEF w
  <1>7. Vals(InsertAt(w, at, item)) = InsertAt(Vals(w), at, item.val)
    BY <1>4, <1>5, <1>6, ValsInsert
  <1> QED
    BY <1>1, <1>3, <1>7 DEF w

LEMMA DeleteVals ==
  ASSUME NEW client, NEW a, NEW s, Working(s, a, client), NEW at \in 1 .. Len(s.work)
  PROVE  Vals(Delete(s, at).work) = RemoveAt(Vals(s.work), at)
  <1> DEFINE w == s.work
  <1>1. Delete(s, at).work = RemoveAt(w, at)
    BY DEF Delete
  <1>2. w \in Seq(Item) /\ at \in 1 .. Len(w)
    BY WorkVals
  <1> HIDE DEF w
  <1>3. Vals(RemoveAt(w, at)) = RemoveAt(Vals(w), at)
    BY <1>2, ValsRemove
  <1> QED
    BY <1>1, <1>3 DEF w

(* Find finds an id that is there, at the first place it has.              *)
LEMMA FindFirst ==
  ASSUME NEW s \in Seq(Item), NEW id
  PROVE  /\ Find(s, id) \in 0 .. Len(s)
         /\ Find(s, id) > 0 <=> id \in Range(Vals(s))
         /\ Find(s, id) > 0 => Vals(s)[Find(s, id)] = id
         /\ \A k \in 1 .. Len(s) : Vals(s)[k] = id => Find(s, id) > 0 /\ Find(s, id) <= k
  <1> DEFINE I == {k \in 1 .. Len(s) : s[k].val = id}
             u == Vals(s)
             found == Find(s, id)
  <1>1. found = IF I # {} THEN Min(I) ELSE 0
    BY DEF Find, SelectInSeq
  <1>2. u \in Seq(Nodes) /\ Len(u) = Len(s) /\ \A k \in 1 .. Len(s) : u[k] = s[k].val
    BY ValsFacts
  <1>3. Len(s) \in Nat /\ I \in SUBSET Nat
    OBVIOUS
  <1>4. \A k : k \in I <=> k \in 1 .. Len(s) /\ u[k] = id
    BY <1>2
  <1> HIDE DEF I, u, found
  <1>5. I # {} <=> id \in Range(u)
    BY <1>2, <1>4 DEF Range
  <1>6. CASE I = {}
    BY <1>1, <1>3, <1>4, <1>5, <1>6 DEF found, u
  <1>7. CASE I # {}
    <2>1. Min(I) \in I /\ \A j \in I : Min(I) <= j
      BY <1>3, <1>7, FirstOf
    <2>2. found \in 1 .. Len(s) /\ u[found] = id /\ \A j \in I : found <= j
      BY <1>1, <1>4, <1>7, <2>1
    <2>3. found > 0 /\ found \in 0 .. Len(s)
      BY <1>3, <2>2
    <2> QED
      BY <1>4, <1>5, <1>7, <2>2, <2>3 DEF found, u
  <1> QED
    BY <1>6, <1>7

-----------------------------------------------------------------------------
(* Keeping and counting. *)

LEMMA SameHead ==
  ASSUME NEW T, NEW a \in Seq(T), NEW b \in Seq(T), NEW c \in Seq(T), NEW d \in Seq(T),
         a \o b = c \o d, Len(a) = Len(c)
  PROVE  a = c
  <1> DEFINE u == a \o b
  <1>1. \A k \in 1 .. Len(a) : u[k] = a[k]
    BY ConcatFacts
  <1>2. \A k \in 1 .. Len(c) : u[k] = c[k]
    BY ConcatFacts
  <1> HIDE DEF u
  <1> QED
    BY <1>1, <1>2, SameSeq

(* The kept part of a sequence up to m is longer by one at m when what is   *)
(* there is kept.                                                          *)
LEMMA KeepUpto ==
  ASSUME NEW T, NEW s \in Seq(T), NEW S, NEW m \in 1 .. Len(s)
  PROVE  /\ SubSeq(s, 1, m - 1) \in Seq(T) /\ SubSeq(s, 1, m) \in Seq(T)
         /\ Keep(SubSeq(s, 1, m - 1), S) \in Seq(T) /\ Keep(SubSeq(s, 1, m), S) \in Seq(T)
         /\ s[m] \in S => /\ Keep(SubSeq(s, 1, m), S) = Append(Keep(SubSeq(s, 1, m - 1), S), s[m])
                          /\ Len(Keep(SubSeq(s, 1, m), S)) = Len(Keep(SubSeq(s, 1, m - 1), S)) + 1
         /\ s[m] \notin S => Keep(SubSeq(s, 1, m), S) = Keep(SubSeq(s, 1, m - 1), S)
  <1> DEFINE a == SubSeq(s, 1, m - 1)
             b == SubSeq(s, 1, m)
  <1>1. a \in Seq(T) /\ b = Append(a, s[m])
    BY CutAt
  <1>2. s[m] \in T
    OBVIOUS
  <1> HIDE DEF a, b
  <1>3. b \in Seq(T)
    BY <1>1, <1>2
  <1>4. Keep(a, S) \in Seq(T) /\ Keep(b, S) \in Seq(T)
    BY <1>1, <1>3, KeepIn
  <1>5. Keep(Append(a, s[m]), S) = IF s[m] \in S THEN Append(Keep(a, S), s[m]) ELSE Keep(a, S)
    <2> DEFINE y == s[m]
    <2>1. a \in Seq(T) /\ y \in T
      BY <1>1, <1>2
    <2> HIDE DEF y
    <2>2. Keep(Append(a, y), S) = IF y \in S THEN Append(Keep(a, S), y) ELSE Keep(a, S)
      BY <2>1, KeepAppend
    <2> QED
      BY <2>2 DEF y
  <1>6. s[m] \in S => /\ Keep(b, S) = Append(Keep(a, S), s[m])
                      /\ Len(Keep(b, S)) = Len(Keep(a, S)) + 1
    BY <1>1, <1>2, <1>4, <1>5
  <1>7. s[m] \notin S => Keep(b, S) = Keep(a, S)
    BY <1>1, <1>5
  <1> QED
    BY <1>1, <1>3, <1>4, <1>6, <1>7 DEF a, b

LEMMA CountKept ==
  ASSUME NEW T, NEW s \in Seq(T), NEW S, NEW m \in 0 .. Len(s)
  PROVE  Len(Keep(SubSeq(s, 1, m), S)) = Cardinality({j \in 1 .. Len(s) : s[j] \in S /\ j <= m})
  <1> DEFINE I(k) == {j \in 1 .. Len(s) : s[j] \in S /\ j <= k}
             Good == {k \in Nat : Len(Keep(SubSeq(s, 1, k), S)) = Cardinality(I(k))}
             n == Len(s)
  <1>0. n \in Nat
    OBVIOUS
  <1>1. 0 \in Good
    <2>1. SubSeq(s, 1, 0) = << >> /\ I(0) = {}
      OBVIOUS
    <2>2. Len(Keep(<< >>, S)) = 0
      BY KeepNothing
    <2>3. Cardinality({}) = 0
      BY FS_EmptySet
    <2> HIDE DEF I
    <2>4. Len(Keep(SubSeq(s, 1, 0), S)) = Cardinality(I(0))
      BY <2>1, <2>2, <2>3
    <2> QED
      BY <2>4
  <1>2. ASSUME NEW k \in 1 .. n, k - 1 \in Good
        PROVE  k \in Good
    <2> DEFINE x == Len(Keep(SubSeq(s, 1, k - 1), S))
               y == Len(Keep(SubSeq(s, 1, k), S))
    <2>1. x = Cardinality(I(k - 1)) /\ k \in Nat
      BY <1>2
    <2>2. /\ s[k] \in S => y = x + 1
          /\ s[k] \notin S => y = x
      BY KeepUpto
    <2>3. IsFiniteSet(I(k - 1))
      <3>1. IsFiniteSet(1 .. n)
        BY <1>0, FS_Interval
      <3> QED
        BY <3>1, FS_Subset
    <2> HIDE DEF x, y
    <2>4. CASE s[k] \in S
      <3>1. I(k) = I(k - 1) \cup {k} /\ k \notin I(k - 1)
        BY <2>4
      <3> HIDE DEF I
      <3>2. Cardinality(I(k)) = Cardinality(I(k - 1)) + 1
        BY <2>3, <3>1, FS_AddElement
      <3> QED
        BY <2>1, <2>2, <2>4, <3>2 DEF y
    <2>5. CASE s[k] \notin S
      <3>1. I(k) = I(k - 1)
        BY <2>5
      <3> HIDE DEF I
      <3> QED
        BY <2>1, <2>2, <2>5, <3>1 DEF y
    <2> QED
      BY <2>4, <2>5
  <1> HIDE DEF Good, n
  <1>3. \A k \in 0 .. n : k \in Good
    BY <1>0, <1>1, <1>2, CountUp
  <1>4. m \in Good
    BY <1>3 DEF n
  <1> QED
    BY <1>4 DEF Good

(* The k-th kept one has its place. *)
LEMMA KthKept ==
  ASSUME NEW T, NEW s \in Seq(T), NEW S, NEW k \in 1 .. Len(Keep(s, S))
  PROVE  \E m \in 1 .. Len(s) : s[m] \in S /\ Len(Keep(SubSeq(s, 1, m), S)) = k
  <1> DEFINE kept(m) == Len(Keep(SubSeq(s, 1, m), S))
             I == {m \in Nat : m <= Len(s) /\ kept(m) >= k}
  <1>0. Len(s) \in Nat /\ SubSeq(s, 1, Len(s)) = s /\ SubSeq(s, 1, 0) = << >>
    OBVIOUS
  <1>1. Len(s) \in I
    <2>1. Keep(s, S) \in Seq(T)
      BY KeepIn
    <2>2. Len(Keep(s, S)) >= k
      BY <2>1
    <2>3. kept(Len(s)) = Len(Keep(s, S))
      BY <1>0
    <2>4. Len(s) <= Len(s)
      BY <1>0
    <2> HIDE DEF kept
    <2> QED
      BY <1>0, <2>2, <2>3, <2>4
  <1>2. \E m \in I : \A j \in I : m <= j
    <2>1. I \in SUBSET Nat
      OBVIOUS
    <2> HIDE DEF I
    <2> QED
      BY <1>1, <2>1, LeastOf
  <1>3. PICK m \in I : \A j \in I : m <= j
    BY <1>2
  <1>4. m \in Nat /\ m <= Len(s) /\ kept(m) >= k
    BY <1>3
  <1>9. k \in Nat /\ k >= 1
    OBVIOUS
  <1>5. m # 0
    <2> SUFFICES ASSUME m = 0 PROVE FALSE
      OBVIOUS
    <2>1. kept(0) = 0
      <3>1. Keep(<< >>, S) = << >>
        BY KeepNothing
      <3>2. kept(0) = Len(Keep(<< >>, S))
        BY <1>0
      <3> QED
        BY <3>1, <3>2
    <2> HIDE DEF kept
    <2> QED
      BY <1>4, <1>9, <2>1
  <1>6. m \in 1 .. Len(s)
    BY <1>0, <1>4, <1>5
  <1>7. /\ s[m] \in S => kept(m) = kept(m - 1) + 1
        /\ s[m] \notin S => kept(m) = kept(m - 1)
        /\ kept(m - 1) \in Nat
    <2>1. Keep(SubSeq(s, 1, m - 1), S) \in Seq(T)
      BY <1>6, KeepUpto
    <2>2. kept(m - 1) \in Nat
      <3> DEFINE z == Keep(SubSeq(s, 1, m - 1), S)
      <3> HIDE DEF z
      <3>1. z \in Seq(T)
        BY <2>1 DEF z
      <3>2. Len(z) \in Nat
        BY <3>1
      <3> QED
        BY <3>2 DEF z
    <2>3. /\ s[m] \in S => kept(m) = kept(m - 1) + 1
          /\ s[m] \notin S => kept(m) = kept(m - 1)
      BY <1>6, KeepUpto
    <2> QED
      BY <2>2, <2>3
  <1>8. ~(kept(m - 1) >= k)
    <2>1. m - 1 \in Nat /\ m - 1 <= Len(s) /\ ~(m <= m - 1)
      BY <1>0, <1>4, <1>5
    <2>2. m - 1 \notin I
      BY <1>3, <2>1
    <2> QED
      BY <2>1, <2>2
  <1> HIDE DEF kept, I
  <1>10. s[m] \in S /\ kept(m) = k
    BY <1>4, <1>7, <1>8, <1>9
  <1> QED
    BY <1>6, <1>10 DEF kept

(* When each of the ids of an injective list is there, as many are kept.    *)
LEMMA ManyKept ==
  ASSUME NEW T, NEW s \in Seq(T), NEW d \in Seq(T), IsInjective(d), Range(d) \subseteq Range(s)
  PROVE  Len(d) <= Len(Keep(s, Range(d)))
  <1> DEFINE D == Range(d)
             k == Keep(s, D)
  <1>1. k \in Seq(T) /\ Range(k) = D
    <2>1. k \in Seq(T) /\ Range(k) = Range(s) \cap D
      BY KeepIn, KeepRange
    <2> QED
      BY <2>1
  <1>2. DOMAIN d = 1 .. Len(d) /\ Len(d) \in Nat
    OBVIOUS
  <1>3. DOMAIN k = 1 .. Len(k) /\ Len(k) \in Nat
    <2> HIDE DEF k
    <2> QED
      BY <1>1
  <1> HIDE DEF k
  <1>4. /\ IsFiniteSet(1 .. Len(k)) /\ Cardinality(1 .. Len(k)) = Len(k)
        /\ IsFiniteSet(1 .. Len(d)) /\ Cardinality(1 .. Len(d)) = Len(d)
    <2>1. \A n \in Nat : IsFiniteSet(1 .. n) /\ Cardinality(1 .. n) = n
      <3> TAKE n \in Nat
      <3>1. /\ IsFiniteSet(1 .. n)
            /\ Cardinality(1 .. n) = IF 1 > n THEN 0 ELSE n - 1 + 1
        BY FS_Interval
      <3>2. (IF 1 > n THEN 0 ELSE n - 1 + 1) = n
        OBVIOUS
      <3> QED
        BY <3>1, <3>2
    <2> QED
      BY <1>2, <1>3, <2>1
  <1>5. k \in Surjection(1 .. Len(k), D)
    <2>0. k = [j \in 1 .. Len(k) |-> k[j]]
      BY <1>1
    <2>1. k = [j \in 1 .. Len(k) |-> k[j]] /\ \A j \in 1 .. Len(k) : k[j] \in D
      BY <1>1, <1>3, <2>0 DEF Range
    <2>2. \A v \in D : \E j \in 1 .. Len(k) : k[j] = v
      BY <1>1, <1>3 DEF Range
    <2> QED
      BY <2>1, <2>2 DEF Surjection
  <1>6. d \in Surjection(1 .. Len(d), D) /\ d \in Injection(1 .. Len(d), D)
    <2>1. d = [j \in 1 .. Len(d) |-> d[j]] /\ \A j \in 1 .. Len(d) : d[j] \in D
      BY <1>2 DEF Range
    <2>2. \A v \in D : \E j \in 1 .. Len(d) : d[j] = v
      BY <1>2 DEF Range
    <2> HIDE DEF D
    <2> QED
      BY <1>2, <2>1, <2>2 DEF Surjection, Injection, IsInjective
  <1> HIDE DEF D
  <1>7. Cardinality(D) <= Len(k)
    BY <1>4, <1>5, FS_Surjection
  <1>8. Cardinality(D) = Len(d)
    BY <1>4, <1>6, FS_Surjection
  <1> QED
    BY <1>7, <1>8 DEF k, D

-----------------------------------------------------------------------------
(* The order reconciling leaves. *)

(* The ids of R among those of V begin with C. *)
Leads(C, V, R) == \E X, Z \in Seq(Nodes) : V = X \o Z /\ Keep(X, R) = C

LEMMA RemoveRange ==
  ASSUME NEW T, NEW s \in Seq(T), NEW m \in 1 .. Len(s)
  PROVE  /\ RemoveAt(s, m) \in Seq(T) /\ Len(RemoveAt(s, m)) = Len(s) - 1
         /\ \A y \in Range(s) : y # s[m] => y \in Range(RemoveAt(s, m))
         /\ \A j \in 1 .. m - 1 : RemoveAt(s, m)[j] = s[j]
  <1> DEFINE a == SubSeq(s, 1, m - 1)
             b == SubSeq(s, m + 1, Len(s))
             x == s[m]
             w == Append(a, x)
  <1>1. /\ a \in Seq(T) /\ b \in Seq(T) /\ s = w \o b
        /\ RemoveAt(s, m) = a \o b
    BY CutAt
  <1>2. x \in T
    OBVIOUS
  <1>3. Len(a) = m - 1 /\ \A j \in 1 .. m - 1 : a[j] = s[j]
    OBVIOUS
  <1> HIDE DEF a, b, x
  <1>4. w \in Seq(T) /\ Range(w) = Range(a) \cup {x}
    BY <1>1, <1>2, AppendRange
  <1>5. s = w \o b
    BY <1>1
  <1> HIDE DEF w
  <1>6. Range(s) = Range(w) \cup Range(b)
    BY <1>1, <1>4, <1>5, ConcatRange
  <1>7. Range(a \o b) = Range(a) \cup Range(b)
    BY <1>1, ConcatRange
  <1>8. \A j \in 1 .. Len(a) : (a \o b)[j] = a[j]
    BY <1>1, ConcatFacts
  <1>9. RemoveAt(s, m) \in Seq(T) /\ Len(RemoveAt(s, m)) = Len(s) - 1
    BY RemoveAtFacts
  <1>10. \A y \in Range(s) : y # s[m] => y \in Range(RemoveAt(s, m))
    BY <1>1, <1>4, <1>6, <1>7 DEF x
  <1>11. \A j \in 1 .. m - 1 : RemoveAt(s, m)[j] = s[j]
    BY <1>1, <1>3, <1>8
  <1> QED
    BY <1>9, <1>10, <1>11

(* Two ways to cut a sequence that keep as much before the cut.  (Joined   *)
(* hides the concatenation, whose facts would lead the provers astray.)     *)
Joined(x, z) == x \o z

LEMMA KeepJoined ==
  ASSUME NEW x \in Seq(Nodes), NEW z \in Seq(Nodes), NEW R
  PROVE  Keep(Joined(x, z), R) = Joined(Keep(x, R), Keep(z, R))
  BY KeepConcat DEF Joined

LEMMA KeepHead ==
  ASSUME NEW X \in Seq(Nodes), NEW Z \in Seq(Nodes),
         NEW X0 \in Seq(Nodes), NEW Z0 \in Seq(Nodes), NEW R,
         Joined(X, Z) = Joined(X0, Z0), Len(Keep(X, R)) = Len(Keep(X0, R))
  PROVE  Keep(X, R) = Keep(X0, R)
  <1> DEFINE a == Keep(X, R)
             b == Keep(Z, R)
             c == Keep(X0, R)
             d == Keep(Z0, R)
  <1>1. Joined(a, b) = Joined(c, d)
    <2>1. Keep(Joined(X, Z), R) = Joined(a, b)
      BY KeepJoined, Zenon
    <2>2. Keep(Joined(X0, Z0), R) = Joined(c, d)
      BY KeepJoined, Zenon
    <2> QED
      BY <2>1, <2>2, Zenon
  <1>2. a \in Seq(Nodes) /\ b \in Seq(Nodes) /\ c \in Seq(Nodes) /\ d \in Seq(Nodes)
    BY KeepIn
  <1>3. Len(a) = Len(c)
    OBVIOUS
  <1> HIDE DEF a, b, c, d
  <1>4. a = c
    BY <1>1, <1>2, <1>3, SameHead DEF Joined
  <1> QED
    BY <1>4 DEF a, c

(* The k-th step of the third pass puts the k-th id in its place.          *)
LEMMA MoveOneOrder ==
  ASSUME NEW client \in Nat, NEW a, NEW s, Working(s, a, client),
         NEW desired \in Seq(Nodes), IsInjective(desired), NEW k \in 1 .. Len(desired),
         Range(desired) \subseteq Range(Vals(s.work)),
         Leads(SubSeq(desired, 1, k - 1), Vals(s.work), Range(desired))
  PROVE  /\ Range(desired) \subseteq Range(Vals(MoveOne(s, client, desired, k).work))
         /\ Leads(SubSeq(desired, 1, k), Vals(MoveOne(s, client, desired, k).work),
                  Range(desired))
  <1> DEFINE V == Vals(s.work)
             R == Range(desired)
             d == desired[k]
             n == Len(V)
             slots == {i \in DOMAIN s.work : s.work[i].val \in R}
             at == {i \in slots : Cardinality({j \in slots : j <= i}) = k}
             from == Find(s.work, d)
             abs == CHOOSE i \in at : TRUE
             kept(m) == Keep(SubSeq(V, 1, m), R)
  <1>1. /\ V \in Seq(Nodes) /\ n = Len(s.work) /\ n \in Nat
        /\ s.work \in Seq(Item)
        /\ \A j \in 1 .. n : V[j] = s.work[j].val
        /\ DOMAIN s.work = 1 .. n
    <2>1. s.work \in Seq(Item) /\ V \in Seq(Nodes) /\ Len(V) = Len(s.work)
      BY WorkVals
    <2>2. \A j \in 1 .. Len(s.work) : V[j] = s.work[j].val
      BY WorkVals
    <2> HIDE DEF V
    <2> QED
      BY <2>1, <2>2
  <1>2. d \in Nodes /\ d \in R /\ k \in Nat /\ k >= 1 /\ Len(desired) \in Nat /\ k <= Len(desired)
    BY DEF Range
  <1>3. MoveOne(s, client, desired, k) =
          IF at = {} \/ from = 0 \/ s.work[abs].val = d THEN s
          ELSE Insert(Delete(s, from), client, IF from < abs THEN abs - 1 ELSE abs, d)
    BY DEF MoveOne
  <1>4. \A i : i \in at <=> i \in 1 .. n /\ V[i] \in R /\ Len(kept(i)) = k
    <2>1. ASSUME NEW i \in 1 .. n
          PROVE  Cardinality({j \in slots : j <= i}) = Len(kept(i))
      <3>1. {j \in slots : j <= i} = {j \in 1 .. Len(V) : V[j] \in R /\ j <= i}
        BY <1>1
      <3>2. i \in 0 .. Len(V) /\ V \in Seq(Nodes)
        BY <1>1
      <3> HIDE DEF V, R
      <3> QED
        BY <3>1, <3>2, CountKept
    <2>2. \A i : i \in slots <=> i \in 1 .. n /\ V[i] \in R
      BY <1>1
    <2> HIDE DEF slots, V, R
    <2> QED
      BY <2>1, <2>2
  <1>5. at # {}
    <2>1. Len(desired) <= Len(Keep(V, R))
      <3>1. V \in Seq(Nodes) /\ desired \in Seq(Nodes) /\ Range(desired) \subseteq Range(V)
        BY <1>1
      <3> HIDE DEF V
      <3> QED
        BY <3>1, ManyKept
    <2>2. Len(Keep(V, R)) \in Nat
      <3> DEFINE z == Keep(V, R)
      <3>1. z \in Seq(Nodes)
        BY <1>1, KeepIn
      <3> HIDE DEF z
      <3>2. Len(z) \in Nat
        BY <3>1
      <3> QED
        BY <3>2 DEF z
    <2>3. k \in 1 .. Len(Keep(V, R))
      <3> HIDE DEF V, R
      <3> QED
        BY <1>2, <2>1, <2>2
    <2>4. PICK m \in 1 .. Len(V) : V[m] \in R /\ Len(kept(m)) = k
      <3>1. V \in Seq(Nodes)
        BY <1>1
      <3> HIDE DEF V, R
      <3> QED
        BY <2>3, <3>1, KthKept
    <2> QED
      BY <1>4, <2>4
  <1>6. abs \in at
    BY <1>5
  <1>7. from \in 1 .. n /\ V[from] = d /\ \A j \in 1 .. n : V[j] = d => from <= j
    <2>1. d \in Range(V)
      BY <1>2
    <2>2. /\ from \in 0 .. Len(s.work) /\ (from > 0 <=> d \in Range(V))
          /\ (from > 0 => V[from] = d)
          /\ \A j \in 1 .. Len(s.work) : V[j] = d => from > 0 /\ from <= j
      BY <1>1, FindFirst
    <2> HIDE DEF from, V
    <2> QED
      BY <1>1, <2>1, <2>2
  <1>8. Leads(SubSeq(desired, 1, k - 1), V, R)
    OBVIOUS
  <1>9. \A y : y \in R => y \in Range(V)
    OBVIOUS
  <1> HIDE DEF V, R, n, slots, at, from, abs, d, kept
  <1>10. abs \in 1 .. n /\ V[abs] \in R /\ Len(kept(abs)) = k
    BY <1>4, <1>6
  <1> DEFINE X == SubSeq(V, 1, abs - 1)
             Z == SubSeq(V, (abs - 1) + 1, n)
             first == SubSeq(desired, 1, k - 1)
             upto == SubSeq(desired, 1, k)
  <1>11. /\ X \in Seq(Nodes) /\ Z \in Seq(Nodes) /\ V = X \o Z /\ Len(X) = abs - 1
         /\ \A j \in 1 .. abs - 1 : X[j] = V[j]
    <2>1. V \in Seq(Nodes) /\ abs - 1 \in 0 .. Len(V)
      BY <1>1, <1>10 DEF n
    <2> QED
      BY <2>1, SubSeqOf DEF n
  <1>12. first \in Seq(Nodes) /\ Len(first) = k - 1 /\ upto = Append(first, d)
    <2>1. first \in Seq(Nodes) /\ Len(first) = k - 1
      OBVIOUS
    <2>2. SubSeq(desired, 1, k) = Append(SubSeq(desired, 1, k - 1), desired[k])
      BY CutAt
    <2> QED
      BY <2>1, <2>2 DEF d
  <1>13. /\ kept(abs) = Append(Keep(X, R), V[abs]) /\ Len(kept(abs)) = Len(Keep(X, R)) + 1
         /\ Keep(X, R) \in Seq(Nodes) /\ Keep(Z, R) \in Seq(Nodes)
    <2>1. V \in Seq(Nodes) /\ abs \in 1 .. Len(V) /\ V[abs] \in R
      BY <1>1, <1>10 DEF n
    <2>2. /\ Keep(SubSeq(V, 1, abs), R) = Append(Keep(SubSeq(V, 1, abs - 1), R), V[abs])
          /\ Len(Keep(SubSeq(V, 1, abs), R)) = Len(Keep(SubSeq(V, 1, abs - 1), R)) + 1
      BY <2>1, KeepUpto
    <2>3. kept(abs) = Append(Keep(X, R), V[abs]) /\ Len(kept(abs)) = Len(Keep(X, R)) + 1
      BY <2>2 DEF kept
    <2> HIDE DEF X, Z
    <2> QED
      BY <1>11, <2>3, KeepIn
  <1> HIDE DEF X, Z, first, upto
  <1>14. Keep(X, R) = first
    <2>1. PICK X0, Z0 \in Seq(Nodes) : V = X0 \o Z0 /\ Keep(X0, R) = first
      BY <1>8 DEF Leads, first
    <2>2. Len(Keep(X, R)) = Len(Keep(X0, R))
      <3>1. Len(Keep(X, R)) \in Nat
        <4> DEFINE z == Keep(X, R)
        <4> HIDE DEF z
        <4>1. z \in Seq(Nodes)
          BY <1>13 DEF z
        <4>2. Len(z) \in Nat
          BY <4>1
        <4> QED
          BY <4>2 DEF z
      <3> QED
        BY <1>2, <1>10, <1>12, <1>13, <2>1, <3>1
    <2>3. Joined(X, Z) = Joined(X0, Z0)
      BY <1>11, <2>1 DEF Joined
    <2>4. Keep(X, R) = Keep(X0, R)
      <3>1. /\ X \in Seq(Nodes) /\ Z \in Seq(Nodes)
            /\ X0 \in Seq(Nodes) /\ Z0 \in Seq(Nodes)
        BY <1>11
      <3> HIDE DEF R
      <3> QED
        BY <3>1, <2>2, <2>3, KeepHead
    <2> QED
      BY <2>1, <2>4
  <1>15. CASE V[abs] = d
    <2>1. MoveOne(s, client, desired, k) = s
      BY <1>1, <1>3, <1>10, <1>15
    <2>2. Leads(upto, V, R)
      <3> DEFINE X1 == SubSeq(V, 1, abs)
                 Z1 == SubSeq(V, abs + 1, n)
      <3>1. X1 \in Seq(Nodes) /\ Z1 \in Seq(Nodes) /\ V = X1 \o Z1
        <4>1. V \in Seq(Nodes) /\ abs \in 0 .. Len(V)
          BY <1>1, <1>10 DEF n
        <4> QED
          BY <4>1, SubSeqOf DEF n
      <3>2. Keep(X1, R) = upto
        BY <1>12, <1>13, <1>14, <1>15 DEF kept
      <3> HIDE DEF X1, Z1
      <3> QED
        BY <3>1, <3>2, Zenon DEF Leads
    <2> QED
      BY <1>9, <2>1, <2>2 DEF V, R, upto
  <1>16. CASE V[abs] # d
    <2>1. from > abs
      <3>1. from # abs
        BY <1>7, <1>16
      <3>2. ASSUME from < abs PROVE FALSE
        <4>1. from \in 1 .. abs - 1
          BY <1>7, <1>10, <3>2 DEF n
        <4>2. X[from] = d /\ d \in Range(X)
          <5>1. X[from] = d
            BY <1>7, <1>11, <4>1
          <5>2. DOMAIN X = 1 .. abs - 1
            BY <1>11
          <5> QED
            BY <4>1, <5>1, <5>2 DEF Range
        <4>3. d \in Range(first)
          <5>1. Range(Keep(X, R)) = Range(X) \cap R
            BY <1>11, KeepRange
          <5> QED
            BY <1>2, <1>14, <4>2, <5>1
        <4>4. PICK j \in 1 .. k - 1 : first[j] = d
          BY <1>12, <4>3 DEF Range
        <4>5. first[j] = desired[j]
          BY <4>4 DEF first
        <4>6. j \in 1 .. Len(desired) /\ desired[j] = desired[k]
          BY <4>4, <4>5 DEF d
        <4>7. j = k
          BY <4>6, SamePlace
        <4> QED
          BY <1>2, <4>4, <4>7
      <3> QED
        BY <1>7, <1>10, <3>1, <3>2
    <2> DEFINE less == Delete(s, from)
               moved == Insert(less, client, abs, d)
               W == RemoveAt(V, from)
    <2>2. MoveOne(s, client, desired, k) = moved
      <3>1. ~(from < abs) /\ from # 0
        BY <1>7, <1>10, <2>1
      <3> QED
        BY <1>1, <1>3, <1>5, <1>10, <1>16, <3>1
    <2>3. /\ Working(less, a, client) /\ Len(less.work) = n - 1
          /\ Vals(less.work) = W
      <3>1. from \in 1 .. Len(s.work)
        BY <1>1, <1>7
      <3>2. Working(less, a, client) /\ Len(less.work) = n - 1
        <4>1. /\ Working(less, a, client)
              /\ Len(less.work) = Len(s.work) - 1
          BY <3>1, DeleteWorks
        <4> QED
          BY <1>1, <4>1
      <3>3. Vals(less.work) = RemoveAt(Vals(s.work), from)
        BY <3>1, DeleteVals
      <3> QED
        BY <3>2, <3>3 DEF V
    <2> HIDE DEF less
    <2>4. Vals(moved.work) = InsertAt(W, abs, d)
      <3>1. abs \in 1 .. Len(less.work) + 1
        BY <1>1, <1>7, <1>10, <2>1, <2>3
      <3> QED
        BY <1>2, <2>3, <3>1, InsertVals
    <2> HIDE DEF moved
    <2>5. /\ W \in Seq(Nodes) /\ Len(W) = n - 1
          /\ \A y \in Range(V) : y # d => y \in Range(W)
          /\ \A j \in 1 .. from - 1 : W[j] = V[j]
      BY <1>1, <1>7, RemoveRange DEF n
    <2> HIDE DEF W
    <2> DEFINE A == SubSeq(W, 1, abs - 1)
               B == SubSeq(W, (abs - 1) + 1, Len(W))
    <2>6. abs - 1 \in 0 .. Len(W)
      BY <1>1, <1>7, <1>10, <2>1, <2>5
    <2>7. /\ A \in Seq(Nodes) /\ Len(A) = abs - 1 /\ \A j \in 1 .. abs - 1 : A[j] = W[j]
          /\ B \in Seq(Nodes) /\ W = A \o B
      BY <2>5, <2>6, SubSeqOf
    <2> HIDE DEF A, B
    <2>8. A = X
      <3>1. \A j \in 1 .. abs - 1 : A[j] = X[j]
        <4> TAKE j \in 1 .. abs - 1
        <4>1. j \in 1 .. from - 1
          BY <1>7, <1>10, <2>1
        <4> QED
          BY <1>11, <2>5, <2>7, <4>1
      <3> QED
        BY <1>11, <2>7, <3>1, SameSeq
    <2>9. InsertAt(W, abs, d) = Append(X, d) \o B
      <3>1. Len(X) + 1 = abs
        BY <1>10, <1>11
      <3>2. InsertAt(X \o B, Len(X) + 1, d) = Append(X, d) \o B
        BY <1>2, <1>11, <2>7, InsertBetween
      <3> QED
        BY <2>7, <2>8, <3>1, <3>2
    <2>10. Leads(upto, Vals(moved.work), R)
      <3> DEFINE X1 == Append(X, d)
      <3>1. X1 \in Seq(Nodes)
        BY <1>2, <1>11
      <3>2. Keep(X1, R) = Append(Keep(X, R), d)
        BY <1>2, <1>11, KeepAppend
      <3>3. Vals(moved.work) = X1 \o B
        BY <2>4, <2>9
      <3> HIDE DEF X1
      <3>4. Keep(X1, R) = upto
        BY <1>12, <1>14, <3>2
      <3> QED
        BY <2>7, <3>1, <3>3, <3>4, Zenon DEF Leads
    <2>11. \A y : y \in R => y \in Range(Vals(moved.work))
      <3>1. \A y : y \in Range(InsertAt(W, (abs - 1) + 1, d)) <=> y \in Range(W) \/ y = d
        <4>1. W \in Seq(Nodes) /\ d \in Nodes
          BY <1>2, <2>5
        <4> HIDE DEF d
        <4> QED
          BY <2>6, <4>1, InsertAfter
      <3>2. (abs - 1) + 1 = abs
        BY <1>10
      <3> QED
        BY <1>9, <2>4, <2>5, <3>1, <3>2
    <2> QED
      BY <2>2, <2>10, <2>11 DEF R, upto
  <1> QED
    BY <1>15, <1>16

-----------------------------------------------------------------------------
(* What reconciling leaves behind. *)

(* From array a to array b only desired ids are added, and an item is only  *)
(* deleted because its id is no longer desired, or for a newer item of the  *)
(* same id; all the items of ids no longer desired are deleted.            *)
Replaced(x, a, b) ==
  \E w \in b.items \ a.items : w.val = x.val /\ x.id[1] < w.id[1]

Traces(a, b, gone, R) ==
  /\ a.items \subseteq b.items /\ a.dead \subseteq b.dead
  /\ \A i \in b.items \ a.items : i.val \in R
  /\ \A x \in b.items : x.id \in b.dead =>
       x.id \in a.dead \/ x.val \in gone \/ Replaced(x, a, b)
  /\ \A x \in a.items : x.val \in gone => x.id \in b.dead

(* One more item, and perhaps the one it replaces deleted. *)
LEMMA TracesGrow ==
  ASSUME NEW a, NEW b, IsArray(b), NEW gone, NEW R, Traces(a, b, gone, R),
         NEW c, NEW i, c.items = b.items \cup {i}, i \notin b.items,
         \A j \in b.items : j.id[1] < i.id[1], i.val \in R, i.val \notin gone,
         b.dead \subseteq c.dead,
         \A x \in b.items : x.id \in c.dead => x.id \in b.dead \/ x.val = i.val,
         i.id \notin c.dead
  PROVE  Traces(a, c, gone, R)
  <1>1. a.items \subseteq c.items /\ a.dead \subseteq c.dead
    BY DEF Traces
  <1>2. \A j \in c.items \ a.items : j.val \in R
    BY DEF Traces
  <1>3. ASSUME NEW x \in c.items, x.id \in c.dead
        PROVE  x.id \in a.dead \/ x.val \in gone \/ Replaced(x, a, c)
    <2>1. x \in b.items
      BY <1>3
    <2>2. CASE x.id \in b.dead
      <3>1. x.id \in a.dead \/ x.val \in gone \/ Replaced(x, a, b)
        BY <2>1, <2>2 DEF Traces
      <3> QED
        BY <3>1 DEF Replaced
    <2>3. CASE x.val = i.val
      <3>1. i \in c.items \ a.items /\ x.id[1] < i.id[1]
        BY <2>1 DEF Traces
      <3> QED
        BY <2>3, <3>1 DEF Replaced
    <2> QED
      BY <1>3, <2>1, <2>2, <2>3
  <1>4. \A x \in a.items : x.val \in gone => x.id \in c.dead
    BY DEF Traces
  <1> QED
    BY <1>1, <1>2, <1>3, <1>4 DEF Traces

(* The first pass, and a list that has nothing to remove.                  *)
LEMMA RemoveTraces ==
  ASSUME NEW a, IsArray(a), NEW base, NEW desired
  PROVE  Traces(a, RemoveUndesired(a, base, desired).array,
                Range(base) \ Range(desired), Range(desired))
  <1> DEFINE gone == Range(base) \ Range(desired)
             seen == Visible(a)
             went == {i.id : i \in {j \in Range(seen) : j.val \in gone}}
             b == [a EXCEPT !.dead = @ \cup went]
  <1>1. RemoveUndesired(a, base, desired).array = b
    BY DEF RemoveUndesired
  <1>2. a = [items |-> a.items, dead |-> a.dead] /\ \A i, j \in a.items : i.id = j.id => i = j
    BY DEF IsArray
  <1>3. b.items = a.items /\ b.dead = a.dead \cup went
    BY <1>2
  <1>4. \A i : i \in Range(seen) <=> i \in a.items /\ i.id \notin a.dead
    BY VisibleFacts DEF Shown
  <1>5. \A x \in a.items : x.id \in went => x.val \in gone
    BY <1>2, <1>4
  <1>6. \A x \in a.items : x.val \in gone => x.id \in a.dead \/ x.id \in went
    BY <1>4
  <1> HIDE DEF b, went, gone, seen
  <1>7. Traces(a, b, gone, Range(desired))
    BY <1>3, <1>5, <1>6 DEF Traces
  <1> QED
    BY <1>1, <1>7 DEF gone

LEMMA NothingTraces ==
  ASSUME NEW a, NEW gone, NEW R, \A x \in Shown(a) : x.val \notin gone
  PROVE  Traces(a, a, gone, R)
  BY DEF Traces, Shown

(* Inserting a desired id, and moving one. *)
LEMMA InsertTraces ==
  ASSUME NEW client \in Nat, NEW a, NEW s, Working(s, a, client), NEW gone, NEW R,
         Traces(a, s.array, gone, R),
         NEW at \in 1 .. Len(s.work) + 1, NEW id \in Nodes, id \in R, id \notin gone
  PROVE  Traces(a, Insert(s, client, at, id).array, gone, R)
  <1> DEFINE b == s.array
             c == Insert(s, client, at, id).array
  <1>1. PICK i : Adds(i, b, c, id)
    BY InsertWorks
  <1>2. IsArray(b)
    BY DEF Working
  <1> HIDE DEF c
  <1>3. i.id \notin c.dead
    <2>1. Working(Insert(s, client, at, id), a, client)
      BY InsertWorks
    <2>2. IsArray(c)
      BY <2>1 DEF Working, c
    <2> SUFFICES ASSUME i.id \in c.dead PROVE FALSE
      OBVIOUS
    <2>3. i.id \in IdsOf(b.items)
      BY <1>1, <1>2 DEF Adds, IsArray
    <2>4. PICK j \in b.items : j.id = i.id
      BY <2>3 DEF IdsOf
    <2> QED
      BY <1>1, <2>2, <2>4 DEF Adds, IsArray
  <1> HIDE DEF b
  <1>4. Traces(a, b, gone, R)
    BY DEF b
  <1>5. c.items = b.items \cup {i} /\ c.dead = b.dead /\ i \notin b.items /\ i.val = id
        /\ \A j \in b.items : j.id[1] < i.id[1]
    BY <1>1 DEF Adds
  <1> QED
    BY <1>2, <1>3, <1>4, <1>5, TracesGrow DEF c

LEMMA MoveTraces ==
  ASSUME NEW client \in Nat, NEW a, NEW s, Working(s, a, client), NEW gone, NEW R,
         Traces(a, s.array, gone, R), NEW id \in Nodes, id \in R, id \notin gone,
         NEW from \in 1 .. Len(s.work), s.work[from].val = id,
         NEW to \in 1 .. Len(s.work)
  PROVE  Traces(a, Insert(Delete(s, from), client, to, id).array, gone, R)
  <1> DEFINE b == s.array
             less == Delete(s, from)
             c == Insert(less, client, to, id).array
             x == s.work[from]
  <1>1. /\ Working(less, a, client) /\ Len(less.work) = Len(s.work) - 1
        /\ less.array.items = b.items /\ less.array.dead = b.dead \cup {x.id}
    BY DeleteWorks
  <1>2. x \in b.items /\ Len(s.work) \in Nat
    BY WorkFacts
  <1>3. IsArray(b) /\ Traces(a, b, gone, R) /\ x.val = id
    BY DEF Working
  <1> HIDE DEF less, b, x
  <1>4. to \in 1 .. Len(less.work) + 1
    BY <1>1, <1>2
  <1>5. PICK i : Adds(i, less.array, c, id)
    BY <1>1, <1>4, InsertWorks
  <1>6. Working(Insert(less, client, to, id), a, client)
    BY <1>1, <1>4, InsertWorks
  <1>7. IsArray(c)
    BY <1>6 DEF Working
  <1> HIDE DEF c
  <1>8. c.items = b.items \cup {i} /\ c.dead = b.dead \cup {x.id} /\ i \notin b.items
        /\ i.val = id /\ \A j \in b.items : j.id[1] < i.id[1]
    BY <1>1, <1>5 DEF Adds
  <1>9. i.id \notin c.dead
    <2> SUFFICES ASSUME i.id \in c.dead PROVE FALSE
      OBVIOUS
    <2>1. i.id \in IdsOf(b.items)
      BY <1>2, <1>3, <1>8 DEF IsArray, IdsOf
    <2>2. PICK j \in b.items : j.id = i.id
      BY <2>1 DEF IdsOf
    <2> QED
      BY <1>7, <1>8, <2>2 DEF IsArray
  <1>10. \A y \in b.items : y.id \in c.dead => y.id \in b.dead \/ y.val = i.val
    BY <1>2, <1>3, <1>8 DEF IsArray
  <1>11. Traces(a, c, gone, R)
    <2>1. b.dead \subseteq c.dead /\ i.val \in R /\ i.val \notin gone
      BY <1>8
    <2> QED
      BY <1>3, <1>8, <1>9, <1>10, <2>1, TracesGrow
  <1> QED
    BY <1>11 DEF c, less

-----------------------------------------------------------------------------
(* The passes, step by step. *)

(* A step of the second pass adds what is missing and takes nothing away.  *)
LEMMA AddOneAdds ==
  ASSUME NEW client \in Nat, NEW a, NEW s, Working(s, a, client), NEW base,
         NEW desired \in Seq(Nodes), NEW k \in 1 .. Len(desired), NEW gone,
         gone \cap Range(desired) = {}, Traces(a, s.array, gone, Range(desired))
  PROVE  /\ Traces(a, AddOne(s, client, base, desired, k).array, gone, Range(desired))
         /\ \A y \in Range(Vals(s.work)) :
              y \in Range(Vals(AddOne(s, client, base, desired, k).work))
         /\ \/ desired[k] \in Range(base)
            \/ desired[k] \in Range(Vals(AddOne(s, client, base, desired, k).work))
  <1> DEFINE V == Vals(s.work)
             d == desired[k]
             R == Range(desired)
  <1>1. PICK at \in 1 .. Len(s.work) + 1 : AddsAt(at, s, client, base, desired, k)
    BY AddOneIs
  <1>2. d \in Nodes /\ d \in R /\ d \notin gone
    BY DEF Range
  <1>3. V \in Seq(Nodes) /\ Len(V) = Len(s.work) /\ s.work \in Seq(Item)
    BY WorkVals
  <1>4. Find(s.work, d) > 0 => d \in Range(V)
    BY <1>3, FindFirst
  <1>5. CASE AddOne(s, client, base, desired, k) = s /\ (d \in Range(base) \/ Find(s.work, d) > 0)
    BY <1>4, <1>5
  <1>6. CASE AddOne(s, client, base, desired, k) = Insert(s, client, at, d)
    <2>1. Traces(a, Insert(s, client, at, d).array, gone, R)
      BY <1>1, <1>2, InsertTraces
    <2>2. Vals(Insert(s, client, at, d).work) = InsertAt(V, at, d)
      BY <1>1, <1>2, InsertVals
    <2>3. at - 1 \in 0 .. Len(V) /\ (at - 1) + 1 = at
      BY <1>1, <1>3
    <2> HIDE DEF V, d, R
    <2>4. \A y : y \in Range(InsertAt(V, (at - 1) + 1, d)) <=> y \in Range(V) \/ y = d
      <3> DEFINE m == at - 1
      <3>1. V \in Seq(Nodes) /\ d \in Nodes /\ m \in 0 .. Len(V)
        BY <1>2, <1>3, <2>3
      <3> HIDE DEF m
      <3>2. \A y : y \in Range(InsertAt(V, m + 1, d)) <=> y \in Range(V) \/ y = d
        BY <3>1, InsertAfter
      <3> QED
        BY <3>2 DEF m
    <2> QED
      BY <1>6, <2>1, <2>2, <2>3, <2>4 DEF V, d, R
  <1> QED
    BY <1>1, <1>5, <1>6 DEF AddsAt

LEMMA MoveOneTraces ==
  ASSUME NEW client \in Nat, NEW a, NEW s, Working(s, a, client),
         NEW desired \in Seq(Nodes), NEW k \in 1 .. Len(desired), NEW gone,
         gone \cap Range(desired) = {}, Traces(a, s.array, gone, Range(desired))
  PROVE  Traces(a, MoveOne(s, client, desired, k).array, gone, Range(desired))
  <1> SUFFICES ASSUME NEW from \in 1 .. Len(s.work), NEW to \in 1 .. Len(s.work),
                      MovesTo(from, to, s, client, desired, k)
               PROVE  Traces(a, MoveOne(s, client, desired, k).array, gone, Range(desired))
    BY MoveOneIs
  <1>1. desired[k] \in Nodes /\ desired[k] \in Range(desired) /\ desired[k] \notin gone
    BY DEF Range
  <1> QED
    BY <1>1, MoveTraces DEF MovesTo

(* The second pass.                                                        *)
LEMMA AddDesiredAdds ==
  ASSUME NEW client \in Nat, NEW a, NEW st, Working(st, a, client), NEW base,
         NEW desired \in Seq(Nodes), NEW gone,
         gone \cap Range(desired) = {}, Traces(a, st.array, gone, Range(desired)),
         \A y \in Range(desired) : y \in Range(base) => y \in Range(Vals(st.work))
  PROVE  /\ Traces(a, AddDesired(st, client, base, desired).array, gone, Range(desired))
         /\ Range(desired) \subseteq Range(Vals(AddDesired(st, client, base, desired).work))
  <1>0. PICK done : AddSteps(done, st, a, client, base, desired)
    BY AddDesiredUnfolds
  <1>1. /\ done[0] = st /\ AddDesired(st, client, base, desired) = done[Len(desired)]
        /\ \A k \in 1 .. Len(desired) : done[k] = AddOne(done[k - 1], client, base, desired, k)
        /\ \A k \in 0 .. Len(desired) : Working(done[k], a, client)
    BY <1>0, Zenon DEF AddSteps
  <1> DEFINE R == Range(desired)
             n == Len(desired)
             there(s) == Range(Vals(s.work))
  <1>2. n \in Nat
    OBVIOUS
  <1> DEFINE Good == {k \in Nat : /\ Traces(a, done[k].array, gone, R)
                                  /\ \A y \in there(st) : y \in there(done[k])
                                  /\ \A j \in 1 .. k : \/ desired[j] \in Range(base)
                                                       \/ desired[j] \in there(done[k])}
  <1>3. 0 \in Good
    BY <1>1
  <1>4. ASSUME NEW k \in 1 .. n, k - 1 \in Good PROVE k \in Good
    <2> DEFINE s == done[k - 1]
               t == done[k]
    <2>1. Working(s, a, client) /\ t = AddOne(s, client, base, desired, k) /\ k \in Nat
      BY <1>1, <1>2
    <2>2. /\ Traces(a, s.array, gone, R)
          /\ \A y \in there(st) : y \in there(s)
          /\ \A j \in 1 .. k - 1 : desired[j] \in Range(base) \/ desired[j] \in there(s)
      BY <1>4
    <2> HIDE DEF s, t, Good
    <2>3. /\ Traces(a, t.array, gone, R)
          /\ \A y \in there(s) : y \in there(t)
          /\ desired[k] \in Range(base) \/ desired[k] \in there(t)
      BY <2>1, <2>2, AddOneAdds
    <2>4. \A j \in 1 .. k : desired[j] \in Range(base) \/ desired[j] \in there(t)
      <3> TAKE j \in 1 .. k
      <3>1. j \in 1 .. k - 1 \/ j = k
        BY <1>2
      <3> QED
        BY <2>2, <2>3, <3>1
    <2> QED
      BY <2>1, <2>2, <2>3, <2>4 DEF Good, t
  <1> HIDE DEF Good, n
  <1>5. \A k \in 0 .. n : k \in Good
    BY <1>2, <1>3, <1>4, CountUp
  <1>6. n \in Good
    BY <1>2, <1>5
  <1>7. /\ Traces(a, done[n].array, gone, R)
        /\ \A y \in there(st) : y \in there(done[n])
        /\ \A j \in 1 .. n : desired[j] \in Range(base) \/ desired[j] \in there(done[n])
    BY <1>6 DEF Good
  <1>8. \A y \in R : y \in there(done[n])
    <2> TAKE y \in R
    <2>1. PICK j \in 1 .. n : y = desired[j]
      BY DEF Range, n
    <2> QED
      BY <1>7, <2>1
  <1> QED
    BY <1>1, <1>7, <1>8 DEF n

(* The third pass puts the desired ids in their order. *)
LEMMA ReorderOrders ==
  ASSUME NEW client \in Nat, NEW a, NEW st, Working(st, a, client),
         NEW desired \in Seq(Nodes), IsInjective(desired), NEW gone,
         gone \cap Range(desired) = {}, Traces(a, st.array, gone, Range(desired)),
         Range(desired) \subseteq Range(Vals(st.work))
  PROVE  /\ Traces(a, Reorder(st, client, desired).array, gone, Range(desired))
         /\ Leads(desired, Vals(Reorder(st, client, desired).work), Range(desired))
  <1>0. PICK done : MoveSteps(done, st, a, client, desired)
    BY ReorderUnfolds
  <1>1. /\ done[0] = st /\ Reorder(st, client, desired) = done[Len(desired)]
        /\ \A k \in 1 .. Len(desired) : done[k] = MoveOne(done[k - 1], client, desired, k)
        /\ \A k \in 0 .. Len(desired) : Working(done[k], a, client)
    BY <1>0, Zenon DEF MoveSteps
  <1> DEFINE R == Range(desired)
             n == Len(desired)
  <1>2. n \in Nat
    OBVIOUS
  <1> DEFINE Good == {k \in Nat : /\ Traces(a, done[k].array, gone, R)
                                  /\ R \subseteq Range(Vals(done[k].work))
                                  /\ Leads(SubSeq(desired, 1, k), Vals(done[k].work), R)}
  <1>3. 0 \in Good
    <2> DEFINE V == Vals(st.work)
    <2>1. V \in Seq(Nodes)
      BY WorkVals
    <2> HIDE DEF V
    <2>2. << >> \in Seq(Nodes) /\ V = << >> \o V
      BY <2>1
    <2>3. Keep(<< >>, R) = << >>
      BY KeepNothing
    <2>4. SubSeq(desired, 1, 0) = << >>
      OBVIOUS
    <2>5. Leads(SubSeq(desired, 1, 0), V, R)
      BY <2>1, <2>2, <2>3, <2>4, Zenon DEF Leads
    <2> QED
      BY <1>1, <2>5 DEF V
  <1>4. ASSUME NEW k \in 1 .. n, k - 1 \in Good PROVE k \in Good
    <2> DEFINE s == done[k - 1]
               t == done[k]
    <2>1. Working(s, a, client) /\ t = MoveOne(s, client, desired, k) /\ k \in Nat
      BY <1>1, <1>2
    <2>2. /\ Traces(a, s.array, gone, R)
          /\ R \subseteq Range(Vals(s.work))
          /\ Leads(SubSeq(desired, 1, k - 1), Vals(s.work), R)
      BY <1>4
    <2> HIDE DEF s, t, Good
    <2>3. Traces(a, t.array, gone, R)
      BY <2>1, <2>2, MoveOneTraces
    <2>4. R \subseteq Range(Vals(t.work)) /\ Leads(SubSeq(desired, 1, k), Vals(t.work), R)
      BY <2>1, <2>2, MoveOneOrder
    <2> QED
      BY <2>1, <2>3, <2>4 DEF Good, t
  <1> HIDE DEF Good, n
  <1>5. \A k \in 0 .. n : k \in Good
    BY <1>2, <1>3, <1>4, CountUp
  <1>6. n \in Good
    BY <1>2, <1>5
  <1>7. SubSeq(desired, 1, n) = desired
    BY DEF n
  <1> QED
    BY <1>1, <1>6, <1>7 DEF Good, n

(* A fresh array is filled in order. *)
LEMMA FillOrders ==
  ASSUME NEW client \in Nat, NEW a, IsArray(a), Visible(a) = << >>,
         NEW desired \in Seq(Nodes), NEW gone, gone \cap Range(desired) = {}
  PROVE  /\ Traces(a, Fill(a, client, desired), gone, Range(desired))
         /\ Vals(Visible(Fill(a, client, desired))) = desired
  <1>0. PICK done : FillSteps(done, a, client, desired)
    BY FillUnfolds
  <1>1. /\ done[0] = [array |-> a, work |-> << >>]
        /\ Fill(a, client, desired) = done[Len(desired)].array
        /\ \A k \in 1 .. Len(desired) : done[k] = Insert(done[k - 1], client, k, desired[k])
        /\ \A k \in 0 .. Len(desired) : Working(done[k], a, client) /\ Len(done[k].work) = k
    BY <1>0, Zenon DEF FillSteps
  <1> DEFINE R == Range(desired)
             n == Len(desired)
             Good == {k \in Nat : /\ Traces(a, done[k].array, gone, R)
                                  /\ Vals(done[k].work) = SubSeq(desired, 1, k)}
  <1>2. n \in Nat
    OBVIOUS
  <1>3. 0 \in Good
    <2>1. done[0].array = a /\ done[0].work = << >>
      BY <1>1
    <2>2. Shown(a) = {}
      <3>1. Range(Visible(a)) = Shown(a)
        BY VisibleFacts
      <3>2. Range(<< >>) = {}
        BY DEF Range
      <3> QED
        BY <3>1, <3>2
    <2>3. Traces(a, a, gone, R)
      BY <2>2, NothingTraces
    <2>4. Vals(<< >>) = << >> /\ SubSeq(desired, 1, 0) = << >>
      BY DEF Vals
    <2> QED
      BY <2>1, <2>3, <2>4
  <1>4. ASSUME NEW k \in 1 .. n, k - 1 \in Good PROVE k \in Good
    <2> DEFINE s == done[k - 1]
               t == done[k]
               first == SubSeq(desired, 1, k - 1)
               d == desired[k]
    <2>1. /\ Working(s, a, client) /\ t = Insert(s, client, k, d) /\ k \in Nat
          /\ Len(s.work) = k - 1
      BY <1>1, <1>2
    <2>2. Traces(a, s.array, gone, R) /\ Vals(s.work) = first
      BY <1>4
    <2>3. d \in Nodes /\ d \in R /\ d \notin gone
      BY DEF Range
    <2>4. first \in Seq(Nodes) /\ Len(first) = k - 1
      OBVIOUS
    <2>5. SubSeq(desired, 1, k) = Append(first, d)
      BY CutAt
    <2> HIDE DEF s, t, Good, first, d
    <2>6. k \in 1 .. Len(s.work) + 1
      BY <2>1
    <2>7. Traces(a, t.array, gone, R)
      BY <2>1, <2>2, <2>3, <2>6, InsertTraces
    <2>8. Vals(t.work) = InsertAt(first, k, d)
      BY <2>1, <2>2, <2>3, <2>6, InsertVals
    <2>9. InsertAt(first, k, d) = Append(first, d)
      <3>1. << >> \in Seq(Nodes) /\ first \o << >> = first /\ Append(first, d) \o << >> = Append(first, d)
        BY <2>3, <2>4
      <3>2. InsertAt(first \o << >>, Len(first) + 1, d) = Append(first, d) \o << >>
        BY <2>3, <2>4, <3>1, InsertBetween
      <3>3. Len(first) + 1 = k
        BY <2>1, <2>4
      <3> QED
        BY <3>1, <3>2, <3>3
    <2> QED
      BY <2>1, <2>5, <2>7, <2>8, <2>9 DEF Good, t
  <1> HIDE DEF Good, n
  <1>5. \A k \in 0 .. n : k \in Good
    BY <1>2, <1>3, <1>4, CountUp
  <1>6. n \in Good
    BY <1>2, <1>5
  <1>7. SubSeq(desired, 1, n) = desired
    BY DEF n
  <1>8. Working(done[n], a, client)
    BY <1>1 DEF n
  <1> QED
    BY <1>1, <1>6, <1>7, <1>8 DEF Good, n, Working

LEMMA LeadsAll ==
  ASSUME NEW C \in Seq(Nodes)
  PROVE  Leads(C, C, Range(C))
  <1>1. Keep(C, Range(C)) = C
    BY KeepAll
  <1>2. << >> \in Seq(Nodes) /\ C = C \o << >>
    OBVIOUS
  <1> QED
    BY <1>1, <1>2, Zenon DEF Leads

(* reconcileKeyedArray: the desired ids stand in their order before any    *)
(* other that a concurrent save put there, and of those that are gone from *)
(* the page none is left.                                                  *)
LEMMA ReconcileFacts ==
  ASSUME NEW client \in Nat, NEW a, IsArray(a), NEW base, NEW desired \in Seq(Nodes),
         IsInjective(desired), base # desired,
         \A y \in Range(desired) : y \in Range(base) => y \in Range(Vals(Visible(a)))
  PROVE  /\ Traces(a, Reconcile(a, client, base, desired),
                   Range(base) \ Range(desired), Range(desired))
         /\ Leads(desired, Vals(Visible(Reconcile(a, client, base, desired))), Range(desired))
  <1> DEFINE gone == Range(base) \ Range(desired)
             R == Range(desired)
             seen == Visible(a)
             cur == Vals(seen)
             removed == RemoveUndesired(a, base, desired)
             added == AddDesired(removed, client, base, desired)
             moved == Reorder(added, client, desired)
             b == Reconcile(a, client, base, desired)
  <1>1. seen \in Seq(Item) /\ seen \in Seq(a.items) /\ Range(seen) = Shown(a)
    <2>1. seen \in Seq(a.items) /\ Range(seen) = Shown(a) /\ a.items \subseteq Item
      BY VisibleFacts DEF IsArray
    <2> HIDE DEF seen
    <2> QED
      BY <2>1
  <1>2. \A v : v \in Range(cur) <=> \E i \in Shown(a) : i.val = v
    <2> HIDE DEF seen
    <2> QED
      BY <1>1, ValsFacts
  <1>3. gone \cap R = {}
    OBVIOUS
  <1>4. CASE cur = desired
    <2>1. b = a
      BY <1>4 DEF Reconcile
    <2>2. \A x \in Shown(a) : x.val \notin gone
      BY <1>2, <1>4
    <2> HIDE DEF gone, b, cur
    <2>3. Traces(a, a, gone, R)
      BY <2>2, NothingTraces
    <2>4. Leads(desired, desired, R)
      BY LeadsAll
    <2> QED
      BY <1>4, <2>1, <2>3, <2>4 DEF b, cur, gone
  <1>5. CASE cur # desired /\ cur = << >>
    <2>1. b = Fill(a, client, desired)
      BY <1>5 DEF Reconcile
    <2>2. seen = << >>
      <3> HIDE DEF seen
      <3> QED
        BY <1>1, <1>5 DEF Vals
    <2> HIDE DEF gone, b
    <2>3. /\ Traces(a, Fill(a, client, desired), gone, R)
          /\ Vals(Visible(Fill(a, client, desired))) = desired
      BY <1>3, <2>2, FillOrders
    <2>4. Leads(desired, desired, R)
      BY LeadsAll
    <2> QED
      BY <2>1, <2>3, <2>4 DEF b, gone
  <1>6. CASE cur # desired /\ cur # << >>
    <2>1. b = moved.array
      BY <1>6 DEF Reconcile
    <2>2. Working(removed, a, client)
      BY RemoveUndesiredWorks
    <2>3. Traces(a, removed.array, gone, R)
      BY RemoveTraces
    <2>4. \A y \in R : y \in Range(base) => y \in Range(Vals(removed.work))
      <3> TAKE y \in R
      <3> HAVE y \in Range(base)
      <3> DEFINE kept == {i \in Range(seen) : i.val \notin gone}
      <3>1. removed.work = Keep(seen, kept)
        BY DEF RemoveUndesired
      <3>2. PICK i \in Shown(a) : i.val = y
        BY <1>2
      <3>3. i \in kept
        BY <1>1, <3>2
      <3> HIDE DEF kept, removed, seen
      <3>4. i \in Range(removed.work)
        BY <1>1, <3>1, <3>2, <3>3, KeepRange
      <3>5. removed.work \in Seq(Item)
        BY <2>2, WorkVals
      <3> QED
        BY <3>2, <3>4, <3>5, ValsFacts
    <2> HIDE DEF removed, b, gone
    <2>5. Working(added, a, client)
      BY <2>2, AddDesiredWorks
    <2>6. Traces(a, added.array, gone, R) /\ R \subseteq Range(Vals(added.work))
      BY <1>3, <2>2, <2>3, <2>4, AddDesiredAdds
    <2> HIDE DEF added
    <2>7. Working(moved, a, client)
      BY <2>5, ReorderWorks
    <2>8. Traces(a, moved.array, gone, R) /\ Leads(desired, Vals(moved.work), R)
      BY <1>3, <2>5, <2>6, ReorderOrders
    <2> HIDE DEF moved
    <2> QED
      BY <2>1, <2>7, <2>8 DEF Working, b, gone
  <1> QED
    BY <1>4, <1>5, <1>6

-----------------------------------------------------------------------------
(* A page of one level. *)

(* The ids of a list that are in L, each at its first place. *)
Firsts(seq, L) ==
  LET first[k \in 0 .. Len(seq)] ==
        IF k = 0 THEN << >>
        ELSE IF seq[k] \in L /\ seq[k] \notin Range(first[k - 1])
        THEN Append(first[k - 1], seq[k])
        ELSE first[k - 1]
  IN  first[Len(seq)]

FirstsOf(first, seq, L) ==
  /\ first[0] = << >> /\ Firsts(seq, L) = first[Len(seq)]
  /\ \A k \in 1 .. Len(seq) :
       first[k] = IF seq[k] \in L /\ seq[k] \notin Range(first[k - 1])
                  THEN Append(first[k - 1], seq[k]) ELSE first[k - 1]

LEMMA FirstsUnfolds ==
  ASSUME NEW T, NEW seq \in Seq(T), NEW L
  PROVE  \E first : FirstsOf(first, seq, L)
  <1> DEFINE V == Seq(T)
             n == Len(seq)
             none == << >>
             step(s, k) == IF seq[k] \in L /\ seq[k] \notin Range(s)
                           THEN Append(s, seq[k]) ELSE s
             next == [k \in 1 .. n |-> [s \in V |-> step(s, k)]]
             body(f) == [k \in 0 .. n |-> IF k = 0 THEN none ELSE step(f[k - 1], k)]
             first == CHOOSE f : f = body(f)
  <1>1. Firsts(seq, L) = first[n]
    BY DEF Firsts
  <1> HIDE DEF first
  <1>2. ASSUME NEW s \in V, NEW k \in 1 .. n PROVE step(s, k) \in V
    <2>1. seq[k] \in T
      OBVIOUS
    <2> QED
      BY <2>1
  <1>3. n \in Nat /\ none \in V
    OBVIOUS
  <1> HIDE DEF V, n, none, step
  <1>4. \A k \in 1 .. n : \A s \in V : next[k][s] = step(s, k)
    OBVIOUS
  <1>5. PICK f : Solution(f, n, V, none, next)
    <2>1. next \in [1 .. n -> [V -> V]]
      BY <1>2
    <2> HIDE DEF next
    <2> QED
      BY <1>3, <2>1, Recursion
  <1> HIDE DEF next
  <1>6. \A k \in 1 .. n : f[k] = step(f[k - 1], k)
    <2> TAKE k \in 1 .. n
    <2>1. f[k - 1] \in V
      BY <1>3, <1>5 DEF Solution
    <2> QED
      BY <1>4, <1>5, <2>1 DEF Solution
  <1>7. f = body(f)
    <2>1. \A k \in 0 .. n : f[k] = IF k = 0 THEN none ELSE step(f[k - 1], k)
      BY <1>3, <1>5, <1>6 DEF Solution
    <2> QED
      BY <1>5, <2>1 DEF Solution
  <1>8. first = body(first)
    BY <1>7 DEF first
  <1>9. first[0] = none /\ \A k \in 1 .. n : first[k] = step(first[k - 1], k)
    BY <1>3, <1>8
  <1>10. FirstsOf(first, seq, L)
    BY <1>1, <1>9 DEF step, n, none, FirstsOf
  <1> QED
    BY <1>10

LEMMA FirstsNothing ==
  ASSUME NEW L
  PROVE  Firsts(<< >>, L) = << >>
  <1>1. << >> \in Seq({}) /\ Len(<< >>) = 0
    OBVIOUS
  <1>2. PICK f : FirstsOf(f, << >>, L)
    BY <1>1, FirstsUnfolds
  <1> QED
    BY <1>1, <1>2 DEF FirstsOf

LEMMA FirstsAppend ==
  ASSUME NEW T, NEW s \in Seq(T), NEW x \in T, NEW L
  PROVE  Firsts(Append(s, x), L) =
           IF x \in L /\ x \notin Range(Firsts(s, L)) THEN Append(Firsts(s, L), x)
           ELSE Firsts(s, L)
  <1> DEFINE t == Append(s, x)
             n == Len(s)
  <1>1. t \in Seq(T) /\ Len(t) = n + 1 /\ t[n + 1] = x /\ \A k \in 1 .. n : t[k] = s[k]
    OBVIOUS
  <1>2. PICK f : FirstsOf(f, s, L)
    BY FirstsUnfolds
  <1> HIDE DEF t
  <1>3. PICK g : FirstsOf(g, t, L)
    BY <1>1, FirstsUnfolds
  <1>4. n \in Nat /\ n = Len(s)
    OBVIOUS
  <1> HIDE DEF n
  <1> DEFINE Same == {k \in Nat : g[k] = f[k]}
  <1>5. \A k \in 0 .. n : k \in Same
    <2>1. 0 \in Same
      BY <1>2, <1>3 DEF FirstsOf
    <2>2. ASSUME NEW k \in 1 .. n, k - 1 \in Same PROVE k \in Same
      BY <1>1, <1>2, <1>3, <1>4, <2>2 DEF FirstsOf
    <2> HIDE DEF Same
    <2> QED
      BY <1>4, <2>1, <2>2, CountUp
  <1>6. g[n] = f[n]
    BY <1>4, <1>5
  <1>7. g[n + 1] = IF x \in L /\ x \notin Range(g[n]) THEN Append(g[n], x) ELSE g[n]
    BY <1>1, <1>3, <1>4 DEF FirstsOf
  <1> QED
    BY <1>1, <1>2, <1>3, <1>4, <1>6, <1>7 DEF t, FirstsOf

LEMMA FirstsRange ==
  ASSUME NEW T, NEW s \in Seq(T), NEW L
  PROVE  /\ Firsts(s, L) \in Seq(T) /\ IsInjective(Firsts(s, L))
         /\ \A y : y \in Range(Firsts(s, L)) <=> y \in Range(s) /\ y \in L
  <1> DEFINE Good == {t \in Seq(T) :
                        /\ Firsts(t, L) \in Seq(T) /\ IsInjective(Firsts(t, L))
                        /\ \A y : y \in Range(Firsts(t, L)) <=> y \in Range(t) /\ y \in L}
  <1>1. << >> \in Good
    <2>1. Range(<< >>) = {} /\ IsInjective(<< >>)
      BY DEF Range, IsInjective
    <2>2. << >> \in Seq(T)
      OBVIOUS
    <2>3. Firsts(<< >>, L) = << >>
      BY FirstsNothing
    <2> QED
      BY <2>1, <2>2, <2>3
  <1>2. ASSUME NEW t \in Seq(T), NEW x \in T, t \in Good
        PROVE  Append(t, x) \in Good
    <2>1. /\ Firsts(t, L) \in Seq(T) /\ IsInjective(Firsts(t, L))
          /\ \A y : y \in Range(Firsts(t, L)) <=> y \in Range(t) /\ y \in L
      BY <1>2
    <2>2. Append(t, x) \in Seq(T) /\ Range(Append(t, x)) = Range(t) \cup {x}
      BY AppendRange
    <2>3. CASE x \in L /\ x \notin Range(Firsts(t, L))
      <3>1. Firsts(Append(t, x), L) = Append(Firsts(t, L), x)
        BY <2>3, FirstsAppend
      <3>2. /\ Range(Append(Firsts(t, L), x)) = Range(Firsts(t, L)) \cup {x}
            /\ IsInjective(Append(Firsts(t, L), x))
        BY <2>1, <2>3, AppendRange
      <3>3. Append(Firsts(t, L), x) \in Seq(T)
        BY <2>1
      <3> QED
        BY <2>1, <2>2, <2>3, <3>1, <3>2, <3>3
    <2>4. CASE ~(x \in L /\ x \notin Range(Firsts(t, L)))
      <3>1. Firsts(Append(t, x), L) = Firsts(t, L)
        BY <2>4, FirstsAppend
      <3> QED
        BY <2>1, <2>2, <2>4, <3>1
    <2> QED
      BY <2>3, <2>4
  <1> HIDE DEF Good
  <1>3. s \in Good
    BY <1>1, <1>2, Lengthen
  <1> QED
    BY <1>3 DEF Good

(* Keeping some and taking each at its first place commute. *)
LEMMA FirstsKeep ==
  ASSUME NEW T, NEW s \in Seq(T), NEW L, NEW S
  PROVE  Keep(Firsts(s, L), S) = Firsts(Keep(s, S), L)
  <1> DEFINE Good == {t \in Seq(T) : Keep(Firsts(t, L), S) = Firsts(Keep(t, S), L)}
  <1>1. << >> \in Good
    <2>1. << >> \in Seq(T) /\ Keep(<< >>, S) = << >> /\ Firsts(<< >>, L) = << >>
      BY KeepNothing, FirstsNothing
    <2> QED
      BY <2>1
  <1>2. ASSUME NEW t \in Seq(T), NEW x \in T, t \in Good
        PROVE  Append(t, x) \in Good
    <2> DEFINE f == Firsts(t, L)
               k == Keep(t, S)
               g == Firsts(k, L)
    <2>1. Keep(f, S) = g /\ Append(t, x) \in Seq(T)
      BY <1>2
    <2>2. f \in Seq(T) /\ \A y : y \in Range(f) <=> y \in Range(t) /\ y \in L
      BY FirstsRange
    <2>3. k \in Seq(T) /\ \A y : y \in Range(k) <=> y \in Range(t) /\ y \in S
      <3>1. k \in Seq(T)
        BY KeepIn
      <3>2. Range(k) = Range(t) \cap S
        BY KeepRange
      <3> QED
        BY <3>1, <3>2
    <2> HIDE DEF k, f
    <2>4. \A y : y \in Range(g) <=> y \in Range(k) /\ y \in L
      BY <2>3, FirstsRange
    <2> HIDE DEF g
    <2>5. Firsts(Append(t, x), L) = IF x \in L /\ x \notin Range(f) THEN Append(f, x) ELSE f
      BY FirstsAppend DEF f
    <2>6. Keep(Append(t, x), S) = IF x \in S THEN Append(k, x) ELSE k
      BY KeepAppend DEF k
    <2>7. Keep(Append(f, x), S) = IF x \in S THEN Append(g, x) ELSE g
      <3>1. Keep(Append(f, x), S) = IF x \in S THEN Append(Keep(f, S), x) ELSE Keep(f, S)
        BY <2>2, KeepAppend
      <3> QED
        BY <2>1, <3>1
    <2>8. Firsts(Append(k, x), L) = IF x \in L /\ x \notin Range(g) THEN Append(g, x) ELSE g
      BY <2>3, FirstsAppend DEF g
    <2>9. Keep(Firsts(Append(t, x), L), S) = Firsts(Keep(Append(t, x), S), L)
      <3>1. CASE x \in S
        <4>1. x \in Range(g) <=> x \in Range(f) /\ x \in L
          BY <2>2, <2>3, <2>4, <3>1
        <4> QED
          BY <2>1, <2>2, <2>5, <2>6, <2>7, <2>8, <3>1, <4>1, Zenon
      <3>2. CASE x \notin S
        BY <2>1, <2>5, <2>6, <2>7, <3>2, Zenon DEF g
      <3> QED
        BY <3>1, <3>2
    <2> QED
      BY <2>1, <2>9
  <1> HIDE DEF Good
  <1>3. s \in Good
    BY <1>1, <1>2, Lengthen
  <1> QED
    BY <1>3 DEF Good

(* What repeats ids that were met adds nothing. *)
LEMMA FirstsMore ==
  ASSUME NEW T, NEW c \in Seq(T), NEW w \in Seq(T), NEW L,
         \A y \in Range(w) : y \in L => y \in Range(c)
  PROVE  Firsts(c \o w, L) = Firsts(c, L)
  <1> DEFINE f == Firsts(c, L)
             Good == {t \in Seq(T) :
                        (\A y \in Range(t) : y \in L => y \in Range(c)) => Firsts(c \o t, L) = f}
  <1>0. f \in Seq(T) /\ \A y : y \in Range(f) <=> y \in Range(c) /\ y \in L
    BY FirstsRange
  <1>1. << >> \in Good
    <2>1. << >> \in Seq(T) /\ c \o << >> = c
      OBVIOUS
    <2> QED
      BY <2>1
  <1> HIDE DEF f
  <1>2. ASSUME NEW t \in Seq(T), NEW x \in T, t \in Good
        PROVE  Append(t, x) \in Good
    <2>1. Append(t, x) \in Seq(T) /\ Range(Append(t, x)) = Range(t) \cup {x}
      BY AppendRange
    <2>2. SUFFICES ASSUME \A y \in Range(Append(t, x)) : y \in L => y \in Range(c)
                   PROVE  Firsts(c \o Append(t, x), L) = f
      BY <2>1
    <2>3. Firsts(c \o t, L) = f
      BY <1>2, <2>1, <2>2
    <2>4. x \in L => x \in Range(c)
      BY <2>1, <2>2
    <2>5. c \o t \in Seq(T) /\ c \o Append(t, x) = Append(c \o t, x)
      OBVIOUS
    <2>6. Firsts(Append(c \o t, x), L) =
            IF x \in L /\ x \notin Range(f) THEN Append(f, x) ELSE f
      <3> DEFINE u == c \o t
      <3>1. u \in Seq(T)
        BY <2>5
      <3> HIDE DEF u
      <3>2. Firsts(Append(u, x), L) =
              IF x \in L /\ x \notin Range(Firsts(u, L)) THEN Append(Firsts(u, L), x)
              ELSE Firsts(u, L)
        BY <3>1, FirstsAppend
      <3> QED
        BY <2>3, <3>2 DEF u
    <2> QED
      BY <1>0, <2>4, <2>5, <2>6
  <1> HIDE DEF Good
  <1>3. w \in Good
    BY <1>1, <1>2, Lengthen
  <1> QED
    BY <1>3 DEF Good, f

LEMMA TailOf ==
  ASSUME NEW T, NEW s \in Seq(T), NEW k \in 1 .. Len(s)
  PROVE  /\ SubSeq(s, k, Len(s)) # << >> /\ SubSeq(s, k, Len(s))[1] = s[k]
         /\ Tail(SubSeq(s, k, Len(s))) = SubSeq(s, k + 1, Len(s))
  <1> DEFINE a == SubSeq(s, (k - 1) + 1, Len(s))
             b == SubSeq(s, k + 1, Len(s))
             n == Len(s)
  <1>0. n \in Nat /\ k \in Nat /\ k >= 1 /\ k <= n /\ k - 1 \in 0 .. n /\ k \in 0 .. n
    OBVIOUS
  <1>1. a \in Seq(T) /\ Len(a) = n - (k - 1) /\ \A j \in 1 .. n - (k - 1) : a[j] = s[(k - 1) + j]
    BY <1>0, SubSeqOf
  <1>2. b \in Seq(T) /\ Len(b) = n - k /\ \A j \in 1 .. n - k : b[j] = s[k + j]
    BY <1>0, SubSeqOf
  <1>3. a = SubSeq(s, k, Len(s))
    BY <1>0
  <1> HIDE DEF a, b, n
  <1>4. a # << >> /\ a[1] = s[k]
    BY <1>0, <1>1
  <1>5. Tail(a) \in Seq(T) /\ Len(Tail(a)) = n - k
    BY <1>0, <1>1, <1>4
  <1>6. \A j \in 1 .. n - k : Tail(a)[j] = b[j]
    <2> TAKE j \in 1 .. n - k
    <2>1. Tail(a)[j] = a[j + 1]
      BY <1>0, <1>1, <1>4
    <2>2. j + 1 \in 1 .. n - (k - 1) /\ (k - 1) + (j + 1) = k + j
      BY <1>0
    <2> QED
      BY <1>1, <1>2, <2>1, <2>2
  <1>7. Tail(a) = b
    <2> DEFINE t == Tail(a)
    <2>1. t \in Seq(T) /\ Len(t) = Len(b) /\ \A j \in 1 .. Len(t) : t[j] = b[j]
      BY <1>2, <1>5, <1>6
    <2> HIDE DEF t
    <2>2. t = b
      BY <1>2, <2>1, SameSeq
    <2> QED
      BY <2>2 DEF t
  <1> QED
    BY <1>3, <1>4, <1>7 DEF b

(* Only the root has children. *)
OneDeep(lists) ==
  /\ Root \in DOMAIN lists /\ lists[Root] \in Seq(Nodes)
  /\ \A n \in DOMAIN lists \ {Root} : lists[n] = << >>

LEMMA FlatWalk ==
  ASSUME NEW lists, OneDeep(lists)
  PROVE  Walk(lists, FALSE) =
           [m \in {Root} \cup (Range(lists[Root]) \cap DOMAIN lists) |->
              IF m = Root THEN Firsts(lists[Root], DOMAIN lists) ELSE << >>]
  <1> DEFINE entries(parent) == [k \in DOMAIN lists[parent] |-> <<parent, lists[parent][k]>>]
             start == [todo |-> entries(Root), met |-> {Root},
                       page |-> [m \in {Root} |-> << >>]]
             visit(s, parent, n, rest) ==
               IF n \in s.met
               THEN [s EXCEPT !.todo = IF FALSE THEN << >> ELSE rest]
               ELSE IF n \notin DOMAIN lists
               THEN [s EXCEPT !.todo = rest,
                              !.met = IF FALSE THEN @ \cup {n} ELSE @]
               ELSE [todo |-> entries(n) \o rest,
                     met  |-> s.met \cup {n},
                     page |-> [m \in DOMAIN s.page \cup {n} |->
                                 IF m = n THEN << >>
                                 ELSE IF m = parent THEN Append(s.page[m], n)
                                 ELSE s.page[m]]]
             step(s) == IF s.todo = << >> THEN s
                        ELSE visit(s, s.todo[1][1], s.todo[1][2], Tail(s.todo))
             entered == Cardinality(UNION {{n} \X DOMAIN lists[n] : n \in DOMAIN lists})
             body(f) == [k \in 0 .. entered |-> IF k = 0 THEN start ELSE step(f[k - 1])]
             walk == CHOOSE f : f = body(f)
             C == lists[Root]
             L == DOMAIN lists
             N == Len(C)
             E == entries(Root)
  <1>1. Walk(lists, FALSE) = walk[entered].page
    BY DEF Walk
  <1> HIDE DEF walk
  <1>2. C \in Seq(Nodes) /\ N \in Nat /\ DOMAIN C = 1 .. N /\ Root \in L /\ Root \notin Nodes
        /\ \A n \in L \ {Root} : lists[n] = << >>
    BY ListsAssumption DEF OneDeep
  <1>3. entered = N
    <2>1. UNION {{n} \X DOMAIN lists[n] : n \in DOMAIN lists} = {Root} \X (1 .. N)
      <3>1. DOMAIN << >> = {}
        OBVIOUS
      <3>2. \A n \in L \ {Root} : DOMAIN lists[n] = {}
        BY <1>2, <3>1
      <3> QED
        BY <1>2, <3>2
    <2>2. IsFiniteSet(1 .. N) /\ Cardinality(1 .. N) = N
      <3>1. /\ IsFiniteSet(1 .. N)
            /\ Cardinality(1 .. N) = IF 1 > N THEN 0 ELSE N - 1 + 1
        BY <1>2, FS_Interval
      <3>2. (IF 1 > N THEN 0 ELSE N - 1 + 1) = N
        BY <1>2
      <3> QED
        BY <3>1, <3>2
    <2>3. IsFiniteSet({Root}) /\ Cardinality({Root}) = 1
      BY FS_Singleton
    <2>4. Cardinality({Root} \X (1 .. N)) = 1 * N
      BY <2>2, <2>3, FS_Product
    <2>5. entered = Cardinality({Root} \X (1 .. N))
      BY <2>1
    <2> HIDE DEF entered, N
    <2>6. \A m \in Nat : 1 * m = m
      OBVIOUS
    <2> QED
      BY <1>2, <2>4, <2>5, <2>6
  <1> HIDE DEF entered
  <1>4. E \in Seq({Root} \X Nodes) /\ Len(E) = N /\ \A k \in 1 .. N : E[k] = <<Root, C[k]>>
    <2>1. \A k \in 1 .. N : <<Root, C[k]>> \in {Root} \X Nodes
      BY <1>2
    <2> QED
      BY <1>2, <2>1
  <1>5. \A n \in L \ {Root} : entries(n) = << >>
    <2> TAKE n \in L \ {Root}
    <2>1. lists[n] = << >>
      BY <1>2
    <2> QED
      BY <2>1
  <1> DEFINE Met(k) == {Root} \cup (Range(SubSeq(C, 1, k)) \cap L)
             Shows(k) == [m \in Met(k) |-> IF m = Root THEN Firsts(SubSeq(C, 1, k), L) ELSE << >>]
             w(k) == [todo |-> SubSeq(E, k + 1, N), met |-> Met(k), page |-> Shows(k)]
  <1>6. start = w(0)
    <2>1. SubSeq(C, 1, 0) = << >> /\ Firsts(<< >>, L) = << >>
      BY <1>2, FirstsNothing
    <2>2. Range(<< >>) = {}
      BY DEF Range
    <2>3. Met(0) = {Root}
      BY <2>1, <2>2
    <2>4. Shows(0) = [m \in {Root} |-> << >>]
      BY <2>1, <2>3
    <2>5. SubSeq(E, 0 + 1, N) = E
      <3> HIDE DEF E
      <3> QED
        BY <1>4
    <2> HIDE DEF Met, Shows, E
    <2> QED
      BY <2>3, <2>4, <2>5 DEF E
  <1> HIDE DEF E, start, C, L, N
  <1>7. ASSUME NEW k \in 1 .. N
        PROVE  w(k) = step(w(k - 1))
    <2> DEFINE s == w(k - 1)
               c0 == SubSeq(C, 1, k - 1)
               c1 == SubSeq(C, 1, k)
               x == C[k]
               f0 == Firsts(c0, L)
               rest == SubSeq(E, k + 1, N)
    <2>1. c0 \in Seq(Nodes) /\ c1 = Append(c0, x) /\ x \in Nodes /\ k - 1 + 1 = k
      BY <1>2, CutAt DEF N
    <2>2. /\ SubSeq(E, k, N) # << >> /\ SubSeq(E, k, N)[1] = <<Root, x>>
          /\ Tail(SubSeq(E, k, N)) = rest
      BY <1>4, TailOf
    <2> HIDE DEF c0, c1, x, rest
    <2>3. /\ f0 \in Seq(Nodes)
          /\ \A y : y \in Range(f0) <=> y \in Range(c0) /\ y \in L
      BY <2>1, FirstsRange
    <2>4. Range(c1) = Range(c0) \cup {x}
      BY <2>1, AppendRange
    <2>5. Firsts(c1, L) = IF x \in L /\ x \notin Range(f0) THEN Append(f0, x) ELSE f0
      BY <2>1, FirstsAppend
    <2> HIDE DEF f0
    <2>6. /\ Met(k - 1) = {Root} \cup (Range(c0) \cap L)
          /\ Met(k) = {Root} \cup (Range(c1) \cap L)
          /\ Shows(k - 1) = [m \in Met(k - 1) |-> IF m = Root THEN f0 ELSE << >>]
          /\ Shows(k) = [m \in Met(k) |-> IF m = Root THEN Firsts(c1, L) ELSE << >>]
      BY DEF c0, c1, f0
    <2>7. x # Root
      BY <1>2, <2>1
    <2> DEFINE met == Met(k - 1)
               page == Shows(k - 1)
    <2>8. s = [todo |-> SubSeq(E, k, N), met |-> met, page |-> page]
      BY <2>1
    <2>9. w(k) = [todo |-> rest, met |-> Met(k), page |-> Shows(k)]
      BY DEF rest
    <2> HIDE DEF s, w, Met, Shows, met, page
    <2>10. step(s) = visit(s, Root, x, rest)
      <3>1. s.todo = SubSeq(E, k, N)
        BY <2>8
      <3>2. s.todo[1] = <<Root, x>> /\ s.todo # << >> /\ Tail(s.todo) = rest
        BY <2>2, <3>1
      <3>3. s.todo[1][1] = Root /\ s.todo[1][2] = x
        BY <3>2
      <3> HIDE DEF visit
      <3> QED
        BY <3>2, <3>3, Zenon
    <2>11. visit(s, Root, x, rest) = w(k)
      <3>1. CASE x \in met
        <4>1. Met(k) = met /\ Firsts(c1, L) = f0
          BY <2>3, <2>4, <2>5, <2>6, <2>7, <3>1 DEF met
        <4>2. Shows(k) = page
          BY <2>6, <4>1 DEF page, met
        <4>3. visit(s, Root, x, rest) = [s EXCEPT !.todo = rest]
          BY <2>8, <3>1
        <4>4. [s EXCEPT !.todo = rest] = [todo |-> rest, met |-> met, page |-> page]
          BY <2>8
        <4> QED
          BY <2>9, <4>1, <4>2, <4>3, <4>4
      <3>2. CASE x \notin met /\ x \notin L
        <4>1. Met(k) = met /\ Firsts(c1, L) = f0
          BY <2>3, <2>4, <2>5, <2>6, <2>7, <3>2 DEF met
        <4>2. Shows(k) = page
          BY <2>6, <4>1 DEF page, met
        <4>3. visit(s, Root, x, rest) = [s EXCEPT !.todo = rest, !.met = @]
          BY <2>8, <3>2 DEF L
        <4>4. [s EXCEPT !.todo = rest, !.met = @] = [todo |-> rest, met |-> met, page |-> page]
          <5> DEFINE t == [s EXCEPT !.todo = rest]
          <5>1. t = [todo |-> rest, met |-> met, page |-> page]
            BY <2>8
          <5>2. [s EXCEPT !.todo = rest, !.met = @] = [t EXCEPT !.met = @]
            BY <2>8
          <5> HIDE DEF t
          <5>3. [t EXCEPT !.met = @] = [todo |-> rest, met |-> met, page |-> page]
            BY <5>1
          <5> QED
            BY <5>2, <5>3
        <4> QED
          BY <2>9, <4>1, <4>2, <4>3, <4>4
      <3>3. CASE x \notin met /\ x \in L
        <4>1. Met(k) = met \cup {x} /\ Firsts(c1, L) = Append(f0, x)
          BY <2>3, <2>4, <2>5, <2>6, <2>7, <3>3 DEF met
        <4>2. /\ DOMAIN page = met
              /\ \A m \in met : page[m] = IF m = Root THEN f0 ELSE << >>
          BY <2>6 DEF met, page
        <4> DEFINE new == [m \in DOMAIN page \cup {x} |->
                             IF m = x THEN << >>
                             ELSE IF m = Root THEN Append(page[m], x)
                             ELSE page[m]]
        <4>3. new = Shows(k)
          <5>1. Shows(k) = [m \in met \cup {x} |-> IF m = Root THEN Append(f0, x) ELSE << >>]
            BY <2>6, <4>1
          <5>2. \A m \in met \cup {x} :
                  new[m] = IF m = Root THEN Append(f0, x) ELSE << >>
            BY <2>7, <4>2
          <5>3. DOMAIN new = met \cup {x}
            BY <4>2
          <5> QED
            BY <4>2, <5>1, <5>2, <5>3
        <4> HIDE DEF new
        <4>4. s.page = page /\ s.met = met
          BY <2>8
        <4>5. entries(x) = << >>
          BY <1>5, <2>7, <3>3 DEF L
        <4>6. rest \in Seq({Root} \X Nodes)
          <5>1. k \in 0 .. Len(E)
            BY <1>2, <1>4
          <5> QED
            BY <1>4, <5>1, SubSeqOf DEF rest
        <4>7. << >> \o rest = rest
          BY <4>6
        <4> HIDE DEF entries
        <4>8. visit(s, Root, x, rest) = [todo |-> entries(x) \o rest, met |-> met \cup {x}, page |-> new]
          BY <3>3, <4>4 DEF L, new
        <4> QED
          BY <2>9, <4>1, <4>3, <4>5, <4>7, <4>8
      <3> QED
        BY <3>1, <3>2, <3>3
    <2> QED
      BY <2>10, <2>11 DEF s
  <1> HIDE DEF w, step
  <1>8. walk = body(walk)
    <2> DEFINE f == [k \in 0 .. entered |-> w(k)]
    <2>1. f = body(f)
      <3>1. \A k \in 0 .. entered : f[k] = IF k = 0 THEN start ELSE step(f[k - 1])
        <4> TAKE k \in 0 .. entered
        <4>1. CASE k = 0
          BY <1>6, <4>1
        <4>2. CASE k # 0
          <5>1. k \in 1 .. N /\ k - 1 \in 0 .. entered
            BY <1>2, <1>3, <4>2
          <5>2. f[k] = w(k) /\ f[k - 1] = w(k - 1)
            BY <5>1
          <5> QED
            BY <1>7, <4>2, <5>1, <5>2
        <4> QED
          BY <4>1, <4>2
      <3> QED
        BY <3>1
    <2> HIDE DEF f
    <2> QED
      BY <2>1 DEF walk
  <1>9. \A k \in 0 .. N : walk[k] = w(k)
    <2> DEFINE Good == {k \in Nat : walk[k] = w(k)}
    <2>1. walk[0] = start /\ \A k \in 1 .. N : walk[k] = step(walk[k - 1])
      BY <1>2, <1>3, <1>8
    <2>2. 0 \in Good
      BY <1>6, <2>1
    <2>3. ASSUME NEW k \in 1 .. N, k - 1 \in Good PROVE k \in Good
      BY <1>2, <1>7, <2>1, <2>3
    <2> HIDE DEF Good
    <2>4. \A k \in 0 .. N : k \in Good
      BY <1>2, <2>2, <2>3, CountUp
    <2> QED
      BY <2>4 DEF Good
  <1>10. Walk(lists, FALSE) = Shows(N)
    <2>1. walk[entered] = w(N)
      BY <1>2, <1>3, <1>9
    <2>2. w(N).page = Shows(N)
      BY DEF w
    <2> QED
      BY <1>1, <2>1, <2>2
  <1>11. SubSeq(C, 1, N) = C
    BY <1>2 DEF N
  <1>12. Shows(N) = [m \in {Root} \cup (Range(C) \cap L) |-> IF m = Root THEN Firsts(C, L) ELSE << >>]
    BY <1>11
  <1> QED
    BY <1>10, <1>12 DEF C, L

-----------------------------------------------------------------------------
(* The guarded walk of a page of one level. *)

(* The page of the root's first children, up to the place where a guarded   *)
(* walk ends: at the first id that is listed again.                        *)
FirstPart(X, L) ==
  [m \in {Root} \cup (Range(X) \cap L) |-> IF m = Root THEN Keep(X, L) ELSE << >>]

LEMMA FlatRead ==
  ASSUME NEW lists, OneDeep(lists), SomeLists(lists)
  PROVE  \E k \in 0 .. Len(lists[Root]) :
           LET X == SubSeq(lists[Root], 1, k)
           IN  IsInjective(X) /\ Walk(lists, TRUE) = FirstPart(X, DOMAIN lists)
  <1> DEFINE C == lists[Root]
             L == DOMAIN lists
             N == Len(C)
             E == Entries(lists, Root)
             X(k) == SubSeq(C, 1, k)
             Met(k) == {Root} \cup Range(X(k))
             W(k) == [todo |-> SubSeq(E, k + 1, N), met |-> Met(k), page |-> FirstPart(X(k), L)]
  <1>1. PICK w : Walks(w, lists, TRUE)
    BY WalkUnfolds
  <1>2. C \in Seq(Nodes) /\ N \in Nat /\ DOMAIN C = 1 .. N /\ Root \in L /\ Root \notin Nodes
        /\ \A n \in L \ {Root} : lists[n] = << >>
    BY ListsAssumption DEF OneDeep
  <1>3. Entered(lists) = N
    <2>1. UNION {{n} \X DOMAIN lists[n] : n \in DOMAIN lists} = {Root} \X (1 .. N)
      <3>1. DOMAIN << >> = {}
        OBVIOUS
      <3>2. \A n \in L \ {Root} : DOMAIN lists[n] = {}
        BY <1>2, <3>1
      <3> QED
        BY <1>2, <3>2
    <2>2. IsFiniteSet(1 .. N) /\ Cardinality(1 .. N) = N
      <3>1. /\ IsFiniteSet(1 .. N)
            /\ Cardinality(1 .. N) = IF 1 > N THEN 0 ELSE N - 1 + 1
        BY <1>2, FS_Interval
      <3>2. (IF 1 > N THEN 0 ELSE N - 1 + 1) = N
        BY <1>2
      <3> QED
        BY <3>1, <3>2
    <2>3. IsFiniteSet({Root}) /\ Cardinality({Root}) = 1
      BY FS_Singleton
    <2>4. Cardinality({Root} \X (1 .. N)) = 1 * N
      BY <2>2, <2>3, FS_Product
    <2>5. Entered(lists) = Cardinality({Root} \X (1 .. N))
      BY <2>1 DEF Entered
    <2> HIDE DEF N
    <2>6. \A m \in Nat : 1 * m = m
      OBVIOUS
    <2> QED
      BY <1>2, <2>4, <2>5, <2>6
  <1>4. E \in Seq(Tasks) /\ Len(E) = N /\ \A k \in 1 .. N : E[k] = <<Root, C[k]>>
    BY <1>2, EntriesFacts
  <1>5. ASSUME NEW n \in L \ {Root}
        PROVE  Entries(lists, n) = << >>
    <2>1. Entries(lists, n) \in Seq(Tasks) /\ Len(Entries(lists, n)) = Len(<< >>)
      BY <1>2, EntriesFacts
    <2> DEFINE e == Entries(lists, n)
    <2> HIDE DEF e
    <2>2. e \in Seq(Tasks) /\ Len(e) = 0
      BY <2>1 DEF e
    <2>3. e = << >>
      BY <2>2
    <2> QED
      BY <2>3 DEF e
  <1> HIDE DEF E, C, L, N
  <1>6. WalkStart(lists) = W(0) /\ IsInjective(X(0))
    <2>1. X(0) = << >> /\ Keep(<< >>, L) = << >>
      BY <1>2, KeepNothing
    <2>2. Range(<< >>) = {} /\ IsInjective(<< >>)
      BY DEF Range, IsInjective
    <2>3. Met(0) = {Root}
      BY <2>1, <2>2
    <2>4. FirstPart(X(0), L) = [m \in {Root} |-> << >>]
      BY <2>1, <2>2 DEF FirstPart
    <2>5. SubSeq(E, 0 + 1, N) = E
      BY <1>4
    <2> HIDE DEF X, Met
    <2> QED
      BY <2>1, <2>2, <2>3, <2>4, <2>5 DEF E, WalkStart
  <1>7. ASSUME NEW k \in 1 .. N, IsInjective(X(k - 1)), NEW s, s = W(k - 1)
        PROVE  LET t == WalkStep(lists, TRUE, s)
               IN  \/ t.todo = << >> /\ t.page = FirstPart(X(k - 1), L)
                   \/ t = W(k) /\ IsInjective(X(k))
    <2> DEFINE c0 == X(k - 1)
               c1 == X(k)
               x == C[k]
               rest == SubSeq(E, k + 1, N)
               t == WalkStep(lists, TRUE, s)
               page == FirstPart(c0, L)
               met == {Root} \cup Range(c0)
    <2>1. c0 \in Seq(Nodes) /\ c1 = Append(c0, x) /\ x \in Nodes /\ k - 1 + 1 = k
      BY <1>2, CutAt DEF N
    <2>2. /\ SubSeq(E, k, N) # << >> /\ SubSeq(E, k, N)[1] = <<Root, x>>
          /\ Tail(SubSeq(E, k, N)) = rest
      BY <1>4, TailOf
    <2>3. rest \in Seq(Tasks)
      <3>1. k \in 0 .. Len(E)
        BY <1>2, <1>4
      <3> QED
        BY <1>4, <3>1, SubSeqOf
    <2>4. s = [todo |-> SubSeq(E, k, N), met |-> met, page |-> page]
      BY <1>7, <2>1
    <2>5. W(k) = [todo |-> rest, met |-> {Root} \cup Range(c1), page |-> FirstPart(c1, L)]
      OBVIOUS
    <2>6. IsInjective(c0)
      BY <1>7
    <2> HIDE DEF c0, c1, x, rest, t, W
    <2>7. /\ Range(c1) = Range(c0) \cup {x}
          /\ IsInjective(c1) <=> IsInjective(c0) /\ x \notin Range(c0)
      BY <2>1, AppendRange
    <2>8. Keep(c1, L) = IF x \in L THEN Append(Keep(c0, L), x) ELSE Keep(c0, L)
      BY <2>1, KeepAppend
    <2>9. x # Root
      BY <1>2, <2>1
    <2> HIDE DEF page, met
    <2>10. t = Visit(lists, TRUE, s, Root, x, rest)
      <3>1. s.todo = SubSeq(E, k, N)
        BY <2>4
      <3>2. s.todo[1] = <<Root, x>> /\ s.todo # << >> /\ Tail(s.todo) = rest
        BY <2>2, <3>1
      <3>3. s.todo[1][1] = Root /\ s.todo[1][2] = x
        BY <3>2
      <3> QED
        BY <3>2, <3>3, Zenon DEF WalkStep, t
    <2>11. s.met = met /\ s.page = page
      BY <2>4
    <2>12. CASE x \in met
      <3>1. t = [s EXCEPT !.todo = << >>]
        BY <2>10, <2>11, <2>12 DEF Visit
      <3>2. t.todo = << >> /\ t.page = page
        BY <2>4, <3>1
      <3> QED
        BY <3>2 DEF t, page, c0
    <2>13. CASE x \notin met /\ x \notin L
      <3>1. t = [s EXCEPT !.todo = rest, !.met = @ \cup {x}]
        BY <2>10, <2>11, <2>13 DEF Visit, L
      <3>2. t = [todo |-> rest, met |-> met \cup {x}, page |-> page]
        BY <2>4, <3>1
      <3>3. met \cup {x} = {Root} \cup Range(c1) /\ IsInjective(c1)
        BY <2>6, <2>7, <2>13 DEF met
      <3>4. FirstPart(c1, L) = page
        <4>1. Range(c1) \cap L = Range(c0) \cap L /\ Keep(c1, L) = Keep(c0, L)
          BY <2>7, <2>8, <2>13
        <4> QED
          BY <4>1 DEF FirstPart, page
      <3>5. t = W(k)
        BY <2>5, <3>2, <3>3, <3>4
      <3> QED
        BY <3>3, <3>5 DEF t, c1
    <2>14. CASE x \notin met /\ x \in L
      <3> DEFINE new == [m \in DOMAIN page \cup {x} |->
                           IF m = x THEN << >>
                           ELSE IF m = Root THEN Append(page[m], x)
                           ELSE page[m]]
      <3>1. t = [todo |-> Entries(lists, x) \o rest, met |-> met \cup {x}, page |-> new]
        BY <2>10, <2>11, <2>14 DEF Visit, L
      <3>2. Entries(lists, x) \o rest = rest
        <4>1. << >> \o rest = rest
          BY <2>3
        <4> QED
          BY <1>5, <2>9, <2>14, <4>1
      <3>3. met \cup {x} = {Root} \cup Range(c1) /\ IsInjective(c1)
        BY <2>6, <2>7, <2>14 DEF met
      <3>4. new = FirstPart(c1, L)
        <4> DEFINE Y == {Root} \cup (Range(c0) \cap L)
        <4>1. /\ DOMAIN page = Y
              /\ \A m \in Y : page[m] = IF m = Root THEN Keep(c0, L) ELSE << >>
          BY DEF FirstPart, page
        <4>2. {Root} \cup (Range(c1) \cap L) = Y \cup {x} /\ Keep(c1, L) = Append(Keep(c0, L), x)
          BY <2>7, <2>8, <2>14
        <4>3. FirstPart(c1, L) = [m \in Y \cup {x} |-> IF m = Root THEN Append(Keep(c0, L), x) ELSE << >>]
          BY <4>2 DEF FirstPart
        <4>4. Root \in Y
          OBVIOUS
        <4> HIDE DEF Y
        <4>5. \A m \in Y \cup {x} : new[m] = IF m = Root THEN Append(Keep(c0, L), x) ELSE << >>
          BY <2>9, <4>1, <4>4
        <4> QED
          BY <4>1, <4>3, <4>5
      <3> HIDE DEF new
      <3>5. t = W(k)
        BY <2>5, <3>1, <3>2, <3>3, <3>4
      <3> QED
        BY <3>3, <3>5 DEF t, c1
    <2> QED
      BY <2>12, <2>13, <2>14
  <1> HIDE DEF W, X
  <1> DEFINE Ended(k) == /\ w[k].todo = << >>
                         /\ \E j \in 0 .. N : IsInjective(X(j)) /\ w[k].page = FirstPart(X(j), L)
             Good == {k \in Nat : Ended(k) \/ (w[k] = W(k) /\ IsInjective(X(k)))}
  <1>8. w[0] = WalkStart(lists) /\ \A k \in 1 .. N : w[k] = WalkStep(lists, TRUE, w[k - 1])
    BY <1>1, <1>3 DEF Walks
  <1>9. 0 \in Good
    BY <1>6, <1>8
  <1>10. ASSUME NEW k \in 1 .. N, k - 1 \in Good PROVE k \in Good
    <2>0. k \in Nat /\ k - 1 \in 0 .. N
      BY <1>2
    <2>1. w[k] = WalkStep(lists, TRUE, w[k - 1])
      BY <1>8
    <2>2. CASE Ended(k - 1)
      <3>1. w[k] = w[k - 1]
        BY <2>1, <2>2 DEF WalkStep
      <3> QED
        BY <2>0, <2>2, <3>1
    <2>3. CASE w[k - 1] = W(k - 1) /\ IsInjective(X(k - 1))
      <3>1. \/ w[k].todo = << >> /\ w[k].page = FirstPart(X(k - 1), L)
            \/ w[k] = W(k) /\ IsInjective(X(k))
        BY <1>7, <2>1, <2>3
      <3> QED
        BY <2>0, <2>3, <3>1
    <2> QED
      BY <1>10, <2>2, <2>3
  <1> HIDE DEF Good
  <1>11. \A k \in 0 .. N : k \in Good
    BY <1>2, <1>9, <1>10, CountUp
  <1>12. N \in Good
    BY <1>2, <1>11
  <1>13. \E j \in 0 .. N : IsInjective(X(j)) /\ w[N].page = FirstPart(X(j), L)
    <2>1. CASE Ended(N)
      BY <2>1
    <2>2. CASE w[N] = W(N) /\ IsInjective(X(N))
      <3>1. w[N].page = FirstPart(X(N), L)
        BY <2>2 DEF W
      <3> QED
        BY <1>2, <2>2, <3>1
    <2> QED
      BY <1>12, <2>1, <2>2 DEF Good
  <1>14. Walk(lists, TRUE) = w[N].page
    BY <1>1, <1>3 DEF Walks
  <1> QED
    BY <1>13, <1>14 DEF X, C, L, N

(* A guarded walk that leaves no node out has met the root's children in    *)
(* the order of the list, before any of them a second time.                *)
LEMMA WholeRead ==
  ASSUME NEW lists, OneDeep(lists), SomeLists(lists),
         DOMAIN lists \subseteq DOMAIN Walk(lists, TRUE)
  PROVE  LET page == Walk(lists, TRUE)
         IN  /\ DOMAIN page = DOMAIN lists
             /\ page[Root] \in Seq(Nodes)
             /\ Leads(page[Root], lists[Root], Range(page[Root]))
             /\ \A n \in DOMAIN lists \ {Root} : n \in Range(page[Root]) /\ page[n] = << >>
  <1> DEFINE C == lists[Root]
             L == DOMAIN lists
             page == Walk(lists, TRUE)
  <1>1. C \in Seq(Nodes) /\ Root \in L
    BY DEF OneDeep
  <1>2. PICK k \in 0 .. Len(C) : /\ IsInjective(SubSeq(C, 1, k))
                                 /\ page = FirstPart(SubSeq(C, 1, k), L)
    BY FlatRead
  <1> DEFINE X == SubSeq(C, 1, k)
             Z == SubSeq(C, k + 1, Len(C))
             D == Keep(X, L)
  <1>3. X \in Seq(Nodes) /\ Z \in Seq(Nodes) /\ C = X \o Z
    BY <1>1, SubSeqOf
  <1>4. page = FirstPart(X, L) /\ L \subseteq DOMAIN page
    BY <1>2
  <1> HIDE DEF C, L, page, X, Z
  <1>5. D \in Seq(Nodes) /\ Range(D) = Range(X) \cap L
    BY <1>3, KeepIn, KeepRange
  <1> HIDE DEF D
  <1>6. Keep(X, Range(D)) = D
    <2>1. \A y \in Range(X) : y \in Range(D) <=> y \in L
      BY <1>5
    <2> QED
      BY <1>3, <2>1, KeepSame DEF D
  <1>7. Leads(D, C, Range(D))
    BY <1>3, <1>6, Zenon DEF Leads
  <1>8. /\ DOMAIN page = {Root} \cup Range(D)
        /\ page[Root] = D /\ \A n \in Range(D) \ {Root} : page[n] = << >>
    BY <1>4, <1>5 DEF FirstPart, D
  <1>9. DOMAIN page = L /\ \A n \in L \ {Root} : n \in Range(D) /\ page[n] = << >>
    BY <1>1, <1>4, <1>5, <1>8
  <1> QED
    BY <1>5, <1>7, <1>8, <1>9 DEF C, L, page

-----------------------------------------------------------------------------
(* Pages of one level: the cache against the tree. *)

Seen(t) == Vals(Visible(t[Root].val))

(* What holds of each replica's tree t and cache c: the root stays, the     *)
(* others have no children; the ids the cache knows are the first of those *)
(* it knows in the tree; one that it lacks has been removed before; a node *)
(* that is in the list was set, and who set it first put it there.         *)
RootStays(t) == t[Root].path = <<0>> /\ Live(t[Root]) /\ IsArray(t[Root].val)
NoChildren(t, c) == \A n \in Nodes : Live(t[n]) => t[n].val = NoItems /\ c[n] = << >>
CacheLeads(t, c) == c[Root] \in Seq(Nodes) /\ Leads(c[Root], Seen(t), Range(c[Root]))
LacksOld(t, c) ==
  \A n \in Nodes : Live(t[n]) /\ n \in Range(Seen(t)) /\ n \notin Range(c[Root])
    => Len(t[n].path) > 1
ListedWasSet(t) == \A i \in t[Root].val.items : t[i.val].path # << >>
FirstSetter(t) ==
  \A n \in Nodes, b \in Nat : t[n].path = <<b>> =>
    \E i \in t[Root].val.items : i.val = n /\ i.id[2] = b

FlatReplica(t, c) ==
  /\ RootStays(t) /\ NoChildren(t, c) /\ CacheLeads(t, c) /\ LacksOld(t, c)
  /\ ListedWasSet(t) /\ FirstSetter(t)

(* Where an item of the first setter has arrived, what it set is not news. *)
NotBefore(t, u) ==
  \A n \in Nodes, b \in Nat :
    /\ u[n].path = <<b>>
    /\ \E i \in t[Root].val.items : i.val = n /\ i.id[2] = b
    => ~After(<<b>>, t[n].path)

FlatIInv ==
  /\ ListsIInv /\ Knows
  /\ \A p \in Peers : FlatReplica(tree[p], cache[p])
  /\ \A p, q \in Peers : NotBefore(tree[p], tree[q])

LEMMA LeadsFacts ==
  ASSUME NEW C \in Seq(Nodes), NEW V \in Seq(Nodes), Leads(C, V, Range(C)), NEW L
  PROVE  /\ \A y \in Range(C) : y \in Range(V)
         /\ Keep(Firsts(V, L), Range(C)) = Firsts(C, L)
  <1> DEFINE R == Range(C)
  <1>1. PICK X, Z \in Seq(Nodes) : V = X \o Z /\ Keep(X, R) = C
    BY DEF Leads
  <1> DEFINE W == Keep(Z, R)
  <1>2. W \in Seq(Nodes) /\ Range(W) = Range(Z) \cap R
    BY KeepIn, KeepRange
  <1>3. Range(Keep(X, R)) = Range(X) \cap R
    BY KeepRange
  <1>4. Range(X \o Z) = Range(X) \cup Range(Z)
    BY ConcatRange
  <1>5. Keep(X \o Z, R) = Keep(X, R) \o W
    <2>1. X \in Seq(Nodes) /\ Z \in Seq(Nodes)
      BY <1>1
    <2> QED
      BY <2>1, KeepConcat, SMTT(30)
  <1>6. Keep(Firsts(V, L), R) = Firsts(Keep(V, R), L)
    BY FirstsKeep
  <1> HIDE DEF W
  <1>7. Keep(V, R) = C \o W
    BY <1>1, <1>5
  <1>8. Firsts(C \o W, L) = Firsts(C, L)
    BY <1>2, FirstsMore
  <1>9. \A y \in R : y \in Range(V)
    BY <1>1, <1>3, <1>4
  <1> QED
    BY <1>6, <1>7, <1>8, <1>9

(* Both readers' pages of a flat replica. *)
FlatPage(C, L) ==
  [m \in {Root} \cup (Range(C) \cap L) |-> IF m = Root THEN Firsts(C, L) ELSE << >>]

LEMMA FlatPages ==
  ASSUME FlatIInv, NEW p \in Peers
  PROVE  /\ cache[p][Root] \in Seq(Nodes) /\ Seen(tree[p]) \in Seq(Nodes)
         /\ Page(p) = FlatPage(cache[p][Root], Here(tree[p]))
         /\ TreePage(p) = FlatPage(Seen(tree[p]), Here(tree[p]))
  <1> DEFINE t == tree[p]
             c == cache[p]
             lists == ListsOf(t)
  <1>1. FlatReplica(t, c) /\ DOMAIN c = Here(t) /\ Root \notin Nodes /\ Ids = Nodes \cup {Root}
    BY ListsAssumption DEF FlatIInv, Knows, Ids
  <1>2. DOMAIN lists = Here(t) /\ \A n \in Here(t) : lists[n] = Vals(Visible(t[n].val))
    BY DEF ListsOf, Here
  <1>3. Seen(t) \in Seq(Nodes)
    BY <1>1, SeenFacts DEF FlatReplica, RootStays, Seen
  <1> HIDE DEF t, c, lists
  <1>4. Root \in Here(t) /\ lists[Root] = Seen(t)
    BY <1>1, <1>2 DEF FlatReplica, RootStays, Seen, Here
  <1>5. OneDeep(c)
    BY <1>1, <1>4 DEF FlatReplica, NoChildren, CacheLeads, OneDeep, Here
  <1>6. OneDeep(lists)
    <2>1. \A n \in Here(t) \ {Root} : t[n].val = NoItems
      BY <1>1 DEF FlatReplica, NoChildren, Here
    <2>2. \A n \in Here(t) \ {Root} : lists[n] = << >>
      BY <1>2, <2>1, NoItemsFacts
    <2> QED
      BY <1>2, <1>3, <1>4, <2>2 DEF OneDeep
  <1>7. Walk(c, FALSE) = FlatPage(c[Root], Here(t))
    BY <1>1, <1>5, FlatWalk DEF FlatPage
  <1>8. Walk(lists, FALSE) = FlatPage(Seen(t), Here(t))
    <2>1. /\ OneDeep(lists) /\ Root \notin Nodes /\ DOMAIN lists = Here(t)
          /\ lists[Root] = Seen(t)
      BY <1>1, <1>2, <1>4, <1>6
    <2> QED
      BY <2>1, FlatWalk DEF FlatPage
  <1>9. c[Root] \in Seq(Nodes)
    BY <1>1 DEF FlatReplica, CacheLeads
  <1> QED
    BY <1>3, <1>7, <1>8, <1>9 DEF Page, TreePage, t, c, lists

LEMMA FlatFollows == FlatIInv => CacheFollowsTree
  <1> SUFFICES ASSUME FlatIInv, NEW p \in Peers
               PROVE  /\ DOMAIN Page(p) \subseteq DOMAIN TreePage(p)
                      /\ \A n \in DOMAIN Page(p) : Page(p)[n] = Keep(TreePage(p)[n], DOMAIN Page(p))
                      /\ \A n \in DOMAIN TreePage(p) \ DOMAIN Page(p) : CameBack(p, n)
    BY DEF CacheFollowsTree
  <1> DEFINE C == cache[p][Root]
             V == Seen(tree[p])
             L == Here(tree[p])
             D == {Root} \cup (Range(C) \cap L)
             E == {Root} \cup (Range(V) \cap L)
  <1>1. C \in Seq(Nodes) /\ V \in Seq(Nodes) /\ Page(p) = FlatPage(C, L) /\ TreePage(p) = FlatPage(V, L)
    BY FlatPages
  <1>2. Leads(C, V, Range(C)) /\ Root \notin Nodes
    BY ListsAssumption DEF FlatIInv, FlatReplica, CacheLeads
  <1>3. \A n \in Nodes : n \in L /\ n \in Range(V) /\ n \notin Range(C) => CameBack(p, n)
    BY DEF FlatIInv, FlatReplica, LacksOld, Here, CameBack
  <1> HIDE DEF C, V, L
  <1>4. /\ \A y \in Range(C) : y \in Range(V)
        /\ Keep(Firsts(V, L), Range(C)) = Firsts(C, L)
    BY <1>1, <1>2, LeadsFacts
  <1>5. Firsts(V, L) \in Seq(Nodes) /\ \A y : y \in Range(Firsts(V, L)) <=> y \in Range(V) /\ y \in L
    BY <1>1, FirstsRange
  <1>6. \A y \in Range(Firsts(V, L)) : y \in D <=> y \in Range(C)
    <2>1. \A y \in Range(Firsts(V, L)) : y \in Nodes
      <3> DEFINE f == Firsts(V, L)
      <3>1. f \in Seq(Nodes)
        BY <1>5
      <3> HIDE DEF f
      <3>2. \A y \in Range(f) : y \in Nodes
        BY <3>1 DEF Range
      <3> QED
        BY <3>2 DEF f
    <2> QED
      BY <1>2, <1>5, <2>1
  <1> HIDE DEF D
  <1>7. Keep(Firsts(V, L), D) = Keep(Firsts(V, L), Range(C))
    BY <1>5, <1>6, KeepSame
  <1>8. Keep(<< >>, D) = << >>
    BY KeepNothing
  <1>9. /\ FlatPage(C, L) = [m \in D |-> IF m = Root THEN Firsts(C, L) ELSE << >>]
        /\ FlatPage(V, L) = [m \in E |-> IF m = Root THEN Firsts(V, L) ELSE << >>]
    BY DEF FlatPage, D
  <1>10. D \subseteq E
    BY <1>4 DEF D
  <1>11. ASSUME NEW n \in D
         PROVE  Page(p)[n] = Keep(TreePage(p)[n], D)
    <2>1. CASE n = Root
      <3>1. Page(p)[n] = Firsts(C, L) /\ TreePage(p)[n] = Firsts(V, L)
        BY <1>1, <1>9, <1>10, <2>1
      <3> QED
        BY <1>4, <1>7, <3>1
    <2>2. CASE n # Root
      <3>1. Page(p)[n] = << >> /\ TreePage(p)[n] = << >>
        BY <1>1, <1>9, <1>10, <2>2
      <3> QED
        BY <1>8, <3>1
    <2> QED
      BY <2>1, <2>2
  <1>12. ASSUME NEW n \in E \ D
         PROVE  CameBack(p, n)
    <2>1. n \in Range(V) /\ n \in L /\ n \notin Range(C)
      BY DEF D
    <2>2. n \in Nodes
      BY <1>1, <2>1 DEF Range
    <2> QED
      BY <1>3, <2>1, <2>2
  <1>13. DOMAIN Page(p) = D /\ DOMAIN TreePage(p) = E
    BY <1>1, <1>9
  <1> QED
    BY <1>10, <1>11, <1>12, <1>13

(* What a save makes of a replica's nodes and cache. *)
SaveIs(p, prev, page) ==
  LET changed == Changed(prev, page)
      removed == DOMAIN prev \ DOMAIN page
      base(n) == IF n \in DOMAIN prev THEN prev[n] ELSE << >>
  IN  /\ \A n \in Ids :
           /\ n \in changed => tree'[p][n] = WriteNode(tree[p][n], p, base(n), page[n])
           /\ n \notin changed /\ n \in removed => tree'[p][n] = DeleteKey(tree[p][n])
           /\ n \notin changed /\ n \notin removed => tree'[p][n] = tree[p][n]
      /\ \A n \in (DOMAIN cache[p] \ removed) \cup changed :
           cache'[p][n] = IF n \in changed THEN page[n] ELSE cache[p][n]
      /\ \A q \in Peers \ {p} : tree'[q] = tree[q] /\ cache'[q] = cache[q]

LEMMA SaveEffect ==
  ASSUME ListsIInv, NEW p \in Peers, NEW prev, NEW page \in Shapes, Save(p, prev, page)
  PROVE  SaveIs(p, prev, page)
  <1> DEFINE changed == Changed(prev, page)
             removed == DOMAIN prev \ DOMAIN page
             base(n) == IF n \in DOMAIN prev THEN prev[n] ELSE << >>
             new == [n \in Ids |->
                       IF n \in changed THEN WriteNode(tree[p][n], p, base(n), page[n])
                       ELSE IF n \in removed THEN DeleteKey(tree[p][n])
                       ELSE tree[p][n]]
             lists == [n \in (DOMAIN cache[p] \ removed) \cup changed |->
                         IF n \in changed THEN page[n] ELSE cache[p][n]]
  <1>1. DOMAIN tree = Peers /\ DOMAIN cache = Peers
    BY DEF ListsIInv
  <1>2. tree' = [tree EXCEPT ![p] = new] /\ cache' = [cache EXCEPT ![p] = lists]
    BY <1>1, Zenon DEF Save
  <1>3. \A n \in Ids :
          /\ n \in changed => new[n] = WriteNode(tree[p][n], p, base(n), page[n])
          /\ n \notin changed /\ n \in removed => new[n] = DeleteKey(tree[p][n])
          /\ n \notin changed /\ n \notin removed => new[n] = tree[p][n]
    OBVIOUS
  <1>4. \A n \in (DOMAIN cache[p] \ removed) \cup changed :
          lists[n] = IF n \in changed THEN page[n] ELSE cache[p][n]
    OBVIOUS
  <1> HIDE DEF new, lists
  <1>5. /\ tree'[p] = new /\ cache'[p] = lists
        /\ \A q \in Peers \ {p} : tree'[q] = tree[q] /\ cache'[q] = cache[q]
    BY <1>1, <1>2
  <1> QED
    BY <1>3, <1>4, <1>5 DEF SaveIs

(* A save of a page of one level, where B were the root's children and D    *)
(* are, makes u and d of a replica's tree t and cache c.                    *)
NodeSaved(p, x, y, was, is) ==
  /\ is => /\ Live(y) /\ y.val = NoItems
           /\ Live(x) => y.path = x.path
           /\ ~Live(x) => y.path = Append(x.path, p)
  /\ ~is /\ was => ~Live(y) /\ y.path = x.path
  /\ ~is /\ ~was => y = x

FlatSaved(p, t, c, u, d, B, D) ==
  /\ D \in Seq(Nodes) /\ IsInjective(D)
  /\ u[Root].path = <<0>> /\ Live(u[Root]) /\ IsArray(u[Root].val)
  /\ Grows(t[Root].val, u[Root].val, p)
  /\ Traces(t[Root].val, u[Root].val, Range(B) \ Range(D), Range(D))
  /\ d[Root] = D /\ Leads(D, Seen(u), Range(D))
  /\ \A n \in Nodes : NodeSaved(p, t[n], u[n], n \in Range(B), n \in Range(D))
  /\ \A n \in Nodes : Live(u[n]) => d[n] = << >>

LEMMA FlatSave ==
  ASSUME OneLevel, FlatIInv, NEW p \in Peers, NEW page \in Shapes, Save(p, Page(p), page)
  PROVE  FlatSaved(p, tree[p], cache[p], tree'[p], cache'[p],
                   Firsts(cache[p][Root], Here(tree[p])), page[Root])
  <1> DEFINE t == tree[p]
             c == cache[p]
             u == tree'[p]
             d == cache'[p]
             C == c[Root]
             L == Here(t)
             B == Firsts(C, L)
             D == page[Root]
             prev == FlatPage(C, L)
             changed == Changed(prev, page)
             removed == DOMAIN prev \ DOMAIN page
             base(n) == IF n \in DOMAIN prev THEN prev[n] ELSE << >>
  <1>1. ListsIInv /\ FlatReplica(t, c) /\ Page(p) = prev
    BY FlatPages DEF FlatIInv
  <1>2. SaveIs(p, prev, page) /\ page # prev
    <2>1. Save(p, prev, page)
      BY <1>1
    <2> HIDE DEF prev
    <2> QED
      BY <1>1, <2>1, SaveEffect DEF Save
  <1>3. /\ Root \notin Nodes /\ Ids = Nodes \cup {Root} /\ p \in Nat
        /\ DOMAIN page \subseteq Ids /\ Root \in DOMAIN page /\ D \in Seq(Nodes)
    <2>1. PICK S \in SUBSET Nodes : page \in [S \cup {Root} -> Seq(Nodes)]
      BY ListsAssumption
    <2> QED
      BY <2>1, ListsAssumption DEF Ids
  <1>4. /\ IsInjective(D) /\ Range(D) = DOMAIN page \ {Root}
        /\ \A n \in DOMAIN page \ {Root} : page[n] = << >>
        /\ page = [n \in DOMAIN page |-> page[n]]
    <2>1. PICK S \in SUBSET Nodes : page \in [S \cup {Root} -> Seq(Nodes)]
      BY ListsAssumption
    <2>2. page = [n \in DOMAIN page |-> page[n]]
      BY <2>1
    <2> QED
      BY <2>2 DEF OneLevel
  <1>5. /\ \A n \in Ids : IsNode(t[n])
        /\ DOMAIN c = L
    <2>1. \A n \in Ids : Sound([q \in Peers |-> tree[q][n]])
      BY <1>1 DEF ListsIInv
    <2>2. \A n \in Ids : IsNode(t[n])
      BY <2>1 DEF Sound
    <2> QED
      BY <2>2 DEF FlatIInv, Knows
  <1>6. C \in Seq(Nodes) /\ Leads(C, Seen(t), Range(C)) /\ RootStays(t) /\ NoChildren(t, c)
    BY <1>1 DEF FlatReplica, CacheLeads
  <1>7. Seen(t) \in Seq(Nodes)
    BY <1>6, SeenFacts DEF RootStays, Seen
  <1>8. /\ \A n \in Ids :
             /\ n \in changed => u[n] = WriteNode(t[n], p, base(n), page[n])
             /\ n \notin changed /\ n \in removed => u[n] = DeleteKey(t[n])
             /\ n \notin changed /\ n \notin removed => u[n] = t[n]
        /\ \A n \in (DOMAIN c \ removed) \cup changed :
             d[n] = IF n \in changed THEN page[n] ELSE c[n]
    BY <1>2 DEF SaveIs
  <1> HIDE DEF t, c, u, d
  <1>9. B \in Seq(Nodes) /\ \A y : y \in Range(B) <=> y \in Range(C) /\ y \in L
    BY <1>6, FirstsRange
  <1>10. \A y \in Range(C) : y \in Range(Seen(t))
    BY <1>6, <1>7, LeadsFacts
  <1>11. /\ prev = [m \in {Root} \cup (Range(C) \cap L) |-> IF m = Root THEN B ELSE << >>]
         /\ Range(B) = Range(C) \cap L
    BY <1>9 DEF FlatPage
  <1>12. Root \notin Range(D) /\ Root \notin Range(B)
    <2>1. \A S \in Seq(Nodes) : \A y \in Range(S) : y \in Nodes
      BY DEF Range
    <2> HIDE DEF B, D
    <2> QED
      BY <1>3, <1>9, <2>1
  <1> HIDE DEF B, C, L, prev
  <1>13. DOMAIN prev = {Root} \cup Range(B) /\ DOMAIN page = {Root} \cup Range(D)
    BY <1>3, <1>4, <1>11
  <1>14. prev[Root] = B /\ \A n \in Range(B) : prev[n] = << >>
    BY <1>11, <1>12
  <1>15. B # D
    <2> SUFFICES ASSUME B = D PROVE FALSE
      OBVIOUS
    <2>1. DOMAIN page = DOMAIN prev
      BY <1>13
    <2>2. \A n \in DOMAIN page : page[n] = prev[n]
      BY <1>4, <1>13, <1>14
    <2>3. prev = [n \in DOMAIN prev |-> prev[n]]
      BY <1>11
    <2>4. page = prev
      BY <1>4, <2>1, <2>2, <2>3
    <2> QED
      BY <1>2, <2>4
  <1>16. /\ Root \in changed /\ base(Root) = B
         /\ \A n \in Nodes : n \in changed <=> n \in Range(D) /\ n \notin Range(B)
         /\ \A n \in Nodes : n \in removed <=> n \in Range(B) /\ n \notin Range(D)
         /\ \A n \in Nodes : n \in changed => base(n) = << >> /\ page[n] = << >>
    BY <1>3, <1>4, <1>12, <1>13, <1>14, <1>15 DEF Changed
  <1> HIDE DEF changed, removed, base
  <1> DEFINE a == t[Root].val
             b == Reconcile(a, p, B, D)
             gone == Range(B) \ Range(D)
  <1>17. u[Root].path = <<0>> /\ Live(u[Root]) /\ u[Root].val = b /\ IsArray(u[Root].val)
    <2>1. IsNode(t[Root]) /\ Live(t[Root]) /\ t[Root].path = <<0>>
      BY <1>3, <1>5, <1>6 DEF RootStays
    <2>2. u[Root] = WriteNode(t[Root], p, B, D)
      BY <1>3, <1>8, <1>16
    <2> HIDE DEF b, D
    <2>3. /\ IsNode(u[Root]) /\ Live(u[Root]) /\ u[Root].path # << >>
          /\ u[Root].path = t[Root].path /\ u[Root].val = Reconcile(t[Root].val, p, B, D)
      <3> DEFINE x == t[Root]
                 w == u[Root]
      <3>1. IsNode(x) /\ Live(x) /\ w = WriteNode(x, p, B, D) /\ D \in Seq(Nodes)
        BY <1>3, <2>1, <2>2
      <3> HIDE DEF x, w
      <3>2. /\ IsNode(w) /\ Live(w) /\ w.path # << >>
            /\ w.path = x.path /\ w.val = Reconcile(x.val, p, B, D)
        BY <1>3, <3>1, WriteNodeIs
      <3> QED
        BY <3>2 DEF x, w
    <2> QED
      BY <2>1, <2>3, NodeFacts DEF b
  <1>18. /\ IsArray(a) /\ Grows(a, b, p)
         /\ Traces(a, b, gone, Range(D))
         /\ Leads(D, Vals(Visible(b)), Range(D))
    <2>1. IsArray(a) /\ \A y \in Range(D) : y \in Range(B) => y \in Range(Vals(Visible(a)))
      BY <1>6, <1>9, <1>10 DEF RootStays, Seen
    <2> HIDE DEF a, b, D
    <2>2. Grows(a, b, p)
      BY <1>3, <2>1, ReconcileWorks DEF b
    <2> QED
      BY <1>3, <1>4, <1>15, <2>1, <2>2, ReconcileFacts DEF b
  <1>19. Leads(D, Seen(u), Range(D))
    BY <1>17, <1>18 DEF Seen
  <1>20. d[Root] = D
    BY <1>8, <1>16
  <1> HIDE DEF a, b, D
  <1>21. ASSUME NEW n \in Nodes
         PROVE  /\ NodeSaved(p, t[n], u[n], n \in Range(B), n \in Range(D))
                /\ Live(u[n]) => d[n] = << >>
    <2>1. n \in Ids /\ IsNode(t[n]) /\ (Live(t[n]) => t[n].val = NoItems /\ c[n] = << >>)
      BY <1>3, <1>5, <1>6 DEF NoChildren
    <2>2. CASE n \in Range(D) /\ n \notin Range(B)
      <3>1. u[n] = WriteNode(t[n], p, << >>, << >>) /\ n \in changed
        BY <1>8, <1>16, <2>1, <2>2
      <3>2. << >> \in Seq(Nodes)
        OBVIOUS
      <3>3. /\ Live(u[n])
            /\ Live(t[n]) => u[n].path = t[n].path
                             /\ u[n].val = Reconcile(t[n].val, p, << >>, << >>)
            /\ ~Live(t[n]) => u[n].path = Append(t[n].path, p)
                              /\ u[n].val = Reconcile(NoItems, p, << >>, << >>)
        <4> DEFINE x == t[n]
                   w == u[n]
                   kids == << >>
        <4>1. IsNode(x) /\ w = WriteNode(x, p, kids, kids) /\ kids \in Seq(Nodes)
          BY <2>1, <3>1, <3>2
        <4> HIDE DEF x, w, kids
        <4>2. /\ Live(w)
              /\ Live(x) => w.path = x.path /\ w.val = Reconcile(x.val, p, kids, kids)
              /\ ~Live(x) => /\ w.path = Append(x.path, p)
                             /\ w.val = Reconcile(NoItems, p, kids, kids)
          BY <1>3, <4>1, WriteNodeIs
        <4> QED
          BY <4>2 DEF x, w, kids
      <3>4. u[n].val = NoItems
        BY <2>1, <3>3, NoItemsFacts
      <3>5. d[n] = << >>
        BY <1>8, <1>16, <3>1
      <3> QED
        BY <2>2, <3>3, <3>4, <3>5 DEF NodeSaved
    <2>3. CASE n \in Range(D) /\ n \in Range(B)
      <3>1. n \notin changed /\ n \notin removed /\ u[n] = t[n] /\ Live(t[n]) /\ n \in L
        BY <1>8, <1>9, <1>16, <2>1, <2>3 DEF L, Here
      <3>2. d[n] = c[n]
        BY <1>5, <1>8, <3>1 DEF L
      <3> QED
        BY <2>1, <2>3, <3>1, <3>2 DEF NodeSaved
    <2>4. CASE n \notin Range(D) /\ n \in Range(B)
      <3>1. u[n] = DeleteKey(t[n])
        BY <1>8, <1>16, <2>1, <2>4
      <3>2. ~Live(u[n]) /\ u[n].path = t[n].path
        BY <2>1, <3>1, DeleteKeyFacts
      <3> QED
        BY <2>4, <3>2 DEF NodeSaved
    <2>5. CASE n \notin Range(D) /\ n \notin Range(B)
      <3>1. n \notin changed /\ n \notin removed /\ u[n] = t[n]
        BY <1>8, <1>16, <2>1, <2>5
      <3>2. Live(u[n]) => d[n] = << >>
        BY <1>5, <1>8, <2>1, <3>1 DEF L, Here
      <3> QED
        BY <2>5, <3>1, <3>2 DEF NodeSaved
    <2> QED
      BY <2>2, <2>3, <2>4, <2>5
  <1>22. FlatSaved(p, t, c, u, d, B, D)
    BY <1>3, <1>4, <1>17, <1>18, <1>19, <1>20, <1>21 DEF FlatSaved, a, D, gone
  <1> QED
    BY <1>22 DEF t, c, u, d, B, C, L, D

(* What a replica with x makes of another's y: z, the later of the two.     *)
NodeMerged(x, y, z) ==
  /\ z.path = x.path \/ (z = y /\ After(z.path, x.path))
  /\ z.path = y.path \/ (z = x /\ After(z.path, y.path))
  /\ x.path = y.path => (Live(z) <=> Live(x) /\ Live(y))

LEMMA MergedNode ==
  ASSUME NEW x, NEW y, IsNode(x), IsNode(y), NEW z, z = MergeNode(x, y),
         x.path = y.path /\ x.path # << >> =>
           \A i \in x.val.items, j \in y.val.items : i.id = j.id => i = j
  PROVE  /\ IsNode(z) /\ NodeMerged(x, y, z)
         /\ Live(x) /\ Live(y) /\ x.path = y.path => z.val = MergeArray(x.val, y.val)
         /\ Live(z) => \/ Live(x) /\ z.val = x.val
                       \/ Live(y) /\ z.val = y.val
                       \/ Live(x) /\ Live(y) /\ z.val = MergeArray(x.val, y.val)
  <1>1. /\ IsNode(z)
        /\ \/ z = x /\ (IF x.path = y.path THEN x.path = << >> ELSE After(x.path, y.path))
           \/ z = y /\ After(y.path, x.path)
           \/ /\ x.path = y.path /\ z.path = x.path /\ x.path # << >>
              /\ z.val = MergeArray(x.val, y.val) /\ (Live(z) <=> Live(x) /\ Live(y))
    BY MergeNodeFacts
  <1>2. x.path \in Seq(Nat) /\ y.path \in Seq(Nat)
    BY NodeFacts
  <1>3. CASE x.path = y.path
    <2>1. ~After(y.path, x.path)
      BY <1>2, <1>3, AfterAsymmetric
    <2>2. CASE x.path = << >>
      <3>1. z = x /\ x = Unset /\ ~Live(Unset)
        <4>1. ~Live(Unset)
          BY DEF Unset, Live
        <4> QED
          BY <1>1, <2>1, <2>2, <4>1 DEF IsNode
      <3> QED
        BY <1>1, <1>3, <3>1 DEF NodeMerged
    <2>3. CASE x.path # << >>
      <3>1. /\ z.path = x.path /\ z.val = MergeArray(x.val, y.val)
            /\ Live(z) <=> Live(x) /\ Live(y)
        BY <1>1, <1>3, <2>1, <2>3
      <3> QED
        BY <1>1, <1>3, <3>1, Zenon DEF NodeMerged
    <2> QED
      BY <2>2, <2>3
  <1>4. CASE x.path # y.path
    <2>1. (z = x /\ After(x.path, y.path)) \/ (z = y /\ After(y.path, x.path))
      BY <1>1, <1>4
    <2> QED
      BY <1>1, <1>4, <2>1 DEF NodeMerged
  <1> QED
    BY <1>3, <1>4

(* An update of a page of one level, v being the sender's tree, makes u and *)
(* d of a replica's tree t and cache c: the list it touched is read anew,   *)
(* or everything is, and no node left out.                                 *)
TreeMerged(t, v, u) ==
  /\ RootStays(u)
  /\ u[Root].val = MergeArray(t[Root].val, v[Root].val)
  /\ \A n \in Nodes : NodeMerged(t[n], v[n], u[n])
  /\ \A n \in Nodes : Live(u[n]) => u[n].val = NoItems
ReadsTouched(t, c, u, d) == d[Root] = IF u[Root] = t[Root] THEN c[Root] ELSE Seen(u)
ReadsAll(u, d) == CacheLeads(u, d) /\ \A n \in Nodes : Live(u[n]) => n \in Range(d[Root])

FlatMerged(t, v, c, u, d) ==
  /\ TreeMerged(t, v, u)
  /\ ReadsTouched(t, c, u, d) \/ ReadsAll(u, d)
  /\ \A n \in Nodes : Live(u[n]) => d[n] = << >>

LEMMA FlatMerge ==
  ASSUME FlatIInv, NEW p \in Peers, NEW s \in Peers
  PROVE  TreeMerged(tree[p], tree[s], Merged(p, s))
  <1> DEFINE t == tree[p]
             v == tree[s]
             u == Merged(p, s)
  <1>1. ListsIInv /\ FlatReplica(t, cache[p]) /\ FlatReplica(v, cache[s])
    BY DEF FlatIInv
  <1>2. \A n \in Ids : u[n] = MergeNode(t[n], v[n])
    BY DEF Merged
  <1>3. ASSUME NEW n \in Ids
        PROVE  /\ IsNode(t[n]) /\ IsNode(v[n])
               /\ t[n].path = v[n].path /\ t[n].path # << >> =>
                    \A i \in t[n].val.items, j \in v[n].val.items : i.id = j.id => i = j
    <2> DEFINE k == [q \in Peers |-> tree[q][n]]
    <2>1. Sound(k)
      BY <1>1 DEF ListsIInv
    <2>2. k[p] = t[n] /\ k[s] = v[n]
      OBVIOUS
    <2> HIDE DEF k, t, v
    <2> QED
      BY <2>1, <2>2 DEF Sound
  <1>4. /\ RootStays(t) /\ RootStays(v)
        /\ NoChildren(t, cache[p]) /\ NoChildren(v, cache[s])
    BY <1>1 DEF FlatReplica
  <1> HIDE DEF t, v, u
  <1>5. Root \in Ids /\ Nodes \subseteq Ids
    BY DEF Ids
  <1>6. ASSUME NEW n \in Ids
        PROVE  /\ IsNode(u[n]) /\ NodeMerged(t[n], v[n], u[n])
               /\ Live(t[n]) /\ Live(v[n]) /\ t[n].path = v[n].path =>
                    u[n].val = MergeArray(t[n].val, v[n].val)
               /\ Live(u[n]) => \/ Live(t[n]) /\ u[n].val = t[n].val
                                \/ Live(v[n]) /\ u[n].val = v[n].val
                                \/ /\ Live(t[n]) /\ Live(v[n])
                                   /\ u[n].val = MergeArray(t[n].val, v[n].val)
    <2> DEFINE x == t[n]
               y == v[n]
               z == u[n]
    <2>1. /\ IsNode(x) /\ IsNode(y) /\ z = MergeNode(x, y)
          /\ x.path = y.path /\ x.path # << >> =>
               \A i \in x.val.items, j \in y.val.items : i.id = j.id => i = j
      BY <1>2, <1>3
    <2> HIDE DEF x, y, z
    <2>2. /\ IsNode(z) /\ NodeMerged(x, y, z)
          /\ Live(x) /\ Live(y) /\ x.path = y.path => z.val = MergeArray(x.val, y.val)
          /\ Live(z) => \/ Live(x) /\ z.val = x.val
                        \/ Live(y) /\ z.val = y.val
                        \/ Live(x) /\ Live(y) /\ z.val = MergeArray(x.val, y.val)
      BY <2>1, MergedNode
    <2> QED
      BY <2>2 DEF x, y, z
  <1>7. /\ u[Root].path = <<0>> /\ Live(u[Root]) /\ IsArray(u[Root].val)
        /\ u[Root].val = MergeArray(t[Root].val, v[Root].val)
    <2>1. /\ t[Root].path = <<0>> /\ v[Root].path = <<0>> /\ Live(t[Root]) /\ Live(v[Root])
      BY <1>4 DEF RootStays
    <2>2. u[Root].path = <<0>> /\ Live(u[Root])
      BY <1>5, <1>6, <2>1, Zenon DEF NodeMerged
    <2> QED
      BY <1>5, <1>6, <2>1, <2>2, NodeFacts
  <1>8. ASSUME NEW n \in Nodes, Live(u[n])
        PROVE  u[n].val = NoItems
    <2>1. /\ Live(t[n]) => t[n].val = NoItems
          /\ Live(v[n]) => v[n].val = NoItems
      BY <1>4 DEF NoChildren
    <2>2. MergeArray(NoItems, NoItems) = NoItems
      BY DEF MergeArray, NoItems
    <2> QED
      BY <1>5, <1>6, <1>8, <2>1, <2>2
  <1>9. TreeMerged(t, v, u)
    BY <1>5, <1>6, <1>7, <1>8 DEF TreeMerged, RootStays
  <1> QED
    BY <1>9 DEF t, v, u

(* An update whose nodes are named. *)
LEMMA FlatDeliver ==
  ASSUME FlatIInv, NEW p \in Peers, NEW s \in Peers, Deliver(p, s)
  PROVE  FlatMerged(tree[p], tree[s], cache[p], tree'[p], cache'[p])
  <1> DEFINE t == tree[p]
             v == tree[s]
             c == cache[p]
             u == Merged(p, s)
             touched == {n \in Ids : u[n] # t[n]}
             d == Refreshed(c, u, touched)
  <1>1. NoChildren(t, c) /\ DOMAIN c = {n \in Ids : Live(t[n])} /\ RootStays(t)
    BY DEF FlatIInv, FlatReplica, Knows, Here
  <1>2. tree'[p] = u /\ cache'[p] = d
    BY DeliverKeeps DEF FlatIInv
  <1>3. /\ \A n \in DOMAIN c \ touched : d[n] = c[n]
        /\ \A n \in touched : Live(u[n]) => d[n] = Vals(Visible(u[n].val))
    BY DEF Refreshed, ListsOf
  <1>4. \A n \in Ids : n \in touched <=> u[n] # t[n]
    OBVIOUS
  <1>5. TreeMerged(t, v, u)
    BY FlatMerge
  <1>6. Root \in Ids /\ Nodes \subseteq Ids
    BY DEF Ids
  <1> HIDE DEF t, v, c, u, d, touched
  <1>7. ReadsTouched(t, c, u, d)
    <2>1. Root \in DOMAIN c /\ Live(u[Root])
      BY <1>1, <1>5, <1>6 DEF RootStays, TreeMerged
    <2>2. CASE u[Root] = t[Root]
      BY <1>3, <1>4, <1>6, <2>1, <2>2 DEF ReadsTouched
    <2>3. CASE u[Root] # t[Root]
      BY <1>3, <1>4, <1>6, <2>1, <2>3 DEF ReadsTouched, Seen
    <2> QED
      BY <2>2, <2>3
  <1>8. ASSUME NEW n \in Nodes, Live(u[n])
        PROVE  d[n] = << >>
    <2>1. CASE n \in touched
      <3>1. u[n].val = NoItems
        BY <1>5, <1>8 DEF TreeMerged
      <3> QED
        BY <1>3, <1>8, <2>1, <3>1, NoItemsFacts
    <2>2. CASE n \notin touched
      <3>1. u[n] = t[n] /\ n \in DOMAIN c \ touched
        BY <1>1, <1>4, <1>6, <1>8, <2>2
      <3> QED
        BY <1>1, <1>3, <1>8, <3>1 DEF NoChildren
    <2> QED
      BY <2>1, <2>2
  <1>9. FlatMerged(t, v, c, u, d)
    BY <1>5, <1>7, <1>8 DEF FlatMerged
  <1> QED
    BY <1>2, <1>9 DEF t, v, c

(* An update at which everything is read, and nothing left out. *)
LEMMA FlatDeliverWhole ==
  ASSUME FlatIInv, NEW p \in Peers, NEW s \in Peers, DeliverWhole(p, s), ~cut'[p]
  PROVE  /\ FlatMerged(tree[p], tree[s], cache[p], tree'[p], cache'[p])
         /\ DOMAIN cache'[p] = Here(tree'[p])
  <1> DEFINE t == tree[p]
             v == tree[s]
             u == Merged(p, s)
             lists == ListsOf(u)
             d == Walk(lists, TRUE)
  <1>1. /\ tree'[p] = u /\ cache'[p] = d
        /\ cut' = [cut EXCEPT ![p] = @ \/ LeavesOut(u, d)]
    BY DeliverWholeKeeps DEF FlatIInv, FullRead
  <1>2. \A n \in Ids : Live(u[n]) => n \in DOMAIN d
    <2> DEFINE left == LeavesOut(u, d)
    <2>1. cut \in [Peers -> BOOLEAN] /\ cut' = [cut EXCEPT ![p] = @ \/ left]
      BY <1>1 DEF FlatIInv, ListsIInv
    <2> HIDE DEF left
    <2>2. ~left
      BY <2>1
    <2> HIDE DEF u, d
    <2> QED
      BY <2>2 DEF left, LeavesOut
  <1>3. TreeMerged(t, v, u)
    BY FlatMerge
  <1>4. SomeLists(lists) /\ DOMAIN lists = Here(u)
    BY MergedNodes, ListsOfFacts DEF FlatIInv
  <1>5. /\ \A n \in Here(u) : lists[n] = Vals(Visible(u[n].val))
        /\ Root \notin Nodes /\ Ids = Nodes \cup {Root}
    BY ListsAssumption DEF ListsOf, Here, Ids
  <1> HIDE DEF t, v, u, lists
  <1>6. OneDeep(lists) /\ lists[Root] = Seen(u)
    <2>1. Root \in Here(u) /\ \A n \in Here(u) \ {Root} : u[n].val = NoItems
      BY <1>3, <1>5 DEF TreeMerged, RootStays, Here
    <2>2. \A n \in Here(u) \ {Root} : lists[n] = << >>
      BY <1>5, <2>1, NoItemsFacts
    <2> QED
      BY <1>4, <1>5, <2>1, <2>2 DEF OneDeep, SomeLists, Seen
  <1>7. DOMAIN lists \subseteq DOMAIN d
    BY <1>2, <1>4 DEF Here
  <1>8. /\ DOMAIN d = DOMAIN lists
        /\ d[Root] \in Seq(Nodes)
        /\ Leads(d[Root], lists[Root], Range(d[Root]))
        /\ \A n \in DOMAIN lists \ {Root} : n \in Range(d[Root]) /\ d[n] = << >>
    BY <1>4, <1>6, <1>7, WholeRead
  <1> HIDE DEF d
  <1>9. \A n \in Nodes : Live(u[n]) => n \in DOMAIN lists \ {Root}
    BY <1>4, <1>5 DEF Here
  <1>10. FlatMerged(t, v, cache[p], u, d)
    BY <1>3, <1>6, <1>8, <1>9 DEF FlatMerged, ReadsAll, CacheLeads
  <1> QED
    BY <1>1, <1>4, <1>8, <1>10 DEF t, v

(* Either way. *)
Updates(p, s) == Deliver(p, s) \/ (DeliverWhole(p, s) /\ ~cut'[p])

LEMMA FlatUpdate ==
  ASSUME FlatIInv, NEW p \in Peers, NEW s \in Peers, Updates(p, s)
  PROVE  /\ ListsIInv' /\ Knows'
         /\ FlatMerged(tree[p], tree[s], cache[p], tree'[p], cache'[p])
         /\ \A q \in Peers \ {p} : tree'[q] = tree[q] /\ cache'[q] = cache[q]
         /\ placed' = placed
  <1>1. ListsIInv /\ Knows
    BY DEF FlatIInv
  <1>2. CASE Deliver(p, s)
    <2>1. placed' = placed
      BY <1>2 DEF Deliver
    <2> QED
      BY <1>1, <1>2, <2>1, DeliverKeeps, FlatDeliver
  <1>3. CASE DeliverWhole(p, s) /\ ~cut'[p]
    <2>1. placed' = placed
      BY <1>3 DEF DeliverWhole
    <2>2. /\ ListsIInv'
          /\ \A q \in Peers \ {p} : tree'[q] = tree[q] /\ cache'[q] = cache[q]
      BY <1>1, <1>3, DeliverWholeKeeps
    <2>3. /\ FlatMerged(tree[p], tree[s], cache[p], tree'[p], cache'[p])
          /\ DOMAIN cache'[p] = Here(tree'[p])
      BY <1>3, FlatDeliverWhole
    <2>4. Knows'
      <3> SUFFICES ASSUME NEW q \in Peers
                   PROVE  DOMAIN cache'[q] = Here(tree'[q])
        BY DEF Knows
      <3>1. CASE q = p
        BY <2>3, <3>1
      <3>2. CASE q # p
        <4>1. cache'[q] = cache[q] /\ tree'[q] = tree[q]
          BY <2>2, <3>2
        <4> QED
          BY <1>1, <4>1 DEF Knows
      <3> QED
        BY <3>1, <3>2
    <2> QED
      BY <2>1, <2>2, <2>3, <2>4
  <1> QED
    BY <1>2, <1>3 DEF Updates

LEMMA NothingAfter ==
  ASSUME NEW a \in Seq(Nat)
  PROVE  ~After(<< >>, a) /\ ~After(a, a)
  <1> DEFINE none == << >>
  <1>1. none \in Seq(Nat) /\ Len(none) = 0 /\ Len(a) \in Nat
    OBVIOUS
  <1> HIDE DEF none
  <1>2. PICK i : i = 1 /\ Parts(none, a, i)
    BY <1>1 DEF Parts, SameUpto
  <1>3. ~After(none, a)
    <2>1. After(none, a) <=> i <= Len(none) /\ (i > Len(a) \/ none[i] > a[i])
      BY <1>1, <1>2, AfterAtParting
    <2> QED
      BY <1>1, <1>2, <2>1
  <1> QED
    BY <1>3, AfterAsymmetric DEF none

(* A path of one writer. *)
LEMMA OneWriter ==
  ASSUME NEW a \in Seq(Nat), NEW p \in Nat
  PROVE  /\ \A b : Append(a, p) = <<b>> => a = << >> /\ b = p
         /\ a = << >> => Append(a, p) = <<p>>
         /\ Len(a) = 1 => a = <<a[1]>> /\ a[1] \in Nat
         /\ a # << >> => Len(a) >= 1
  <1>1. ASSUME NEW b, Append(a, p) = <<b>> PROVE a = << >> /\ b = p
    <2>1. Len(a) + 1 = Len(Append(a, p)) /\ Append(a, p)[Len(a) + 1] = p /\ Len(a) \in Nat
      OBVIOUS
    <2>2. Len(<<b>>) = 1 /\ <<b>>[1] = b
      OBVIOUS
    <2>3. Len(a) = 0
      BY <1>1, <2>1, <2>2
    <2> QED
      BY <1>1, <2>1, <2>2, <2>3
  <1>2. a = << >> => Append(a, p) = <<p>>
    OBVIOUS
  <1>3. Len(a) = 1 => a = <<a[1]>> /\ a[1] \in Nat
    OBVIOUS
  <1>4. a # << >> => Len(a) >= 1
    OBVIOUS
  <1> QED
    BY <1>1, <1>2, <1>3, <1>4

(* Everybody starts with the page as it was loaded. *)
LEMMA RootStart ==
  ASSUME NEW D \in Seq(Nodes), IsInjective(D), NEW a, a = Reconcile(NoItems, 0, << >>, D)
  PROVE  /\ IsArray(a) /\ Leads(D, Vals(Visible(a)), Range(D))
         /\ \A i \in a.items : i.val \in Range(D) /\ i.id[2] = 0
         /\ \A i \in a.items : i.id \in a.dead =>
              \E w \in a.items : w.val = i.val /\ i.id[1] < w.id[1]
  <1>1. IsArray(NoItems) /\ NoItems.items = {} /\ NoItems.dead = {}
        /\ Vals(Visible(NoItems)) = << >>
    BY NoItemsFacts
  <1>2. IsArray(a) /\ Grows(NoItems, a, 0)
    BY <1>1, ReconcileWorks
  <1>3. \A i \in a.items : i.id[2] = 0
    BY <1>1, <1>2 DEF Grows
  <1>4. CASE D = << >>
    <2>1. a = NoItems
      BY <1>4, NoItemsFacts
    <2>2. Leads(D, D, Range(D))
      BY LeadsAll
    <2> QED
      BY <1>1, <1>4, <2>1, <2>2
  <1>5. CASE D # << >>
    <2> DEFINE base == << >>
    <2>1. base # D /\ Range(base) = {}
      BY <1>5 DEF Range
    <2>2. a = Reconcile(NoItems, 0, base, D)
      OBVIOUS
    <2> HIDE DEF base
    <2>3. /\ Traces(NoItems, a, Range(base) \ Range(D), Range(D))
          /\ Leads(D, Vals(Visible(a)), Range(D))
      BY <1>1, <2>1, <2>2, ReconcileFacts
    <2>4. \A i \in a.items : i.val \in Range(D)
      BY <1>1, <2>3 DEF Traces
    <2>5. \A i \in a.items : i.id \in a.dead => Replaced(i, NoItems, a)
      BY <1>1, <2>1, <2>3 DEF Traces
    <2>6. \A i \in a.items : i.id \in a.dead =>
            \E w \in a.items : w.val = i.val /\ i.id[1] < w.id[1]
      BY <2>5 DEF Replaced
    <2> QED
      BY <1>2, <1>3, <2>3, <2>4, <2>6
  <1> QED
    BY <1>4, <1>5

(* The loaded page on every replica: w is the root, x every child of it. *)
StartsFlat(page, w, x) ==
  LET D == page[Root]
  IN  /\ page \in Shapes /\ D \in Seq(Nodes) /\ Root \notin Nodes
      /\ IsInjective(D) /\ \A n \in Range(D) : page[n] = << >>
      /\ \A p \in Peers :
           /\ cache[p] = page /\ tree[p][Root] = w
           /\ \A n \in Nodes : tree[p][n] = IF n \in Range(D) THEN x ELSE Unset
      /\ placed = [n \in Nodes |-> Parent(page, n)]
      /\ Live(w) /\ w.path = <<0>>
      /\ Live(x) /\ x.path = <<0>> /\ x.val = NoItems
      /\ IsArray(w.val) /\ Leads(D, Vals(Visible(w.val)), Range(D))
      /\ \A i \in w.val.items : i.val \in Range(D) /\ i.id[2] = 0
      /\ \A i \in w.val.items : i.id \in w.val.dead =>
           \E j \in w.val.items : j.val = i.val /\ i.id[1] < j.id[1]

LEMMA UnsetFacts == IsNode(Unset) /\ ~Live(Unset) /\ Unset.path = << >>
  BY DEF IsNode, Live, Unset

LEMMA FlatStart ==
  ASSUME OneLevel, Init
  PROVE  \E page, w, x : StartsFlat(page, w, x)
  <1> DEFINE start(page, n) ==
               IF n \in DOMAIN page THEN WriteNode(Unset, 0, << >>, page[n]) ELSE Unset
  <1>1. PICK page \in Shapes :
          /\ tree = [p \in Peers |-> [n \in Ids |-> start(page, n)]]
          /\ cache = [p \in Peers |-> page]
          /\ placed = [n \in Nodes |-> Parent(page, n)]
    BY DEF Init
  <1> DEFINE D == page[Root]
             w == WriteNode(Unset, 0, << >>, D)
             x == WriteNode(Unset, 0, << >>, << >>)
  <1>2. /\ Root \notin Nodes /\ Ids = Nodes \cup {Root}
        /\ Root \in DOMAIN page /\ D \in Seq(Nodes)
    <2>1. PICK S \in SUBSET Nodes : page \in [S \cup {Root} -> Seq(Nodes)]
      BY ListsAssumption
    <2> QED
      BY <2>1, ListsAssumption DEF Ids
  <1>3. /\ IsInjective(D) /\ Range(D) = DOMAIN page \ {Root}
        /\ \A n \in DOMAIN page \ {Root} : page[n] = << >>
    BY DEF OneLevel
  <1>4. \A p \in Peers :
          /\ cache[p] = page /\ tree[p][Root] = w
          /\ \A n \in Nodes : tree[p][n] = IF n \in Range(D) THEN x ELSE Unset
    BY <1>1, <1>2, <1>3
  <1> HIDE DEF start
  <1>5. IsNode(Unset) /\ ~Live(Unset) /\ Unset.path = << >>
    BY UnsetFacts
  <1>6. Append(<< >>, 0) = <<0>>
    OBVIOUS
  <1>7. Live(w) /\ w.path = <<0>> /\ w.val = Reconcile(NoItems, 0, << >>, D)
    <2> HIDE DEF w, D
    <2>1. /\ Live(w) /\ w.path = Append(Unset.path, 0)
          /\ w.val = Reconcile(NoItems, 0, << >>, D)
      BY <1>2, <1>5, WriteNodeIs DEF w
    <2> QED
      BY <1>5, <1>6, <2>1
  <1>8. Live(x) /\ x.path = <<0>> /\ x.val = NoItems
    <2> DEFINE kids == << >>
    <2>1. kids \in Seq(Nodes) /\ x = WriteNode(Unset, 0, kids, kids)
      OBVIOUS
    <2> HIDE DEF x, kids
    <2>2. /\ Live(x) /\ x.path = Append(Unset.path, 0)
          /\ x.val = Reconcile(NoItems, 0, kids, kids)
      BY <1>5, <2>1, WriteNodeIs
    <2> QED
      BY <1>5, <1>6, <2>2, NoItemsFacts DEF kids
  <1> HIDE DEF w, x, D
  <1>9. /\ IsArray(w.val) /\ Leads(D, Vals(Visible(w.val)), Range(D))
        /\ \A i \in w.val.items : i.val \in Range(D) /\ i.id[2] = 0
        /\ \A i \in w.val.items : i.id \in w.val.dead =>
             \E j \in w.val.items : j.val = i.val /\ i.id[1] < j.id[1]
    <2> DEFINE a == w.val
    <2>1. a = Reconcile(NoItems, 0, << >>, D)
      BY <1>7
    <2> HIDE DEF a
    <2>2. /\ IsArray(a) /\ Leads(D, Vals(Visible(a)), Range(D))
          /\ \A i \in a.items : i.val \in Range(D) /\ i.id[2] = 0
          /\ \A i \in a.items : i.id \in a.dead =>
               \E j \in a.items : j.val = i.val /\ i.id[1] < j.id[1]
      BY <1>2, <1>3, <2>1, RootStart DEF D
    <2> QED
      BY <2>2 DEF a
  <1>10. D \in Seq(Nodes) /\ IsInjective(D) /\ \A n \in Range(D) : page[n] = << >>
    BY <1>2, <1>3 DEF D
  <1>11. StartsFlat(page, w, x)
    BY <1>1, <1>2, <1>4, <1>7, <1>8, <1>9, <1>10 DEF StartsFlat, D
  <1> QED
    BY <1>11

LEMMA FlatInit == OneLevel /\ Init => FlatIInv
  <1> SUFFICES ASSUME OneLevel, Init
               PROVE  FlatIInv
    OBVIOUS
  <1>1. PICK page, w, x : StartsFlat(page, w, x)
    BY FlatStart
  <1> DEFINE D == page[Root]
  <1>2. /\ D \in Seq(Nodes) /\ Root \notin Nodes /\ \A n \in Range(D) : page[n] = << >>
        /\ \A p \in Peers :
             /\ cache[p] = page /\ tree[p][Root] = w
             /\ \A n \in Nodes : tree[p][n] = IF n \in Range(D) THEN x ELSE Unset
        /\ Live(w) /\ w.path = <<0>>
        /\ Live(x) /\ x.path = <<0>> /\ x.val = NoItems
        /\ IsArray(w.val) /\ Leads(D, Vals(Visible(w.val)), Range(D))
        /\ \A i \in w.val.items : i.val \in Range(D) /\ i.id[2] = 0
    BY <1>1 DEF StartsFlat
  <1>3. IsNode(Unset) /\ ~Live(Unset) /\ Unset.path = << >>
    BY UnsetFacts
  <1> HIDE DEF D
  <1>4. \A y : y \in Range(Vals(Visible(w.val))) <=>
            \E i \in w.val.items : i.id \notin w.val.dead /\ i.val = y
    BY <1>2, SeenFacts
  <1>5. \A y \in Range(D) : y \in Range(Vals(Visible(w.val)))
    <2>1. Vals(Visible(w.val)) \in Seq(Nodes)
      BY <1>2, SeenFacts
    <2> DEFINE V == Vals(Visible(w.val))
    <2> HIDE DEF V
    <2>2. V \in Seq(Nodes) /\ D \in Seq(Nodes) /\ Leads(D, V, Range(D))
      BY <1>2, <2>1 DEF V, D
    <2> QED
      BY <2>2, LeadsFacts DEF V
  <1>6. D \in Seq(Nodes) /\ page[Root] = D
    BY <1>2 DEF D
  <1>7. /\ <<0>> # << >>
         /\ \A n \in Nodes : \A b : (IF n \in Range(D) THEN x ELSE Unset).path = <<b>> =>
              n \in Range(D) /\ b = 0
    <2>1. <<0>> # << >> /\ \A b : <<b>> # << >> /\ (<<b>> = <<0>> => b = 0)
      OBVIOUS
    <2> QED
      BY <1>3, <1>2, <2>1
  <1>8. ASSUME NEW p \in Peers
         PROVE  FlatReplica(tree[p], cache[p])
    <2> DEFINE t == tree[p]
               c == cache[p]
    <2>1. /\ c = page /\ t[Root] = w
          /\ \A n \in Nodes : t[n] = IF n \in Range(D) THEN x ELSE Unset
      BY <1>2
    <2> HIDE DEF t, c
    <2>2. RootStays(t)
      BY <1>2, <2>1 DEF RootStays
    <2>3. NoChildren(t, c)
      <3> SUFFICES ASSUME NEW n \in Nodes, Live(t[n])
                   PROVE  t[n].val = NoItems /\ c[n] = << >>
        BY DEF NoChildren
      <3>1. n \in Range(D) /\ t[n] = x
        BY <1>3, <2>1
      <3> QED
        BY <1>2, <2>1, <3>1 DEF D
    <2>4. CacheLeads(t, c)
      BY <1>2, <1>6, <2>1 DEF CacheLeads, Seen
    <2>5. LacksOld(t, c)
      BY <1>2, <1>4, <1>6, <2>1 DEF LacksOld, Seen
    <2>6. ListedWasSet(t)
      <3> SUFFICES ASSUME NEW i \in t[Root].val.items
                   PROVE  t[i.val].path # << >>
        BY DEF ListedWasSet
      <3>1. i.val \in Range(D) /\ i.val \in Nodes
        BY <1>2, <2>1 DEF IsArray, Item
      <3> QED
        BY <1>2, <1>7, <2>1, <3>1
    <2>7. FirstSetter(t)
      <3> SUFFICES ASSUME NEW n \in Nodes, NEW b \in Nat, t[n].path = <<b>>
                   PROVE  \E i \in t[Root].val.items : i.val = n /\ i.id[2] = b
        BY DEF FirstSetter
      <3>1. n \in Range(D) /\ b = 0
        BY <1>7, <2>1
      <3>2. PICK i \in w.val.items : i.val = n
        BY <1>4, <1>5, <3>1
      <3> QED
        BY <1>2, <2>1, <3>1, <3>2
    <2> QED
      BY <2>2, <2>3, <2>4, <2>5, <2>6, <2>7 DEF FlatReplica, t, c
  <1>9. ASSUME NEW p \in Peers, NEW q \in Peers
         PROVE  NotBefore(tree[p], tree[q])
    <2>1. \A n \in Nodes : tree[p][n].path = tree[q][n].path
      BY <1>2
    <2>2. \A b \in Nat : ~After(<<b>>, <<b>>)
      <3> TAKE b \in Nat
      <3> DEFINE a == <<b>>
      <3>1. a \in Seq(Nat)
        OBVIOUS
      <3> HIDE DEF a
      <3>2. ~After(a, a)
        BY <3>1, NothingAfter
      <3> QED
        BY <3>2 DEF a
    <2> QED
      BY <2>1, <2>2 DEF NotBefore
  <1>10. ListsIInv /\ Knows
    BY ListsInit
  <1> QED
    BY <1>8, <1>9, <1>10 DEF FlatIInv

(* What p wrote anywhere p still has, or it has moved on. *)
LEMMA WroteHas ==
  ASSUME ListsIInv, NEW p \in Peers, NEW q \in Peers, NEW n \in Ids, Wrote(p, tree[q][n])
  PROVE  \/ After(tree[p][n].path, tree[q][n].path)
         \/ /\ tree[p][n].path = tree[q][n].path
            /\ \A i \in tree[q][n].val.items : i.id[2] = p => i \in tree[p][n].val.items
  <1> DEFINE k == [r \in Peers |-> tree[r][n]]
  <1>1. Sound(k)
    BY DEF ListsIInv
  <1>2. k[p] = tree[p][n] /\ k[q] = tree[q][n]
    OBVIOUS
  <1> HIDE DEF k
  <1>3. Wrote(p, k[q])
    BY <1>2
  <1>4. \/ After(k[p].path, k[q].path)
        \/ /\ k[p].path = k[q].path
           /\ \A i \in k[q].val.items : i.id[2] = p => i \in k[p].val.items
    BY <1>1, <1>3 DEF Sound
  <1> QED
    BY <1>2, <1>4

LEMMA AllNodes ==
  ASSUME ListsIInv
  PROVE  /\ Ids = Nodes \cup {Root} /\ Root \notin Nodes /\ \A p \in Peers : p \in Nat
         /\ \A p \in Peers, n \in Ids : IsNode(tree[p][n]) /\ tree[p][n].path \in Seq(Nat)
  <1>1. ASSUME NEW p \in Peers, NEW n \in Ids
        PROVE  IsNode(tree[p][n]) /\ tree[p][n].path \in Seq(Nat)
    <2>1. Sound([q \in Peers |-> tree[q][n]])
      BY DEF ListsIInv
    <2>2. IsNode(tree[p][n])
      BY <2>1 DEF Sound
    <2> QED
      BY <2>2, NodeFacts
  <1> QED
    BY <1>1, ListsAssumption DEF Ids

(* The node's path after a save, and the new ids of its list. *)
LEMMA SavedNode ==
  ASSUME NEW p \in Nat, NEW t, NEW c, NEW u, NEW d, NEW B, NEW D,
         FlatSaved(p, t, c, u, d, B, D), RootStays(t), ListedWasSet(t), FirstSetter(t),
         NEW n \in Nodes, IsNode(t[n])
  PROVE  /\ u[n].path = t[n].path \/ (u[n].path = Append(t[n].path, p) /\ n \in Range(D))
         /\ n \in Range(D) => /\ u[n].path # << >>
                              /\ \E i \in u[Root].val.items : i.val = n /\ i.id \notin u[Root].val.dead
         /\ t[n].path # << >> => u[n].path # << >>
         /\ \A b \in Nat : u[n].path = <<b>> =>
              /\ \E i \in u[Root].val.items : i.val = n /\ i.id[2] = b
              /\ u[n].path = t[n].path \/ (b = p /\ t[n].path = << >>)
  <1>1. NodeSaved(p, t[n], u[n], n \in Range(B), n \in Range(D))
    BY DEF FlatSaved
  <1>2. t[n].path \in Seq(Nat) /\ (Live(t[n]) => t[n].path # << >>)
    BY NodeFacts
  <1>3. Append(t[n].path, p) # << >>
    BY <1>2, AppendAfter
  <1>4. u[n].path = t[n].path \/ (u[n].path = Append(t[n].path, p) /\ n \in Range(D))
    BY <1>1, Zenon DEF NodeSaved
  <1>5. t[n].path # << >> => u[n].path # << >>
    BY <1>3, <1>4
  <1>6. n \in Range(D) => u[n].path # << >>
    BY <1>1, <1>2, <1>3, Zenon DEF NodeSaved
  <1>7. /\ D \in Seq(Nodes) /\ IsArray(u[Root].val) /\ Leads(D, Seen(u), Range(D))
        /\ Grows(t[Root].val, u[Root].val, p)
    BY DEF FlatSaved
  <1>8. n \in Range(D) =>
          \E i \in u[Root].val.items : i.val = n /\ i.id \notin u[Root].val.dead
    <2>1. /\ Seen(u) \in Seq(Nodes)
          /\ \A y : y \in Range(Seen(u)) <=>
               \E i \in u[Root].val.items : i.id \notin u[Root].val.dead /\ i.val = y
      BY <1>7, SeenFacts DEF Seen
    <2>2. \A y \in Range(D) : y \in Range(Seen(u))
      BY <1>7, <2>1, LeadsFacts
    <2> QED
      BY <2>1, <2>2
  <1>9. ASSUME NEW b \in Nat, u[n].path = <<b>>
        PROVE  /\ \E i \in u[Root].val.items : i.val = n /\ i.id[2] = b
               /\ u[n].path = t[n].path \/ (b = p /\ t[n].path = << >>)
    <2>1. CASE u[n].path = t[n].path
      <3>1. \E i \in t[Root].val.items : i.val = n /\ i.id[2] = b
        BY <1>9, <2>1 DEF FirstSetter
      <3> QED
        BY <1>7, <2>1, <3>1 DEF Grows
    <2>2. CASE u[n].path # t[n].path
      <3>1. u[n].path = Append(t[n].path, p) /\ n \in Range(D)
        BY <1>4, <2>2
      <3>2. t[n].path = << >> /\ b = p
        BY <1>2, <1>9, <3>1, OneWriter
      <3>3. PICK i \in u[Root].val.items : i.val = n
        BY <1>8, <3>1
      <3>4. i \notin t[Root].val.items
        BY <3>2, <3>3 DEF ListedWasSet
      <3>5. i.id[2] = p
        BY <1>7, <3>4 DEF Grows
      <3> QED
        BY <3>2, <3>3, <3>5
    <2> QED
      BY <2>1, <2>2
  <1> QED
    BY <1>4, <1>5, <1>6, <1>8, <1>9

LEMMA FlatReplicaSaved ==
  ASSUME NEW p \in Nat, NEW t, NEW c, NEW u, NEW d, NEW D,
         FlatReplica(t, c), \A n \in Nodes : IsNode(t[n]),
         FlatSaved(p, t, c, u, d, Firsts(c[Root], Here(t)), D)
  PROVE  FlatReplica(u, d)
  <1> DEFINE B == Firsts(c[Root], Here(t))
             a == t[Root].val
             b == u[Root].val
  <1>1. /\ RootStays(t) /\ NoChildren(t, c) /\ CacheLeads(t, c) /\ LacksOld(t, c)
        /\ ListedWasSet(t) /\ FirstSetter(t)
    BY DEF FlatReplica
  <1>2. \A y : y \in Range(B) <=> y \in Range(c[Root]) /\ y \in Here(t)
    BY <1>1, FirstsRange DEF CacheLeads
  <1> HIDE DEF B
  <1>3. FlatSaved(p, t, c, u, d, B, D)
    BY DEF B
  <1>4. /\ D \in Seq(Nodes)
        /\ u[Root].path = <<0>> /\ Live(u[Root]) /\ IsArray(b)
        /\ Grows(a, b, p) /\ Traces(a, b, Range(B) \ Range(D), Range(D))
        /\ d[Root] = D /\ Leads(D, Seen(u), Range(D))
        /\ \A n \in Nodes : NodeSaved(p, t[n], u[n], n \in Range(B), n \in Range(D))
        /\ \A n \in Nodes : Live(u[n]) => d[n] = << >>
    BY <1>3 DEF FlatSaved
  <1>5. ASSUME NEW n \in Nodes
        PROVE  /\ n \in Range(D) => u[n].path # << >>
               /\ t[n].path # << >> => u[n].path # << >>
               /\ \A w \in Nat : u[n].path = <<w>> =>
                    \E i \in u[Root].val.items : i.val = n /\ i.id[2] = w
    BY <1>1, <1>3, SavedNode
  <1>6. RootStays(u)
    BY <1>4 DEF RootStays
  <1>7. NoChildren(u, d)
    <2> SUFFICES ASSUME NEW n \in Nodes, Live(u[n]) PROVE u[n].val = NoItems
      BY <1>4 DEF NoChildren
    <2>1. NodeSaved(p, t[n], u[n], n \in Range(B), n \in Range(D))
      BY <1>4
    <2> QED
      BY <1>1, <2>1 DEF NodeSaved, NoChildren
  <1>8. CacheLeads(u, d)
    BY <1>4 DEF CacheLeads
  <1>9. LacksOld(u, d)
    <2> SUFFICES ASSUME NEW n \in Nodes, Live(u[n]), n \in Range(Seen(u)), n \notin Range(D)
                 PROVE  Len(u[n].path) > 1
      BY <1>4 DEF LacksOld
    <2>1. NodeSaved(p, t[n], u[n], n \in Range(B), n \in Range(D))
      BY <1>4
    <2>2. n \notin Range(B) /\ u[n] = t[n]
      BY <2>1 DEF NodeSaved
    <2>3. PICK i \in b.items : i.id \notin b.dead /\ i.val = n
      BY <1>4, SeenFacts DEF Seen
    <2>4. i \in a.items /\ i.id \notin a.dead
      BY <1>4, <2>3 DEF Traces
    <2>5. n \in Range(Seen(t))
      BY <1>1, <2>3, <2>4, SeenFacts DEF Seen, RootStays
    <2>6. n \in Here(t)
      BY <2>2 DEF Here, Ids
    <2>7. n \notin Range(c[Root])
      BY <1>2, <2>2, <2>6
    <2> QED
      BY <1>1, <2>2, <2>5, <2>7 DEF LacksOld
  <1>10. ListedWasSet(u)
    <2> SUFFICES ASSUME NEW i \in b.items PROVE u[i.val].path # << >>
      BY DEF ListedWasSet
    <2>1. i.val \in Nodes
      BY <1>4 DEF IsArray, Item
    <2>2. CASE i \in a.items
      BY <1>1, <1>5, <2>1, <2>2 DEF ListedWasSet
    <2>3. CASE i \notin a.items
      BY <1>4, <1>5, <2>1, <2>3 DEF Traces
    <2> QED
      BY <2>2, <2>3
  <1>11. FirstSetter(u)
    BY <1>5 DEF FirstSetter
  <1> QED
    BY <1>6, <1>7, <1>8, <1>9, <1>10, <1>11 DEF FlatReplica

LEMMA SaveStaysFlat ==
  ASSUME OneLevel, FlatIInv, NEW p \in Peers, NEW page \in Shapes, Save(p, Page(p), page)
  PROVE  FlatIInv'
  <1> DEFINE t == tree[p]
             c == cache[p]
             u == tree'[p]
             d == cache'[p]
             B == Firsts(c[Root], Here(t))
             D == page[Root]
  <1>1. FlatSaved(p, t, c, u, d, B, D)
    BY FlatSave
  <1>2. ListsIInv /\ ListsIInv' /\ Knows'
    <2>1. ListsIInv /\ Knows
      BY DEF FlatIInv
    <2> QED
      BY <2>1, SaveKeeps
  <1>3. \A q \in Peers \ {p} : tree'[q] = tree[q] /\ cache'[q] = cache[q]
    BY <1>2, SaveEffect DEF SaveIs
  <1>4. /\ Ids = Nodes \cup {Root} /\ Root \notin Nodes /\ p \in Nat
        /\ \A q \in Peers, n \in Ids : IsNode(tree[q][n]) /\ tree[q][n].path \in Seq(Nat)
    BY <1>2, AllNodes
  <1>5. /\ \A q \in Peers : FlatReplica(tree[q], cache[q])
        /\ \A q, r \in Peers : NotBefore(tree[q], tree[r])
    BY DEF FlatIInv
  <1> DEFINE k == tree
             l == cache
  <1> HIDE DEF t, c, u, d, B, D
  <1>6. FlatReplica(u, d)
    <2>1. FlatReplica(t, c) /\ \A n \in Nodes : IsNode(t[n])
      BY <1>4, <1>5 DEF t, c
    <2>2. FlatSaved(p, t, c, u, d, Firsts(c[Root], Here(t)), D)
      BY <1>1 DEF B
    <2> QED
      BY <1>4, <2>1, <2>2, FlatReplicaSaved
  <1>7. ASSUME NEW q \in Peers
        PROVE  FlatReplica(tree'[q], cache'[q])
    <2>1. CASE q = p
      BY <1>6, <2>1 DEF u, d
    <2>2. CASE q # p
      BY <1>3, <1>5, <2>2
    <2> QED
      BY <2>1, <2>2
  <1>8. ASSUME NEW n \in Nodes
        PROVE  /\ u[n].path = t[n].path \/ u[n].path = Append(t[n].path, p)
               /\ \A b \in Nat : u[n].path = <<b>> =>
                    u[n].path = t[n].path \/ (b = p /\ t[n].path = << >>)
    <2>1. RootStays(t) /\ ListedWasSet(t) /\ FirstSetter(t) /\ IsNode(t[n])
      BY <1>4, <1>5 DEF t, FlatReplica
    <2> QED
      BY <1>1, <1>4, <2>1, SavedNode
  <1>9. ASSUME NEW n \in Nodes, NEW b \in Nat, ~After(<<b>>, t[n].path)
        PROVE  ~After(<<b>>, u[n].path)
    <2> DEFINE x == t[n].path
               y == Append(x, p)
               z == <<b>>
    <2>1. x \in Seq(Nat) /\ z \in Seq(Nat)
      BY <1>4 DEF t
    <2>2. ~After(z, x)
      BY <1>9
    <2> HIDE DEF x, z
    <2>3. y \in Seq(Nat) /\ After(y, x)
      BY <1>4, <2>1, AppendAfter
    <2> HIDE DEF y
    <2>4. ~After(z, y)
      BY <2>1, <2>2, <2>3, AfterTransitive
    <2> QED
      BY <1>8, <2>2, <2>4 DEF x, y, z
  <1>10. ASSUME NEW q \in Peers, NEW r \in Peers
         PROVE  NotBefore(tree'[q], tree'[r])
    <2> SUFFICES ASSUME NEW n \in Nodes, NEW b \in Nat, tree'[r][n].path = <<b>>,
                        NEW i \in tree'[q][Root].val.items, i.val = n, i.id[2] = b
                 PROVE  ~After(<<b>>, tree'[q][n].path)
      BY DEF NotBefore
    <2>0. n \in Ids /\ Root \in Ids
      BY <1>4
    <2>1. CASE q # p /\ r # p
      <3>1. NotBefore(tree[q], tree[r]) /\ tree'[q] = tree[q] /\ tree'[r] = tree[r]
        BY <1>3, <1>5, <2>1
      <3> QED
        BY <3>1 DEF NotBefore
    <2>2. CASE q = p /\ r = p
      <3>1. <<b>> \in Seq(Nat)
        OBVIOUS
      <3>2. ~After(<<b>>, <<b>>)
        <4> DEFINE z == <<b>>
        <4> HIDE DEF z
        <4>1. z \in Seq(Nat)
          BY <3>1 DEF z
        <4>2. ~After(z, z)
          BY <4>1, NothingAfter
        <4> QED
          BY <4>2 DEF z
      <3> QED
        BY <2>2, <3>2
    <2>3. CASE q = p /\ r # p
      <3>1. tree[r][n].path = <<b>> /\ i \in u[Root].val.items
        BY <1>3, <2>3 DEF u
      <3>2. ~After(<<b>>, t[n].path)
        <4>1. CASE i \in t[Root].val.items
          <5>1. NotBefore(t, tree[r])
            BY <1>5 DEF t
          <5> QED
            BY <3>1, <4>1, <5>1 DEF NotBefore
        <4>2. CASE i \notin t[Root].val.items
          <5>1. b = p
            BY <1>1, <3>1, <4>2 DEF FlatSaved, Grows
          <5>2. Wrote(p, tree[r][n])
            <6>1. Len(<<b>>) = 1 /\ <<b>>[1] = b /\ <<b>> # << >>
              OBVIOUS
            <6> QED
              BY <3>1, <5>1, <6>1, Zenon DEF Wrote
          <5>3. After(t[n].path, <<b>>) \/ t[n].path = <<b>>
            BY <1>2, <2>0, <3>1, <5>2, WroteHas DEF t
          <5> DEFINE x == t[n].path
                     z == <<b>>
          <5>4. x \in Seq(Nat) /\ z \in Seq(Nat) /\ (After(x, z) \/ x = z)
            BY <1>4, <2>0, <5>3 DEF t
          <5> HIDE DEF x, z
          <5>5. ~After(z, x)
            BY <5>4, AfterAsymmetric, NothingAfter
          <5> QED
            BY <5>5 DEF x, z
        <4> QED
          BY <4>1, <4>2
      <3> QED
        BY <1>9, <2>3, <3>2 DEF u
    <2>4. CASE q # p /\ r = p
      <3>1. tree'[q] = tree[q] /\ u[n].path = <<b>>
        BY <1>3, <2>4 DEF u
      <3>2. CASE u[n].path = t[n].path
        <4>1. NotBefore(tree[q], t)
          BY <1>5 DEF t
        <4> QED
          BY <3>1, <3>2, <4>1 DEF NotBefore
      <3>3. CASE u[n].path # t[n].path
        <4>1. b = p /\ t[n].path = << >>
          BY <1>8, <3>1, <3>3
        <4>2. tree[q][Root].path = <<0>> /\ t[Root].path = <<0>> /\ ListedWasSet(t)
          BY <1>5 DEF FlatReplica, RootStays, t
        <4>3. i \in tree[q][Root].val.items /\ i.id[2] = p
          BY <3>1, <4>1
        <4>4. Wrote(p, tree[q][Root])
          <5>1. <<0>> # << >>
            OBVIOUS
          <5> QED
            BY <4>2, <4>3, <5>1 DEF Wrote
        <4>5. ~After(<<0>>, <<0>>)
          <5> DEFINE z == <<0>>
          <5>1. z \in Seq(Nat)
            OBVIOUS
          <5> HIDE DEF z
          <5>2. ~After(z, z)
            BY <5>1, NothingAfter
          <5> QED
            BY <5>2 DEF z
        <4>6. i \in t[Root].val.items
          BY <1>2, <2>0, <4>2, <4>3, <4>4, <4>5, WroteHas DEF t
        <4> QED
          BY <4>1, <4>2, <4>6 DEF ListedWasSet
      <3> QED
        BY <3>2, <3>3
    <2> QED
      BY <2>1, <2>2, <2>3, <2>4
  <1> QED
    BY <1>2, <1>7, <1>10 DEF FlatIInv

(* The path of a merged node. *)
LEMMA MergedPath ==
  ASSUME NEW x, NEW y, NEW z, NodeMerged(x, y, z),
         x.path \in Seq(Nat), y.path \in Seq(Nat), z.path \in Seq(Nat)
  PROVE  /\ z.path = x.path \/ z.path = y.path
         /\ x.path # << >> \/ y.path # << >> => z.path # << >>
         /\ \A a \in Seq(Nat) : After(a, z.path) => After(a, x.path) /\ After(a, y.path)
  <1> DEFINE X == x.path
             Y == y.path
             Z == z.path
  <1>1. X \in Seq(Nat) /\ Y \in Seq(Nat) /\ Z \in Seq(Nat)
    OBVIOUS
  <1>2. /\ Z = X \/ (z = y /\ After(Z, X))
        /\ Z = Y \/ (z = x /\ After(Z, Y))
    BY DEF NodeMerged
  <1>3. Z = X \/ Z = Y
    BY <1>2
  <1>4. (Z = X \/ After(Z, X)) /\ (Z = Y \/ After(Z, Y))
    BY <1>2
  <1> HIDE DEF X, Y, Z
  <1>5. X # << >> \/ Y # << >> => Z # << >>
    BY <1>1, <1>4, NothingAfter
  <1>6. \A a \in Seq(Nat) : After(a, Z) => After(a, X) /\ After(a, Y)
    <2> TAKE a \in Seq(Nat)
    <2> QED
      BY <1>1, <1>4, AfterTransitive
  <1> QED
    BY <1>3, <1>5, <1>6 DEF X, Y, Z

LEMMA FlatReplicaMerged ==
  ASSUME NEW t, NEW v, NEW c, NEW e, NEW u, NEW d,
         FlatReplica(t, c), FlatReplica(v, e), NotBefore(t, v),
         FlatMerged(t, v, c, u, d),
         \A n \in Nodes : /\ IsNode(t[n]) /\ IsNode(v[n])
                          /\ t[n].path \in Seq(Nat) /\ v[n].path \in Seq(Nat)
                          /\ u[n].path \in Seq(Nat)
  PROVE  FlatReplica(u, d)
  <1>1. /\ RootStays(t) /\ CacheLeads(t, c) /\ LacksOld(t, c)
        /\ ListedWasSet(t) /\ FirstSetter(t) /\ ListedWasSet(v) /\ FirstSetter(v)
    BY DEF FlatReplica
  <1>2. /\ u[Root].path = <<0>> /\ Live(u[Root]) /\ IsArray(u[Root].val)
        /\ u[Root].val = MergeArray(t[Root].val, v[Root].val)
        /\ ReadsTouched(t, c, u, d) \/ ReadsAll(u, d)
        /\ \A n \in Nodes : NodeMerged(t[n], v[n], u[n])
        /\ \A n \in Nodes : Live(u[n]) => u[n].val = NoItems /\ d[n] = << >>
    BY DEF FlatMerged, TreeMerged, RootStays
  <1>3. u[Root].val.items = t[Root].val.items \cup v[Root].val.items
    BY <1>2 DEF MergeArray
  <1>4. ASSUME NEW n \in Nodes
        PROVE  /\ u[n].path = t[n].path \/ u[n].path = v[n].path
               /\ t[n].path # << >> \/ v[n].path # << >> => u[n].path # << >>
    <2> DEFINE x == t[n]
               y == v[n]
               z == u[n]
    <2>1. /\ NodeMerged(x, y, z)
          /\ x.path \in Seq(Nat) /\ y.path \in Seq(Nat) /\ z.path \in Seq(Nat)
      BY <1>2
    <2> HIDE DEF x, y, z
    <2>2. /\ z.path = x.path \/ z.path = y.path
          /\ x.path # << >> \/ y.path # << >> => z.path # << >>
      BY <2>1, MergedPath
    <2> QED
      BY <2>2 DEF x, y, z
  <1>5. RootStays(u) /\ NoChildren(u, d)
    BY <1>2 DEF RootStays, NoChildren
  <1>6. Seen(u) \in Seq(Nodes)
    BY <1>2, SeenFacts DEF Seen
  <1>7. CacheLeads(u, d)
    <2>1. CASE ReadsAll(u, d)
      BY <2>1 DEF ReadsAll
    <2>2. CASE ReadsTouched(t, c, u, d) /\ u[Root] = t[Root]
      BY <1>1, <2>2 DEF ReadsTouched, CacheLeads, Seen
    <2>3. CASE ReadsTouched(t, c, u, d) /\ u[Root] # t[Root]
      <3>1. Leads(Seen(u), Seen(u), Range(Seen(u)))
        BY <1>6, LeadsAll
      <3> QED
        BY <1>6, <2>3, <3>1 DEF ReadsTouched, CacheLeads
    <2> QED
      BY <1>2, <2>1, <2>2, <2>3
  <1>8. LacksOld(u, d)
    <2> SUFFICES ASSUME NEW n \in Nodes, Live(u[n]), n \in Range(Seen(u)), n \notin Range(d[Root])
                 PROVE  Len(u[n].path) > 1
      BY DEF LacksOld
    <2>1. u[Root] = t[Root] /\ d[Root] = c[Root] /\ Seen(u) = Seen(t)
      BY <1>2 DEF ReadsTouched, ReadsAll, Seen
    <2>2. NodeMerged(t[n], v[n], u[n])
      BY <1>2
    <2>3. CASE u[n].path = t[n].path
      <3>1. Live(t[n])
        BY <2>2, <2>3, Zenon DEF NodeMerged
      <3>2. Len(t[n].path) > 1
        BY <1>1, <2>1, <3>1 DEF LacksOld
      <3> QED
        BY <2>3, <3>2
    <2>4. CASE u[n].path # t[n].path
      <3>1. u[n] = v[n] /\ After(v[n].path, t[n].path) /\ Live(v[n])
        BY <2>2, <2>4, Zenon DEF NodeMerged
      <3>2. v[n].path # << >> /\ Len(v[n].path) >= 1
        <4> DEFINE x == v[n].path
        <4>1. x \in Seq(Nat) /\ x # << >>
          BY <3>1, NodeFacts
        <4> HIDE DEF x
        <4>2. Len(x) >= 1
          BY <4>1
        <4> QED
          BY <4>1, <4>2 DEF x
      <3>3. ASSUME Len(v[n].path) = 1 PROVE FALSE
        <4>1. v[n].path = <<v[n].path[1]>> /\ v[n].path[1] \in Nat
          <5> DEFINE x == v[n].path
          <5>1. x \in Seq(Nat) /\ Len(x) = 1
            BY <3>3
          <5> HIDE DEF x
          <5>2. x = <<x[1]>> /\ x[1] \in Nat
            <6>1. 0 \in Nat
              OBVIOUS
            <6> QED
              BY <5>1, <6>1, OneWriter
          <5> QED
            BY <5>2 DEF x
        <4>2. PICK i \in v[Root].val.items : i.val = n /\ i.id[2] = v[n].path[1]
          BY <1>1, <4>1 DEF FirstSetter
        <4>3. i \in t[Root].val.items
          BY <1>3, <2>1
        <4>4. ~After(<<v[n].path[1]>>, t[n].path)
          BY <4>1, <4>2, <4>3 DEF NotBefore
        <4> QED
          BY <3>1, <4>1, <4>4
      <3> DEFINE k == Len(v[n].path)
      <3>4. k \in Nat /\ k >= 1 /\ k # 1
        BY <3>2, <3>3
      <3> HIDE DEF k
      <3>5. k > 1
        BY <3>4
      <3> QED
        BY <3>1, <3>5 DEF k
    <2> QED
      BY <2>3, <2>4
  <1>9. ListedWasSet(u)
    <2> SUFFICES ASSUME NEW i \in u[Root].val.items PROVE u[i.val].path # << >>
      BY DEF ListedWasSet
    <2>1. i.val \in Nodes
      BY <1>2 DEF IsArray, Item
    <2> QED
      BY <1>1, <1>3, <1>4, <2>1 DEF ListedWasSet
  <1>10. FirstSetter(u)
    <2> SUFFICES ASSUME NEW n \in Nodes, NEW b \in Nat, u[n].path = <<b>>
                 PROVE  \E i \in u[Root].val.items : i.val = n /\ i.id[2] = b
      BY DEF FirstSetter
    <2>1. t[n].path = <<b>> \/ v[n].path = <<b>>
      BY <1>4
    <2> QED
      BY <1>1, <1>3, <2>1 DEF FirstSetter
  <1> QED
    BY <1>5, <1>7, <1>8, <1>9, <1>10 DEF FlatReplica

LEMMA UpdateStaysFlat ==
  ASSUME FlatIInv, NEW p \in Peers, NEW s \in Peers, Updates(p, s)
  PROVE  FlatIInv'
  <1> DEFINE t == tree[p]
             v == tree[s]
             c == cache[p]
             e == cache[s]
             u == tree'[p]
             d == cache'[p]
  <1>1. /\ FlatMerged(t, v, c, u, d)
        /\ \A q \in Peers \ {p} : tree'[q] = tree[q] /\ cache'[q] = cache[q]
    BY FlatUpdate
  <1>2. ListsIInv /\ ListsIInv' /\ Knows'
    <2>1. ListsIInv
      BY DEF FlatIInv
    <2> QED
      BY <2>1, FlatUpdate
  <1>3. /\ Ids = Nodes \cup {Root} /\ Root \notin Nodes
        /\ \A q \in Peers, n \in Ids : IsNode(tree[q][n]) /\ tree[q][n].path \in Seq(Nat)
    BY <1>2, AllNodes
  <1>4. \A n \in Nodes : u[n].path \in Seq(Nat)
    <2> SUFFICES ASSUME NEW n \in Nodes PROVE u[n].path \in Seq(Nat)
      OBVIOUS
    <2>1. Sound([q \in Peers |-> tree'[q][n]])
      BY <1>2, <1>3 DEF ListsIInv
    <2>2. IsNode(tree'[p][n])
      BY <2>1 DEF Sound
    <2> QED
      BY <2>2, NodeFacts
  <1>5. /\ \A q \in Peers : FlatReplica(tree[q], cache[q])
        /\ \A q, r \in Peers : NotBefore(tree[q], tree[r])
    BY DEF FlatIInv
  <1> HIDE DEF t, v, c, e, u, d
  <1>6. \A n \in Nodes : /\ IsNode(t[n]) /\ IsNode(v[n])
                         /\ t[n].path \in Seq(Nat) /\ v[n].path \in Seq(Nat)
                         /\ u[n].path \in Seq(Nat)
    BY <1>3, <1>4 DEF t, v
  <1>7. FlatReplica(u, d)
    <2>1. FlatReplica(t, c) /\ FlatReplica(v, e) /\ NotBefore(t, v)
      BY <1>5 DEF t, v, c, e
    <2> QED
      BY <1>1, <1>6, <2>1, FlatReplicaMerged
  <1>8. ASSUME NEW q \in Peers
        PROVE  FlatReplica(tree'[q], cache'[q])
    <2>1. CASE q = p
      BY <1>7, <2>1 DEF u, d
    <2>2. CASE q # p
      BY <1>1, <1>5, <2>2
    <2> QED
      BY <2>1, <2>2
  <1>9. ASSUME NEW n \in Nodes
        PROVE  /\ u[n].path = t[n].path \/ u[n].path = v[n].path
               /\ \A a \in Seq(Nat) : After(a, u[n].path) =>
                    After(a, t[n].path) /\ After(a, v[n].path)
    BY <1>1, <1>6, MergedPath DEF FlatMerged, TreeMerged
  <1>10. u[Root].val.items = t[Root].val.items \cup v[Root].val.items
    BY <1>1 DEF FlatMerged, TreeMerged, MergeArray
  <1>11. ASSUME NEW q \in Peers, NEW r \in Peers
         PROVE  NotBefore(tree'[q], tree'[r])
    <2> SUFFICES ASSUME NEW n \in Nodes, NEW b \in Nat, tree'[r][n].path = <<b>>,
                        NEW i \in tree'[q][Root].val.items, i.val = n, i.id[2] = b
                 PROVE  ~After(<<b>>, tree'[q][n].path)
      BY DEF NotBefore
    <2>1. CASE q # p /\ r # p
      <3>1. NotBefore(tree[q], tree[r]) /\ tree'[q] = tree[q] /\ tree'[r] = tree[r]
        BY <1>1, <1>5, <2>1
      <3> QED
        BY <3>1 DEF NotBefore
    <2>2. CASE q = p /\ r = p
      <3> DEFINE z == <<b>>
      <3>1. z \in Seq(Nat) /\ tree'[q][n].path = z
        BY <2>2
      <3> HIDE DEF z
      <3>2. ~After(z, z)
        BY <3>1, NothingAfter
      <3> QED
        BY <3>1, <3>2 DEF z
    <2>3. CASE q = p /\ r # p
      <3>1. tree[r][n].path = <<b>> /\ i \in u[Root].val.items
        BY <1>1, <2>3 DEF u
      <3>2. NotBefore(t, tree[r]) /\ NotBefore(v, tree[r])
        BY <1>5 DEF t, v
      <3>3. ~After(<<b>>, t[n].path) \/ ~After(<<b>>, v[n].path)
        BY <1>10, <3>1, <3>2 DEF NotBefore
      <3>4. <<b>> \in Seq(Nat)
        OBVIOUS
      <3>5. ~After(<<b>>, u[n].path)
        BY <1>9, <3>3, <3>4
      <3> QED
        BY <2>3, <3>5 DEF u
    <2>4. CASE q # p /\ r = p
      <3>1. tree'[q] = tree[q] /\ (t[n].path = <<b>> \/ v[n].path = <<b>>)
        BY <1>1, <1>9, <2>4 DEF u
      <3>2. NotBefore(tree[q], t) /\ NotBefore(tree[q], v)
        BY <1>5 DEF t, v
      <3> QED
        BY <3>1, <3>2 DEF NotBefore
    <2> QED
      BY <2>1, <2>2, <2>3, <2>4
  <1> QED
    BY <1>2, <1>8, <1>11 DEF FlatIInv

(* No read of a whole tree has left a node out yet. *)
Uncut == \A p \in Peers : ~cut[p]

LEMMA CutStays ==
  ASSUME ListsIInv, [Next]_vars, Uncut'
  PROVE  Uncut
  <1> SUFFICES ASSUME NEW q \in Peers PROVE cut[q] => cut'[q]
    BY DEF Uncut
  <1>1. CASE Next
    <2>1. ASSUME NEW p \in Peers, NEW page \in Shapes, Save(p, Page(p), page)
          PROVE  cut' = cut
      BY <2>1 DEF Save
    <2>2. ASSUME NEW p \in Peers, NEW s \in Peers, Deliver(p, s)
          PROVE  cut' = cut
      BY <2>2 DEF Deliver
    <2>3. ASSUME NEW p \in Peers, NEW s \in Peers, DeliverWhole(p, s)
          PROVE  cut[q] => cut'[q]
      <3> DEFINE left == LeavesOut(Merged(p, s), FullRead(Merged(p, s)))
      <3>1. cut \in [Peers -> BOOLEAN] /\ cut' = [cut EXCEPT ![p] = @ \/ left]
        BY <2>3, DeliverWholeKeeps DEF ListsIInv
      <3> HIDE DEF left
      <3> QED
        BY <3>1
    <2> QED
      BY <1>1, <2>1, <2>2, <2>3 DEF Next
  <1>2. CASE UNCHANGED vars
    BY <1>2 DEF vars
  <1> QED
    BY <1>1, <1>2

LEMMA FlatStep == OneLevel /\ FlatIInv /\ [Next]_vars /\ Uncut' => FlatIInv'
  <1> SUFFICES ASSUME OneLevel, FlatIInv, [Next]_vars, Uncut'
               PROVE  FlatIInv'
    OBVIOUS
  <1>1. CASE Next
    <2>1. ASSUME NEW p \in Peers, NEW page \in Shapes, Save(p, Page(p), page)
          PROVE  FlatIInv'
      BY <2>1, SaveStaysFlat
    <2>2. ASSUME NEW p \in Peers, NEW q \in Peers, Deliver(p, q) \/ DeliverWhole(p, q)
          PROVE  FlatIInv'
      <3>1. Updates(p, q)
        BY <2>2 DEF Updates, Uncut
      <3> QED
        BY <3>1, UpdateStaysFlat
    <2> QED
      BY <1>1, <2>1, <2>2 DEF Next
  <1>2. CASE UNCHANGED vars
    <2>1. tree' = tree /\ cache' = cache
      BY <1>2 DEF vars
    <2>2. ListsIInv'
      BY <1>2, ListsStep DEF FlatIInv
    <2> QED
      BY <2>1, <2>2 DEF FlatIInv, Knows
  <1> QED
    BY <1>1, <1>2

(* Whatever any number of users insert, remove and reorder below the root   *)
(* of a page of one level, and however their updates cross, the cache of    *)
(* live-ir.ts shows the page a walk of the tree shows, short at most of     *)
(* nodes that had been removed and came back.  It holds of caches that are  *)
(* filled when the adapter is made and of those that the first update      *)
(* fills, and of updates after which everything is read anew, for as long   *)
(* as no such read has left a node out.                                    *)
THEOREM FlatCacheFollows == OneLevel /\ Spec => [](Uncut => CacheFollowsTree)
  <1> SUFFICES ASSUME OneLevel
               PROVE  Spec => [](Uncut => CacheFollowsTree)
    OBVIOUS
  <1> DEFINE Inv == ListsIInv /\ (Uncut => FlatIInv)
  <1>1. Init => Inv
    BY FlatInit DEF FlatIInv
  <1>2. Inv /\ [Next]_vars => Inv'
    <2> SUFFICES ASSUME ListsIInv, Uncut => FlatIInv, [Next]_vars
                 PROVE  ListsIInv' /\ (Uncut' => FlatIInv')
      OBVIOUS
    <2>1. ListsIInv'
      BY ListsStep
    <2>2. ASSUME Uncut' PROVE FlatIInv'
      <3>1. Uncut
        BY <2>2, CutStays
      <3> QED
        BY <2>2, <3>1, FlatStep
    <2> QED
      BY <2>1, <2>2
  <1>3. Inv => (Uncut => CacheFollowsTree)
    BY FlatFollows
  <1> HIDE DEF Inv
  <1> QED
    BY <1>1, <1>2, <1>3, PTL DEF Spec

-----------------------------------------------------------------------------
(* Pages of one level whose nodes are each one user's. *)

(* u decides about n, if anybody does. *)
Owner(u, n) == \A q \in Peers \ {u} : n \notin Grant[q]

ItemsOf(t, n) == {i \in t[Root].val.items : i.val = n}
IsDead(t, i) == i.id \in t[Root].val.dead

(* Nobody has a later item of n's key than u, nor has it deleted when u has *)
(* not.                                                                    *)
Ahead(f, u, n) ==
  \A q \in Peers :
    \/ After(f[u][n].path, f[q][n].path)
    \/ f[u][n].path = f[q][n].path /\ (Live(f[u][n]) => Live(f[q][n]))

(* R are the items of n that went when u removed it.  Every other one that  *)
(* is deleted was replaced by a newer one, which nobody has without it.     *)
Outlives(f, x, w) ==
  /\ x.id[1] < w.id[1]
  /\ \A r \in Peers : w \in f[r][Root].val.items => x \in f[r][Root].val.items

Settled(f, u, n, R) ==
  /\ R \subseteq ItemsOf(f[u], n)
  /\ \A i \in R : IsDead(f[u], i)
  /\ Live(f[u][n]) => \E i \in ItemsOf(f[u], n) : i \notin R
  /\ \A q \in Peers : \A x \in ItemsOf(f[q], n) \ R : IsDead(f[q], x) =>
       \E w \in ItemsOf(f[q], n) \ R : Outlives(f, x, w)

PlacedBy(u, n) ==
  /\ Ahead(tree, u, n)
  /\ placed[n] = IF Live(tree[u][n]) THEN {Root} ELSE {}
  /\ Live(tree[u][n]) => n \in Range(cache[u][Root])
  /\ \E R : Settled(tree, u, n, R)

PlacesIInv ==
  /\ FlatIInv
  /\ \A n \in Nodes, u \in Peers : Owner(u, n) => PlacedBy(u, n)

(* What p added to its list nobody else has, and n is to be seen at u.      *)
OnlyHere(f, p, a, b) ==
  \A w \in b.items \ a.items : \A r \in Peers \ {p} : w \notin f[r][Root].val.items
ToBeSeen(t, n) == \E i \in ItemsOf(t, n) : ~IsDead(t, i)

(* An item that an array knows as deleted is in that array. *)
LEMMA DeadHere ==
  ASSUME NEW a, NEW b, IsArray(a), IsArray(b), a.items \subseteq b.items,
         NEW x \in b.items, x.id \in a.dead
  PROVE  x \in a.items
  <1>1. x.id \in IdsOf(a.items)
    BY DEF IsArray
  <1>2. PICK j \in a.items : j.id = x.id
    BY <1>1 DEF IdsOf
  <1>3. j = x
    BY <1>2 DEF IsArray
  <1> QED
    BY <1>3

LEMMA SettledSaved ==
  ASSUME NEW f, NEW g, NEW p \in Peers, NEW u \in Peers, NEW n \in Nodes, NEW R,
         Settled(f, u, n, R), \A q \in Peers \ {p} : g[q] = f[q],
         NEW a, a = f[p][Root].val, NEW b, b = g[p][Root].val, IsArray(a), IsArray(b),
         NEW gone, NEW D, Traces(a, b, gone, D), n \notin gone,
         OnlyHere(f, p, a, b), Live(g[u][n]) => Live(f[u][n]) \/ ToBeSeen(g[u], n)
  PROVE  Settled(g, u, n, R)
  <1>1. /\ R \subseteq ItemsOf(f[u], n)
        /\ \A i \in R : IsDead(f[u], i)
        /\ Live(f[u][n]) => \E i \in ItemsOf(f[u], n) : i \notin R
        /\ \A q \in Peers : \A x \in ItemsOf(f[q], n) \ R : IsDead(f[q], x) =>
             \E w \in ItemsOf(f[q], n) \ R : Outlives(f, x, w)
    BY DEF Settled
  <1>2. /\ a.items \subseteq b.items /\ a.dead \subseteq b.dead
        /\ \A x \in b.items : x.id \in b.dead => x.id \in a.dead \/ x.val \in gone \/ Replaced(x, a, b)
    BY DEF Traces
  <1>3. \A q \in Peers : ItemsOf(f[q], n) \subseteq ItemsOf(g[q], n)
    BY <1>2 DEF ItemsOf
  <1>4. \A i \in R : IsDead(g[u], i)
    BY <1>1, <1>2 DEF IsDead
  <1>5. Live(g[u][n]) => \E i \in ItemsOf(g[u], n) : i \notin R
    <2>1. ToBeSeen(g[u], n) => \E i \in ItemsOf(g[u], n) : i \notin R
      BY <1>4 DEF ToBeSeen
    <2> QED
      BY <1>1, <1>3, <2>1
  <1>6. ASSUME NEW q \in Peers, NEW x \in ItemsOf(g[q], n) \ R, IsDead(g[q], x)
        PROVE  \E w \in ItemsOf(g[q], n) \ R : Outlives(g, x, w)
    <2>1. ASSUME NEW w \in ItemsOf(f[q], n) \ R, Outlives(f, x, w), x \in f[q][Root].val.items
          PROVE  Outlives(g, x, w)
      <3>1. ASSUME NEW r \in Peers, w \in g[r][Root].val.items
            PROVE  x \in g[r][Root].val.items
        <4>1. CASE r # p
          BY <2>1, <3>1, <4>1 DEF Outlives
        <4>2. CASE r = p
          <5>1. CASE w \in a.items
            BY <1>2, <2>1, <4>2, <5>1 DEF Outlives
          <5>2. CASE w \notin a.items
            <6>1. w \in b.items \ a.items
              BY <3>1, <4>2, <5>2
            <6>2. q = p
              BY <2>1, <6>1 DEF ItemsOf, OnlyHere
            <6> QED
              BY <2>1, <5>2, <6>2 DEF ItemsOf
          <5> QED
            BY <5>1, <5>2
        <4> QED
          BY <4>1, <4>2
      <3> QED
        BY <2>1, <3>1 DEF Outlives
    <2>2. ASSUME x \in ItemsOf(f[q], n), IsDead(f[q], x)
          PROVE  \E w \in ItemsOf(g[q], n) \ R : Outlives(g, x, w)
      <3>1. PICK w \in ItemsOf(f[q], n) \ R : Outlives(f, x, w)
        BY <1>1, <1>6, <2>2
      <3>2. Outlives(g, x, w)
        BY <2>1, <2>2, <3>1 DEF ItemsOf
      <3> QED
        BY <1>3, <3>1, <3>2
    <2>3. CASE q # p
      BY <1>6, <2>2, <2>3
    <2>4. CASE q = p /\ x.id \in a.dead
      <3>1. x \in b.items /\ x.val = n
        BY <1>6, <2>4 DEF ItemsOf
      <3>2. x \in a.items
        BY <1>2, <2>4, <3>1, DeadHere
      <3> QED
        BY <2>2, <2>4, <3>1, <3>2 DEF ItemsOf, IsDead
    <2>5. CASE q = p /\ x.id \notin a.dead
      <3>1. x \in b.items /\ x.val = n /\ x.id \in b.dead
        BY <1>6, <2>5 DEF ItemsOf, IsDead
      <3>2. PICK w \in b.items \ a.items : w.val = x.val /\ x.id[1] < w.id[1]
        BY <1>2, <2>5, <3>1 DEF Replaced
      <3>3. w \notin R
        BY <1>1, <3>2 DEF ItemsOf, OnlyHere
      <3>4. Outlives(g, x, w)
        BY <3>1, <3>2 DEF Outlives, OnlyHere
      <3> QED
        BY <2>5, <3>1, <3>2, <3>3, <3>4 DEF ItemsOf
    <2> QED
      BY <2>3, <2>4, <2>5
  <1> QED
    BY <1>1, <1>3, <1>4, <1>5, <1>6 DEF Settled

(* The owner removes the node. *)
LEMMA SettledRemoved ==
  ASSUME NEW f, NEW g, NEW p \in Peers, NEW n \in Nodes, NEW R,
         Settled(f, p, n, R), \A q \in Peers \ {p} : g[q] = f[q],
         NEW a, a = f[p][Root].val, NEW b, b = g[p][Root].val,
         NEW gone, NEW D, Traces(a, b, gone, D), n \in gone, n \notin D, ~Live(g[p][n])
  PROVE  Settled(g, p, n, ItemsOf(f[p], n))
  <1> DEFINE S == ItemsOf(f[p], n)
  <1>1. /\ R \subseteq S
        /\ \A q \in Peers : \A x \in ItemsOf(f[q], n) \ R : IsDead(f[q], x) =>
             \E w \in ItemsOf(f[q], n) \ R : Outlives(f, x, w)
    BY DEF Settled
  <1>2. /\ a.items \subseteq b.items /\ \A i \in b.items \ a.items : i.val \in D
        /\ \A x \in a.items : x.val \in gone => x.id \in b.dead
    BY DEF Traces
  <1>3. ItemsOf(g[p], n) = S /\ \A i \in S : IsDead(g[p], i)
    BY <1>2 DEF ItemsOf, IsDead
  <1>4. ASSUME NEW q \in Peers, NEW x \in ItemsOf(g[q], n) \ S, IsDead(g[q], x)
        PROVE  \E w \in ItemsOf(g[q], n) \ S : Outlives(g, x, w)
    <2>1. q # p /\ g[q] = f[q]
      BY <1>3, <1>4
    <2>2. PICK w \in ItemsOf(f[q], n) \ R : Outlives(f, x, w)
      BY <1>1, <1>4, <2>1
    <2>3. w \notin S
      BY <1>4, <2>1, <2>2 DEF Outlives, ItemsOf
    <2>4. ASSUME NEW r \in Peers, w \in g[r][Root].val.items
          PROVE  x \in g[r][Root].val.items
      <3>1. CASE r # p
        BY <2>2, <2>4, <3>1 DEF Outlives
      <3>2. CASE r = p
        BY <1>3, <2>2, <2>3, <2>4, <3>2 DEF ItemsOf
      <3> QED
        BY <3>1, <3>2
    <2>5. Outlives(g, x, w)
      BY <2>2, <2>4 DEF Outlives
    <2> QED
      BY <2>1, <2>2, <2>3, <2>5
  <1> QED
    BY <1>3, <1>4 DEF Settled

LEMMA SettledMerged ==
  ASSUME NEW f, NEW g, NEW p \in Peers, NEW s \in Peers, NEW u \in Peers, NEW n \in Nodes, NEW R,
         Settled(f, u, n, R), \A q \in Peers \ {p} : g[q] = f[q],
         NEW a, a = f[p][Root].val, NEW v, v = f[s][Root].val, NEW b, b = g[p][Root].val,
         IsArray(a), IsArray(v), IsArray(b), b = MergeArray(a, v),
         Live(g[u][n]) => Live(f[u][n])
  PROVE  Settled(g, u, n, R)
  <1>1. /\ R \subseteq ItemsOf(f[u], n)
        /\ \A i \in R : IsDead(f[u], i)
        /\ Live(f[u][n]) => \E i \in ItemsOf(f[u], n) : i \notin R
        /\ \A q \in Peers : \A x \in ItemsOf(f[q], n) \ R : IsDead(f[q], x) =>
             \E w \in ItemsOf(f[q], n) \ R : Outlives(f, x, w)
    BY DEF Settled
  <1>2. b.items = a.items \cup v.items /\ b.dead = a.dead \cup v.dead
    BY DEF MergeArray
  <1>3. \A q \in Peers : ItemsOf(f[q], n) \subseteq ItemsOf(g[q], n)
    BY <1>2 DEF ItemsOf
  <1>4. \A i \in R : IsDead(g[u], i)
    BY <1>1, <1>2 DEF IsDead
  <1>5. \A x, w : Outlives(f, x, w) => Outlives(g, x, w)
    <2> SUFFICES ASSUME NEW x, NEW w, Outlives(f, x, w), NEW r \in Peers,
                        w \in g[r][Root].val.items
                 PROVE  x \in g[r][Root].val.items
      BY DEF Outlives
    <2>1. CASE r # p
      BY <2>1 DEF Outlives
    <2>2. CASE r = p
      BY <1>2, <2>2 DEF Outlives
    <2> QED
      BY <2>1, <2>2
  <1>6. ASSUME NEW q \in Peers, NEW x \in ItemsOf(g[q], n) \ R, IsDead(g[q], x)
        PROVE  \E w \in ItemsOf(g[q], n) \ R : Outlives(g, x, w)
    <2>1. ASSUME NEW r \in Peers, x \in ItemsOf(f[r], n), IsDead(f[r], x),
                 ItemsOf(f[r], n) \subseteq ItemsOf(g[q], n)
          PROVE  \E w \in ItemsOf(g[q], n) \ R : Outlives(g, x, w)
      <3>1. PICK w \in ItemsOf(f[r], n) \ R : Outlives(f, x, w)
        BY <1>1, <1>6, <2>1
      <3> QED
        BY <1>5, <2>1, <3>1
    <2>2. CASE q # p
      BY <1>3, <1>6, <2>1, <2>2
    <2>3. CASE q = p
      <3>1. x \in b.items /\ x.val = n /\ (x.id \in a.dead \/ x.id \in v.dead)
        BY <1>2, <1>6, <2>3 DEF ItemsOf, IsDead
      <3>2. CASE x.id \in a.dead
        <4>1. x \in a.items
          BY <1>2, <3>1, <3>2, DeadHere
        <4> QED
          BY <1>3, <2>1, <2>3, <3>1, <3>2, <4>1 DEF ItemsOf, IsDead
      <3>3. CASE x.id \in v.dead
        <4>1. x \in v.items
          BY <1>2, <3>1, <3>3, DeadHere
        <4>2. ItemsOf(f[s], n) \subseteq ItemsOf(g[q], n)
          BY <1>2, <2>3 DEF ItemsOf
        <4> QED
          BY <2>1, <3>1, <3>3, <4>1, <4>2 DEF ItemsOf, IsDead
      <3> QED
        BY <3>1, <3>2, <3>3
    <2> QED
      BY <2>2, <2>3
  <1>7. Live(g[u][n]) => \E i \in ItemsOf(g[u], n) : i \notin R
    BY <1>1, <1>3
  <1> QED
    BY <1>1, <1>3, <1>4, <1>6, <1>7 DEF Settled

(* What is settled is shown: the newest item of a live node is there. *)
LEMMA SettledShows ==
  ASSUME NEW f, NEW u \in Peers, NEW n \in Nodes, NEW R, Settled(f, u, n, R),
         Live(f[u][n]), IsArray(f[u][Root].val)
  PROVE  n \in Range(Seen(f[u]))
  <1> DEFINE a == f[u][Root].val
             S == ItemsOf(f[u], n) \ R
             clocks == {i.id[1] : i \in S}
  <1>1. a.items \in SUBSET Item /\ IsFiniteSet(a.items)
    BY DEF IsArray
  <1>2. S # {} /\ S \subseteq a.items
    BY DEF Settled, ItemsOf
  <1>3. \A x \in S : IsDead(f[u], x) => \E w \in S : x.id[1] < w.id[1]
    BY DEF Settled, Outlives
  <1> HIDE DEF S
  <1>4. IsFiniteSet(S) /\ \A i \in S : i.id[1] \in Nat
    BY <1>1, <1>2, FS_Subset DEF Item
  <1>5. PICK x \in S : \A w \in S : ~(x.id[1] < w.id[1])
    <2>1. IsFiniteSet(clocks)
      <3> DEFINE g == [i \in S |-> i.id[1]]
      <3>1. g \in Surjection(S, clocks)
        BY DEF Surjection
      <3> QED
        BY <1>4, <3>1, FS_Surjection
    <2>2. clocks \subseteq Nat /\ clocks # {}
      BY <1>2, <1>4
    <2>3. \A m \in clocks : \E i \in S : m = i.id[1]
      OBVIOUS
    <2>4. \A i \in S : i.id[1] \in clocks
      OBVIOUS
    <2> HIDE DEF clocks
    <2>5. PICK m \in clocks : \A k \in clocks : k <= m
      BY <2>1, <2>2, MaxOf
    <2>6. PICK x \in S : m = x.id[1]
      BY <2>3
    <2>7. \A w \in S : ~(x.id[1] < w.id[1])
      BY <1>4, <2>4, <2>5, <2>6
    <2> QED
      BY <2>7
  <1>6. ~IsDead(f[u], x)
    BY <1>3, <1>5
  <1>7. x \in a.items /\ x.val = n /\ x.id \notin a.dead
    BY <1>6 DEF S, ItemsOf, IsDead
  <1> QED
    BY <1>7, SeenFacts DEF Seen

(* Where a page of one level has a node. *)
LEMMA ParentFlat ==
  ASSUME NEW C \in Seq(Nodes), NEW L, NEW n \in Nodes, Root \notin Nodes
  PROVE  Parent(FlatPage(C, L), n) = IF n \in Range(C) /\ n \in L THEN {Root} ELSE {}
  <1> DEFINE f == Firsts(C, L)
             page == FlatPage(C, L)
  <1>1. \A y : y \in Range(f) <=> y \in Range(C) /\ y \in L
    BY FirstsRange
  <1>2. Range(<< >>) = {}
    BY DEF Range
  <1>3. /\ Root \in DOMAIN page
        /\ page[Root] = f /\ \A m \in DOMAIN page : m # Root => page[m] = << >>
    BY DEF FlatPage
  <1> HIDE DEF f, page
  <1>4. \A m : m \in Parent(page, n) <=> m \in DOMAIN page /\ n \in Range(page[m])
    BY DEF Parent
  <1>5. \A m : m \in Parent(page, n) <=> m = Root /\ n \in Range(f)
    BY <1>2, <1>3, <1>4
  <1>6. Parent(page, n) = IF n \in Range(f) THEN {Root} ELSE {}
    BY <1>5
  <1> QED
    BY <1>1, <1>6 DEF page

LEMMA ParentShape ==
  ASSUME OneLevel, NEW page \in Shapes, NEW n
  PROVE  Parent(page, n) = IF n \in Range(page[Root]) THEN {Root} ELSE {}
  <1>1. Root \in DOMAIN page
    BY ListsAssumption
  <1>2. Range(<< >>) = {}
    BY DEF Range
  <1>3. \A m \in DOMAIN page : m # Root => page[m] = << >>
    BY DEF OneLevel
  <1>4. \A m : m \in Parent(page, n) <=> m \in DOMAIN page /\ n \in Range(page[m])
    BY DEF Parent
  <1>5. \A m : m \in Parent(page, n) <=> m = Root /\ n \in Range(page[Root])
    BY <1>1, <1>2, <1>3, <1>4
  <1> QED
    BY <1>5

LEMMA PlacesHold == Exclusive /\ PlacesIInv => PlacesSurvive
  <1> SUFFICES ASSUME Exclusive, PlacesIInv
               PROVE  PlacesSurvive
    OBVIOUS
  <1>1. FlatIInv /\ ListsIInv /\ Root \notin Nodes
    BY ListsAssumption DEF PlacesIInv, FlatIInv
  <1>2. ASSUME NEW p \in Peers, NEW n \in Nodes, NEW u \in Peers, PlacedBy(u, n), tree[p] = tree[u]
        PROVE  /\ Parent(TreePage(p), n) = placed[n]
               /\ p = u => Parent(Page(p), n) = placed[n]
    <2> DEFINE C == cache[u][Root]
               V == Seen(tree[p])
               L == Here(tree[p])
    <2>1. C \in Seq(Nodes) /\ Seen(tree[u]) \in Seq(Nodes) /\ Leads(C, Seen(tree[u]), Range(C))
      BY <1>1, FlatPages DEF FlatIInv, FlatReplica, CacheLeads
    <2>2. V \in Seq(Nodes) /\ Leads(C, V, Range(C))
      BY <1>2, <2>1
    <2>3. placed[n] = IF n \in L THEN {Root} ELSE {}
      BY <1>2 DEF PlacedBy, Here, Ids
    <2>4. n \in L => n \in Range(C)
      BY <1>2 DEF PlacedBy, Here
    <2>5. TreePage(p) = FlatPage(V, L) /\ (p = u => Page(p) = FlatPage(C, L))
      BY <1>1, FlatPages
    <2> HIDE DEF C, V, L
    <2>6. n \in L => n \in Range(V)
      BY <2>1, <2>2, <2>4, LeadsFacts
    <2>7. Parent(FlatPage(V, L), n) = placed[n] /\ Parent(FlatPage(C, L), n) = placed[n]
      BY <1>1, <2>1, <2>2, <2>3, <2>4, <2>6, ParentFlat
    <2> QED
      BY <2>5, <2>7
  <1>3. ASSUME NEW p \in Peers, NEW n \in Grant[p]
        PROVE  Parent(Page(p), n) = placed[n]
    <2>1. n \in Nodes
      BY ListsAssumption
    <2>2. Owner(p, n)
      BY DEF Exclusive, Owner
    <2>3. PlacedBy(p, n)
      BY <2>1, <2>2 DEF PlacesIInv
    <2> QED
      BY <1>2, <2>1, <2>3
  <1>4. ASSUME Quiet, NEW p \in Peers, NEW n \in Nodes
        PROVE  Parent(TreePage(p), n) = placed[n]
    <2>1. PICK u \in Peers : Owner(u, n)
      <3>1. CASE \E q \in Peers : n \in Grant[q]
        BY <3>1 DEF Exclusive, Owner
      <3>2. CASE \A q \in Peers : n \notin Grant[q]
        BY <3>2 DEF Owner
      <3> QED
        BY <3>1, <3>2
    <2>2. PlacedBy(u, n)
      BY <2>1 DEF PlacesIInv
    <2>3. tree[p] = tree[u]
      BY <1>4 DEF Quiet
    <2> QED
      BY <1>2, <2>2, <2>3
  <1> QED
    BY <1>3, <1>4 DEF PlacesSurvive

LEMMA PlacesInit == OneLevel /\ Init => PlacesIInv
  <1> SUFFICES ASSUME OneLevel, Init
               PROVE  PlacesIInv
    OBVIOUS
  <1>1. PICK page, w, x : StartsFlat(page, w, x)
    BY FlatStart
  <1> DEFINE D == page[Root]
  <1>2. /\ page \in Shapes /\ D \in Seq(Nodes) /\ Root \notin Nodes
        /\ \A p \in Peers :
             /\ cache[p] = page /\ tree[p][Root] = w
             /\ \A n \in Nodes : tree[p][n] = IF n \in Range(D) THEN x ELSE Unset
        /\ placed = [n \in Nodes |-> Parent(page, n)]
        /\ Live(x)
        /\ IsArray(w.val) /\ Leads(D, Vals(Visible(w.val)), Range(D))
        /\ \A i \in w.val.items : i.id \in w.val.dead =>
             \E j \in w.val.items : j.val = i.val /\ i.id[1] < j.id[1]
    BY <1>1 DEF StartsFlat
  <1>3. ~Live(Unset)
    BY UnsetFacts
  <1>4. FlatIInv
    BY FlatInit
  <1>5. \A n : Parent(page, n) = IF n \in Range(D) THEN {Root} ELSE {}
    BY <1>2, ParentShape
  <1> HIDE DEF D
  <1>6. \A n \in Range(D) : \E i \in w.val.items : i.val = n
    <2> DEFINE V == Vals(Visible(w.val))
    <2>1. /\ V \in Seq(Nodes) /\ Leads(D, V, Range(D))
          /\ \A v : v \in Range(V) <=> \E i \in w.val.items : i.id \notin w.val.dead /\ i.val = v
      BY <1>2, SeenFacts
    <2> HIDE DEF V
    <2>2. \A y \in Range(D) : y \in Range(V)
      BY <1>2, <2>1, LeadsFacts
    <2> QED
      BY <2>1, <2>2
  <1>7. ASSUME NEW n \in Nodes, NEW u \in Peers
        PROVE  PlacedBy(u, n)
    <2>1. \A q \in Peers : tree[q][n] = tree[u][n] /\ tree[q][Root] = w
      BY <1>2
    <2>2. Ahead(tree, u, n)
      BY <2>1 DEF Ahead
    <2>3. Live(tree[u][n]) <=> n \in Range(D)
      BY <1>2, <1>3
    <2>4. placed[n] = IF Live(tree[u][n]) THEN {Root} ELSE {}
      BY <1>2, <1>5, <2>3
    <2>5. cache[u][Root] = D
      BY <1>2 DEF D
    <2>6. Settled(tree, u, n, {})
      <3>1. \A q \in Peers : ItemsOf(tree[q], n) = {i \in w.val.items : i.val = n}
        BY <2>1 DEF ItemsOf
      <3>2. \A q \in Peers : \A i : IsDead(tree[q], i) <=> i.id \in w.val.dead
        BY <2>1 DEF IsDead
      <3>3. \A i, j \in w.val.items : i.id[1] < j.id[1] => Outlives(tree, i, j)
        BY <2>1 DEF Outlives
      <3>4. ASSUME NEW q \in Peers, NEW i \in ItemsOf(tree[q], n), IsDead(tree[q], i)
            PROVE  \E j \in ItemsOf(tree[q], n) : Outlives(tree, i, j)
        <4>1. i \in w.val.items /\ i.val = n /\ i.id \in w.val.dead
          BY <3>1, <3>2, <3>4
        <4>2. PICK j \in w.val.items : j.val = i.val /\ i.id[1] < j.id[1]
          BY <1>2, <4>1
        <4> QED
          BY <3>1, <3>3, <4>1, <4>2
      <3>5. Live(tree[u][n]) => \E i \in ItemsOf(tree[u], n) : i \notin {}
        BY <1>6, <2>3, <3>1
      <3> QED
        BY <3>4, <3>5 DEF Settled
    <2> QED
      BY <2>2, <2>3, <2>4, <2>5, <2>6 DEF PlacedBy
  <1> QED
    BY <1>4, <1>7 DEF PlacesIInv

LEMMA SavePlaces ==
  ASSUME OneLevel, PlacesIInv, NEW p \in Peers, NEW page \in Shapes, Save(p, Page(p), page),
         NEW n \in Nodes, NEW u \in Peers, Owner(u, n)
  PROVE  PlacedBy(u, n)'
  <1> DEFINE f == tree
             g == tree'
             C == cache[p][Root]
             L == Here(f[p])
             B == Firsts(C, L)
             D == page[Root]
             a == f[p][Root].val
             b == g[p][Root].val
             x == f[p][n]
             z == g[p][n]
             gone == Range(B) \ Range(D)
  <1>1. FlatIInv /\ FlatIInv' /\ ListsIInv /\ PlacedBy(u, n)
    <2>1. FlatIInv /\ PlacedBy(u, n)
      BY DEF PlacesIInv
    <2> QED
      BY <2>1, SaveStaysFlat DEF FlatIInv
  <1>2. FlatSaved(p, f[p], cache[p], g[p], cache'[p], B, D)
    BY <1>1, FlatSave
  <1>3. \A q \in Peers \ {p} : g[q] = f[q] /\ cache'[q] = cache[q]
    BY <1>1, SaveEffect DEF SaveIs
  <1>4. /\ Ids = Nodes \cup {Root} /\ Root \notin Nodes /\ p \in Nat
        /\ \A q \in Peers, m \in Ids : IsNode(f[q][m]) /\ f[q][m].path \in Seq(Nat)
    BY <1>1, AllNodes
  <1>5. C \in Seq(Nodes) /\ Page(p) = FlatPage(C, L)
    BY <1>1, FlatPages
  <1>6. /\ \A m \in Nodes \ Grant[p] : Parent(page, m) = Parent(Page(p), m)
        /\ placed' = [m \in Nodes |-> IF m \in Grant[p] THEN Parent(page, m) ELSE placed[m]]
    BY DEF Save
  <1>7. /\ RootStays(f[p]) /\ ListedWasSet(f[p]) /\ FirstSetter(f[p])
        /\ \A q \in Peers : f[q][Root].path = <<0>>
        /\ IsArray(a) /\ IsArray(b)
    BY <1>1 DEF FlatIInv, FlatReplica, RootStays
  <1>8. /\ Ahead(f, u, n)
        /\ placed[n] = IF Live(f[u][n]) THEN {Root} ELSE {}
        /\ Live(f[u][n]) => n \in Range(cache[u][Root])
    BY <1>1 DEF PlacedBy
  <1>9. PICK R : Settled(f, u, n, R)
    BY <1>1 DEF PlacedBy
  <1>10. Parent(page, n) = IF n \in Range(D) THEN {Root} ELSE {}
    BY ParentShape
  <1>11. /\ x \in {f[p][n]} /\ IsNode(x) /\ x.path \in Seq(Nat)
         /\ n \in L <=> Live(x)
    BY <1>4 DEF Here
  <1> HIDE DEF f, g, D, L, a, b, x, z
  <1>12. n \in Range(B) <=> n \in Range(C) /\ Live(x)
    BY <1>5, <1>11, FirstsRange
  <1>13. Parent(Page(p), n) = IF n \in Range(B) THEN {Root} ELSE {}
    BY <1>4, <1>5, <1>11, <1>12, ParentFlat
  <1> HIDE DEF B, C
  <1>14. n \notin Grant[p] => (n \in Range(B) <=> n \in Range(D))
    BY <1>6, <1>10, <1>13
  <1>15. NodeSaved(p, x, z, n \in Range(B), n \in Range(D))
    BY <1>2 DEF FlatSaved, x, z
  <1>16. Traces(a, b, gone, Range(D)) /\ Grows(a, b, p) /\ cache'[p][Root] = D
    BY <1>2 DEF FlatSaved, a, b, gone
  <1>17. n \in Range(D) => ToBeSeen(g[p], n)
    <2>1. IsNode(f[p][n])
      BY <1>11 DEF x
    <2>2. n \in Range(D) =>
            \E i \in g[p][Root].val.items : i.val = n /\ i.id \notin g[p][Root].val.dead
      BY <1>2, <1>4, <1>7, <2>1, SavedNode
    <2> QED
      BY <2>2 DEF ToBeSeen, ItemsOf, IsDead
  <1>18. OnlyHere(f, p, a, b)
    <2> SUFFICES ASSUME NEW w \in b.items \ a.items, NEW r \in Peers \ {p},
                        w \in f[r][Root].val.items
                 PROVE  FALSE
      BY DEF OnlyHere
    <2>1. w.id[2] = p /\ Root \in Ids
      BY <1>4, <1>16 DEF Grows
    <2>2. <<0>> # << >> /\ ~After(<<0>>, <<0>>)
      <3> DEFINE path == <<0>>
      <3>1. path \in Seq(Nat) /\ path # << >>
        OBVIOUS
      <3> HIDE DEF path
      <3>2. ~After(path, path)
        BY <3>1, NothingAfter
      <3> QED
        BY <3>1, <3>2 DEF path
    <2>3. f[r][Root].path = <<0>> /\ f[p][Root].path = <<0>>
      BY <1>7
    <2>4. Wrote(p, f[r][Root])
      BY <2>1, <2>2, <2>3 DEF Wrote
    <2>5. w \in f[p][Root].val.items
      BY <1>1, <2>1, <2>2, <2>3, <2>4, WroteHas DEF f
    <2> QED
      BY <2>5 DEF a
  <1> HIDE DEF gone
  <1>19. ASSUME n \notin gone, Live(g[u][n]) => Live(f[u][n]) \/ ToBeSeen(g[u], n)
         PROVE  Settled(g, u, n, R)
    <2>1. \A q \in Peers \ {p} : g[q] = f[q]
      BY <1>3
    <2>2. a = f[p][Root].val /\ b = g[p][Root].val
      BY DEF a, b
    <2>3. PICK Q : Traces(a, b, gone, Q)
      BY <1>16
    <2>4. IsArray(a) /\ IsArray(b) /\ Settled(f, u, n, R)
      BY <1>7, <1>9
    <2> QED
      BY <1>18, <1>19, <2>1, <2>2, <2>3, <2>4, SettledSaved
  <1>20. CASE u # p
    <2>1. n \notin Grant[p] /\ g[u] = f[u] /\ cache'[u] = cache[u] /\ placed'[n] = placed[n]
      BY <1>3, <1>6, <1>20 DEF Owner
    <2>2. z.path = x.path /\ (Live(z) <=> Live(x))
      BY <1>12, <1>14, <1>15, <2>1, Zenon DEF NodeSaved
    <2>3. Ahead(g, u, n)
      <3> SUFFICES ASSUME NEW q \in Peers
                   PROVE  \/ After(g[u][n].path, g[q][n].path)
                          \/ /\ g[u][n].path = g[q][n].path
                             /\ Live(g[u][n]) => Live(g[q][n])
        BY DEF Ahead
      <3>1. g[q][n].path = f[q][n].path /\ (Live(g[q][n]) <=> Live(f[q][n]))
        BY <1>3, <2>2 DEF x, z
      <3> QED
        BY <1>8, <2>1, <3>1 DEF Ahead
    <2>4. Settled(g, u, n, R)
      BY <1>14, <1>19, <2>1 DEF gone
    <2> QED
      BY <1>8, <2>1, <2>3, <2>4 DEF PlacedBy, f, g
  <1>21. CASE u = p
    <2>1. Live(x) <=> n \in Range(B)
      BY <1>8, <1>12, <1>21 DEF x, C
    <2>2. Live(z) <=> n \in Range(D)
      BY <1>15, <2>1, Zenon DEF NodeSaved
    <2>3. placed'[n] = IF Live(z) THEN {Root} ELSE {}
      <3>1. CASE n \in Grant[p]
        BY <1>6, <1>10, <2>2, <3>1
      <3>2. CASE n \notin Grant[p]
        BY <1>6, <1>8, <1>14, <1>21, <2>1, <2>2, <3>2 DEF x
      <3> QED
        BY <3>1, <3>2
    <2>4. /\ z.path = x.path => (Live(z) => Live(x))
          /\ z.path = x.path \/ z.path = Append(x.path, p)
      <3>1. Append(x.path, p) # x.path
        <4> DEFINE k == x.path
        <4>1. k \in Seq(Nat)
          BY <1>11
        <4> HIDE DEF k
        <4>2. Append(k, p) \in Seq(Nat) /\ After(Append(k, p), k)
          BY <1>4, <4>1, AppendAfter
        <4>3. Append(k, p) # k
          BY <4>1, <4>2, AfterAsymmetric
        <4> QED
          BY <4>3 DEF k
      <3> QED
        BY <1>15, <2>2, <3>1, Zenon DEF NodeSaved
    <2>5. Ahead(g, u, n)
      <3> SUFFICES ASSUME NEW q \in Peers
                   PROVE  \/ After(z.path, g[q][n].path)
                          \/ /\ z.path = g[q][n].path
                             /\ Live(z) => Live(g[q][n])
        BY <1>21 DEF Ahead, z
      <3>1. CASE q = p
        BY <3>1 DEF z
      <3>2. CASE q # p
        <4> DEFINE y == f[q][n]
        <4>1. /\ g[q][n] = y /\ y.path \in Seq(Nat)
              /\ After(x.path, y.path) \/ (x.path = y.path /\ (Live(x) => Live(y)))
          BY <1>3, <1>4, <1>8, <1>21, <3>2 DEF Ahead, x
        <4> HIDE DEF y
        <4>2. CASE z.path = x.path
          BY <2>4, <4>1, <4>2
        <4>3. CASE z.path = Append(x.path, p)
          <5> DEFINE i == x.path
                     j == y.path
                     k == Append(i, p)
          <5>1. i \in Seq(Nat) /\ j \in Seq(Nat) /\ (After(i, j) \/ i = j)
            BY <1>11, <4>1
          <5> HIDE DEF i, j
          <5>2. k \in Seq(Nat) /\ After(k, i)
            BY <1>4, <5>1, AppendAfter
          <5> HIDE DEF k
          <5>3. After(k, j)
            BY <5>1, <5>2, AfterTransitive
          <5> QED
            BY <4>1, <4>3, <5>3 DEF i, j, k
        <4> QED
          BY <2>4, <4>2, <4>3
      <3> QED
        BY <3>1, <3>2
    <2>6. \E S : Settled(g, u, n, S)
      <3>1. CASE n \notin gone
        <4>1. Live(g[u][n]) => ToBeSeen(g[u], n)
          BY <1>17, <1>21, <2>2 DEF z
        <4> QED
          BY <1>19, <1>21, <3>1, <4>1
      <3>2. CASE n \in gone
        <4>1. n \notin Range(D) /\ ~Live(g[p][n])
          BY <2>2, <3>2 DEF gone, z
        <4>2. a = f[p][Root].val /\ b = g[p][Root].val /\ \A q \in Peers \ {p} : g[q] = f[q]
          BY <1>3 DEF a, b
        <4>3. Settled(f, p, n, R)
          BY <1>9, <1>21
        <4>4. Settled(g, p, n, ItemsOf(f[p], n))
          BY <1>16, <3>2, <4>1, <4>2, <4>3, SettledRemoved
        <4> QED
          BY <1>21, <4>4
      <3> QED
        BY <3>1, <3>2
    <2>7. Live(z) => n \in Range(cache'[u][Root])
      BY <1>16, <1>21, <2>2
    <2>8. z = g[u][n]
      BY <1>21 DEF z
    <2> QED
      BY <2>3, <2>5, <2>6, <2>7, <2>8 DEF PlacedBy, g
  <1> QED
    BY <1>20, <1>21

LEMMA UpdatePlaces ==
  ASSUME PlacesIInv, NEW p \in Peers, NEW s \in Peers, Updates(p, s),
         NEW n \in Nodes, NEW u \in Peers, Owner(u, n)
  PROVE  PlacedBy(u, n)'
  <1> DEFINE f == tree
             g == tree'
             a == f[p][Root].val
             v == f[s][Root].val
             b == g[p][Root].val
             x == f[p][n]
             y == f[s][n]
             z == g[p][n]
  <1>1. FlatIInv /\ FlatIInv' /\ ListsIInv /\ PlacedBy(u, n)
    <2>1. FlatIInv /\ PlacedBy(u, n)
      BY DEF PlacesIInv
    <2> QED
      BY <2>1, UpdateStaysFlat DEF FlatIInv
  <1>2. /\ FlatMerged(f[p], f[s], cache[p], g[p], cache'[p])
        /\ \A q \in Peers \ {p} : g[q] = f[q] /\ cache'[q] = cache[q]
    BY <1>1, FlatUpdate
  <1>3. placed' = placed
    BY <1>1, FlatUpdate
  <1>4. n \in Ids /\ \A q \in Peers : f[q][n].path \in Seq(Nat)
    BY <1>1, AllNodes
  <1>5. IsArray(a) /\ IsArray(v) /\ IsArray(b)
    BY <1>1 DEF FlatIInv, FlatReplica, RootStays
  <1>6. /\ Ahead(f, u, n)
        /\ placed[n] = IF Live(f[u][n]) THEN {Root} ELSE {}
        /\ Live(f[u][n]) => n \in Range(cache[u][Root])
    BY <1>1 DEF PlacedBy
  <1>7. PICK R : Settled(f, u, n, R)
    BY <1>1 DEF PlacedBy
  <1> HIDE DEF f, g
  <1>8. /\ NodeMerged(x, y, z) /\ b = MergeArray(a, v)
        /\ \/ cache'[p][Root] = IF g[p][Root] = f[p][Root] THEN cache[p][Root] ELSE Seen(g[p])
           \/ Live(z) => n \in Range(cache'[p][Root])
    BY <1>2 DEF FlatMerged, TreeMerged, ReadsTouched, ReadsAll
  <1>9. /\ z.path = x.path \/ (z = y /\ After(z.path, x.path))
        /\ z.path = y.path \/ (z = x /\ After(z.path, y.path))
        /\ x.path = y.path => (Live(z) <=> Live(x) /\ Live(y))
    BY <1>8 DEF NodeMerged
  <1>10. ASSUME u = p
         PROVE  z.path = x.path /\ (Live(z) <=> Live(x))
    <2>1. After(x.path, y.path) \/ (x.path = y.path /\ (Live(x) => Live(y)))
      BY <1>6, <1>10 DEF Ahead
    <2> DEFINE i == x.path
               j == y.path
    <2>2. i \in Seq(Nat) /\ j \in Seq(Nat) /\ (After(i, j) \/ i = j)
      BY <1>4, <2>1
    <2> HIDE DEF i, j
    <2>3. ~After(j, i)
      BY <2>2, AfterAsymmetric, NothingAfter
    <2>4. z.path = x.path
      BY <1>9, <2>3 DEF i, j
    <2>5. Live(z) <=> Live(x)
      <3>1. CASE x.path = y.path
        <4>1. ~After(x.path, y.path)
          BY <2>3, <3>1 DEF i, j
        <4> QED
          BY <1>9, <2>1, <3>1, <4>1
      <3>2. CASE x.path # y.path
        <4>1. z = x
          BY <1>9, <2>4, <3>2
        <4> QED
          BY <4>1
      <3> QED
        BY <3>1, <3>2
    <2> QED
      BY <2>4, <2>5
  <1> HIDE DEF x, y, z, a, v, b
  <1>11. g[u][n].path = f[u][n].path /\ (Live(g[u][n]) <=> Live(f[u][n]))
    <2>1. CASE u = p
      BY <1>10, <2>1 DEF x, z
    <2>2. CASE u # p
      BY <1>2, <2>2
    <2> QED
      BY <2>1, <2>2
  <1>12. Ahead(g, u, n)
    <2> DEFINE k == f[u][n]
    <2> SUFFICES ASSUME NEW q \in Peers
                 PROVE  \/ After(k.path, g[q][n].path)
                        \/ k.path = g[q][n].path /\ (Live(k) => Live(g[q][n]))
      BY <1>11 DEF Ahead
    <2>1. \A r \in Peers : \/ After(k.path, f[r][n].path)
                           \/ k.path = f[r][n].path /\ (Live(k) => Live(f[r][n]))
      BY <1>6 DEF Ahead
    <2> HIDE DEF k
    <2>2. CASE q # p
      BY <1>2, <2>1, <2>2
    <2>3. CASE q = p
      <3>1. After(k.path, x.path) \/ (k.path = x.path /\ (Live(k) => Live(x)))
        BY <2>1 DEF x
      <3>2. After(k.path, y.path) \/ (k.path = y.path /\ (Live(k) => Live(y)))
        BY <2>1 DEF y
      <3>3. After(k.path, z.path) \/ (k.path = z.path /\ (Live(k) => Live(z)))
        <4>1. CASE x.path = y.path
          <5>1. z.path = x.path
            BY <1>9, <4>1
          <5> QED
            BY <1>9, <3>1, <3>2, <4>1, <5>1
        <4>2. CASE x.path # y.path
          <5>1. z = x \/ z = y
            BY <1>9, <4>2
          <5> QED
            BY <3>1, <3>2, <5>1
        <4> QED
          BY <4>1, <4>2
      <3> QED
        BY <2>3, <3>3 DEF z
    <2> QED
      BY <2>2, <2>3
  <1>13. Settled(g, u, n, R)
    <2>1. /\ a = f[p][Root].val /\ v = f[s][Root].val /\ b = g[p][Root].val
          /\ \A q \in Peers \ {p} : g[q] = f[q]
      BY <1>2 DEF a, v, b
    <2>2. Live(g[u][n]) => Live(f[u][n])
      BY <1>11
    <2> QED
      BY <1>5, <1>7, <1>8, <2>1, <2>2, SettledMerged
  <1>14. Live(g[u][n]) => n \in Range(cache'[u][Root])
    <2>1. CASE u # p
      BY <1>2, <1>6, <1>11, <2>1
    <2>2. CASE u = p /\ g[p][Root] = f[p][Root]
      BY <1>6, <1>8, <1>11, <2>2 DEF z
    <2>3. CASE u = p /\ g[p][Root] # f[p][Root]
      <3>1. IsArray(g[u][Root].val)
        BY <1>5, <2>3 DEF b
      <3>2. Live(g[u][n]) => n \in Range(Seen(g[u]))
        BY <1>13, <3>1, SettledShows
      <3> QED
        BY <1>8, <2>3, <3>2 DEF z
    <2> QED
      BY <2>1, <2>2, <2>3
  <1>15. placed'[n] = IF Live(g[u][n]) THEN {Root} ELSE {}
    BY <1>3, <1>6, <1>11
  <1> QED
    BY <1>12, <1>13, <1>14, <1>15 DEF PlacedBy, g

LEMMA PlacesStep == OneLevel /\ PlacesIInv /\ [Next]_vars /\ Uncut' => PlacesIInv'
  <1> SUFFICES ASSUME OneLevel, PlacesIInv, [Next]_vars, Uncut'
               PROVE  PlacesIInv'
    OBVIOUS
  <1>1. FlatIInv'
    BY FlatStep DEF PlacesIInv
  <1>2. CASE Next
    <2> SUFFICES ASSUME NEW n \in Nodes, NEW u \in Peers, Owner(u, n)
                 PROVE  PlacedBy(u, n)'
      BY <1>1 DEF PlacesIInv, Owner
    <2>1. ASSUME NEW p \in Peers, NEW page \in Shapes, Save(p, Page(p), page)
          PROVE  PlacedBy(u, n)'
      BY <2>1, SavePlaces
    <2>2. ASSUME NEW p \in Peers, NEW s \in Peers, Deliver(p, s) \/ DeliverWhole(p, s)
          PROVE  PlacedBy(u, n)'
      <3>1. Updates(p, s)
        BY <2>2 DEF Updates, Uncut
      <3> QED
        BY <3>1, UpdatePlaces
    <2> QED
      BY <1>2, <2>1, <2>2 DEF Next
  <1>3. CASE UNCHANGED vars
    <2>1. tree' = tree /\ cache' = cache /\ placed' = placed
      BY <1>3 DEF vars
    <2>2. \A n \in Nodes, u \in Peers : PlacedBy(u, n) => PlacedBy(u, n)'
      BY <2>1 DEF PlacedBy
    <2> QED
      BY <1>1, <2>2 DEF PlacesIInv, Owner
  <1> QED
    BY <1>2, <1>3

(* A node of a page of one level stays where the user who decides about it  *)
(* put it, and stays away once that user removed it, on that user's screen  *)
(* at any time and in every document when the replicas agree, whatever the  *)
(* reconciling and merging of native-tree.ts makes of the concurrent saves  *)
(* of any number of users, for as long as no read of the whole tree has     *)
(* left a node out.                                                        *)
THEOREM FlatPlacesSurvive ==
  OneLevel /\ Exclusive /\ Spec => [](Uncut => PlacesSurvive)
  <1> SUFFICES ASSUME OneLevel, Exclusive
               PROVE  Spec => [](Uncut => PlacesSurvive)
    OBVIOUS
  <1> DEFINE Inv == ListsIInv /\ (Uncut => PlacesIInv)
  <1>1. Init => Inv
    BY PlacesInit DEF PlacesIInv, FlatIInv
  <1>2. Inv /\ [Next]_vars => Inv'
    <2> SUFFICES ASSUME ListsIInv, Uncut => PlacesIInv, [Next]_vars
                 PROVE  ListsIInv' /\ (Uncut' => PlacesIInv')
      OBVIOUS
    <2>1. ListsIInv'
      BY ListsStep
    <2>2. ASSUME Uncut' PROVE PlacesIInv'
      <3>1. Uncut
        BY <2>2, CutStays
      <3> QED
        BY <2>2, <3>1, PlacesStep
    <2> QED
      BY <2>1, <2>2
  <1>3. Inv => (Uncut => PlacesSurvive)
    BY PlacesHold
  <1> HIDE DEF Inv
  <1> QED
    BY <1>1, <1>2, <1>3, PTL DEF Spec

-----------------------------------------------------------------------------
(* When no read leaves a node out. *)

(* Every cache is filled, as after a save, and updates bring nothing of the *)
(* page as a whole: then nothing is read as a whole either, and what the    *)
(* theorems say holds at all times.                                        *)
Filled == ~PageData /\ \A p \in Peers : seeded[p]

LEMMA FilledUncut == Filled /\ Spec => []Uncut
  <1> DEFINE Inv == ListsIInv /\ Filled /\ Uncut
  <1>1. Filled /\ Init => Inv
    <2> SUFFICES ASSUME Filled, Init PROVE Uncut
      BY ListsInit
    <2> QED
      BY DEF Init, Uncut
  <1>2. Inv /\ [Next]_vars => Inv'
    <2> SUFFICES ASSUME ListsIInv, Filled, Uncut, [Next]_vars
                 PROVE  ListsIInv' /\ Filled' /\ Uncut'
      OBVIOUS
    <2>1. ListsIInv'
      BY ListsStep
    <2>2. seeded \in [Peers -> BOOLEAN]
      BY DEF ListsIInv
    <2>3. CASE Next
      <3>1. ASSUME NEW p \in Peers, NEW page \in Shapes, Save(p, Page(p), page)
            PROVE  Filled' /\ Uncut'
        BY <2>2, <3>1 DEF Save, Filled, Uncut
      <3>2. ASSUME NEW p \in Peers, NEW s \in Peers, Deliver(p, s)
            PROVE  Filled' /\ Uncut'
        BY <3>2 DEF Deliver, Filled, Uncut
      <3>3. ASSUME NEW p \in Peers, NEW s \in Peers, DeliverWhole(p, s)
            PROVE  FALSE
        BY <3>3 DEF DeliverWhole, Filled
      <3> QED
        BY <2>1, <2>3, <3>1, <3>2, <3>3 DEF Next
    <2>4. CASE UNCHANGED vars
      BY <2>1, <2>4 DEF vars, Filled, Uncut
    <2> QED
      BY <2>1, <2>3, <2>4
  <1>3. Inv => Uncut
    OBVIOUS
  <1> HIDE DEF Inv
  <1> QED
    BY <1>1, <1>2, <1>3, PTL DEF Spec
=============================================================================
