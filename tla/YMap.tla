-------------------------------- MODULE YMap --------------------------------
(***************************************************************************)
(* One key of a Y.Map, as far as the adapter relies on it (the yjs library *)
(* is not part of this repository).  A key's history is a tree of items: a *)
(* set hangs a new item under the current one, and items with the same     *)
(* parent are ordered by the client id of their writers.  The current item *)
(* is the last one of that order, and the key is gone when it is deleted.  *)
(*                                                                         *)
(* A register names its current item by the path of writers from the root  *)
(* of that tree, so replicas merge by comparing paths.  Client ids are     *)
(* natural numbers.                                                        *)
(***************************************************************************)
EXTENDS Naturals, SequencesExt

CONSTANT Nothing   \* the value of a key nobody has set, which nobody reads

(* A key nobody has set. *)
Unset == [path |-> << >>, dead |-> TRUE, val |-> Nothing]

Live(reg) == ~reg.dead

SetKey(reg, client, v) ==
  [path |-> Append(reg.path, client), dead |-> FALSE, val |-> v]

DeleteKey(reg) == [reg EXCEPT !.dead = TRUE]

(* The item at path a comes after the item at path b. *)
After(a, b) ==
  \/ IsStrictPrefix(b, a)
  \/ \E i \in DOMAIN a \cap DOMAIN b :
       a[i] > b[i] /\ SubSeq(a, 1, i - 1) = SubSeq(b, 1, i - 1)

(* Two replicas of a key with plain values. *)
MergeKey(a, b) ==
  IF a.path = b.path
  THEN [a EXCEPT !.dead = a.dead \/ b.dead]
  ELSE IF After(a.path, b.path) THEN a ELSE b

(* Two replicas of a key whose value is itself a shared type: replicas of   *)
(* the same item merge inside, a replaced item loses all it held.          *)
MergeNested(a, b) ==
  IF a.path = b.path /\ a.path # << >>
  THEN [a EXCEPT !.dead = a.dead \/ b.dead, !.val = MergeKey(a.val, b.val)]
  ELSE MergeKey(a, b)
=============================================================================
