----------------------------- MODULE MCChildLists -----------------------------
(* Whose nodes are whose, and which pages are made, in ChildLists. *)
EXTENDS ChildLists

CONSTANTS n1, n2, n3

Half == [p \in Peers |-> CASE p = 1 -> {n1} [] p = 2 -> Nodes \ {n1} [] OTHER -> {}]

(* Every node below the root, or anywhere. *)
Flat    == {page \in Pages : \A n \in DOMAIN page \ {Root} : page[n] = << >>}
AnyPage == Pages

(* The nodes of the second user are alike. *)
Alike == Permutations(Nodes \ {n1})

(* Flat pages are as the theorems about pages of one level suppose, and     *)
(* Half divides the nodes between two users.                               *)
ASSUME FlatAssumption == Shapes = Flat => OneLevel
ASSUME HalfAssumption == Grant = Half => Exclusive
=============================================================================
