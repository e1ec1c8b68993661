--------------------------- MODULE MCOfflineQueue ---------------------------
(* Instances of OfflineQueue for TLC. *)
EXTENDS OfflineQueue, TLC

Symmetry == Permutations(Tabs) \cup Permutations(Edits)

=============================================================================
