---------------------------- MODULE MCEditSession ----------------------------
(* Who edits what in the small instances of EditSession. *)
EXTENDS EditSession

CONSTANTS n1, n2

OneEditor  == [p \in Peers |-> IF p = 1 THEN {n1, n2} ELSE {}]
TwoEditors == [p \in Peers |-> IF p = 1 THEN {n1} ELSE {n2}]
OneWatches == [p \in Peers |-> IF p = 3 THEN {} ELSE {n1, n2}]

(* Every node an item, or n2 in a slot of n1. *)
Flat   == [n \in Nodes |-> n]
Nested == [n \in Nodes |-> n1]

NoDraft  == {Empty}
AnyDraft == Document
=============================================================================
