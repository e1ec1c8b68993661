--------------------------- MODULE SnapshotHistory ---------------------------
(***************************************************************************)
(* What the snapshot store promises its users, whatever encoding it keeps: *)
(* save() adds a snapshot at the end and drops the oldest beyond the       *)
(* ceiling, load() of a listed snapshot answers the document its save()    *)
(* was given, and no other call changes any answer.                        *)
(***************************************************************************)
EXTENDS Naturals, Sequences, FiniteSets

CONSTANTS
  Documents,     \* what can be saved
  Ceiling        \* snapshots retained, 0 for no limit

VARIABLES
  saved,         \* the documents given to save(), in order
  log            \* for each listed snapshot, what load() answers, as a set

Init == saved = << >> /\ log = [i \in {} |-> {}]

(* The newest Ceiling of a set of snapshots. *)
Newest(ids) ==
  {i \in ids : Ceiling = 0 \/ Cardinality({j \in ids : j > i}) < Ceiling}

Save(doc) ==
  /\ saved' = Append(saved, doc)
  /\ LET next == Len(saved) + 1
         old  == log
     IN  log' = [i \in Newest(DOMAIN old \cup {next}) |->
                   IF i = next THEN {doc} ELSE old[i]]

Next == \E doc \in Documents : Save(doc)

Spec == Init /\ [][Next]_<<saved, log>>
=============================================================================
