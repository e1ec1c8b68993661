------------------------------ MODULE EditStore ------------------------------
(***************************************************************************)
(* What the offline queue promises the tabs of a room, whatever rows,      *)
(* buffers and transactions it keeps: one durable set of edits.  An edit    *)
(* that is stored stays stored, an edit that is accepted waits until it is *)
(* stored, and a tab that comes in recovers all that is stored, in one     *)
(* moment.  Only a reported fault excuses a tab's queue, and only for that *)
(* tab's waiting edits.                                                    *)
(***************************************************************************)
CONSTANTS
  Tabs,
  Edits

VARIABLES
  stored,        \* the edits in the store
  taken,         \* the edits a drain took out of it
  life,          \* of each tab: "down", "up" or "destroyed"
  broken,        \* whether it was told of a fault
  waiting,       \* the edits it handed over that are not known to be stored
  recovered      \* what it found in the store, as a set; empty before

vars == <<stored, taken, life, broken, waiting, recovered>>

Known == stored \cup taken \cup UNION {waiting[t] : t \in Tabs}

Init ==
  /\ stored = {} /\ taken = {}
  /\ life = [t \in Tabs |-> "down"]
  /\ broken = [t \in Tabs |-> FALSE]
  /\ waiting = [t \in Tabs |-> {}]
  /\ recovered = [t \in Tabs |-> {}]

Enter(t) ==
  /\ life[t] = "down"
  /\ life' = [life EXCEPT ![t] = "up"]
  /\ UNCHANGED <<stored, taken, broken, waiting, recovered>>

(* A new edit waits, or is dropped after a fault. *)
Accept(t, e) ==
  /\ life[t] = "up" /\ e \notin Known
  /\ \/ waiting' = [waiting EXCEPT ![t] = @ \cup {e}]
     \/ broken[t] /\ UNCHANGED waiting
  /\ UNCHANGED <<stored, taken, life, broken, recovered>>

(* Edits reach the store; some of them may be on their way once more. *)
Commit(t, u) ==
  /\ u \subseteq waiting[t]
  /\ stored' = stored \cup u
  /\ \E left \in SUBSET waiting[t] :
       /\ waiting[t] \ u \subseteq left
       /\ waiting' = [waiting EXCEPT ![t] = left]
  /\ UNCHANGED <<taken, life, broken, recovered>>

(* What is stored is found; what the document lacked of it is handed over   *)
(* again.  A tab with a fault may lose what waits.                         *)
Recover(t) ==
  /\ life[t] # "down" /\ recovered[t] = {}
  /\ recovered' = [recovered EXCEPT ![t] = {stored}]
  /\ \E lacked \in SUBSET stored :
       \/ waiting' = [waiting EXCEPT ![t] = @ \cup lacked]
       \/ /\ broken[t]
          /\ \E left \in SUBSET waiting[t] : waiting' = [waiting EXCEPT ![t] = left]
  /\ UNCHANGED <<stored, taken, life, broken>>

(* A fault is reported.  Waiting edits may be lost, and a tab that has not  *)
(* recovered yet finds nothing.                                            *)
Break(t) ==
  /\ life[t] # "down"
  /\ broken' = [broken EXCEPT ![t] = TRUE]
  /\ \E left \in SUBSET waiting[t] : waiting' = [waiting EXCEPT ![t] = left]
  /\ \/ UNCHANGED recovered
     \/ recovered[t] = {} /\ recovered' = [recovered EXCEPT ![t] = {{}}]
  /\ UNCHANGED <<stored, taken, life>>

(* The tab is taken down: edits on their way still arrive, others are lost. *)
Leave(t) ==
  /\ life[t] = "up"
  /\ life' = [life EXCEPT ![t] = "destroyed"]
  /\ \E left \in SUBSET waiting[t] : waiting' = [waiting EXCEPT ![t] = left]
  /\ UNCHANGED <<stored, taken, broken, recovered>>

(* The page goes, with all it had in memory. *)
Crash(t) ==
  /\ life[t] # "down"
  /\ life' = [life EXCEPT ![t] = "down"]
  /\ broken' = [broken EXCEPT ![t] = FALSE]
  /\ waiting' = [waiting EXCEPT ![t] = {}]
  /\ recovered' = [recovered EXCEPT ![t] = {}]
  /\ UNCHANGED <<stored, taken>>

Take(t) ==
  /\ life[t] = "up"
  /\ taken' = taken \cup stored
  /\ stored' = {}
  /\ UNCHANGED <<life, broken, waiting, recovered>>

(* A compaction that had read them before puts taken edits back, and may   *)
(* then report a fault.                                                    *)
PutBack(t) ==
  /\ life[t] # "down"
  /\ \E back \in SUBSET taken : stored' = stored \cup back
  /\ broken' \in {broken, [broken EXCEPT ![t] = TRUE]}
  /\ UNCHANGED <<taken, life, waiting, recovered>>

Next ==
  \E t \in Tabs :
    \/ Enter(t) \/ Recover(t) \/ Break(t) \/ Leave(t) \/ Crash(t)
    \/ Take(t) \/ PutBack(t)
    \/ \E e \in Edits : Accept(t, e)
    \/ \E u \in SUBSET Edits : Commit(t, u)

Spec == Init /\ [][Next]_vars
=============================================================================
