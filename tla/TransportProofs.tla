--------------------------- MODULE TransportProofs ---------------------------
(***************************************************************************)
(* Proofs about Transport, for any series of subscriptions over either     *)
(* provider: the types, at most one timeout per outage, every wait timed,  *)
(* no handler left on a provider that is gone, and no fresh dial after a   *)
(* drop.                                                                   *)
(***************************************************************************)
EXTENDS Transport, TLAPS

(* The four variables wrappedEmit and the timer own keep their types. *)
StatusTypes ==
  /\ timer \in [Subs -> BOOLEAN]
  /\ timedOut \in [Subs -> BOOLEAN]
  /\ status \in [Subs -> Kinds]
  /\ fired \in [Subs -> Nat]

LEMMA ReportTypes ==
  ASSUME StatusTypes, NEW s \in Subs, NEW k \in Kinds, Report(s, k)
  PROVE  StatusTypes'
<1>1. TimerAfter(k, timer[s], timedOut[s]) \in BOOLEAN
  BY Zenon DEF TimerAfter, StatusTypes
<1>2. timer' \in [Subs -> BOOLEAN]
  <2>1. timer' = [timer EXCEPT ![s] = TimerAfter(k, timer[s], timedOut[s])]
    BY DEF Report
  <2> QED BY <1>1, <2>1 DEF StatusTypes
<1>3. timedOut' \in [Subs -> BOOLEAN]
  <2>1. timedOut' = [timedOut EXCEPT ![s] = timedOut[s] /\ k # "synced"]
    BY DEF Report
  <2>2. (timedOut[s] /\ k # "synced") \in BOOLEAN  BY Zenon
  <2> QED BY <2>1, <2>2 DEF StatusTypes
<1>4. status' \in [Subs -> Kinds]  BY DEF Report, StatusTypes
<1>5. fired' \in [Subs -> Nat]
  <2>1. fired' = [fired EXCEPT ![s] = IF k = "synced" THEN 0 ELSE fired[s]]
    BY DEF Report
  <2> QED BY <2>1 DEF StatusTypes
<1> QED BY <1>2, <1>3, <1>4, <1>5 DEF StatusTypes

LEMMA HeardTypes ==
  ASSUME StatusTypes, dropped \in [Subs -> BOOLEAN], NEW s \in Subs,
         NEW k \in Kinds, NEW d \in BOOLEAN, Heard(s, k, d)
  PROVE  StatusTypes' /\ dropped' \in [Subs -> BOOLEAN]
<1>1. CASE listening[s]
  <2>1. Report(s, k) /\ dropped' = [dropped EXCEPT ![s] = d]
    BY <1>1 DEF Heard
  <2> QED BY <2>1, ReportTypes
<1>2. CASE ~listening[s]
  <2>1. UNCHANGED <<statusVars, dropped>>  BY <1>2 DEF Heard
  <2> QED BY <2>1 DEF StatusTypes, statusVars
<1> QED BY <1>1, <1>2

(* A provider that attaches reports its state or waits. *)
LEMMA FirstTypes ==
  ASSUME StatusTypes, dropped \in [Subs -> BOOLEAN], NEW s \in Subs,
         NEW now \in {"connecting", "closed", "synced"}, FirstReport(s, now)
  PROVE  StatusTypes' /\ dropped' \in [Subs -> BOOLEAN]
<1>1. dropped' \in [Subs -> BOOLEAN]
  <2>1. dropped' = [dropped EXCEPT ![s] = (now = "closed")]
    BY DEF FirstReport
  <2> QED BY <2>1
<1>2. CASE setup.provider = "hocuspocus"
  <2>1. PICK k \in {"connecting", "offline", "synced"} : Report(s, k)
    BY <1>2 DEF FirstReport
  <2>2. k \in Kinds  BY DEF Kinds, Waiting
  <2> QED BY <1>1, <2>1, <2>2, ReportTypes
<1>3. CASE setup.provider # "hocuspocus"
  <2>1. UNCHANGED statusVars  BY <1>3 DEF FirstReport
  <2> QED BY <1>1, <2>1 DEF StatusTypes, statusVars
<1> QED BY <1>2, <1>3

LEMMA DetachedType ==
  ASSUME listening \in [Subs -> BOOLEAN]
  PROVE  Detached \in [Subs -> BOOLEAN]
<1>1. \A s \in Subs : (listening[s] /\ s # detacher) \in BOOLEAN  BY Zenon
<1> QED BY <1>1 DEF Detached

(* What a step of a socket tells its listener. *)
LEMMA SocketHeard ==
  ASSUME TypeOK, NEW s \in Subs, Socket(s)
  PROVE  /\ \E k \in Kinds \ {"none"}, d \in BOOLEAN : Heard(s, k, d)
         /\ \E from \in SUBSET Alive, to \in Alive : SockStep(s, from, to)
<1>0. dropped[s] \in BOOLEAN  BY DEF TypeOK
<1>1. CASE Dial(s)
  BY <1>0, <1>1 DEF Dial, Kinds, Waiting, Alive
<1>2. CASE Connected(s)
  BY <1>2 DEF Connected, Kinds, Waiting, Alive
<1>3. CASE Synced(s)
  BY <1>3 DEF Synced, Kinds, Waiting, Alive
<1>4. CASE Closed(s)
  <2>1. PICK from \in SUBSET Alive : SockStep(s, from, "closed")
    BY <1>4 DEF Closed, Alive
  <2>2. Heard(s, "offline", TRUE)  BY <1>4 DEF Closed
  <2> QED BY <2>1, <2>2 DEF Kinds, Waiting, Alive
<1>5. CASE ConnectionError(s)
  BY <1>5 DEF ConnectionError, Kinds, Waiting, Alive
<1>6. CASE AuthFailed(s)
  BY <1>0, <1>6 DEF AuthFailed, Kinds, Waiting, Terminal, Alive
<1> QED BY <1>1, <1>2, <1>3, <1>4, <1>5, <1>6 DEF Socket

-----------------------------------------------------------------------------
LEMMA StepTypes ==
  ASSUME TypeOK, [Next]_vars
  PROVE  TypeOK'
<1> USE DEF TypeOK
<1>0. StatusTypes  BY DEF StatusTypes
<1>1. CASE Destroy
  <2>1. Detached \in [Subs -> BOOLEAN]  BY DetachedType
  <2>2. timer' \in [Subs -> BOOLEAN]
    <3>1. \A s \in Subs : (timer[s] /\ s # canceller) \in BOOLEAN  BY Zenon
    <3> QED BY <1>1, <3>1 DEF Destroy
  <2> QED BY <1>1, <2>1, <2>2 DEF Destroy, Alive
<1>2. ASSUME NEW s \in Subs, Start(s) PROVE TypeOK'
  <2>1. PICK k \in Kinds : Report(s, k)
    BY <1>2 DEF Start, Kinds, Waiting, Terminal
  <2>2. StatusTypes'  BY <1>0, <2>1, ReportTypes
  <2>3. PICK p \in {"importing", "failed"} :
          phase' = [phase EXCEPT ![s] = p]
    BY <1>2 DEF Start
  <2>4. phase' \in [Subs -> {"none", "importing", "attached", "reaped",
                             "failed"}]
    BY <2>3
  <2>5. /\ canceller' = s
        /\ UNCHANGED <<setup, torn, dropped, sock, listening, owner, detacher,
                       disposed>>
    BY <1>2 DEF Start
  <2> QED BY <2>2, <2>4, <2>5 DEF StatusTypes
<1>3. ASSUME NEW s \in Subs, ImportFails(s) PROVE TypeOK'
  <2>1. StatusTypes'
    <3>1. "fatal" \in Kinds  BY DEF Kinds, Terminal
    <3>2. CASE disposed \/ torn[s]
      <4>1. UNCHANGED statusVars  BY <1>3, <3>2 DEF ImportFails
      <4> QED BY <1>0, <4>1 DEF StatusTypes, statusVars
    <3>3. CASE ~(disposed \/ torn[s])
      <4>1. Report(s, "fatal")  BY <1>3, <3>3 DEF ImportFails
      <4> QED BY <1>0, <3>1, <4>1, ReportTypes
    <3> QED BY <3>2, <3>3
  <2> QED BY <1>3, <2>1 DEF ImportFails, StatusTypes, ownerVars
<1>4. ASSUME NEW s \in Subs, Attach(s) PROVE TypeOK'
  <2>1. PICK now \in {"connecting", "closed", "synced"} :
          /\ FirstReport(s, now)
          /\ \/ /\ phase' = [phase EXCEPT ![s] = "reaped"]
                /\ sock' = [sock EXCEPT ![s] = "destroyed"]
                /\ UNCHANGED <<listening, owner, detacher>>
             \/ /\ phase' = [phase EXCEPT ![s] = "attached"]
                /\ sock' = [sock EXCEPT ![s] = now]
                /\ listening' = [listening EXCEPT ![s] = TRUE]
                /\ owner' = s /\ detacher' = s
    BY <1>4 DEF Attach
  <2>2. StatusTypes' /\ dropped' \in [Subs -> BOOLEAN]
    BY <1>0, <2>1, FirstTypes
  <2>3. UNCHANGED <<setup, torn, canceller, disposed>>  BY <1>4 DEF Attach
  <2>4. phase' \in [Subs -> {"none", "importing", "attached", "reaped",
                             "failed"}]
    BY <2>1
  <2>5. sock' \in [Subs -> Alive \cup {"none", "destroyed"}]
    BY <2>1 DEF Alive
  <2>6. /\ listening' \in [Subs -> BOOLEAN]
        /\ owner' \in Subs \cup {0} /\ detacher' \in Subs \cup {0}
    BY <2>1
  <2> QED BY <2>2, <2>3, <2>4, <2>5, <2>6 DEF StatusTypes
<1>5. ASSUME NEW s \in Subs, Socket(s) PROVE TypeOK'
  <2>1. PICK k \in Kinds, d \in BOOLEAN : Heard(s, k, d)
    BY <1>5, SocketHeard
  <2>2. PICK from \in SUBSET Alive, to \in Alive : SockStep(s, from, to)
    BY <1>5, SocketHeard
  <2>3. StatusTypes' /\ dropped' \in [Subs -> BOOLEAN]
    BY <1>0, <2>1, HeardTypes
  <2> QED BY <2>2, <2>3 DEF SockStep, StatusTypes, ownerVars
<1>6. ASSUME NEW s \in Subs, Timeout(s) PROVE TypeOK'
  <2>1. fired' \in [Subs -> Nat]
    <3>1. fired[s] + 1 \in Nat  OBVIOUS
    <3> QED BY <1>6, <3>1 DEF Timeout
  <2>2. status' \in [Subs -> Kinds]  BY <1>6 DEF Timeout, Kinds
  <2> QED BY <1>6, <2>1, <2>2 DEF Timeout, ownerVars
<1>7. ASSUME NEW s \in Subs, Teardown(s) PROVE TypeOK'
  <2>1. Detached \in [Subs -> BOOLEAN]  BY DetachedType
  <2> QED BY <1>7, <2>1 DEF Teardown
<1>8. CASE UNCHANGED vars
  BY <1>8 DEF vars, statusVars, ownerVars
<1> QED BY <1>1, <1>2, <1>3, <1>4, <1>5, <1>6, <1>7, <1>8 DEF Next

LEMMA InitTypes == Init => TypeOK
<1> SUFFICES ASSUME Init PROVE TypeOK
  OBVIOUS
<1>1. /\ setup \in [provider : Providers, validUrl : BOOLEAN]
      /\ phase \in [Subs -> {"none", "importing", "attached", "reaped",
                             "failed"}]
  BY DEF Init
<1>2. /\ torn \in [Subs -> BOOLEAN] /\ timer \in [Subs -> BOOLEAN]
      /\ timedOut \in [Subs -> BOOLEAN] /\ dropped \in [Subs -> BOOLEAN]
      /\ listening \in [Subs -> BOOLEAN]
  BY DEF Init
<1>3. status \in [Subs -> Kinds]
  <2>1. "none" \in Kinds  BY DEF Kinds
  <2> QED BY <2>1 DEF Init
<1>4. /\ sock \in [Subs -> Alive \cup {"none", "destroyed"}]
      /\ fired \in [Subs -> Nat]
  BY DEF Init
<1>5. /\ owner \in Subs \cup {0} /\ detacher \in Subs \cup {0}
      /\ canceller \in Subs \cup {0} /\ disposed \in BOOLEAN
  BY DEF Init
<1> QED BY <1>1, <1>2, <1>3, <1>4, <1>5 DEF TypeOK

(* The types of the variables in every reachable state. *)
THEOREM TransportTypes == Spec => []TypeOK
<1>1. Init => TypeOK
  BY InitTypes
<1>2. TypeOK /\ [Next]_vars => TypeOK'
  BY StepTypes
<1> QED BY <1>1, <1>2, PTL DEF Spec

-----------------------------------------------------------------------------
(* A wait that is reported is timed. *)
TimedAt(s) == status[s] \in Waiting => timer[s] \/ fired[s] > 0

(* Every subscription but s is told nothing. *)
OthersQuiet(s) ==
  \A r \in Subs \ {s} :
    status'[r] = status[r] /\ timer'[r] = timer[r] /\ fired'[r] = fired[r]

LEMMA ReportTimed ==
  ASSUME StatusTypes, Clock, NEW s \in Subs, NEW k \in Kinds, Report(s, k)
  PROVE  Clock' /\ TimedAt(s)' /\ OthersQuiet(s)
<1> DEFINE late == timedOut[s]
           set  == TimerAfter(k, timer[s], late)
<1>1. OthersQuiet(s) /\ \A r \in Subs \ {s} : timedOut'[r] = timedOut[r]
  BY DEF OthersQuiet, Report, StatusTypes
<1>2. /\ status'[s] = k /\ timer'[s] = set
      /\ timedOut'[s] = (late /\ k # "synced")
      /\ fired'[s] = IF k = "synced" THEN 0 ELSE fired[s]
  BY DEF Report, StatusTypes
<1>3. /\ fired[s] = IF late THEN 1 ELSE 0
      /\ timer[s] => ~late
  BY DEF Clock
<1>4. /\ fired'[s] = IF timedOut'[s] THEN 1 ELSE 0
      /\ timer'[s] => ~timedOut'[s]
  BY <1>2, <1>3 DEF TimerAfter
<1>5. Clock'
  BY <1>1, <1>4 DEF Clock, OthersQuiet
<1>6. TimedAt(s)'
  BY <1>2, <1>3 DEF TimedAt, TimerAfter, Waiting, Terminal
<1> QED BY <1>1, <1>5, <1>6

(* When the clocks stand still, so do the properties of the clocks. *)
LEMMA StillTimed ==
  ASSUME Clock, UNCHANGED statusVars, NEW s \in Subs
  PROVE  Clock' /\ OthersQuiet(s)
BY DEF Clock, OthersQuiet, statusVars

(* Whatever is heard, the subscription stays timed. *)
LEMMA HeardTimed ==
  ASSUME StatusTypes, Clock, NEW s \in Subs, NEW k \in Kinds, NEW d,
         Heard(s, k, d)
  PROVE  Clock' /\ OthersQuiet(s) /\ (TimedAt(s) => TimedAt(s)')
<1>1. CASE listening[s]
  <2>1. Report(s, k)  BY <1>1 DEF Heard
  <2> QED BY <2>1, ReportTimed
<1>2. CASE ~listening[s]
  <2>1. UNCHANGED statusVars  BY <1>2 DEF Heard
  <2> QED BY <2>1, StillTimed DEF TimedAt, statusVars
<1> QED BY <1>1, <1>2

(* WaitingIsTimed survives a step that speaks to s alone and takes nobody   *)
(* else into use.                                                          *)
LEMMA WaitingStays ==
  ASSUME WaitingIsTimed, NEW s \in Subs, OthersQuiet(s),
         \A r \in Subs \ {s} : InUse(r)' => InUse(r),
         InUse(s)' => TimedAt(s)'
  PROVE  WaitingIsTimed'
BY DEF WaitingIsTimed, OthersQuiet, TimedAt

(* While one subscription imports and is not torn, none is listened to. *)
LEMMA NobodyElse ==
  ASSUME TypeOK, Series, NEW s \in Subs, phase[s] = "importing", ~torn[s],
         NEW r \in Subs, listening[r]
  PROVE  FALSE
<1> USE DEF Started
<1>1. phase[r] = "attached" /\ ~torn[r]  BY DEF Series
<1>2. r # s  BY <1>1
<1>3. r \in Nat /\ s \in Nat  BY TransportAssumption
<1>4. ~(r < s)  BY <1>1 DEF Series
<1>5. ~(s < r)  BY <1>1 DEF Series
<1> QED BY <1>2, <1>3, <1>4, <1>5

LEMMA NoneListening ==
  ASSUME OneListener
  PROVE  \A r \in Subs : ~Detached[r]
BY DEF OneListener, Detached

-----------------------------------------------------------------------------
LEMMA StepTransport ==
  ASSUME TypeOK, TransportIInv, [Next]_vars
  PROVE  TransportIInv'
<1>0. /\ OneListener /\ Series /\ Ownership /\ Clock /\ WaitingIsTimed
      /\ StatusTypes
  BY DEF TransportIInv, TypeOK, StatusTypes
<1>1. CASE Destroy
  <2>1. listening' = [s \in Subs |-> FALSE]
    BY <1>0, <1>1, NoneListening DEF Destroy, Detached
  <2>2. OneListener'  BY <2>1 DEF OneListener
  <2>3. /\ UNCHANGED <<phase, torn>> /\ disposed' /\ owner' = 0
        /\ \A s \in Subs : sock'[s] \in Alive => sock[s] \in Alive /\ s # owner
    BY <1>1 DEF Destroy, Alive
  <2>4. Series'  BY <1>0, <2>1, <2>3 DEF Series, Started
  <2>5. Ownership'  BY <1>0, <2>3 DEF Ownership, Started
  <2>6. Clock'
    <3>1. /\ UNCHANGED <<timedOut, fired>>
          /\ \A s \in Subs : timer'[s] => timer[s]
      BY <1>1 DEF Destroy
    <3> QED BY <1>0, <3>1 DEF Clock
  <2>7. WaitingIsTimed'  BY <1>1 DEF Destroy, WaitingIsTimed, InUse
  <2> QED BY <2>2, <2>6, <2>7, <2>4, <2>5 DEF TransportIInv
<1>2. ASSUME NEW s \in Subs, Start(s) PROVE TransportIInv'
  <2>1. PICK k \in Kinds : Report(s, k)
    BY <1>2 DEF Start, Kinds, Waiting, Terminal
  <2>2. Clock' /\ TimedAt(s)' /\ OthersQuiet(s)
    BY <1>0, <2>1, ReportTimed
  <2>3. /\ phase[s] = "none" /\ \A r \in Subs : r < s => torn[r]
        /\ phase'[s] # "none"
        /\ \A r \in Subs \ {s} : phase'[r] = phase[r]
        /\ UNCHANGED <<torn, sock, listening, owner, detacher, disposed>>
    BY <1>2 DEF Start, TypeOK
  <2>4. OneListener'  BY <1>0, <2>3 DEF OneListener
  <2>5. Series'  BY <1>0, <2>3 DEF Series, Started
  <2>6. Ownership'  BY <1>0, <2>3 DEF Ownership, Started
  <2>7. WaitingIsTimed'
    <3>1. \A r \in Subs \ {s} : InUse(r)' => InUse(r)  BY <2>3 DEF InUse
    <3> QED BY <1>0, <2>2, <3>1, WaitingStays
  <2> QED BY <2>2, <2>4, <2>5, <2>7, <2>6 DEF TransportIInv
<1>3. ASSUME NEW s \in Subs, ImportFails(s) PROVE TransportIInv'
  <2>1. Clock' /\ OthersQuiet(s)
    <3>1. "fatal" \in Kinds  BY DEF Kinds, Terminal
    <3>2. UNCHANGED statusVars \/ Report(s, "fatal")
      BY <1>3 DEF ImportFails
    <3> QED BY <1>0, <3>1, <3>2, ReportTimed, StillTimed
  <2>2. /\ phase[s] = "importing" /\ phase'[s] = "failed"
        /\ \A r \in Subs \ {s} : phase'[r] = phase[r]
        /\ UNCHANGED <<torn, sock, listening, owner, detacher, disposed>>
    BY <1>3 DEF ImportFails, TypeOK, ownerVars
  <2>3. OneListener'  BY <1>0, <2>2 DEF OneListener
  <2>4. Series'  BY <1>0, <2>2 DEF Series, Started
  <2>5. Ownership'  BY <1>0, <2>2 DEF Ownership, Started
  <2>6. WaitingIsTimed'
    <3>1. /\ ~InUse(s)'
          /\ \A r \in Subs \ {s} : InUse(r)' => InUse(r)
      BY <2>2 DEF InUse
    <3> QED BY <1>0, <2>1, <3>1, WaitingStays
  <2> QED BY <2>1, <2>3, <2>4, <2>6, <2>5 DEF TransportIInv
<1>4. ASSUME NEW s \in Subs, Attach(s) PROVE TransportIInv'
  <2>1. PICK now \in {"connecting", "closed", "synced"} : FirstReport(s, now)
    BY <1>4 DEF Attach
  <2>2. /\ Clock' /\ OthersQuiet(s)
        /\ TimedAt(s) => TimedAt(s)'
    <3>1. CASE setup.provider = "hocuspocus"
      <4>1. PICK k \in {"connecting", "offline", "synced"} : Report(s, k)
        BY <2>1, <3>1 DEF FirstReport
      <4>2. k \in Kinds  BY DEF Kinds, Waiting
      <4> QED BY <1>0, <4>1, <4>2, ReportTimed
    <3>2. CASE setup.provider # "hocuspocus"
      <4>1. UNCHANGED statusVars  BY <2>1, <3>2 DEF FirstReport
      <4> QED BY <1>0, <4>1, StillTimed DEF TimedAt, statusVars
    <3> QED BY <3>1, <3>2
  <2>3. /\ phase[s] = "importing" /\ phase'[s] \in {"attached", "reaped"}
        /\ \A r \in Subs \ {s} : phase'[r] = phase[r]
        /\ UNCHANGED <<torn, disposed>>
    BY <1>4 DEF Attach, TypeOK
  <2>4. WaitingIsTimed'
    <3>1. /\ InUse(s)' => TimedAt(s)
          /\ \A r \in Subs \ {s} : InUse(r)' => InUse(r)
      BY <1>0, <2>3 DEF InUse, WaitingIsTimed, TimedAt
    <3> QED BY <1>0, <2>2, <3>1, WaitingStays
  <2>5. OneListener' /\ Series' /\ Ownership'
    <3>1. CASE disposed \/ torn[s]
      <4>1. /\ UNCHANGED <<listening, owner, detacher>>
            /\ sock'[s] \notin Alive
            /\ \A r \in Subs \ {s} : sock'[r] = sock[r]
        BY <1>4, <3>1 DEF Attach, TypeOK, Alive
      <4>2. ~listening[s]  BY <1>0, <2>3 DEF Series
      <4>3. OneListener'  BY <1>0, <4>1, <4>2 DEF OneListener
      <4>4. Series'  BY <1>0, <2>3, <4>1, <4>2 DEF Series, Started
      <4>5. Ownership'  BY <1>0, <2>3, <4>1 DEF Ownership, Started
      <4> QED BY <4>3, <4>4, <4>5
    <3>2. CASE ~(disposed \/ torn[s])
      <4>1. /\ phase'[s] = "attached" /\ sock'[s] \in Alive
            /\ owner' = s /\ detacher' = s
            /\ \A r \in Subs \ {s} :
                 listening'[r] = listening[r] /\ sock'[r] = sock[r]
        BY <1>4, <3>2 DEF Attach, TypeOK, Alive
      <4>2. \A r \in Subs : ~listening[r]
        BY <1>0, <2>3, <3>2, NobodyElse
      <4>3. OneListener'  BY <4>1, <4>2 DEF OneListener
      <4>4. Series'  BY <1>0, <2>3, <3>2, <4>1, <4>2 DEF Series, Started
      <4>5. \A r \in Subs \ {s} : sock[r] \in Alive => s > r
        <5> SUFFICES ASSUME NEW r \in Subs, r # s, sock[r] \in Alive
                     PROVE  s > r
          OBVIOUS
        <5>1. Started(r)  BY <1>0 DEF Series
        <5>2. ~(s < r)  BY <1>0, <3>2, <5>1 DEF Series
        <5>3. r \in Nat /\ s \in Nat  BY TransportAssumption
        <5> QED BY <5>2, <5>3
      <4>6. Ownership'
        <5>1. Started(s)'  BY <4>1 DEF Started
        <5>2. ~disposed'  BY <2>3, <3>2
        <5> QED BY <4>1, <4>5, <5>1, <5>2 DEF Ownership
      <4> QED BY <4>3, <4>4, <4>6
    <3> QED BY <3>1, <3>2
  <2> QED BY <2>2, <2>4, <2>5 DEF TransportIInv
<1>5. ASSUME NEW s \in Subs, Socket(s) PROVE TransportIInv'
  <2>1. PICK k \in Kinds, d \in BOOLEAN : Heard(s, k, d)
    BY <1>5, SocketHeard
  <2>2. PICK from \in SUBSET Alive, to \in Alive : SockStep(s, from, to)
    BY <1>5, SocketHeard
  <2>3. Clock' /\ OthersQuiet(s) /\ (TimedAt(s) => TimedAt(s)')
    BY <1>0, <2>1, HeardTimed
  <2>4. /\ sock'[s] \in Alive
        /\ \A r \in Subs \ {s} : sock'[r] = sock[r]
        /\ sock[s] \in Alive
        /\ UNCHANGED <<phase, torn, listening, owner, detacher, disposed>>
    BY <2>2 DEF SockStep, TypeOK, ownerVars
  <2>5. OneListener'  BY <1>0, <2>4 DEF OneListener
  <2>6. Series'  BY <1>0, <2>4 DEF Series, Started
  <2>7. Ownership'  BY <1>0, <2>4 DEF Ownership, Started
  <2>8. WaitingIsTimed'
    <3>1. /\ InUse(s)' => TimedAt(s)
          /\ \A r \in Subs \ {s} : InUse(r)' => InUse(r)
      BY <1>0, <2>4 DEF InUse, WaitingIsTimed, TimedAt
    <3> QED BY <1>0, <2>3, <3>1, WaitingStays
  <2> QED BY <2>3, <2>5, <2>6, <2>8, <2>7 DEF TransportIInv
<1>6. ASSUME NEW s \in Subs, Timeout(s) PROVE TransportIInv'
  <2>1. /\ timer[s] /\ ~timer'[s] /\ timedOut'[s]
        /\ status'[s] = "timeout" /\ fired'[s] = fired[s] + 1
        /\ \A r \in Subs \ {s} : timedOut'[r] = timedOut[r]
        /\ UNCHANGED <<phase, torn, sock, listening, owner, detacher, disposed>>
    BY <1>6 DEF Timeout, TypeOK, ownerVars
  <2>2. OthersQuiet(s)  BY <1>6 DEF Timeout, OthersQuiet, TypeOK
  <2>3. fired[s] = 0  BY <1>0, <2>1 DEF Clock
  <2>4. Clock'  BY <1>0, <2>1, <2>2, <2>3 DEF Clock, OthersQuiet
  <2>5. WaitingIsTimed'
    <3>1. TimedAt(s)'  BY <2>1 DEF TimedAt, Waiting
    <3>2. \A r \in Subs : InUse(r)' => InUse(r)  BY <2>1 DEF InUse
    <3> QED BY <1>0, <2>2, <3>1, <3>2, WaitingStays
  <2>6. OneListener' /\ Series' /\ Ownership'
    BY <1>0, <2>1 DEF OneListener, Series, Started, Ownership
  <2> QED BY <2>4, <2>5, <2>6 DEF TransportIInv
<1>7. ASSUME NEW s \in Subs, Teardown(s) PROVE TransportIInv'
  <2>1. listening' = [r \in Subs |-> FALSE]
    BY <1>0, <1>7, NoneListening DEF Teardown, Detached
  <2>2. /\ torn'[s] /\ ~timer'[s]
        /\ \A r \in Subs \ {s} : torn'[r] = torn[r] /\ timer'[r] = timer[r]
        /\ UNCHANGED <<phase, timedOut, status, fired, sock, owner, disposed>>
    BY <1>7 DEF Teardown, TypeOK
  <2>3. OneListener'  BY <2>1 DEF OneListener
  <2>4. Series'
    <3>1. \A r \in Subs : torn[r] => torn'[r]  BY <2>2
    <3> QED BY <1>0, <2>1, <2>2, <3>1 DEF Series, Started
  <2>5. Ownership'  BY <1>0, <2>2 DEF Ownership, Started
  <2>6. Clock'  BY <1>0, <2>2 DEF Clock
  <2>7. WaitingIsTimed'
    <3>1. ~InUse(s)' /\ \A r \in Subs \ {s} : InUse(r)' => InUse(r)
      BY <2>2 DEF InUse
    <3>2. OthersQuiet(s)  BY <2>2 DEF OthersQuiet
    <3> QED BY <1>0, <3>1, <3>2, WaitingStays
  <2> QED BY <2>3, <2>4, <2>6, <2>7, <2>5 DEF TransportIInv
<1>8. CASE UNCHANGED vars
  BY <1>0, <1>8 DEF vars, statusVars, ownerVars, TransportIInv, OneListener,
                    Series, Started, Ownership, Clock, WaitingIsTimed, InUse
<1> QED BY <1>1, <1>2, <1>3, <1>4, <1>5, <1>6, <1>7, <1>8 DEF Next

(* The inductive invariant: subscriptions follow one another, the timer,    *)
(* its flag and the count of timeouts go together, and what is proved of    *)
(* them below.                                                             *)
THEOREM TransportSafe == Spec => []TransportIInv
<1>1. Init => TransportIInv
  <2> SUFFICES ASSUME Init PROVE TransportIInv
    OBVIOUS
  <2>1. \A s \in Subs : /\ phase[s] = "none" /\ ~listening[s] /\ ~timer[s]
                        /\ ~timedOut[s] /\ fired[s] = 0 /\ sock[s] \notin Alive
    BY DEF Init, Alive
  <2>2. owner = 0  BY DEF Init
  <2>3. OneListener /\ Series /\ Ownership
    BY <2>1, <2>2 DEF OneListener, Series, Started, Ownership
  <2>4. Clock  BY <2>1 DEF Clock
  <2>5. WaitingIsTimed  BY <2>1 DEF WaitingIsTimed, InUse
  <2> QED BY <2>3, <2>4, <2>5 DEF TransportIInv
<1>2. TypeOK /\ TransportIInv /\ [Next]_vars => TransportIInv'
  BY StepTransport
<1> QED BY <1>1, <1>2, TransportTypes, PTL DEF Spec

(* No handler is left on a provider that was destroyed, and each handler is *)
(* one the next teardown removes.                                          *)
THEOREM ListenersAccounted == Spec => []OneListener
<1>1. TransportIInv => OneListener
  BY DEF TransportIInv
<1> QED BY <1>1, TransportSafe, PTL

(* A connection outlives destroy() only behind a later subscription. *)
THEOREM ProvidersReleased == Spec => []LastProviderReleased
<1>1. TypeOK /\ TransportIInv => LastProviderReleased
  <2> SUFFICES ASSUME TypeOK, Ownership, disposed,
                      NEW s \in Subs, sock[s] \in Alive
               PROVE  \E r \in Subs : r > s /\ Started(r)
    BY DEF TransportIInv, LastProviderReleased
  <2>1. owner # s  BY TransportAssumption DEF Ownership
  <2> QED BY <2>1 DEF Ownership
<1> QED BY <1>1, TransportSafe, TransportTypes, PTL

(* The timeout is reported at most once per outage. *)
THEOREM TimeoutsBounded == Spec => []OneTimeoutPerOutage
<1>1. TransportIInv => OneTimeoutPerOutage
  <2> SUFFICES ASSUME Clock, NEW s \in Subs PROVE fired[s] <= 1
    BY DEF TransportIInv, OneTimeoutPerOutage
  <2>1. fired[s] = 0 \/ fired[s] = 1  BY DEF Clock
  <2> QED BY <2>1
<1> QED BY <1>1, TransportSafe, PTL

(* An adapter that waits has a timeout ahead of it or behind it. *)
THEOREM WaitsTimed == Spec => []WaitingIsTimed
<1>1. TransportIInv => WaitingIsTimed
  BY DEF TransportIInv
<1> QED BY <1>1, TransportSafe, PTL

-----------------------------------------------------------------------------
(* After a drop no dial is reported as fresh.  What was last told to be lost *)
(* is remembered in dropped for as long as somebody listens, and nothing is  *)
(* told to be lost before the provider is there.                            *)

Lost == {"offline", "fault"}

Remembered(s) ==
  /\ phase[s] = "none" => status[s] = "none" /\ ~timer[s]
  /\ phase[s] = "importing" => status[s] \notin Lost
  /\ listening[s] /\ status[s] \in Lost => dropped[s]

Memory == \A s \in Subs : Remembered(s)

(* What a step of subscription s leaves alone. *)
Untouched(r) ==
  /\ phase'[r] = phase[r] /\ status'[r] = status[r] /\ dropped'[r] = dropped[r]
  /\ timer'[r] => timer[r]
  /\ listening'[r] => listening[r]

NotFresh(s) == status[s] \in Lost => status'[s] # "connecting"

LEMMA UntouchedRemembers ==
  ASSUME NEW s, Remembered(s), Untouched(s) PROVE Remembered(s)' /\ NotFresh(s)
  BY DEF Remembered, Untouched, NotFresh, Lost

LEMMA ReportFacts ==
  ASSUME TypeOK, NEW s \in Subs, NEW k, Report(s, k)
  PROVE  /\ status'[s] = k
         /\ \A r \in Subs \ {s} : status'[r] = status[r] /\ timer'[r] = timer[r]
  BY DEF Report, TypeOK

LEMMA StartRemembers ==
  ASSUME TypeOK, Memory, NEW s \in Subs, Start(s)
  PROVE  \A r \in Subs : Remembered(r)' /\ NotFresh(r)
<1>1. /\ phase'[s] \in {"importing", "failed"}
      /\ \A r \in Subs \ {s} : phase'[r] = phase[r]
      /\ phase[s] = "none" /\ UNCHANGED <<dropped, listening>>
  BY DEF Start, TypeOK
<1>2. /\ status'[s] \in {"connecting", "fatal"}
      /\ \A r \in Subs \ {s} : status'[r] = status[r] /\ timer'[r] = timer[r]
  BY ReportFacts DEF Start
<1>3. Remembered(s)' /\ NotFresh(s)
  BY <1>1, <1>2 DEF Memory, Remembered, NotFresh, Lost
<1>4. \A r \in Subs \ {s} : Untouched(r)
  BY <1>1, <1>2 DEF Untouched
<1> QED BY <1>3, <1>4, UntouchedRemembers DEF Memory

LEMMA AttachRemembers ==
  ASSUME TypeOK, Series, Memory, NEW s \in Subs, Attach(s)
  PROVE  \A r \in Subs : Remembered(r)' /\ NotFresh(r)
<1>1. PICK now \in {"connecting", "closed", "synced"} : FirstReport(s, now)
  BY DEF Attach
<1>2. /\ phase[s] = "importing" /\ phase'[s] \in {"attached", "reaped"}
      /\ \A r \in Subs \ {s} : /\ phase'[r] = phase[r]
                               /\ listening'[r] = listening[r]
  BY DEF Attach, TypeOK
<1>3. /\ dropped'[s] = (now = "closed")
      /\ \A r \in Subs \ {s} : /\ dropped'[r] = dropped[r]
                               /\ status'[r] = status[r]
                               /\ timer'[r] = timer[r]
  <2>1. dropped' = [dropped EXCEPT ![s] = now = "closed"]
    BY <1>1 DEF FirstReport
  <2>2. CASE setup.provider = "hocuspocus"
    BY <1>1, <2>1, <2>2, ReportFacts DEF FirstReport, TypeOK
  <2>3. CASE setup.provider # "hocuspocus"
    BY <1>1, <2>1, <2>3 DEF FirstReport, TypeOK, statusVars
  <2> QED BY <2>2, <2>3
<1>4. status[s] \notin Lost
  BY <1>2 DEF Memory, Remembered
<1>5. status'[s] \in Lost => now = "closed"
  <2>1. CASE setup.provider = "hocuspocus"
    BY <1>1, <2>1, ReportFacts DEF FirstReport, Lost
  <2>2. CASE setup.provider # "hocuspocus"
    BY <1>1, <1>4, <2>2 DEF FirstReport, statusVars
  <2> QED BY <2>1, <2>2
<1>6. Remembered(s)' /\ NotFresh(s)
  BY <1>2, <1>3, <1>4, <1>5 DEF Remembered, NotFresh
<1>7. \A r \in Subs \ {s} : Untouched(r)
  BY <1>2, <1>3 DEF Untouched
<1> QED BY <1>6, <1>7, UntouchedRemembers DEF Memory

LEMMA HeardRemembers ==
  ASSUME TypeOK, Series, Memory, NEW s \in Subs, UNCHANGED <<phase, listening>>,
         NEW k, NEW d \in BOOLEAN, Heard(s, k, d),
         k \notin Lost \/ d = TRUE, k = "connecting" => ~dropped[s]
  PROVE  \A r \in Subs : Remembered(r)' /\ NotFresh(r)
<1>1. CASE listening[s]
  <2>1. /\ status'[s] = k /\ dropped'[s] = d
        /\ \A r \in Subs \ {s} : /\ status'[r] = status[r]
                                 /\ timer'[r] = timer[r]
                                 /\ dropped'[r] = dropped[r]
    BY <1>1, ReportFacts DEF Heard, TypeOK
  <2>2. phase[s] = "attached"
    BY <1>1 DEF Series
  <2>3. Remembered(s)' /\ NotFresh(s)
    BY <1>1, <2>1, <2>2 DEF Memory, Remembered, NotFresh
  <2>4. \A r \in Subs \ {s} : Untouched(r)
    BY <2>1 DEF Untouched
  <2> QED BY <2>3, <2>4, UntouchedRemembers DEF Memory
<1>2. CASE ~listening[s]
  <2>1. \A r \in Subs : Untouched(r)
    BY <1>2 DEF Heard, statusVars, Untouched
  <2> QED BY <2>1, UntouchedRemembers DEF Memory
<1> QED BY <1>1, <1>2

LEMMA SocketRemembers ==
  ASSUME TypeOK, Series, Memory, NEW s \in Subs, Socket(s)
  PROVE  \A r \in Subs : Remembered(r)' /\ NotFresh(r)
<1>1. UNCHANGED <<phase, listening>>
  BY DEF Socket, SockStep, Dial, Connected, Synced, Closed, ConnectionError,
         AuthFailed
<1>2. dropped[s] \in BOOLEAN
  BY DEF TypeOK
<1>3. CASE Dial(s)
  <2>1. CASE dropped[s]
    <3>1. Heard(s, "reconnecting", dropped[s])
      BY <1>3, <2>1 DEF Dial
    <3> QED BY <1>1, <1>2, <3>1, HeardRemembers DEF Lost
  <2>2. CASE ~dropped[s]
    <3>1. Heard(s, "connecting", dropped[s])
      BY <1>3, <2>2 DEF Dial
    <3> QED BY <1>1, <1>2, <2>2, <3>1, HeardRemembers DEF Lost
  <2> QED BY <2>1, <2>2
<1>4. CASE Connected(s) \/ Synced(s)
  <2>1. Heard(s, "synced", FALSE)
    BY <1>4 DEF Connected, Synced
  <2> QED BY <1>1, <2>1, HeardRemembers DEF Lost
<1>5. CASE Closed(s)
  <2>1. Heard(s, "offline", TRUE)
    BY <1>5 DEF Closed
  <2> QED BY <1>1, <2>1, HeardRemembers
<1>6. CASE ConnectionError(s)
  <2>1. Heard(s, "fault", TRUE)
    BY <1>6 DEF ConnectionError
  <2> QED BY <1>1, <2>1, HeardRemembers
<1>7. CASE AuthFailed(s)
  <2>1. Heard(s, "auth", dropped[s])
    BY <1>7 DEF AuthFailed
  <2> QED BY <1>1, <1>2, <2>1, HeardRemembers DEF Lost
<1> QED BY <1>3, <1>4, <1>5, <1>6, <1>7 DEF Socket

LEMMA StepRemembers ==
  TypeOK /\ Series /\ Memory /\ [Next]_vars
    => \A r \in Subs : Remembered(r)' /\ NotFresh(r)
<1> SUFFICES ASSUME TypeOK, Series, Memory, [Next]_vars
             PROVE  \A r \in Subs : Remembered(r)' /\ NotFresh(r)
  OBVIOUS
<1>1. CASE Destroy
  <2>1. \A r \in Subs : Untouched(r)
    BY <1>1 DEF Destroy, Detached, Untouched
  <2> QED BY <2>1, UntouchedRemembers DEF Memory
<1>2. ASSUME NEW s \in Subs, ImportFails(s)
      PROVE  \A r \in Subs : Remembered(r)' /\ NotFresh(r)
  <2>1. /\ phase'[s] = "failed" /\ phase[s] = "importing"
        /\ \A r \in Subs \ {s} : phase'[r] = phase[r]
        /\ UNCHANGED <<dropped, listening>>
    BY <1>2 DEF ImportFails, TypeOK
  <2>2. /\ status'[s] \in {status[s], "fatal"}
        /\ \A r \in Subs \ {s} : status'[r] = status[r] /\ timer'[r] = timer[r]
    BY <1>2, ReportFacts DEF ImportFails, statusVars
  <2>3. Remembered(s)' /\ NotFresh(s)
    BY <2>1, <2>2 DEF Memory, Remembered, NotFresh, Lost
  <2>4. \A r \in Subs \ {s} : Untouched(r)
    BY <2>1, <2>2 DEF Untouched
  <2> QED BY <2>3, <2>4, UntouchedRemembers DEF Memory
<1>3. ASSUME NEW s \in Subs, Timeout(s)
      PROVE  \A r \in Subs : Remembered(r)' /\ NotFresh(r)
  <2>1. /\ status'[s] = "timeout" /\ timer[s] /\ ~timer'[s]
        /\ \A r \in Subs \ {s} : status'[r] = status[r] /\ timer'[r] = timer[r]
        /\ UNCHANGED <<phase, dropped, listening>>
    BY <1>3 DEF Timeout, TypeOK
  <2>2. Remembered(s)' /\ NotFresh(s)
    BY <2>1 DEF Memory, Remembered, NotFresh, Lost
  <2>3. \A r \in Subs \ {s} : Untouched(r)
    BY <2>1 DEF Untouched
  <2> QED BY <2>2, <2>3, UntouchedRemembers DEF Memory
<1>4. ASSUME NEW s \in Subs, Teardown(s)
      PROVE  \A r \in Subs : Remembered(r)' /\ NotFresh(r)
  <2>1. \A r \in Subs : Untouched(r)
    BY <1>4 DEF Teardown, Detached, Untouched, TypeOK
  <2> QED BY <2>1, UntouchedRemembers DEF Memory
<1>5. CASE UNCHANGED vars
  <2>1. \A r \in Subs : Untouched(r)
    BY <1>5 DEF vars, statusVars, Untouched
  <2> QED BY <2>1, UntouchedRemembers DEF Memory
<1> QED BY <1>1, <1>2, <1>3, <1>4, <1>5, StartRemembers, AttachRemembers,
           SocketRemembers DEF Next

(* After a drop no dial is reported as a fresh "connecting". *)
THEOREM DropsRemembered == Spec => NeverFreshAfterDrop
<1>1. Init => Memory
  BY DEF Init, Memory, Remembered
<1>2. TypeOK /\ TransportIInv /\ Memory /\ [Next]_vars => Memory'
  BY StepRemembers DEF TransportIInv, Memory
<1>3. TypeOK /\ TransportIInv /\ Memory /\ [Next]_vars
        => [\A s \in Subs :
              status[s] \in {"offline", "fault"} => status'[s] # "connecting"]_vars
  BY StepRemembers DEF TransportIInv, NotFresh, Lost
<1> QED
  BY <1>1, <1>2, <1>3, TransportTypes, TransportSafe, PTL
     DEF Spec, NeverFreshAfterDrop
=============================================================================
