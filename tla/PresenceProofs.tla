---------------------------- MODULE PresenceProofs ----------------------------
(***************************************************************************)
(* The safety of the awareness bridges, for any users, states and bucket   *)
(* capacity.                                                               *)
(*                                                                         *)
(* Two facts are not in the properties but carry them.  A live subscriber   *)
(* belongs to a bridge that is up, so whatever ends the bridge ends the     *)
(* frame.  And the cache of a subscriber is what a full validation of the   *)
(* awareness would give, in every state, although a change event validates *)
(* the clients it names only; what was shown is the cache but for a frame. *)
(***************************************************************************)
EXTENDS Presence, TLAPS

Subscribed == \A p \in Peers : sub[p] = "live" => life[p] = "up"

Cached ==
  \A p \in Peers :
    Listening(p) => /\ cache[p] = Seen(aware[p])
                    /\ ~frame[p] => shown[p] = cache[p]

PresenceIInv == TypeOK /\ Subscribed /\ NoLateCallback /\ Cached

(* Validation answers one of the valid states or none. *)
LEMMA ValidStates == \A state : Valid(state) \in SUBSET States
  BY DEF Valid

LEMMA SeenType == \A states : Seen(states) \in [Peers -> SUBSET States]
  BY ValidStates DEF Seen

LEMMA PresenceInit == Init => PresenceIInv
  <1> SUFFICES ASSUME Init PROVE PresenceIInv
    OBVIOUS
  <1>1. TypeOK
    BY PresenceAssumption DEF Init, TypeOK, Status, Nobody
  <1>2. Subscribed /\ NoLateCallback /\ Cached
    BY DEF Init, Subscribed, NoLateCallback, Cached, Listening
  <1> QED
    BY <1>1, <1>2 DEF PresenceIInv

-----------------------------------------------------------------------------
(* A change event. *)

(* States that may replace those of p: typed, and no clock ahead of its     *)
(* owner's.                                                                *)
Acceptable(p, states) ==
  /\ states \in [Peers -> Status]
  /\ \A c \in Peers \ {p} : states[c].clock <= aware[c][c].clock
  /\ \A q \in Peers : aware[q][p].clock <= states[p].clock

(* The change event leaves the cache of a subscriber as good as new.        *)
LEMMA NoticeKeeps ==
  ASSUME PresenceIInv, NEW p \in Peers, NEW states, Acceptable(p, states),
         Notice(p, states)
  PROVE  /\ aware' \in [Peers -> [Peers -> Status]]
         /\ \A q, c \in Peers : aware'[q][c].clock <= aware'[c][c].clock
         /\ cache' \in [Peers -> [Peers -> SUBSET States]]
         /\ frame' \in [Peers -> BOOLEAN]
         /\ \A q \in Peers : frame'[q] => frame[q] \/ Listening(q)
         /\ \A q \in Peers : Listening(q) => cache'[q] = Seen(aware'[q])
         /\ \A q \in Peers : Listening(q) /\ ~frame'[q] => ~frame[q] /\ cache'[q] = cache[q]
  <1> DEFINE changed == {c \in Peers : states[c].state # aware[p][c].state}
             renewed == [c \in Peers |-> IF c \in changed
                                         THEN Refreshed(cache[p][c], states[c].state)
                                         ELSE cache[p][c]]
  <1> USE DEF PresenceIInv
  <1>1. aware' = [aware EXCEPT ![p] = states]
    BY DEF Notice
  <1>2. aware' \in [Peers -> [Peers -> Status]]
    BY <1>1 DEF TypeOK, Acceptable
  <1>3. \A q, c \in Peers : aware'[q][c].clock <= aware'[c][c].clock
    <2> TAKE q, c \in Peers
    <2>1. aware[q][c].clock <= aware[c][c].clock
      BY DEF TypeOK
    <2>2. aware \in [Peers -> [Peers -> Status]] /\ states \in [Peers -> Status]
      BY DEF TypeOK, Acceptable
    <2>3. CASE q = p /\ c = p
      BY <1>1, <2>2, <2>3 DEF Status
    <2>4. CASE q = p /\ c # p
      BY <1>1, <2>2, <2>4 DEF Acceptable
    <2>5. CASE q # p /\ c = p
      BY <1>1, <2>2, <2>5 DEF Acceptable
    <2>6. CASE q # p /\ c # p
      BY <1>1, <2>1, <2>2, <2>6
    <2> QED
      BY <2>3, <2>4, <2>5, <2>6
  <1>4. CASE Listening(p) /\ changed # {}
    <2>1. /\ cache' = [cache EXCEPT ![p] = renewed]
          /\ frame' = [frame EXCEPT ![p] = TRUE]
      BY <1>4 DEF Notice
    <2>2. cache[p] = Seen(aware[p])
      BY <1>4 DEF Cached, Listening
    <2>3. renewed = Seen(states)
      BY <2>2 DEF Seen, Refreshed
    <2>4. Seen(states) \in [Peers -> SUBSET States]
      BY SeenType
    <2> HIDE DEF renewed
    <2> QED
      BY <1>1, <1>2, <1>3, <1>4, <2>1, <2>3, <2>4 DEF TypeOK, Cached, Listening
  <1>5. CASE ~(Listening(p) /\ changed # {})
    <2>1. cache' = cache /\ frame' = frame
      BY <1>5 DEF Notice
    <2>2. Listening(p) => Seen(states) = Seen(aware[p])
      BY <1>5 DEF Seen
    <2> HIDE DEF changed
    <2>3. \A q \in Peers : Listening(q) => cache'[q] = Seen(aware'[q])
      BY <1>1, <2>1, <2>2 DEF Cached, Listening, TypeOK
    <2> QED
      BY <1>2, <1>3, <2>1, <2>3 DEF TypeOK
  <1> QED
    BY <1>4, <1>5

(* So does a change that a subscriber's bridge makes or hears of, when all   *)
(* else of the bridges stays.                                              *)
LEMMA NoticePreserves ==
  ASSUME PresenceIInv, NEW p \in Peers, NEW states, Acceptable(p, states),
         Notice(p, states),
         UNCHANGED <<life, hidden, sub, shown>>,
         tokens' \in [Peers -> 0 .. Capacity], calls' \in 0 .. MaxCalls
  PROVE  PresenceIInv'
  <1> USE DEF PresenceIInv
  <1>1. TypeOK'
    BY NoticeKeeps DEF TypeOK
  <1>2. Subscribed'
    BY DEF Subscribed
  <1>3. NoLateCallback'
    <2>1. \A q \in Peers : frame'[q] => frame[q] \/ Listening(q)
      BY NoticeKeeps
    <2>2. \A q \in Peers : sub[q] \in {"none", "live", "late"}
      BY DEF TypeOK
    <2> QED
      BY <2>1, <2>2 DEF Subscribed, NoLateCallback, Listening
  <1>4. Cached'
    BY NoticeKeeps DEF Cached, Listening
  <1> QED
    BY <1>1, <1>2, <1>3, <1>4

(* A user's own state, with the next clock. *)
LEMMA LocalStateAcceptable ==
  ASSUME PresenceIInv, NEW p \in Peers,
         NEW state \in States \cup {Malformed, Gone}
  PROVE  Acceptable(p, SetLocalState(p, state))
  <1>1. aware \in [Peers -> [Peers -> Status]]
    BY DEF PresenceIInv, TypeOK
  <1>2. aware[p] \in [Peers -> Status] /\ aware[p][p].clock \in Nat
    BY <1>1 DEF Status
  <1> DEFINE next == [clock |-> aware[p][p].clock + 1, state |-> state]
  <1>3. next \in Status /\ next.clock = aware[p][p].clock + 1
    BY <1>2 DEF Status
  <1>4. SetLocalState(p, state) = [aware[p] EXCEPT ![p] = next]
    BY DEF SetLocalState
  <1> HIDE DEF next
  <1>5. SetLocalState(p, state) \in [Peers -> Status]
    BY <1>2, <1>3, <1>4
  <1>6. \A c \in Peers \ {p} : SetLocalState(p, state)[c].clock <= aware[c][c].clock
    BY <1>2, <1>4 DEF PresenceIInv, TypeOK
  <1>7. \A q \in Peers : aware[q][p].clock <= SetLocalState(p, state)[p].clock
    <2> TAKE q \in Peers
    <2>1. aware[q][p].clock <= aware[p][p].clock
      BY DEF PresenceIInv, TypeOK
    <2>2. aware[q][p].clock \in Nat
      BY <1>1 DEF Status
    <2>3. SetLocalState(p, state)[p].clock = aware[p][p].clock + 1
      BY <1>2, <1>3, <1>4
    <2> QED
      BY <1>2, <2>1, <2>2, <2>3
  <1> QED
    BY <1>5, <1>6, <1>7 DEF Acceptable

-----------------------------------------------------------------------------
(* The steps. *)

LEMMA UpdateStep ==
  ASSUME PresenceIInv, NEW p \in Peers, Update(p) PROVE PresenceIInv'
  <1>1. calls' \in 0 .. MaxCalls
    BY PresenceAssumption DEF Update, Call, PresenceIInv, TypeOK
  <1>2. CASE tokens[p] > 0
    <2>1. PICK state \in States \cup {Malformed} : Notice(p, SetLocalState(p, state))
      BY <1>2 DEF Update
    <2>2. tokens' \in [Peers -> 0 .. Capacity]
      <3>1. tokens \in [Peers -> 0 .. Capacity] /\ tokens' = [tokens EXCEPT ![p] = @ - 1]
        BY <1>2 DEF Update, PresenceIInv, TypeOK
      <3>2. tokens[p] - 1 \in 0 .. Capacity
        BY <1>2, <3>1, PresenceAssumption
      <3> QED
        BY <3>1, <3>2
    <2>3. UNCHANGED <<life, hidden, sub, shown>>
      BY DEF Update
    <2>4. Acceptable(p, SetLocalState(p, state))
      BY LocalStateAcceptable
    <2> QED
      BY <1>1, <2>1, <2>2, <2>3, <2>4, NoticePreserves
  <1>3. CASE ~(tokens[p] > 0)
    BY <1>1, <1>3 DEF Update, PresenceIInv, TypeOK, Subscribed, NoLateCallback, Cached, Listening
  <1> QED
    BY <1>2, <1>3

LEMMA RefillStep ==
  ASSUME PresenceIInv, NEW p \in Peers, Refill(p) PROVE PresenceIInv'
  <1>1. tokens' \in [Peers -> 0 .. Capacity]
    <2>1. /\ tokens \in [Peers -> 0 .. Capacity]
          /\ tokens' = [tokens EXCEPT ![p] = @ + 1] /\ tokens[p] < Capacity
      BY DEF Refill, PresenceIInv, TypeOK
    <2>2. tokens[p] + 1 \in 0 .. Capacity
      BY <2>1, PresenceAssumption
    <2> QED
      BY <2>1, <2>2
  <1> QED
    BY <1>1 DEF Refill, viewVars, PresenceIInv, TypeOK, Subscribed, NoLateCallback, Cached, Listening

LEMMA SubscribeStep ==
  ASSUME PresenceIInv, NEW p \in Peers, Subscribe(p) PROVE PresenceIInv'
  <1> USE DEF PresenceIInv
  <1>1. TypeOK'
    <2>1. Seen(aware[p]) \in [Peers -> SUBSET States]
      BY SeenType
    <2>2. /\ sub' = [sub EXCEPT ![p] = IF life[p] = "up" THEN "live" ELSE "late"]
          /\ cache' = [cache EXCEPT ![p] = Seen(aware[p])]
          /\ shown' = [shown EXCEPT ![p] = Seen(aware[p])]
          /\ UNCHANGED <<aware, life, tokens, hidden, frame>>
      BY DEF Subscribe
    <2>3. calls' \in 0 .. MaxCalls
      BY PresenceAssumption DEF Subscribe, Call, TypeOK
    <2> QED
      BY <2>1, <2>2, <2>3 DEF TypeOK
  <1>2. Subscribed' /\ NoLateCallback'
    BY DEF Subscribe, Subscribed, NoLateCallback, TypeOK
  <1>3. Cached'
    BY DEF Subscribe, Cached, Listening, TypeOK
  <1> QED
    BY <1>1, <1>2, <1>3

(* Unsubscribe, destroy() and a page that closes: the handler goes, and its  *)
(* frame with it.                                                          *)
LEMMA StopStep ==
  ASSUME PresenceIInv, NEW p \in Peers, StopListening(p),
         UNCHANGED <<tokens, hidden, cache, shown>>,
         calls' \in 0 .. MaxCalls,
         life' \in [Peers -> {"up", "down", "closed"}],
         \A q \in Peers \ {p} : life'[q] = life[q],
         \/ UNCHANGED aware
         \/ \E states : Acceptable(p, states) /\ aware' = [aware EXCEPT ![p] = states]
  PROVE  PresenceIInv'
  <1> USE DEF PresenceIInv
  <1>1. /\ sub' = [sub EXCEPT ![p] = "none"] /\ frame' = [frame EXCEPT ![p] = FALSE]
        /\ \A q \in Peers \ {p} : aware'[q] = aware[q]
    BY DEF StopListening, TypeOK
  <1>2. aware' \in [Peers -> [Peers -> Status]]
    BY DEF TypeOK, Acceptable
  <1>3. \A q, c \in Peers : aware'[q][c].clock <= aware'[c][c].clock
    <2>1. CASE UNCHANGED aware
      BY <2>1 DEF TypeOK
    <2>2. ASSUME NEW states, Acceptable(p, states),
                 aware' = [aware EXCEPT ![p] = states]
          PROVE  \A q, c \in Peers : aware'[q][c].clock <= aware'[c][c].clock
      <3> TAKE q, c \in Peers
      <3>1. aware \in [Peers -> [Peers -> Status]] /\ states \in [Peers -> Status]
        BY <2>2 DEF TypeOK, Acceptable
      <3>2. aware[q][c].clock <= aware[c][c].clock
        BY DEF TypeOK
      <3>3. CASE q = p /\ c = p
        BY <2>2, <3>1, <3>3 DEF Status
      <3>4. CASE q = p /\ c # p
        BY <2>2, <3>1, <3>4 DEF Acceptable
      <3>5. CASE q # p /\ c = p
        BY <2>2, <3>1, <3>5 DEF Acceptable
      <3>6. CASE q # p /\ c # p
        BY <2>2, <3>1, <3>2, <3>6
      <3> QED
        BY <3>3, <3>4, <3>5, <3>6
    <2> QED
      BY <2>1, <2>2
  <1>4. TypeOK'
    BY <1>1, <1>2, <1>3 DEF TypeOK
  <1>5. Subscribed' /\ NoLateCallback'
    BY <1>1 DEF Subscribed, NoLateCallback, TypeOK
  <1>6. Cached'
    BY <1>1 DEF Cached, Listening, TypeOK
  <1> QED
    BY <1>4, <1>5, <1>6

LEMMA UnsubscribeStep ==
  ASSUME PresenceIInv, NEW p \in Peers, Unsubscribe(p) PROVE PresenceIInv'
  BY StopStep, PresenceAssumption DEF Unsubscribe, Call, PresenceIInv, TypeOK

(* destroy() as a late subscriber hears of it: nothing but the bridge's life *)
(* changes besides.                                                        *)
LEMMA LateDestroy ==
  ASSUME PresenceIInv, NEW p \in Peers, Destroy(p), sub[p] = "late"
  PROVE  PresenceIInv'
  <1> DEFINE states == SetLocalState(p, Gone)
  <1>1. Acceptable(p, states)
    BY LocalStateAcceptable
  <1>2. Notice(p, states) /\ UNCHANGED <<tokens, hidden, sub, shown>>
    BY DEF Destroy
  <1>3. calls' \in 0 .. MaxCalls
    BY PresenceAssumption DEF Destroy, Call, PresenceIInv, TypeOK
  <1>4. life \in [Peers -> {"up", "down", "closed"}] /\ life' = [life EXCEPT ![p] = "down"]
    BY DEF Destroy, PresenceIInv, TypeOK
  <1> HIDE DEF states
  <1>5. TypeOK'
    BY <1>1, <1>2, <1>3, <1>4, NoticeKeeps DEF PresenceIInv, TypeOK
  <1>6. Subscribed'
    BY <1>2, <1>4 DEF PresenceIInv, Subscribed
  <1>7. NoLateCallback'
    <2>1. \A q \in Peers : frame'[q] => frame[q] \/ Listening(q)
      BY <1>1, <1>2, NoticeKeeps
    <2>2. \A q \in Peers : sub[q] \in {"none", "live", "late"}
      BY DEF PresenceIInv, TypeOK
    <2> QED
      BY <1>2, <1>4, <2>1, <2>2 DEF PresenceIInv, Subscribed, NoLateCallback, Listening
  <1>8. Cached'
    BY <1>1, <1>2, NoticeKeeps DEF PresenceIInv, Cached, Listening
  <1> QED
    BY <1>5, <1>6, <1>7, <1>8 DEF PresenceIInv

LEMMA DestroyStep ==
  ASSUME PresenceIInv, NEW p \in Peers, Destroy(p) PROVE PresenceIInv'
  <1>1. Acceptable(p, SetLocalState(p, Gone))
    BY LocalStateAcceptable
  <1>2. calls' \in 0 .. MaxCalls
    BY PresenceAssumption DEF Destroy, Call, PresenceIInv, TypeOK
  <1>3. /\ life' \in [Peers -> {"up", "down", "closed"}]
        /\ \A q \in Peers \ {p} : life'[q] = life[q]
    BY DEF Destroy, PresenceIInv, TypeOK
  <1>4. CASE sub[p] # "late"
    <2>1. /\ StopListening(p) /\ UNCHANGED <<tokens, hidden, cache, shown>>
          /\ aware' = [aware EXCEPT ![p] = SetLocalState(p, Gone)]
      BY <1>4 DEF Destroy
    <2> QED
      BY <1>1, <1>2, <1>3, <2>1, StopStep
  <1> QED
    BY <1>4, LateDestroy

LEMMA CloseStep ==
  ASSUME PresenceIInv, NEW p \in Peers, Close(p) PROVE PresenceIInv'
  <1>1. StopListening(p) /\ UNCHANGED <<aware, tokens, hidden, cache, shown>>
    BY DEF Close, StopListening
  <1>2. calls' \in 0 .. MaxCalls
    BY PresenceAssumption DEF Close, Call, PresenceIInv, TypeOK
  <1>3. /\ life' \in [Peers -> {"up", "down", "closed"}]
        /\ \A q \in Peers \ {p} : life'[q] = life[q]
    BY DEF Close, PresenceIInv, TypeOK
  <1> QED
    BY <1>1, <1>2, <1>3, StopStep

LEMMA EmitStep ==
  ASSUME PresenceIInv, NEW p \in Peers, Emit(p) PROVE PresenceIInv'
  <1> USE DEF PresenceIInv
  <1>1. TypeOK'
    BY DEF Emit, TypeOK
  <1>2. Subscribed' /\ NoLateCallback'
    BY DEF Emit, Subscribed, NoLateCallback, TypeOK
  <1>3. Cached'
    BY DEF Emit, Cached, Listening, TypeOK
  <1> QED
    BY <1>1, <1>2, <1>3

(* A page that goes to the background or comes back. *)
LEMMA HideStep ==
  ASSUME PresenceIInv, NEW p \in Peers, Hide(p) \/ Show(p) PROVE PresenceIInv'
  <1> USE DEF PresenceIInv
  <1>1. TypeOK'
    <2>1. hidden' = [hidden EXCEPT ![p] = TRUE] \/ hidden' = [hidden EXCEPT ![p] = FALSE]
      BY DEF Hide, Show
    <2>2. hidden' \in [Peers -> BOOLEAN]
      BY Zenon, <2>1 DEF TypeOK
    <2>3. calls' = calls \/ (calls < MaxCalls /\ calls' = calls + 1)
      BY DEF Hide, Show, Call
    <2>4. calls' \in 0 .. MaxCalls
      BY <2>3, PresenceAssumption DEF TypeOK
    <2>5. UNCHANGED <<aware, life, tokens, viewVars>>
      BY DEF Hide, Show
    <2> QED
      BY <2>2, <2>4, <2>5 DEF TypeOK, viewVars
  <1>2. UNCHANGED <<aware, life, viewVars>>
    BY DEF Hide, Show
  <1>3. Subscribed' /\ NoLateCallback' /\ Cached'
    BY <1>2 DEF viewVars, Subscribed, NoLateCallback, Cached, Listening
  <1> QED
    BY <1>1, <1>3

LEMMA MountStep ==
  ASSUME PresenceIInv, NEW p \in Peers, Mount(p) PROVE PresenceIInv'
  <1> USE DEF PresenceIInv
  <1>1. TypeOK'
    BY PresenceAssumption DEF Mount, Call, viewVars, TypeOK
  <1>2. Subscribed' /\ NoLateCallback' /\ Cached'
    BY DEF Mount, viewVars, Subscribed, NoLateCallback, Cached, Listening, TypeOK
  <1> QED
    BY <1>1, <1>2

LEMMA RelayStep ==
  ASSUME PresenceIInv, NEW p \in Peers, NEW q \in Peers, Relay(p, q)
  PROVE  PresenceIInv'
  <1> DEFINE states == [c \in Peers |-> IF Later(aware[q][c], aware[p][c])
                                        THEN aware[q][c] ELSE aware[p][c]]
  <1>1. /\ aware \in [Peers -> [Peers -> Status]]
        /\ \A r, c \in Peers : aware[r][c].clock <= aware[c][c].clock
    BY DEF PresenceIInv, TypeOK
  <1>2. states \in [Peers -> Status]
    BY <1>1
  <1>3. \A c \in Peers : states[c].clock <= aware[c][c].clock
    BY <1>1
  <1>4. aware[p][p].clock <= states[p].clock
    BY <1>1 DEF Later, Status
  <1>5. \A r \in Peers : aware[r][p].clock <= states[p].clock
    BY <1>1, <1>2, <1>4 DEF Status
  <1>6. Acceptable(p, states)
    BY <1>2, <1>3, <1>5 DEF Acceptable
  <1>7. Notice(p, states) /\ UNCHANGED <<life, tokens, hidden, sub, shown, calls>>
    BY DEF Relay
  <1> HIDE DEF states
  <1> QED
    BY <1>6, <1>7, NoticePreserves DEF PresenceIInv, TypeOK

LEMMA OutdateStep ==
  ASSUME PresenceIInv, NEW p \in Peers, NEW c \in Peers, Outdate(p, c)
  PROVE  PresenceIInv'
  <1> DEFINE states == [aware[p] EXCEPT ![c].state = Gone]
  <1>1. /\ aware \in [Peers -> [Peers -> Status]]
        /\ \A r, d \in Peers : aware[r][d].clock <= aware[d][d].clock
    BY DEF PresenceIInv, TypeOK
  <1>2. states \in [Peers -> Status]
    BY SMTT(30), <1>1 DEF Status
  <1>3. \A d \in Peers : states[d].clock = aware[p][d].clock
    BY <1>1 DEF Status
  <1>4. Acceptable(p, states)
    BY <1>1, <1>2, <1>3 DEF Acceptable
  <1>5. Notice(p, states) /\ UNCHANGED <<life, tokens, hidden, sub, shown, calls>>
    BY DEF Outdate
  <1> HIDE DEF states
  <1> QED
    BY <1>4, <1>5, NoticePreserves DEF PresenceIInv, TypeOK

LEMMA PresenceNext == PresenceIInv /\ [Next]_vars => PresenceIInv'
  <1> SUFFICES ASSUME PresenceIInv, [Next]_vars PROVE PresenceIInv'
    OBVIOUS
  <1>1. ASSUME NEW p \in Peers,
               \/ Update(p) \/ Refill(p) \/ Subscribe(p) \/ Unsubscribe(p)
               \/ Emit(p) \/ Hide(p) \/ Show(p) \/ Destroy(p) \/ Mount(p) \/ Close(p)
        PROVE  PresenceIInv'
    BY <1>1, UpdateStep, RefillStep, SubscribeStep, UnsubscribeStep, EmitStep,
       HideStep, DestroyStep, MountStep, CloseStep
  <1>2. ASSUME NEW p \in Peers, NEW q \in Peers, Relay(p, q) \/ Outdate(p, q)
        PROVE  PresenceIInv'
    BY <1>2, RelayStep, OutdateStep
  <1>3. CASE UNCHANGED vars
    BY <1>3 DEF vars, viewVars, PresenceIInv, TypeOK, Subscribed, NoLateCallback, Cached, Listening
  <1> QED
    BY <1>1, <1>2, <1>3 DEF Next

-----------------------------------------------------------------------------
LEMMA PresenceSafe == Spec => []PresenceIInv
  BY PresenceInit, PresenceNext, PTL DEF Spec

(* The bridges' variables keep their types, the bucket never goes below      *)
(* empty, and no replica is ahead of the owner of a state.                 *)
THEOREM PresenceTypes == Spec => []TypeOK
  <1>1. PresenceIInv => TypeOK
    BY DEF PresenceIInv
  <1> QED
    BY <1>1, PresenceSafe, PTL

(* Once unsubscribed or destroyed, a bridge calls nobody back.              *)
THEOREM CallbacksStop == Spec => []NoLateCallback
  <1>1. PresenceIInv => NoLateCallback
    BY DEF PresenceIInv
  <1> QED
    BY <1>1, PresenceSafe, PTL

(* Between frames a subscriber was shown every valid state of its replica   *)
(* and no other, though only the clients a change names are validated.     *)
THEOREM ViewsFollow == Spec => []ViewFollows
  <1>1. PresenceIInv => ViewFollows
    BY DEF PresenceIInv, Cached, Listening, ViewFollows
  <1> QED
    BY <1>1, PresenceSafe, PTL
=============================================================================
