------------------------------- MODULE Presence -------------------------------
(***************************************************************************)
(* Who is where: the awareness bridge (src/src/utils/awareness-bridge.ts)   *)
(* over the awareness states the replicas relay.  A user's updates pass a   *)
(* token bucket; what comes from the others is validated into a cache, one  *)
(* client at a time, which is handed to the subscriber once a frame.       *)
(*                                                                         *)
(* The awareness library is not part of this repository: per client a      *)
(* state and a clock that its owner advances; the higher clock wins, and   *)
(* at the same clock a removal does.                                       *)
(***************************************************************************)
EXTENDS Naturals, FiniteSets

CONSTANTS
  Peers,         \* the users, one awareness each
  States,        \* the presence states that are valid
  Malformed,     \* stands for those that are not
  Gone,          \* no state
  Capacity,      \* bucketCapacity, in updates
  Tidy,          \* whether hosts stop updating once the bridge is destroyed
  MaxCalls       \* bound on the calls of an instance

ASSUME PresenceAssumption ==
  /\ Malformed \notin States
  /\ Gone \notin States \cup {Malformed}
  /\ Capacity \in Nat \ {0}
  /\ Tidy \in BOOLEAN
  /\ MaxCalls \in Nat

VARIABLES
  aware,         \* getStates() and its clocks, by replica and client
  life,          \* a bridge is "up" or "down" (destroyed); a page is "closed"
  tokens,        \* what is left in each bucket
  hidden,        \* whether the page is in the background: no frame comes
  sub,           \* the subscriber of onPeerChange: none, one of the "live"
                 \* bridge, or a "late" one, of a bridge already destroyed
  cache,         \* its validated states, by client, sets of at most one
  frame,         \* whether a frame is scheduled to call back
  shown,         \* what the last callback was given, as cache
  calls          \* calls made so far

viewVars == <<sub, cache, frame, shown>>
vars == <<aware, life, tokens, hidden, viewVars, calls>>

Nobody == [c \in Peers |-> {}]

(* validatePresenceState. *)
Valid(state) == {state} \cap States

Seen(states) == [c \in Peers |-> Valid(states[c].state)]

Status == [clock : Nat, state : States \cup {Malformed, Gone}]

TypeOK ==
  /\ aware \in [Peers -> [Peers -> Status]]
  /\ \A p, c \in Peers : aware[p][c].clock <= aware[c][c].clock
  /\ life \in [Peers -> {"up", "down", "closed"}]
  /\ tokens \in [Peers -> 0 .. Capacity]
  /\ hidden \in [Peers -> BOOLEAN]
  /\ sub \in [Peers -> {"none", "live", "late"}]
  /\ cache \in [Peers -> [Peers -> SUBSET States]]
  /\ frame \in [Peers -> BOOLEAN]
  /\ shown \in [Peers -> [Peers -> SUBSET States]]
  /\ calls \in 0 .. MaxCalls

Init ==
  /\ aware = [p \in Peers |-> [c \in Peers |-> [clock |-> 0, state |-> Gone]]]
  /\ life = [p \in Peers |-> "up"]
  /\ tokens = [p \in Peers |-> Capacity]
  /\ hidden = [p \in Peers |-> FALSE]
  /\ sub = [p \in Peers |-> "none"]
  /\ cache = [p \in Peers |-> Nobody]
  /\ frame = [p \in Peers |-> FALSE]
  /\ shown = [p \in Peers |-> Nobody]
  /\ calls = 0

Listening(p) == sub[p] # "none"

Call == calls < MaxCalls /\ calls' = calls + 1

-----------------------------------------------------------------------------
(* Faulty variant: a state that is no longer valid stays in the cache. *)
RefreshedLenient(entry, state) ==
  IF state = Gone \/ Valid(state) # {} THEN Valid(state) ELSE entry

(* refreshClient. *)
Refreshed(entry, state) == Valid(state)

(* The change event: the clients it names are validated again, and a frame  *)
(* is scheduled unless one is.                                             *)
Notice(p, states) ==
  LET changed == {c \in Peers : states[c].state # aware[p][c].state}
  IN  /\ aware' = [aware EXCEPT ![p] = states]
      /\ IF Listening(p) /\ changed # {}
         THEN /\ cache' = [cache EXCEPT ![p] =
                   [c \in Peers |-> IF c \in changed
                                    THEN Refreshed(@[c], states[c].state)
                                    ELSE @[c]]]
              /\ frame' = [frame EXCEPT ![p] = TRUE]
         ELSE UNCHANGED <<cache, frame>>

SetLocalState(p, state) ==
  [aware[p] EXCEPT ![p] = [clock |-> @.clock + 1, state |-> state]]

(* A destroyed bridge still sends what it is given. *)
Updating == IF Tidy THEN {"up"} ELSE {"up", "down"}

(* Faulty variant: an update goes out whatever is left in the bucket. *)
UpdateUnlimited(p) ==
  /\ life[p] \in Updating
  /\ Call
  /\ tokens' = [tokens EXCEPT ![p] = @ - 1]
  /\ \E state \in States \cup {Malformed} : Notice(p, SetLocalState(p, state))
  /\ UNCHANGED <<life, hidden, sub, shown>>

(* presence.update: without a token the update is dropped. *)
Update(p) ==
  /\ life[p] \in Updating
  /\ Call
  /\ IF tokens[p] > 0
     THEN /\ tokens' = [tokens EXCEPT ![p] = @ - 1]
          /\ \E state \in States \cup {Malformed} : Notice(p, SetLocalState(p, state))
     ELSE UNCHANGED <<aware, tokens, cache, frame>>
  /\ UNCHANGED <<life, hidden, sub, shown>>

(* Time passes. *)
Refill(p) ==
  /\ tokens[p] < Capacity
  /\ tokens' = [tokens EXCEPT ![p] = @ + 1]
  /\ UNCHANGED <<aware, life, hidden, viewVars, calls>>

(* onPeerChange: seedAll() and the first callback.  A destroyed bridge does  *)
(* not refuse a subscriber.                                                *)
Subscribe(p) ==
  /\ life[p] # "closed" /\ ~Listening(p) /\ Call
  /\ sub' = [sub EXCEPT ![p] = IF life[p] = "up" THEN "live" ELSE "late"]
  /\ cache' = [cache EXCEPT ![p] = Seen(aware[p])]
  /\ shown' = [shown EXCEPT ![p] = Seen(aware[p])]
  /\ UNCHANGED <<aware, life, tokens, hidden, frame>>

(* Faulty variant: the frame that is scheduled is not cancelled. *)
StopListeningLate(p) == sub' = [sub EXCEPT ![p] = "none"] /\ UNCHANGED frame

(* The handler is taken off and its frame cancelled. *)
StopListening(p) ==
  /\ sub' = [sub EXCEPT ![p] = "none"]
  /\ frame' = [frame EXCEPT ![p] = FALSE]

Unsubscribe(p) ==
  /\ Listening(p) /\ Call
  /\ StopListening(p)
  /\ UNCHANGED <<aware, life, tokens, hidden, cache, shown>>

(* The page goes to the background, where frames are parked, or comes back. *)
Hide(p) ==
  /\ life[p] # "closed" /\ ~hidden[p] /\ Call
  /\ hidden' = [hidden EXCEPT ![p] = TRUE]
  /\ UNCHANGED <<aware, life, tokens, viewVars>>

Show(p) ==
  /\ life[p] # "closed" /\ hidden[p]
  /\ hidden' = [hidden EXCEPT ![p] = FALSE]
  /\ UNCHANGED <<aware, life, tokens, viewVars, calls>>

(* emit(), from the frame: requestAnimationFrame alone, with no timer beside *)
(* it, so not while the page is hidden.                                    *)
Emit(p) ==
  /\ frame[p] /\ ~hidden[p]
  /\ frame' = [frame EXCEPT ![p] = FALSE]
  /\ shown' = [shown EXCEPT ![p] = cache[p]]
  /\ UNCHANGED <<aware, life, tokens, hidden, sub, cache, calls>>

(* Faulty variant: the user's own state stays behind. *)
DestroySilent(p) ==
  /\ life[p] = "up" /\ Call
  /\ life' = [life EXCEPT ![p] = "down"]
  /\ IF sub[p] = "late" THEN UNCHANGED <<sub, frame>> ELSE StopListening(p)
  /\ UNCHANGED <<aware, tokens, hidden, cache, shown>>

(* destroy(): nothing of the bridge listens any more when the local state   *)
(* is retracted.  A late subscriber, of the bridge before, stays and hears  *)
(* of it.                                                                  *)
Destroy(p) ==
  /\ life[p] = "up" /\ Call
  /\ life' = [life EXCEPT ![p] = "down"]
  /\ IF sub[p] = "late"
     THEN Notice(p, SetLocalState(p, Gone)) /\ UNCHANGED sub
     ELSE /\ StopListening(p)
          /\ aware' = [aware EXCEPT ![p] = SetLocalState(p, Gone)]
          /\ UNCHANGED cache
  /\ UNCHANGED <<tokens, hidden, shown>>

(* A remount against the same awareness: createAwarenessBridge. *)
Mount(p) ==
  /\ life[p] = "down" /\ Call
  /\ life' = [life EXCEPT ![p] = "up"]
  /\ tokens' = [tokens EXCEPT ![p] = Capacity]
  /\ UNCHANGED <<aware, hidden, viewVars>>

(* The page goes without a word. *)
Close(p) ==
  /\ life[p] # "closed" /\ Call
  /\ life' = [life EXCEPT ![p] = "closed"]
  /\ StopListening(p)
  /\ UNCHANGED <<aware, tokens, hidden, cache, shown>>

-----------------------------------------------------------------------------
(* The awareness library and the transport. *)

Later(a, b) ==
  \/ a.clock > b.clock
  \/ a.clock = b.clock /\ a.state = Gone

(* p receives the states q holds. *)
Relay(p, q) ==
  LET states == [c \in Peers |-> IF Later(aware[q][c], aware[p][c])
                                 THEN aware[q][c] ELSE aware[p][c]]
  IN  /\ life[p] # "closed" /\ life[q] # "closed"
      /\ states # aware[p]
      /\ Notice(p, states)
      /\ UNCHANGED <<life, tokens, hidden, sub, shown, calls>>

(* A client nobody has heard of for a while is taken off the list. *)
Outdate(p, c) ==
  /\ life[p] # "closed" /\ life[c] = "closed"
  /\ aware[p][c].state # Gone
  /\ Notice(p, [aware[p] EXCEPT ![c].state = Gone])
  /\ UNCHANGED <<life, tokens, hidden, sub, shown, calls>>

Next ==
  \E p \in Peers :
    \/ Update(p) \/ Refill(p) \/ Subscribe(p) \/ Unsubscribe(p) \/ Emit(p)
    \/ Hide(p) \/ Show(p) \/ Destroy(p) \/ Mount(p) \/ Close(p)
    \/ \E q \in Peers : Relay(p, q) \/ Outdate(p, q)

Spec == Init /\ [][Next]_vars

(* Frames come to a page that stays visible, the transport keeps relaying,  *)
(* clients time out.                                                       *)
FairSpec ==
  /\ Spec
  /\ \A p \in Peers :
       /\ WF_vars(Emit(p))
       /\ \A q \in Peers : WF_vars(Relay(p, q)) /\ WF_vars(Outdate(p, q))

-----------------------------------------------------------------------------
(* Properties. *)

(* Re-validating only the clients a change names is as good as validating   *)
(* all: between frames a subscriber was shown the valid states there are.   *)
ViewFollows ==
  \A p \in Peers : Listening(p) /\ ~frame[p] => shown[p] = Seen(aware[p])

(* No subscriber hears anything after it unsubscribed or its bridge was     *)
(* destroyed ("drop any pending coalesced inbound-presence frames"), but    *)
(* for one that subscribed after that.                                     *)
NoLateCallback ==
  \A p \in Peers : frame[p] =>
    sub[p] = "late" \/ (sub[p] = "live" /\ life[p] = "up")

(* In the end every subscriber whose page stays visible is shown the last  *)
(* state each user got out, and nobody who left: "a frozen ghost cursor" is *)
(* what destroy() avoids.                                                  *)
PresenceSettles ==
  \A p \in Peers :
    <>[](~hidden[p]) =>
      <>[](\A c \in Peers : Listening(p) =>
             shown[p][c] = IF life[c] = "up" THEN Valid(aware[c][c].state) ELSE {})
=============================================================================
