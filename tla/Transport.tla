------------------------------ MODULE Transport ------------------------------
(***************************************************************************)
(* The managed transport: createManagedTransport (src/src/transport.ts) as *)
(* the connectionSource of an adapter (connection-status.ts).  A           *)
(* subscription imports the provider's library, which takes time, attaches *)
(* the provider, and maps what its socket reports to a ConnectionStatus    *)
(* through wrappedEmit, which also runs the connect timeout.  The source    *)
(* can be torn down by the adapter and the transport destroyed at any      *)
(* point, the import included.                                             *)
(*                                                                         *)
(* A status is its kind; the kinds of errors are told apart as "fatal"     *)
(* (bad URL, no library), "auth", "fault" (recoverable) and "timeout".     *)
(* The attempt number and the backoff it stands for are left out.          *)
(***************************************************************************)
EXTENDS Naturals

CONSTANTS
  Subs,          \* the adapters' subscriptions in the order they are made
  Providers      \* the providers an instance may use

ASSUME TransportAssumption ==
  /\ Subs \subseteq Nat \ {0}
  /\ Providers \subseteq {"hocuspocus", "y-websocket"}

VARIABLES
  setup,         \* the options: [provider, validUrl]
  phase,         \* what became of the subscription's import and attach
  torn,          \* tornDown
  timer,         \* timeoutHandle is set
  timedOut,      \* timedOut
  status,        \* what the adapter was last told, "none" before the start
  dropped,       \* dropped of the subscription's status mapper
  sock,          \* the provider of the subscription and its socket
  listening,     \* its handlers are registered
  owner,         \* providerInstance: the subscription it is of, or 0
  detacher,      \* detachProviderEvents, likewise
  canceller,     \* cancelConnectTimeout, likewise
  disposed,      \* destroy() ran
  fired          \* history: timeouts reported since the last "synced"

statusVars == <<timer, timedOut, status, fired>>
ownerVars  == <<owner, detacher, canceller>>
vars == <<setup, phase, torn, statusVars, dropped, sock, listening,
          ownerVars, disposed>>

Waiting  == {"connecting", "reconnecting"}
Terminal == {"fatal", "auth"}
Kinds    == Waiting \cup Terminal
              \cup {"none", "synced", "offline", "fault", "timeout"}
Alive    == {"connecting", "open", "synced", "closed"}

TypeOK ==
  /\ setup \in [provider : Providers, validUrl : BOOLEAN]
  /\ phase \in [Subs -> {"none", "importing", "attached", "reaped", "failed"}]
  /\ torn \in [Subs -> BOOLEAN]
  /\ timer \in [Subs -> BOOLEAN]
  /\ timedOut \in [Subs -> BOOLEAN]
  /\ status \in [Subs -> Kinds]
  /\ dropped \in [Subs -> BOOLEAN]
  /\ sock \in [Subs -> Alive \cup {"none", "destroyed"}]
  /\ listening \in [Subs -> BOOLEAN]
  /\ owner \in Subs \cup {0}
  /\ detacher \in Subs \cup {0}
  /\ canceller \in Subs \cup {0}
  /\ disposed \in BOOLEAN
  /\ fired \in [Subs -> Nat]

Init ==
  /\ setup \in [provider : Providers, validUrl : BOOLEAN]
  /\ phase = [s \in Subs |-> "none"]
  /\ torn = [s \in Subs |-> FALSE]
  /\ timer = [s \in Subs |-> FALSE]
  /\ timedOut = [s \in Subs |-> FALSE]
  /\ status = [s \in Subs |-> "none"]
  /\ dropped = [s \in Subs |-> FALSE]
  /\ sock = [s \in Subs |-> "none"]
  /\ listening = [s \in Subs |-> FALSE]
  /\ owner = 0 /\ detacher = 0 /\ canceller = 0
  /\ disposed = FALSE
  /\ fired = [s \in Subs |-> 0]

-----------------------------------------------------------------------------
(* Faulty variant: the timer is armed again after it fired. *)
TimerRearmed(k, armed, late) ==
  /\ k # "synced" /\ k \notin Terminal
  /\ armed \/ k \in Waiting

(* Faulty variant: every loss of the connection stops the clock. *)
TimerStopped(k, armed, late) == k \in Waiting /\ (armed \/ ~late)

(* Whether the timer runs after status k: "connecting" and "reconnecting"   *)
(* arm it, unless it fired in this outage.                                 *)
TimerAfter(k, armed, late) ==
  /\ k # "synced" /\ k \notin Terminal
  /\ armed \/ (k \in Waiting /\ ~late)

(* Faulty variant: "synced" forgets to start a new outage. *)
ReportStale(s, k) ==
  /\ status' = [status EXCEPT ![s] = k]
  /\ timer' = [timer EXCEPT ![s] = TimerAfter(k, @, timedOut[s])]
  /\ fired' = [fired EXCEPT ![s] = IF k = "synced" THEN 0 ELSE @]
  /\ UNCHANGED timedOut

(* wrappedEmit. *)
Report(s, k) ==
  /\ status' = [status EXCEPT ![s] = k]
  /\ timer' = [timer EXCEPT ![s] = TimerAfter(k, @, timedOut[s])]
  /\ timedOut' = [timedOut EXCEPT ![s] = @ /\ k # "synced"]
  /\ fired' = [fired EXCEPT ![s] = IF k = "synced" THEN 0 ELSE @]

(* A handler of the provider's events, if it is still registered. *)
Heard(s, k, drop) ==
  IF listening[s]
  THEN Report(s, k) /\ dropped' = [dropped EXCEPT ![s] = drop]
  ELSE UNCHANGED <<statusVars, dropped>>

(* connectionSource(emit): "connecting", then the URL is checked and the    *)
(* import begins.  A later adapter subscribes after the earlier one's       *)
(* teardown (a remount), also when the transport is destroyed already.      *)
Start(s) ==
  /\ phase[s] = "none"
  /\ \A r \in Subs : r < s => torn[r]
  /\ phase' = [phase EXCEPT
                 ![s] = IF setup.validUrl THEN "importing" ELSE "failed"]
  /\ Report(s, IF setup.validUrl THEN "connecting" ELSE "fatal")
  /\ canceller' = s
  /\ UNCHANGED <<setup, torn, dropped, sock, listening, owner, detacher,
                 disposed>>

(* The library is not installed. *)
ImportFails(s) ==
  /\ phase[s] = "importing"
  /\ phase' = [phase EXCEPT ![s] = "failed"]
  /\ IF disposed \/ torn[s] THEN UNCHANGED statusVars ELSE Report(s, "fatal")
  /\ UNCHANGED <<setup, torn, dropped, sock, listening, ownerVars, disposed>>

(* attachHocuspocusProvider tells the state its socket is already in;      *)
(* attachYWebsocketProvider waits for the next event.                      *)
FirstReport(s, now) ==
  /\ dropped' = [dropped EXCEPT ![s] = now = "closed"]
  /\ IF setup.provider = "hocuspocus"
     THEN Report(s, IF now = "closed" THEN "offline" ELSE now)
     ELSE now = "connecting" /\ UNCHANGED statusVars

(* Faulty variant: a provider that arrives after destroy() is kept. *)
AttachKept(s) ==
  /\ phase[s] = "importing"
  /\ \E now \in {"connecting", "closed", "synced"} :
       FirstReport(s, now) /\ sock' = [sock EXCEPT ![s] = now]
  /\ phase' = [phase EXCEPT ![s] = "attached"]
  /\ listening' = [listening EXCEPT ![s] = TRUE]
  /\ owner' = s /\ detacher' = s
  /\ UNCHANGED <<setup, torn, canceller, disposed>>

(* The provider attaches and reports; only then is the subscription checked *)
(* and the provider of a dead one destroyed.                               *)
Attach(s) ==
  /\ phase[s] = "importing"
  /\ \E now \in {"connecting", "closed", "synced"} :
       /\ FirstReport(s, now)
       /\ IF disposed \/ torn[s]
          THEN /\ phase' = [phase EXCEPT ![s] = "reaped"]
               /\ sock' = [sock EXCEPT ![s] = "destroyed"]
               /\ UNCHANGED <<listening, owner, detacher>>
          ELSE /\ phase' = [phase EXCEPT ![s] = "attached"]
               /\ sock' = [sock EXCEPT ![s] = now]
               /\ listening' = [listening EXCEPT ![s] = TRUE]
               /\ owner' = s /\ detacher' = s
  /\ UNCHANGED <<setup, torn, canceller, disposed>>

-----------------------------------------------------------------------------
(* The provider's socket.  "connected" is reported as synced, before the    *)
(* documents have been exchanged.                                          *)
SockStep(s, from, to) ==
  /\ sock[s] \in from
  /\ sock' = [sock EXCEPT ![s] = to]
  /\ UNCHANGED <<setup, phase, torn, listening, ownerVars, disposed>>

Dial(s) ==
  /\ SockStep(s, {"closed"}, "connecting")
  /\ Heard(s, IF dropped[s] THEN "reconnecting" ELSE "connecting", dropped[s])

Connected(s) == /\ SockStep(s, {"connecting"}, "open")
                /\ Heard(s, "synced", FALSE)

Synced(s) == SockStep(s, {"open"}, "synced") /\ Heard(s, "synced", FALSE)

(* Faulty variant: the provider's own name for the status is passed on. *)
ClosedUnmapped(s) ==
  /\ SockStep(s, {"open", "synced"}, "closed")
  /\ Heard(s, "closed", TRUE)

(* The socket closed, after it was open or, with Hocuspocus, before. *)
Closed(s) ==
  /\ SockStep(s, {"open", "synced"}
                   \cup (IF setup.provider = "hocuspocus" THEN {"connecting"}
                                                          ELSE {}), "closed")
  /\ Heard(s, "offline", TRUE)

(* Faulty variant: a failed dial does not count as a drop. *)
ConnectionErrorUnnoted(s) ==
  /\ setup.provider = "y-websocket"
  /\ SockStep(s, {"connecting"}, "closed")
  /\ Heard(s, "fault", dropped[s])

(* connection-error of y-websocket: a dial failed. *)
ConnectionError(s) ==
  /\ setup.provider = "y-websocket"
  /\ SockStep(s, {"connecting"}, "closed")
  /\ Heard(s, "fault", TRUE)

(* authenticationFailed of Hocuspocus. *)
AuthFailed(s) ==
  /\ setup.provider = "hocuspocus"
  /\ SockStep(s, {"open"}, "open")
  /\ Heard(s, "auth", dropped[s])

(* connectTimeoutMs passed: reported past wrappedEmit. *)
Timeout(s) ==
  /\ timer[s]
  /\ timer' = [timer EXCEPT ![s] = FALSE]
  /\ timedOut' = [timedOut EXCEPT ![s] = TRUE]
  /\ status' = [status EXCEPT ![s] = "timeout"]
  /\ fired' = [fired EXCEPT ![s] = @ + 1]
  /\ UNCHANGED <<setup, phase, torn, dropped, sock, listening, ownerVars,
                 disposed>>

Detached == [s \in Subs |-> listening[s] /\ s # detacher]

(* The adapter's destroy() calls the unsubscribe it got from the source.    *)
Teardown(s) ==
  /\ phase[s] # "none" /\ ~torn[s]
  /\ torn' = [torn EXCEPT ![s] = TRUE]
  /\ timer' = [timer EXCEPT ![s] = FALSE]
  /\ listening' = Detached
  /\ canceller' = 0 /\ detacher' = 0
  /\ UNCHANGED <<setup, phase, timedOut, status, fired, dropped, sock, owner,
                 disposed>>

(* Faulty variant: the handlers of a destroyed provider stay. *)
DestroyDeaf ==
  /\ disposed' = TRUE
  /\ timer' = [s \in Subs |-> timer[s] /\ s # canceller]
  /\ sock' = [s \in Subs |-> IF s = owner THEN "destroyed" ELSE sock[s]]
  /\ owner' = 0 /\ canceller' = 0 /\ detacher' = 0
  /\ UNCHANGED <<setup, phase, torn, timedOut, status, fired, dropped,
                 listening>>

(* ManagedTransport.destroy(), as often as the host calls it. *)
Destroy ==
  /\ disposed' = TRUE
  /\ timer' = [s \in Subs |-> timer[s] /\ s # canceller]
  /\ listening' = Detached
  /\ sock' = [s \in Subs |-> IF s = owner THEN "destroyed" ELSE sock[s]]
  /\ owner' = 0 /\ canceller' = 0 /\ detacher' = 0
  /\ UNCHANGED <<setup, phase, torn, timedOut, status, fired, dropped>>

Socket(s) == \/ Dial(s) \/ Connected(s) \/ Synced(s) \/ Closed(s)
             \/ ConnectionError(s) \/ AuthFailed(s)

Next ==
  \/ Destroy
  \/ \E s \in Subs :
       \/ Start(s) \/ ImportFails(s) \/ Attach(s) \/ Socket(s) \/ Timeout(s)
       \/ Teardown(s)

Spec == Init /\ [][Next]_vars

(* A timer that is set fires. *)
FairSpec == Spec /\ \A s \in Subs : WF_vars(Timeout(s))

-----------------------------------------------------------------------------
(* Properties. *)

(* Only a provider that is still there is listened to, by the handlers that *)
(* the next teardown or destroy() removes.                                 *)
OneListener ==
  \A s \in Subs : listening[s] => sock[s] \in Alive /\ detacher = s

Started(s) == phase[s] # "none"

(* The part of SocketsReleased that the code keeps: a connection outlives   *)
(* destroy() only if an adapter subscribed after the one it is of, never    *)
(* because of a provider that was still being imported (connectionSource).  *)
LastProviderReleased ==
  disposed => \A s \in Subs :
                sock[s] \in Alive => \E r \in Subs : r > s /\ Started(r)

(* Someone still listens to the subscription. *)
InUse(s) == /\ phase[s] \in {"importing", "attached"}
            /\ ~torn[s] /\ ~disposed

(* While the adapter shows "connecting" or "reconnecting", the timeout is   *)
(* on its way or was reported in this outage, whatever came in between.    *)
WaitingIsTimed ==
  \A s \in Subs : InUse(s) /\ status[s] \in Waiting => timer[s] \/ fired[s] > 0

(* "It fires at most once per outage" (connectionSource in transport.ts). *)
OneTimeoutPerOutage == \A s \in Subs : fired[s] <= 1

(* A connection that dropped is reported as reconnecting, never as a fresh  *)
(* "connecting" (createProviderStatusMapper).                              *)
NeverFreshAfterDrop ==
  [][\A s \in Subs :
       status[s] \in {"offline", "fault"} => status'[s] # "connecting"]_vars

(* "A recoverable transport blip leaves it running so a long outage still   *)
(* escalates" (connectionSource): an adapter that waits is told of the     *)
(* timeout, or syncs, or learns that there is no point in waiting.         *)
LongOutageSurfaces ==
  \A s \in Subs :
    InUse(s) /\ status[s] \in Waiting
      ~> ~InUse(s) \/ fired[s] > 0 \/ status[s] \in Terminal \cup {"synced"}

(* The inductive strengthening: subscriptions follow one another, each      *)
(* connection is accounted for, and the timer, its flag and the count of    *)
(* timeouts go together.                                                    *)
Series ==
  \A s \in Subs :
    /\ Started(s) => \A r \in Subs : r < s => torn[r]
    /\ listening[s] => phase[s] = "attached" /\ ~torn[s]
    /\ sock[s] \in Alive => Started(s)

Clock ==
  \A s \in Subs :
    /\ fired[s] = IF timedOut[s] THEN 1 ELSE 0
    /\ timer[s] => ~timedOut[s]

(* A connection is the one destroy() will close, or was superseded. *)
Ownership ==
  /\ disposed => owner = 0
  /\ \A s \in Subs :
       sock[s] \in Alive =>
         owner = s \/ \E r \in Subs : r > s /\ Started(r)

TransportIInv ==
  OneListener /\ Series /\ Ownership /\ Clock /\ WaitingIsTimed

-----------------------------------------------------------------------------
(* Statements of the documentation that no run checks, because the code     *)
(* does not keep them: README.md, "Disagreements", says how.                *)

(* destroy() leaves no connection open, wherever the import was: "tear down *)
(* provider + (owned) awareness + doc" (ManagedTransport in transport.ts). *)
SocketsReleased == disposed => \A s \in Subs : sock[s] \notin Alive

(* "destroy() before the provider import resolves emits nothing past        *)
(* connecting" (transport.test.ts).                                        *)
SilentOnceDead ==
  [][\A s \in Subs :
       /\ torn[s] \/ disposed
       /\ phase[s] \in {"importing", "reaped"}
       /\ status[s] = "connecting"
       => status'[s] = "connecting"]_vars
=============================================================================
