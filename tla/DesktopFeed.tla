----------------------------- MODULE DesktopFeed -----------------------------
(***************************************************************************)
(* The desktop's event stream: the bridge from the bus to the webview       *)
(* (spawn_event_bridge and replay_events in apps/forge-desktop/src-tauri/  *)
(* src/lib.rs), the start of the frontend (frontend/src/App.tsx) and the    *)
(* store it keeps events in (frontend/src/stores/events.ts).               *)
(*                                                                         *)
(* The frontend attaches its listener and asks for the backlog, once when  *)
(* it hears that the runtime is ready, once when its own probe succeeds.   *)
(* The answer to a request and the events the bridge emits reach it on     *)
(* channels of their own.                                                  *)
(***************************************************************************)
EXTENDS EventBus, FiniteSets

CONSTANTS
    Requests,       \* requests for the backlog
    MaxShown        \* events the store keeps

Bridge == "bridge"

None == "none"

ASSUME DesktopAssumption == Bridge \in Subscribers /\ MaxShown \in Nat \ {0} /\ None \notin Requests

VARIABLES
    listening,      \* the listener for events is attached
    wire,           \* events emitted to the webview, not handled yet
    request,        \* a request: "none" | "asked" | "read" | "done"
    upto,           \* the last event of its backlog, 0 before it is read
    gapless,        \* it was asked when the bridge and the listener were in place
    shown,          \* the store's events, newest first
    latest,         \* the request the store was last filled from, None if none
    erased,         \* history: events the store held when it was filled from a
                    \* backlog without them
    dropped         \* history: events the bridge or the publisher lost

desktopVars == <<listening, wire, request, upto, gapless, shown, latest, erased, dropped>>

DesktopInit ==
    /\ listening = FALSE /\ wire = <<>>
    /\ request = [r \in Requests |-> "none"] /\ upto = [r \in Requests |-> 0]
    /\ gapless = [r \in Requests |-> FALSE]
    /\ shown = <<>> /\ latest = None /\ erased = {} /\ dropped = {}

Elements(s) == {s[i] : i \in DOMAIN s}
Newest(s) == SubSeq(s, 1, IF Len(s) < MaxShown THEN Len(s) ELSE MaxShown)

\* The bridge's task runs for the first time.
BridgeStart ==
    /\ Subscribe(Bridge)
    /\ UNCHANGED desktopVars

\* emit: nobody hears it before the listener is attached.
BridgeReceive ==
    /\ Holds(Bridge) /\ Received(Bridge)
    /\ wire' = IF listening THEN Append(wire, Incoming(Bridge)) ELSE wire
    /\ UNCHANGED <<listening, request, upto, gapless, shown, latest, erased, dropped>>

BridgeLag ==
    /\ Lags(Bridge) /\ CatchUp(Bridge)
    /\ dropped' = dropped \cup Overwritten(Bridge)
    /\ UNCHANGED <<listening, wire, request, upto, gapless, shown, latest, erased>>

Listen ==
    /\ ~ listening /\ listening' = TRUE
    /\ UNCHANGED <<busVars, wire, request, upto, gapless, shown, latest, erased, dropped>>

\* markReady asks for the backlog; the listener for readiness is attached before
\* the one for events.
Ask(r) ==
    /\ request[r] = "none"
    /\ request' = [request EXCEPT ![r] = "asked"]
    /\ gapless' = [gapless EXCEPT ![r] = listening /\ Subscribed(Bridge)]
    /\ UNCHANGED <<busVars, listening, wire, upto, shown, latest, erased, dropped>>

\* replay_events
ReadBacklog(r) ==
    /\ request[r] = "asked"
    /\ request' = [request EXCEPT ![r] = "read"]
    /\ upto' = [upto EXCEPT ![r] = ReadAll]
    /\ UNCHANGED <<busVars, listening, wire, gapless, shown, latest, erased, dropped>>

\* Mutant: the backlog on top of what the store held.
HydrateOnTop(r) ==
    /\ request[r] = "read"
    /\ request' = [request EXCEPT ![r] = "done"]
    /\ shown' = Newest([i \in 1 .. upto[r] |-> upto[r] + 1 - i] \o shown)
    /\ latest' = r
    /\ UNCHANGED <<busVars, listening, wire, upto, gapless, erased, dropped>>

\* hydrate: the backlog, newest first, in place of what the store held.
Hydrate(r) ==
    /\ request[r] = "read"
    /\ request' = [request EXCEPT ![r] = "done"]
    /\ shown' = Newest([i \in 1 .. upto[r] |-> upto[r] + 1 - i])
    /\ latest' = r
    /\ erased' = erased \cup {e \in Elements(shown) : e > upto[r]}
    /\ UNCHANGED <<busVars, listening, wire, upto, gapless, dropped>>

\* Mutant: push that passes over events older than the newest one shown.
PushIfNewer ==
    /\ wire # <<>>
    /\ shown' = IF \E e \in Elements(shown) : e >= Head(wire)
                THEN shown ELSE Newest(<<Head(wire)>> \o shown)
    /\ wire' = Tail(wire)
    /\ UNCHANGED <<busVars, listening, request, upto, gapless, latest, erased, dropped>>

\* push
Push ==
    /\ wire # <<>>
    /\ shown' = Newest(<<Head(wire)>> \o shown)
    /\ wire' = Tail(wire)
    /\ UNCHANGED <<busVars, listening, request, upto, gapless, latest, erased, dropped>>

-----------------------------------------------------------------------------

DesktopTypeOK ==
    /\ listening \in BOOLEAN /\ wire \in Seq(1 .. Len(log))
    /\ request \in [Requests -> {"none", "asked", "read", "done"}]
    /\ upto \in [Requests -> 0 .. Len(log)] /\ gapless \in [Requests -> BOOLEAN]
    /\ shown \in Seq(1 .. Len(log)) /\ Len(shown) <= MaxShown
    /\ latest \in Requests \cup {None}
    /\ erased \subseteq 1 .. Len(log) /\ dropped \subseteq 1 .. Len(log)

\* Everything on its way to the store has arrived.
Settled ==
    /\ Quiet /\ CaughtUp(Bridge) /\ wire = <<>>
    /\ \A r \in Requests : request[r] \in {"none", "done"}

\* Replay and live stream leave no gap: once everything has arrived, a store that
\* was filled by a request made with bridge and listener in place shows every
\* event, except those the bridge skipped, a publisher never sent, or a backlog
\* read earlier pushed out; as long as all fit into a backlog, and twice into the
\* store, where some are shown twice.
StoreIsComplete ==
    Settled /\ latest # None /\ gapless[latest] /\ Len(log) <= ReadLimit /\ 2 * Len(log) <= MaxShown =>
        \A e \in 1 .. Len(log) : e \in Elements(shown) \cup erased \cup dropped

\* An event is shown twice only if a backlog held it that was read before the
\* event came in live; never three times.
TwiceAtMost ==
    \A e \in Elements(shown) :
        /\ Cardinality({i \in DOMAIN shown : shown[i] = e}) <= 2
        /\ Cardinality({i \in DOMAIN shown : shown[i] = e}) = 2 =>
              latest # None /\ e <= upto[latest]

-----------------------------------------------------------------------------
(* What a comment says, and the code does not do *)

\* "Wire up subscriptions first so no live events are dropped": what the store
\* has been handed live it does not lose.
NoLiveEventDropped == erased = {}

=============================================================================
