------------------------------ MODULE EventStream ------------------------------
(***************************************************************************)
(* GET /events (events_sse in crates/forge-server) and its reader, the     *)
(* command `forge events' (apps/forge-cli/src/cmd/events.rs): the bus, one *)
(* receiver per connection, a lower bound on the events' numbers and a     *)
(* mission to filter by.  The bus's Subscribers are the readers.           *)
(*                                                                         *)
(* The payload of an event says whose it is: a mission's, or AnyMission    *)
(* for those of goals, tasks and skills, which pass every filter.          *)
(***************************************************************************)
EXTENDS EventBus

CONSTANT
    Missions        \* positive numbers

AnyMission == 0

VARIABLES
    since,          \* the bound a watcher connected with
    filter,         \* the mission it asked for, AnyMission if it did not
    shown,          \* events it has been sent, over all its connections
    skipped,        \* history: events its receiver fell too far behind for
    once            \* it leaves after the first frame

streamVars == <<since, filter, shown, skipped, once>>
vars == <<busVars, streamVars>>

Init ==
    /\ BusInit({})
    /\ since = [w \in Subscribers |-> 0] /\ filter = [w \in Subscribers |-> AnyMission]
    /\ shown = [w \in Subscribers |-> {}] /\ skipped = [w \in Subscribers |-> {}]
    /\ once = [w \in Subscribers |-> FALSE]

Publish(p) == (\E m \in Missions \cup {AnyMission} : AppendRow(p, m)) /\ UNCHANGED streamVars
Deliver(p) == (Send(p) \/ Abandon(p)) /\ UNCHANGED streamVars

\* The connection: nothing is read from the log.
Connect(w) ==
    /\ Subscribe(w)
    /\ \E n \in 0 .. MaxEvents, m \in Missions \cup {AnyMission}, o \in BOOLEAN :
        /\ since' = [since EXCEPT ![w] = n]
        /\ filter' = [filter EXCEPT ![w] = m]
        /\ once' = [once EXCEPT ![w] = o]
    /\ UNCHANGED <<shown, skipped>>

\* event_matches_mission
Matches(w, e) == AnyMission \in {filter[w], log[e]} \/ log[e] = filter[w]
Passes(w, e) == e > since[w] /\ Matches(w, e)

HangUp(w) == next' = [next EXCEPT ![w] = 0] /\ UNCHANGED <<log, unsent, sent>>

\* The next envelope becomes a frame or is left out; --once ends with a frame.
Frame(w) ==
    /\ Holds(w)
    /\ shown' = IF Passes(w, Incoming(w)) THEN [shown EXCEPT ![w] = @ \cup {Incoming(w)}] ELSE shown
    /\ IF once[w] /\ Passes(w, Incoming(w)) THEN HangUp(w) ELSE Received(w)
    /\ UNCHANGED <<since, filter, skipped, once>>

\* Lagged: no frame says so.
Skip(w) ==
    /\ Lags(w) /\ CatchUp(w)
    /\ skipped' = [skipped EXCEPT ![w] = @ \cup Overwritten(w)]
    /\ UNCHANGED <<since, filter, shown, once>>

Leave(w) == Subscribed(w) /\ HangUp(w) /\ UNCHANGED streamVars

Next ==
    \/ \E p \in Publishers : Publish(p) \/ Deliver(p)
    \/ \E w \in Subscribers : Connect(w) \/ Frame(w) \/ Skip(w) \/ Leave(w)

Spec == Init /\ [][Next]_vars

-----------------------------------------------------------------------------
(* What the documentation says, and the code does not do *)

\* "frames beginning with the desktop's boot events (seq > 0)", "`since` skips
\* replay": a watcher that has read all there is has been sent every event of its
\* mission above its bound, those before its connection included.
StreamsReplay ==
    \A w \in Subscribers :
        Quiet /\ Subscribed(w) /\ CaughtUp(w) =>
            \A i \in DOMAIN sent : Passes(w, sent[i]) => sent[i] \in shown[w] \cup skipped[w]

=============================================================================
