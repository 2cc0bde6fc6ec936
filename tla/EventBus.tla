------------------------------- MODULE EventBus -------------------------------
(***************************************************************************)
(* The event bus (crates/forge-events/src/lib.rs) over its table           *)
(* (SqliteEventStore in crates/forge-persistence/src/sqlite.rs) and a       *)
(* broadcast channel.                                                      *)
(*                                                                         *)
(* An event is its sequence number, the index of its row.  publish appends *)
(* the row and then sends the envelope: two steps, between which other      *)
(* publishers append and send.  The channel holds the last Capacity        *)
(* envelopes; a receiver that falls further behind skips the ones that have *)
(* been overwritten.  Of what an event says matters one thing: the change   *)
(* to the workspace that a TaskCompleted announces.                        *)
(***************************************************************************)
EXTENDS Naturals, Sequences

CONSTANTS
    Publishers,     \* tasks of the process that publish
    Subscribers,    \* receivers of the channel
    Capacity,       \* envelopes the channel holds
    ReadLimit,      \* rows read_since returns at most
    MaxEvents       \* bound: events appended

ASSUME BusAssumption ==
    /\ Capacity \in Nat \ {0} /\ ReadLimit \in Nat \ {0} /\ MaxEvents \in Nat

NoWrite == 0        \* the payload of an event that announces no change

VARIABLES
    log,            \* events: the payloads, in order of their rows
    unsent,         \* the event a publisher has appended and not sent, 0 if none
    sent,           \* events in the order in which they were sent
    next            \* position in sent a subscriber receives next, 0 before it subscribes

busVars == <<log, unsent, sent, next>>

\* early: the subscribers there before anything is published.
BusInit(early) ==
    /\ log = <<>> /\ sent = <<>>
    /\ unsent = [p \in Publishers |-> 0]
    /\ next = [s \in Subscribers |-> IF s \in early THEN 1 ELSE 0]

\* publish, up to the row.
AppendRow(p, payload) ==
    /\ unsent[p] = 0 /\ Len(log) < MaxEvents
    /\ log' = Append(log, payload)
    /\ unsent' = [unsent EXCEPT ![p] = Len(log) + 1]
    /\ UNCHANGED <<sent, next>>

\* The envelope goes out.
Send(p) ==
    /\ unsent[p] # 0
    /\ sent' = Append(sent, unsent[p])
    /\ unsent' = [unsent EXCEPT ![p] = 0]
    /\ UNCHANGED <<log, next>>

\* The caller is dropped while it waits for the row: it is written, and never sent.
Abandon(p) ==
    /\ unsent[p] # 0
    /\ unsent' = [unsent EXCEPT ![p] = 0]
    /\ UNCHANGED <<log, sent, next>>

Subscribe(s) ==
    /\ next[s] = 0
    /\ next' = [next EXCEPT ![s] = Len(sent) + 1]
    /\ UNCHANGED <<log, unsent, sent>>

Subscribed(s) == next[s] # 0
CaughtUp(s) == next[s] = Len(sent) + 1

\* The envelope s receives next, if the channel still holds it.
Holds(s) == Subscribed(s) /\ next[s] <= Len(sent) /\ Len(sent) - next[s] < Capacity
Incoming(s) == sent[next[s]]

Received(s) ==
    /\ next' = [next EXCEPT ![s] = @ + 1]
    /\ UNCHANGED <<log, unsent, sent>>

\* RecvError::Lagged: s goes on with the oldest envelope the channel holds.
Lags(s) == Subscribed(s) /\ Len(sent) - next[s] >= Capacity
Overwritten(s) == {sent[i] : i \in next[s] .. Len(sent) - Capacity}

CatchUp(s) ==
    /\ next' = [next EXCEPT ![s] = Len(sent) - Capacity + 1]
    /\ UNCHANGED <<log, unsent, sent>>

\* read_since(None): the oldest rows, as many as the limit allows; the number of
\* the last one.
ReadAll == IF Len(log) < ReadLimit THEN Len(log) ELSE ReadLimit

Quiet == \A p \in Publishers : unsent[p] = 0

-----------------------------------------------------------------------------

BusTypeOK ==
    /\ log \in Seq(Nat) /\ Len(log) <= MaxEvents
    /\ unsent \in [Publishers -> 0 .. Len(log)]
    /\ sent \in Seq(1 .. Len(log))
    /\ next \in [Subscribers -> 0 .. Len(sent) + 1]

\* "Persistence is the source of truth": what has been sent has a row, is sent
\* once, and by the publisher that wrote the row.
SentOnce ==
    /\ \A i, j \in DOMAIN sent : sent[i] = sent[j] => i = j
    /\ \A p \in Publishers : unsent[p] # 0 => \A i \in DOMAIN sent : sent[i] # unsent[p]
    /\ \A p, q \in Publishers : unsent[p] = unsent[q] /\ unsent[p] # 0 => p = q

=============================================================================
