------------------------------ MODULE McpClient ------------------------------
(***************************************************************************)
(* crates/forge-mcp/src/client.rs and transport.rs: requests to MCP        *)
(* servers, each a child process behind its stdin and stdout.              *)
(*                                                                         *)
(* call_raw allocates an id, enters a one-shot sender under it in the map  *)
(* of pending requests, writes its frame and waits for the sender, not     *)
(* longer than its timeout.  One PUMP per server takes frames off the      *)
(* channel the reader fills and completes the requests they answer.  The   *)
(* two meet in the pending map only, entry by entry.                       *)
(*                                                                         *)
(* The server is not in this repository: it reads requests, answers those  *)
(* it has read in any order and any number of times, says things nobody    *)
(* asked for, closes its stdout, or exits.                                 *)
(***************************************************************************)
EXTENDS Naturals, Sequences, FiniteSets, SequencesExt

CONSTANTS
    Servers,
    Callers,
    PipeCap,        \* frames a server's stdin holds unread
    ChannelCap,     \* the channel between reader and pump
    OwnIds,         \* ids that do not answer: of a server's own requests, or 0 for none
    MaxAsks,        \* bound: requests of each caller
    MaxSaid         \* bound: frames of each server

ASSUME McpAssumption ==
    /\ "none" \notin Servers
    /\ PipeCap \in Nat \ {0} /\ ChannelCap \in Nat \ {0} /\ OwnIds \subseteq Nat
    /\ MaxAsks \in [Callers -> Nat] /\ MaxSaid \in [Servers -> Nat]

VARIABLES
    proc,           \* a server's process: "none", "up", "mute" (its stdout is closed), "dead"
    stdin,          \* the frames it has not read
    heard,          \* the requests it has read
    spoken,         \* how many frames it has sent
    frames,         \* the channel to its pump
    pump,           \* the pump: "off", "on", "closing", "ended"
    hand,           \* the completions the pump has taken out of the map
    pending,        \* the map: ids and whose they are
    counter,        \* next_id
    phase,          \* a caller: "idle", "sending", "waiting", "returned"
    call,           \* its request
    slot,           \* what its one-shot channel holds
    result,         \* what its last call returned
    asks,           \* how many calls it has made
    answered        \* <<caller, number>>: the requests some frame has answered

serverVars == <<proc, stdin, heard, spoken, answered>>
pumpVars   == <<frames, pump, hand>>
mapVars    == <<pending, counter>>
callerVars == <<phase, call, slot, result, asks>>
mcpVars    == <<serverVars, pumpVars, mapVars, callerVars>>

Nothing == [kind |-> "nothing"]
Closed == [kind |-> "closed"]
Err(reason) == [kind |-> "error", reason |-> reason]

\* A request that no caller made.
NoRequest == <<"nobody", 0>>
NoCall == [server |-> "none", id |-> 0, request |-> NoRequest]

McpInit ==
    /\ proc = [s \in Servers |-> "none"]
    /\ stdin = [s \in Servers |-> << >>]
    /\ heard = [s \in Servers |-> {}]
    /\ spoken = [s \in Servers |-> 0]
    /\ frames = [s \in Servers |-> << >>]
    /\ pump = [s \in Servers |-> "off"]
    /\ hand = [s \in Servers |-> {}]
    /\ pending = [s \in Servers |-> {}]
    /\ counter = [s \in Servers |-> 0]
    /\ phase = [c \in Callers |-> "idle"]
    /\ call = [c \in Callers |-> NoCall]
    /\ slot = [c \in Callers |-> Nothing]
    /\ result = [c \in Callers |-> Nothing]
    /\ asks = [c \in Callers |-> 0]
    /\ answered = {}

-----------------------------------------------------------------------------
(* StdioTransport::spawn, and McpClient::connect's pump *)

Spawn(s) ==
    /\ proc[s] = "none"
    /\ proc' = [proc EXCEPT ![s] = "up"]
    /\ pump' = [pump EXCEPT ![s] = "on"]

-----------------------------------------------------------------------------
(* call_raw *)

\* Mutant: an id is free again when its request is over.
LowestId(s) == CHOOSE i \in 1 .. counter[s] + 1 : \A e \in pending[s] : e.id # i

NewId(s) == counter[s] + 1

\* The id and the entry in the map.
Call(c, s) ==
    /\ phase[c] \in {"idle", "returned"} /\ asks[c] < MaxAsks[c]
    /\ LET id == NewId(s) IN
       /\ counter' = [counter EXCEPT ![s] = @ + 1]
       /\ pending' = [pending EXCEPT ![s] = @ \cup {[id |-> id, caller |-> c]}]
       /\ call' = [call EXCEPT ![c] = [server |-> s, id |-> id, request |-> <<c, asks[c] + 1>>]]
    /\ asks' = [asks EXCEPT ![c] = @ + 1]
    /\ slot' = [slot EXCEPT ![c] = Nothing]
    /\ phase' = [phase EXCEPT ![c] = "sending"]
    /\ UNCHANGED result

Without(s, id) == [pending EXCEPT ![s] = {e \in @ : e.id # id}]

Return(c, value) ==
    /\ phase' = [phase EXCEPT ![c] = "returned"]
    /\ result' = [result EXCEPT ![c] = value]

\* The frame is written, under the writer's lock and outside the timeout: a
\* server that does not read keeps everyone waiting.
Write(c) ==
    LET s == call[c].server IN
    /\ phase[c] = "sending" /\ proc[s] # "dead" /\ Len(stdin[s]) < PipeCap
    /\ stdin' = [stdin EXCEPT ![s] = Append(@, [id |-> call[c].id, request |-> call[c].request])]
    /\ phase' = [phase EXCEPT ![c] = "waiting"]
    /\ UNCHANGED <<proc, heard, spoken, answered, pumpVars, mapVars, call, slot, result, asks>>

WriteFails(c) ==
    LET s == call[c].server IN
    /\ phase[c] = "sending" /\ proc[s] = "dead"
    /\ pending' = Without(s, call[c].id)
    /\ Return(c, Err("io"))
    /\ UNCHANGED <<serverVars, pumpVars, counter, call, slot, asks>>

Receive(c) ==
    /\ phase[c] = "waiting" /\ slot[c] # Nothing
    /\ Return(c, slot[c])
    /\ UNCHANGED <<serverVars, pumpVars, mapVars, call, slot, asks>>

\* Mutant: the entry stays.
TimeoutKeeps(c) ==
    /\ phase[c] = "waiting" /\ slot[c] = Nothing
    /\ Return(c, Err("timeout"))
    /\ UNCHANGED <<serverVars, pumpVars, mapVars, call, slot, asks>>

\* Mutant: the end of the pump is relied upon to fail what is pending then.
TimeoutWhileUp(c) ==
    /\ phase[c] = "waiting" /\ slot[c] = Nothing /\ pump[call[c].server] = "on"
    /\ pending' = Without(call[c].server, call[c].id)
    /\ Return(c, Err("timeout"))
    /\ UNCHANGED <<serverVars, pumpVars, counter, call, slot, asks>>

\* Mutant: only a server that has said something is given up.
TimeoutOfTalkers(c) ==
    /\ phase[c] = "waiting" /\ slot[c] = Nothing /\ spoken[call[c].server] > 0
    /\ pending' = Without(call[c].server, call[c].id)
    /\ Return(c, Err("timeout"))
    /\ UNCHANGED <<serverVars, pumpVars, counter, call, slot, asks>>

\* The timeout; the pump may have the completion in its hand.
Timeout(c) ==
    /\ phase[c] = "waiting" /\ slot[c] = Nothing
    /\ pending' = Without(call[c].server, call[c].id)
    /\ Return(c, Err("timeout"))
    /\ UNCHANGED <<serverVars, pumpVars, counter, call, slot, asks>>

-----------------------------------------------------------------------------
(* pump *)

\* A frame whose id is pending takes its entry out, also when the frame is a
\* request of the server's.  Other frames (not JSON, a notification, no id, an
\* unknown id) are dropped.
Pump(s) ==
    /\ pump[s] = "on" /\ hand[s] = {} /\ frames[s] # << >>
    /\ LET f == Head(frames[s])
           hits == {e \in pending[s] : e.id = f.id} IN
       /\ f.kind = "line"
       /\ pending' = [pending EXCEPT ![s] = @ \ hits]
       /\ hand' = [hand EXCEPT ![s] = {[id |-> e.id, caller |-> e.caller, value |-> f.value] : e \in hits}]
    /\ frames' = [frames EXCEPT ![s] = Tail(@)]
    /\ UNCHANGED <<serverVars, pump, counter, callerVars>>

\* A one-shot send: into nothing when the caller has timed out.
Complete(s, done) ==
    LET c == done.caller
        live == call[c].server = s /\ call[c].id = done.id /\ phase[c] \in {"sending", "waiting"} IN
    slot' = IF live THEN [slot EXCEPT ![c] = done.value] ELSE slot

Give(s) ==
    /\ pump[s] = "on"
    /\ \E done \in hand[s] : Complete(s, done) /\ hand' = [hand EXCEPT ![s] = @ \ {done}]
    /\ UNCHANGED <<serverVars, frames, pump, mapVars, phase, call, result, asks>>

\* The end of the server's stdout: the requests that are pending now will fail.
PumpCloses(s) ==
    /\ pump[s] = "on" /\ hand[s] = {} /\ frames[s] # << >> /\ Head(frames[s]) = Closed
    /\ hand' = [hand EXCEPT ![s] = {[id |-> e.id, caller |-> e.caller, value |-> Err("closed")] : e \in pending[s]}]
    /\ pump' = [pump EXCEPT ![s] = "closing"]
    /\ UNCHANGED <<serverVars, frames, mapVars, callerVars>>

\* One of them, if its entry is still there.
FailOne(s) ==
    /\ pump[s] = "closing"
    /\ \E done \in hand[s] :
        /\ IF \E e \in pending[s] : e.id = done.id THEN Complete(s, done) ELSE UNCHANGED slot
        /\ pending' = Without(s, done.id)
        /\ hand' = [hand EXCEPT ![s] = @ \ {done}]
    /\ UNCHANGED <<serverVars, frames, pump, counter, phase, call, result, asks>>

\* The pump ends, and with it the guard that keeps the child alive.
PumpEnds(s) ==
    /\ pump[s] = "closing" /\ hand[s] = {}
    /\ pump' = [pump EXCEPT ![s] = "ended"]
    /\ proc' = [proc EXCEPT ![s] = "dead"]
    /\ frames' = [frames EXCEPT ![s] = << >>]
    /\ UNCHANGED <<stdin, heard, spoken, answered, hand, mapVars, callerVars>>

-----------------------------------------------------------------------------
(* The server and the reader task *)

Read(s) ==
    /\ proc[s] = "up" /\ stdin[s] # << >>
    /\ heard' = [heard EXCEPT ![s] = @ \cup {Head(stdin[s])}]
    /\ stdin' = [stdin EXCEPT ![s] = Tail(@)]
    /\ UNCHANGED <<proc, spoken, answered, pumpVars, mapVars, callerVars>>

Line(id, kind, request) == [kind |-> "line", id |-> id, value |-> [kind |-> kind, request |-> request]]

\* An answer is a result or an error; a frame with neither reads as the result null.
Say(s) ==
    /\ proc[s] = "up" /\ spoken[s] < MaxSaid[s] /\ Len(frames[s]) < ChannelCap
    /\ spoken' = [spoken EXCEPT ![s] = @ + 1]
    /\ \/ \E r \in heard[s], kind \in {"result", "rpc"} :
            /\ frames' = [frames EXCEPT ![s] = Append(@, Line(r.id, kind, r.request))]
            /\ answered' = answered \cup {r.request}
       \/ \E id \in OwnIds :
            /\ frames' = [frames EXCEPT ![s] = Append(@, Line(id, "result", NoRequest))]
            /\ UNCHANGED answered
    /\ UNCHANGED <<proc, stdin, heard, pump, hand, mapVars, callerVars>>

\* The stdout ends: closed by a server that goes on, or by its exit.
Stop(s, how) ==
    /\ proc[s] = "up"
    /\ proc' = [proc EXCEPT ![s] = how]
    /\ frames' = [frames EXCEPT ![s] = Append(@, Closed)]
    /\ UNCHANGED <<stdin, heard, spoken, answered, pump, hand, mapVars, callerVars>>

CallerStep(c) == Write(c) \/ WriteFails(c) \/ Receive(c) \/ Timeout(c)
PumpStep(s) == Pump(s) \/ Give(s) \/ PumpCloses(s) \/ FailOne(s) \/ PumpEnds(s)
ServerStep(s) == Read(s) \/ Say(s) \/ Stop(s, "mute") \/ Stop(s, "dead")

McpStep == (\E c \in Callers : CallerStep(c)) \/ (\E s \in Servers : PumpStep(s) \/ ServerStep(s))

-----------------------------------------------------------------------------
(* Properties *)

Asked == (Callers \cup {"nobody"}) \X Nat
Wire == [id : Nat, request : Asked]
Answers == [kind : {"result", "rpc"}, request : Asked]
Errors == [kind : {"error"}, reason : {"io", "timeout", "closed"}]
Frames == {Closed} \cup [kind : {"line"}, id : Nat, value : Answers]
Entries == [id : Nat, caller : Callers]
Completions == [id : Nat, caller : Callers, value : Answers \cup Errors]
Calls == [server : Servers \cup {"none"}, id : Nat, request : Asked]

\* The client's variables stay in their types.
McpTypes ==
    /\ pending \in [Servers -> SUBSET Entries] /\ counter \in [Servers -> Nat]
    /\ proc \in [Servers -> {"none", "up", "mute", "dead"}]
    /\ pump \in [Servers -> {"off", "on", "closing", "ended"}]
    /\ hand \in [Servers -> SUBSET Completions]
    /\ phase \in [Callers -> {"idle", "sending", "waiting", "returned"}]
    /\ call \in [Callers -> Calls]
    /\ slot \in [Callers -> {Nothing} \cup Answers \cup Errors]
    /\ result \in [Callers -> {Nothing} \cup Answers \cup Errors]
    /\ asks \in [Callers -> Nat]
    /\ stdin \in [Servers -> Seq(Wire)] /\ heard \in [Servers -> SUBSET Wire]
    /\ frames \in [Servers -> Seq(Frames)]
    /\ answered \subseteq Asked

\* Every entry of the map belongs to a request that is under way, however its
\* answer, its timeout and the server's end met (call_raw, pump).
PendingHasCaller ==
    \A s \in Servers : \A e \in pending[s] :
        /\ phase[e.caller] \in {"sending", "waiting"}
        /\ call[e.caller].server = s /\ call[e.caller].id = e.id

\* A caller that was answered was answered about the request it made: the client
\* is an implementation of RequestReply.
Outcome(c) ==
    CASE phase[c] \in {"sending", "waiting"} -> "asked"
      [] phase[c] = "idle" -> "idle"
      [] OTHER -> IF result[c].kind = "error" THEN "error"
                  ELSE IF result[c].request = call[c].request THEN "answer"
                  ELSE "another request's answer"

Remote == INSTANCE RequestReply WITH
              Callers <- Callers, MaxAsks <- MaxAsks,
              asked <- asks, outcome <- [c \in Callers |-> Outcome(c)], answered <- answered

AnswersAreOnes == Remote!Spec

=============================================================================
