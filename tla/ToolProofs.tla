------------------------------ MODULE ToolProofs ------------------------------
(***************************************************************************)
(* Theorems about ToolCalls and the MCP client in it, for any number of    *)
(* servers, callers, calls and frames, whatever the servers say.           *)
(***************************************************************************)
EXTENDS ToolCalls, SequenceTheorems, TLAPS

USE McpAssumption, ToolsAssumption

-----------------------------------------------------------------------------
(* What a step does to the client *)

\* An entry of mcp.yaml names a server.
LEMMA EntryServer ==
    ASSUME NEW i \in Nat, 1 <= i, i <= Len(Config)
    PROVE  Config[i].server \in Servers
<1> DEFINE Given == [name : STRING, enabled : BOOLEAN, server : Servers]
<1>1. Config \in Seq(Given)
  OBVIOUS
<1>2. ASSUME NEW e \in Given PROVE e.server \in Servers
  BY <1>2
<1> HIDE DEF Given
<1>3. i \in 1 .. Len(Config)
  BY <1>1
<1>4. Config[i] \in Given
  BY <1>1, <1>3, ElementOfSeq
<1> QED BY <1>2, <1>4

\* So does the one that boot is at.
LEMMA BootsServer ==
    ASSUME BootTypes, MoreEntries
    PROVE  Entry.server \in Servers
<1>1. Len(status) + 1 \in Nat /\ 1 <= Len(status) + 1 /\ Len(status) + 1 <= Len(Config)
  BY DEF BootTypes, MoreEntries
<1> QED BY <1>1, EntryServer DEF Entry

\* A call begins; boot's first to a server starts it.
Calling(c, s) ==
    /\ Call(c, s)
    /\ UNCHANGED <<stdin, heard, spoken, answered, frames, hand>>
    /\ \/ UNCHANGED <<proc, pump>>
       \/ Spawn(s)

\* Boot goes through the configured entries, and through no more.
LEMMA BootKeeps ==
    ASSUME BootTypes, [Next]_vars
    PROVE  BootTypes'
<1> USE DEF BootTypes, MoreEntries, Report
<1>1. ASSUME NEW what \in Reports, Report(what), MoreEntries PROVE BootTypes'
  BY <1>1
<1>2. CASE BootSkips
  BY <1>1, <1>2 DEF BootSkips, Reports
<1>3. CASE BootSpawnFails \/ BootFails
  BY <1>1, <1>3 DEF BootSpawnFails, BootFails, Reports
<1>4. CASE BootSpawns \/ BootAsksForTools \/ BootEnds
  BY <1>4 DEF BootSpawns, BootAsksForTools, BootEnds
<1>5. CASE BootStarts
  <2>1. Entry.server \in Servers
    BY <1>5, BootsServer DEF BootStarts
  <2>2. Started(Announced[Entry.server]) \in Reports /\ Started({}) \in Reports
    BY <2>1 DEF Started, Reports
  <2> QED BY <1>1, <1>5, <2>2 DEF BootStarts
<1>6. CASE UNCHANGED <<step, status>>
  BY <1>6
<1> QED BY <1>2, <1>3, <1>4, <1>5, <1>6 DEF Next, BootStep, vars, Ask, Approve, Invoke, Finish

\* A step of boot's or of a task's is a call, or leaves the client alone.
LEMMA StepIsCall ==
    ASSUME BootTypes, [Next]_vars
    PROVE  \/ McpStep
           \/ \E c \in Callers, s \in Servers : Calling(c, s)
           \/ UNCHANGED mcpVars
<1> USE CallersAssumption DEF BootAndTasks
<1> DEFINE Goal == \/ McpStep
                   \/ \E c \in Callers, s \in Servers : Calling(c, s)
                   \/ UNCHANGED mcpVars
<1>1. MoreEntries => Entry.server \in Servers
  BY BootsServer
<1>2. CASE BootSpawns
  BY <1>1, <1>2 DEF BootSpawns, Calling
<1>3. CASE BootAsksForTools
  BY <1>1, <1>3 DEF BootAsksForTools, Calling, BootTypes, serverVars, pumpVars
<1>4. CASE BootSkips \/ BootSpawnFails \/ BootFails \/ BootStarts \/ BootEnds
  BY <1>4 DEF BootSkips, BootSpawnFails, BootFails, BootStarts, BootEnds
<1>5. ASSUME NEW t \in Tasks, Invoke(t) PROVE Goal
  <2>1. CASE UNCHANGED mcpVars
    BY <2>1
  <2>2. CASE \E i \in DOMAIN status : Call(t, Config[i].server) /\ UNCHANGED <<serverVars, pumpVars>>
    <3>1. PICK i \in DOMAIN status : Call(t, Config[i].server) /\ UNCHANGED <<serverVars, pumpVars>>
      BY <2>2
    <3>2. Config[i].server \in Servers
      <4>1. i \in Nat /\ 1 <= i /\ i <= Len(Config)
        BY DEF BootTypes
      <4> QED BY <4>1, EntryServer
    <3> QED BY <3>1, <3>2 DEF Calling, serverVars, pumpVars
  <2> QED BY <1>5, <2>1, <2>2 DEF Invoke
<1>6. ASSUME NEW t \in Tasks, (\E r \in Requests : Ask(t, r)) \/ Approve(t) \/ Finish(t) PROVE Goal
  BY <1>6 DEF Ask, Approve, Finish
<1> QED BY <1>2, <1>3, <1>4, <1>5, <1>6 DEF Next, BootStep, vars

-----------------------------------------------------------------------------
(* The client's variables stay in their types *)

\* A line has an id and an answer.
LEMMA FrameTypes ==
    ASSUME NEW f \in Frames, f # Closed
    PROVE  f.id \in Nat /\ f.value \in Answers
BY DEF Frames, Closed

\* A call keeps the types.
LEMMA CallTypes ==
    ASSUME McpTypes, NEW c \in Callers, NEW s \in Servers, Calling(c, s)
    PROVE  McpTypes'
<1> USE DEF Calling, Call
<1>1. pending' \in [Servers -> SUBSET Entries] /\ counter' \in [Servers -> Nat]
  BY DEF McpTypes, NewId, Entries
<1>2. call' \in [Callers -> Calls]
  BY DEF McpTypes, NewId, Calls, Asked
<1>3. /\ proc' \in [Servers -> {"none", "up", "mute", "dead"}]
      /\ pump' \in [Servers -> {"off", "on", "closing", "ended"}]
  BY DEF McpTypes, Spawn
<1>4. /\ phase' \in [Callers -> {"idle", "sending", "waiting", "returned"}]
      /\ asks' \in [Callers -> Nat]
      /\ slot' \in [Callers -> {Nothing} \cup Answers \cup Errors]
  BY DEF McpTypes
<1> QED BY <1>1, <1>2, <1>3, <1>4 DEF McpTypes

\* The errors of the client.
LEMMA ErrTypes ==
    Err("io") \in Errors /\ Err("timeout") \in Errors /\ Err("closed") \in Errors
BY DEF Err, Errors

\* So does a step of a caller,
LEMMA CallerTypes ==
    ASSUME McpTypes, NEW c \in Callers, CallerStep(c)
    PROVE  McpTypes'
<1> USE DEF McpTypes, serverVars, pumpVars, mapVars, callerVars
<1>1. Err("io") \in Errors /\ Err("timeout") \in Errors
  BY ErrTypes
<1>2. \A s, id : Without(s, id) \in [Servers -> SUBSET Entries]
  BY DEF Without
<1>3. CASE Write(c)
  <2> DEFINE r == [id |-> call[c].id, request |-> call[c].request]
             q == call[c].server
  <2>1. r \in Wire
    BY DEF Wire, Calls
  <2>2. stdin' = [stdin EXCEPT ![q] = Append(@, r)]
    BY <1>3 DEF Write
  <2>3. q \in Servers => Append(stdin[q], r) \in Seq(Wire)
    <3> HIDE DEF r, q
    <3> QED BY <2>1, AppendProperties
  <2> HIDE DEF r, q
  <2>4. stdin' \in [Servers -> Seq(Wire)]
    BY <2>2, <2>3
  <2> QED BY <1>3, <2>4 DEF Write
<1>4. CASE WriteFails(c)
  BY <1>1, <1>2, <1>4 DEF WriteFails, Return
<1>5. CASE Receive(c)
  BY <1>5 DEF Receive, Return
<1>6. CASE Timeout(c)
  BY <1>1, <1>2, <1>6 DEF Timeout, Return
<1> QED BY <1>3, <1>4, <1>5, <1>6 DEF CallerStep

\* a completion,
LEMMA CompleteTypes ==
    ASSUME McpTypes, NEW s \in Servers, NEW d \in Completions, Complete(s, d)
    PROVE  slot' \in [Callers -> {Nothing} \cup Answers \cup Errors]
BY DEF McpTypes, Complete, Completions

\* a step of a pump,
LEMMA PumpTypes ==
    ASSUME McpTypes, NEW s \in Servers, PumpStep(s)
    PROVE  McpTypes'
<1> USE DEF McpTypes, serverVars, pumpVars, mapVars, callerVars
<1>1. frames[s] # << >> => Head(frames[s]) \in Frames /\ Tail(frames[s]) \in Seq(Frames)
  BY HeadTailProperties
<1>2. CASE Pump(s)
  <2> DEFINE f == Head(frames[s])
             hits == {e \in pending[s] : e.id = f.id}
  <2>1. f.value \in Answers
    BY <1>1, <1>2, FrameTypes DEF Pump, Closed
  <2>2. \A e \in hits : e \in Entries
    OBVIOUS
  <2>3. {[id |-> e.id, caller |-> e.caller, value |-> f.value] : e \in hits} \subseteq Completions
    <3> HIDE DEF f, hits
    <3> QED BY <2>1, <2>2 DEF Entries, Completions
  <2> QED BY <1>1, <1>2, <2>3 DEF Pump
<1>3. CASE Give(s)
  <2>1. PICK d \in hand[s] : Complete(s, d) /\ hand' = [hand EXCEPT ![s] = @ \ {d}]
    BY <1>3 DEF Give
  <2>2. slot' \in [Callers -> {Nothing} \cup Answers \cup Errors]
    BY <2>1, CompleteTypes
  <2> QED BY <1>3, <2>1, <2>2 DEF Give
<1>4. CASE PumpCloses(s)
  <2>1. {[id |-> e.id, caller |-> e.caller, value |-> Err("closed")] : e \in pending[s]} \subseteq Completions
    BY ErrTypes DEF Entries, Completions
  <2> QED BY <1>4, <2>1 DEF PumpCloses
<1>5. CASE FailOne(s)
  <2>1. PICK d \in hand[s] :
            /\ IF \E e \in pending[s] : e.id = d.id THEN Complete(s, d) ELSE UNCHANGED slot
            /\ pending' = Without(s, d.id)
            /\ hand' = [hand EXCEPT ![s] = @ \ {d}]
    BY <1>5 DEF FailOne
  <2>2. slot' \in [Callers -> {Nothing} \cup Answers \cup Errors]
    BY <2>1, CompleteTypes
  <2> QED BY <1>5, <2>1, <2>2 DEF FailOne, Without
<1>6. CASE PumpEnds(s)
  BY <1>6, EmptySeq DEF PumpEnds
<1> QED BY <1>2, <1>3, <1>4, <1>5, <1>6 DEF PumpStep

\* and a step of a server.
LEMMA ServerTypes ==
    ASSUME McpTypes, NEW s \in Servers, ServerStep(s)
    PROVE  McpTypes'
<1> USE DEF McpTypes, serverVars, pumpVars, mapVars, callerVars
<1>1. ASSUME NEW f \in Frames, frames' = [frames EXCEPT ![s] = Append(@, f)]
      PROVE  frames' \in [Servers -> Seq(Frames)]
  <2>1. Append(frames[s], f) \in Seq(Frames)
    BY AppendProperties
  <2> QED BY <1>1, <2>1
<1>2. CASE Read(s)
  <2>1. Head(stdin[s]) \in Wire /\ Tail(stdin[s]) \in Seq(Wire)
    BY <1>2, HeadTailProperties DEF Read
  <2> QED BY <1>2, <2>1 DEF Read
<1>3. CASE Say(s)
  <2>1. CASE \E r \in heard[s], kind \in {"result", "rpc"} :
                /\ frames' = [frames EXCEPT ![s] = Append(@, Line(r.id, kind, r.request))]
                /\ answered' = answered \cup {r.request}
    <3>1. PICK r \in heard[s], kind \in {"result", "rpc"} :
                /\ frames' = [frames EXCEPT ![s] = Append(@, Line(r.id, kind, r.request))]
                /\ answered' = answered \cup {r.request}
      BY <2>1
    <3>2. r.id \in Nat /\ r.request \in Asked
      BY DEF Wire
    <3>3. Line(r.id, kind, r.request) \in Frames
      BY <3>2 DEF Line, Frames, Answers
    <3>4. frames' \in [Servers -> Seq(Frames)]
      BY <1>1, <3>1, <3>3
    <3> QED BY <1>3, <3>1, <3>2, <3>4 DEF Say
  <2>2. CASE \E id \in OwnIds :
                /\ frames' = [frames EXCEPT ![s] = Append(@, Line(id, "result", NoRequest))]
                /\ UNCHANGED answered
    <3>1. PICK id \in OwnIds :
                /\ frames' = [frames EXCEPT ![s] = Append(@, Line(id, "result", NoRequest))]
                /\ UNCHANGED answered
      BY <2>2
    <3>2. Line(id, "result", NoRequest) \in Frames
      BY DEF Line, Frames, Answers, NoRequest, Asked
    <3>3. frames' \in [Servers -> Seq(Frames)]
      BY <1>1, <3>1, <3>2
    <3> QED BY <1>3, <3>1, <3>3 DEF Say
  <2> QED BY <1>3, <2>1, <2>2 DEF Say
<1>4. ASSUME NEW how \in {"mute", "dead"}, Stop(s, how) PROVE McpTypes'
  <2>1. frames' \in [Servers -> Seq(Frames)]
    BY <1>1, <1>4 DEF Stop, Frames
  <2> QED BY <1>4, <2>1 DEF Stop
<1> QED BY <1>2, <1>3, <1>4 DEF ServerStep

\* Hence every step does.
LEMMA TypesKept ==
    ASSUME McpTypes, BootTypes, [Next]_vars
    PROVE  McpTypes'
<1>1. CASE McpStep
  BY <1>1, CallerTypes, PumpTypes, ServerTypes DEF McpStep
<1>2. CASE \E c \in Callers, s \in Servers : Calling(c, s)
  BY <1>2, CallTypes
<1>3. CASE UNCHANGED mcpVars
  BY <1>3 DEF McpTypes, mcpVars, serverVars, pumpVars, mapVars, callerVars
<1> QED BY <1>1, <1>2, <1>3, StepIsCall


-----------------------------------------------------------------------------
(* The pending map *)

Active(c) == phase[c] \in {"sending", "waiting"}

\* An id that was handed out.
IdsAreGiven ==
    \A s \in Servers :
        /\ \A e \in pending[s] : e.id <= counter[s]
        /\ \A d \in hand[s] : d.id <= counter[s]

\* What the pump holds is out of the map, unless the pump is at its end.
HandIsOutOfMap ==
    \A s \in Servers : pump[s] # "closing" =>
        \A d \in hand[s], e \in pending[s] : d.id # e.id

\* Whose sender has been used has no entry.
SlotIsOutOfMap ==
    \A c \in Callers : Active(c) /\ slot[c] # Nothing =>
        \A s \in Servers : \A e \in pending[s] : e.caller # c

\* A pump comes with its process.
PumpHasProcess == \A s \in Servers : proc[s] = "none" => pump[s] = "off"

PendingInv ==
    /\ McpTypes /\ PendingHasCaller /\ IdsAreGiven
    /\ HandIsOutOfMap /\ SlotIsOutOfMap /\ PumpHasProcess

\* An entry has a caller and an id.
LEMMA EntryTypes ==
    ASSUME McpTypes, NEW s \in Servers, NEW e \in pending[s]
    PROVE  e.caller \in Callers /\ e.id \in Nat
<1>1. pending[s] \subseteq Entries
  BY DEF McpTypes
<1>2. e \in Entries
  BY <1>1
<1> QED BY <1>2 DEF Entries

\* A call adds an entry under a new id.
LEMMA CallKeepsPending ==
    ASSUME PendingInv, McpTypes', NEW c \in Callers, NEW s \in Servers, Calling(c, s)
    PROVE  PendingInv'
<1> DEFINE mine == [id |-> counter[s] + 1, caller |-> c]
<1> USE DEF PendingInv
<1>1. /\ pending' = [pending EXCEPT ![s] = @ \cup {mine}]
      /\ counter' = [counter EXCEPT ![s] = @ + 1]
      /\ call' = [call EXCEPT ![c] = [server |-> s, id |-> counter[s] + 1, request |-> <<c, asks[c] + 1>>]]
      /\ phase[c] \in {"idle", "returned"} /\ phase' = [phase EXCEPT ![c] = "sending"]
      /\ slot' = [slot EXCEPT ![c] = Nothing]
      /\ hand' = hand
  BY DEF Calling, Call, NewId
<1>2. \A q \in Servers : \A e \in pending'[q] :
        \/ e \in pending[q]
        \/ q = s /\ e = mine
  BY <1>1 DEF McpTypes
<1>3. \A q \in Servers : \A e \in pending[q] : e.caller \in Callers /\ e.id \in Nat
  BY EntryTypes
<1>4. \A q \in Servers : \A e \in pending[q] : e.caller # c
  BY <1>1 DEF PendingHasCaller
<1>5. mine.id = counter[s] + 1 /\ mine.caller = c
  OBVIOUS
<1>6. /\ \A q \in Servers : counter[q] \in Nat /\ counter'[q] = IF q = s THEN counter[q] + 1 ELSE counter[q]
      /\ call'[c].server = s /\ call'[c].id = counter[s] + 1
      /\ phase'[c] = "sending" /\ slot'[c] = Nothing
  BY <1>1 DEF McpTypes
<1>7. \A x \in Callers : x # c => call'[x] = call[x] /\ phase'[x] = phase[x] /\ slot'[x] = slot[x]
  BY <1>1 DEF McpTypes
<1>8. \A q \in Servers : \A d \in hand[q] : d.id \in Nat
  BY DEF McpTypes, Completions
<1>9. \A q \in Servers : proc'[q] = "none" => proc[q] = "none" /\ pump'[q] = pump[q]
  BY DEF Calling, Spawn, McpTypes
<1>10. \A q \in Servers : pump'[q] # pump[q] => proc[q] = "none"
  BY DEF Calling, Spawn, McpTypes
<1> HIDE DEF mine
<1>11. PendingHasCaller'
  <2> SUFFICES ASSUME NEW q \in Servers, NEW e \in pending'[q]
               PROVE  /\ phase'[e.caller] \in {"sending", "waiting"}
                      /\ call'[e.caller].server = q /\ call'[e.caller].id = e.id
    BY DEF PendingHasCaller
  <2>1. CASE e \in pending[q]
    <3>1. e.caller \in Callers /\ e.caller # c
      BY <1>3, <1>4, <2>1
    <3>2. /\ phase[e.caller] \in {"sending", "waiting"}
          /\ call[e.caller].server = q /\ call[e.caller].id = e.id
      BY <2>1 DEF PendingHasCaller
    <3>3. phase'[e.caller] = phase[e.caller] /\ call'[e.caller] = call[e.caller]
      BY <1>7, <3>1
    <3> QED BY <3>2, <3>3
  <2>2. CASE q = s /\ e = mine
    BY <1>5, <1>6, <2>2
  <2> QED BY <1>2, <2>1, <2>2
<1>12. IdsAreGiven'
  BY <1>1, <1>2, <1>3, <1>5, <1>6, <1>8 DEF IdsAreGiven
<1>13. HandIsOutOfMap'
  <2> SUFFICES ASSUME NEW q \in Servers, pump'[q] # "closing", NEW d \in hand[q], NEW e \in pending'[q]
               PROVE  d.id # e.id
    BY <1>1 DEF HandIsOutOfMap
  <2>1. pump[q] # "closing"
    BY <1>10 DEF PumpHasProcess
  <2>2. CASE e \in pending[q]
    BY <2>1, <2>2 DEF HandIsOutOfMap
  <2>3. CASE q = s /\ e = mine
    BY <1>5, <1>6, <1>8, <2>3 DEF IdsAreGiven
  <2> QED BY <1>2, <2>2, <2>3
<1>14. SlotIsOutOfMap'
  <2> SUFFICES ASSUME NEW x \in Callers, Active(x)', slot'[x] # Nothing,
                      NEW q \in Servers, NEW e \in pending'[q]
               PROVE  e.caller # x
    BY DEF SlotIsOutOfMap, Nothing
  <2>1. x # c
    BY <1>6
  <2>2. Active(x) /\ slot[x] # Nothing
    BY <1>7, <2>1 DEF Active
  <2> QED BY <1>2, <1>5, <2>1, <2>2 DEF SlotIsOutOfMap
<1>15. PumpHasProcess'
  BY <1>9 DEF PumpHasProcess
<1> QED BY <1>11, <1>12, <1>13, <1>14, <1>15

\* A request that is over takes its entry out.
LEMMA CallerKeepsPending ==
    ASSUME PendingInv, McpTypes', NEW c \in Callers, CallerStep(c)
    PROVE  PendingInv'
<1> USE DEF PendingInv, serverVars, pumpVars, mapVars, callerVars
<1>1. ASSUME UNCHANGED <<counter, hand, pump, proc, call, slot>>,
             phase' = [phase EXCEPT ![c] = "returned"],
             \A s \in Servers : pending'[s] \subseteq pending[s],
             \A s \in Servers : \A e \in pending'[s] : e.caller # c
      PROVE  PendingInv'
  <2>1. \A s \in Servers : \A e \in pending'[s] : e \in pending[s] /\ e.caller \in Callers
    BY <1>1 DEF McpTypes, Entries
  <2>2. \A x \in Callers : x # c => phase'[x] = phase[x]
    BY <1>1 DEF McpTypes
  <2>3. PendingHasCaller'
    BY <1>1, <2>1, <2>2 DEF PendingHasCaller
  <2>4. IdsAreGiven' /\ HandIsOutOfMap'
    BY <1>1, <2>1 DEF IdsAreGiven, HandIsOutOfMap
  <2>5. SlotIsOutOfMap'
    BY <1>1, <2>1, <2>2 DEF SlotIsOutOfMap, Active
  <2>6. PumpHasProcess'
    BY <1>1 DEF PumpHasProcess
  <2> QED BY <2>3, <2>4, <2>5, <2>6
<1>2. ASSUME Active(c),
             pending' = Without(call[c].server, call[c].id)
      PROVE  /\ \A s \in Servers : pending'[s] \subseteq pending[s]
             /\ \A s \in Servers : \A e \in pending'[s] : e.caller # c
  <2>1. \A s \in Servers : pending'[s] = IF s = call[c].server THEN {e \in pending[s] : e.id # call[c].id} ELSE pending[s]
    BY <1>2 DEF Without, McpTypes
  <2>2. \A s \in Servers : \A e \in pending[s] : e.caller = c => call[c].server = s /\ call[c].id = e.id
    BY DEF PendingHasCaller
  <2>3. \A s \in Servers : pending'[s] \subseteq pending[s]
    BY <2>1
  <2>4. ASSUME NEW s \in Servers, NEW e \in pending'[s], e.caller = c PROVE FALSE
    <3>1. e \in pending[s]
      BY <2>3
    <3>2. s = call[c].server /\ e.id = call[c].id
      BY <2>2, <2>4, <3>1
    <3> QED BY <2>1, <3>2
  <2> QED BY <2>3, <2>4
<1>3. CASE Write(c)
  <2>1. UNCHANGED <<pending, counter, hand, pump, proc, call, slot>>
    BY <1>3 DEF Write
  <2>2. \A x \in Callers : Active(x)' <=> Active(x)
    BY <1>3 DEF Write, Active, McpTypes
  <2>3. \A s \in Servers : \A e \in pending[s] : e.caller \in Callers
    BY DEF McpTypes, Entries
  <2> QED BY <2>1, <2>2, <2>3 DEF PendingHasCaller, IdsAreGiven, HandIsOutOfMap, SlotIsOutOfMap, PumpHasProcess, Active
<1>4. CASE WriteFails(c) \/ Timeout(c)
  <2>1. Active(c) /\ pending' = Without(call[c].server, call[c].id)
    BY <1>4 DEF WriteFails, Timeout, Active
  <2>2. UNCHANGED <<counter, hand, pump, proc, call, slot>> /\ phase' = [phase EXCEPT ![c] = "returned"]
    BY <1>4 DEF WriteFails, Timeout, Return
  <2> QED BY <1>1, <1>2, <2>1, <2>2
<1>5. CASE Receive(c)
  <2>1. UNCHANGED <<pending, counter, hand, pump, proc, call, slot>> /\ phase' = [phase EXCEPT ![c] = "returned"]
    BY <1>5 DEF Receive, Return
  <2>2. Active(c) /\ slot[c] # Nothing
    BY <1>5 DEF Receive, Active
  <2> QED BY <1>1, <2>1, <2>2 DEF SlotIsOutOfMap
<1> QED BY <1>3, <1>4, <1>5 DEF CallerStep

\* A completion reaches a caller whose entry is gone.
LEMMA PumpKeepsPending ==
    ASSUME PendingInv, McpTypes', NEW s \in Servers, PumpStep(s)
    PROVE  PendingInv'
<1> USE DEF PendingInv, serverVars, pumpVars, mapVars, callerVars
<1>0. PumpHasProcess'
  <2>1. \A q \in Servers : proc'[q] = "none" => proc[q] = "none" /\ pump'[q] = pump[q]
    BY DEF PumpStep, Pump, Give, PumpCloses, FailOne, PumpEnds, McpTypes, PumpHasProcess
  <2> QED BY <2>1 DEF PumpHasProcess
<1>1. ASSUME UNCHANGED <<counter, phase, call>>,
             \A q \in Servers : pending'[q] \subseteq pending[q],
             \A q \in Servers, d \in hand'[s] : q = s => d.id <= counter[s],
             \A q \in Servers : q # s => hand'[q] = hand[q] /\ pump'[q] = pump[q],
             pump'[s] # "closing" => \A d \in hand'[s], e \in pending'[s] : d.id # e.id,
             SlotIsOutOfMap', PumpHasProcess'
      PROVE  PendingInv'
  <2>1. PendingHasCaller'
    BY <1>1 DEF PendingHasCaller
  <2>2. IdsAreGiven'
    BY <1>1 DEF IdsAreGiven
  <2>3. HandIsOutOfMap'
    BY <1>1 DEF HandIsOutOfMap
  <2> QED BY <1>1, <2>1, <2>2, <2>3
<1>2. ASSUME UNCHANGED <<phase, slot>>, \A q \in Servers : pending'[q] \subseteq pending[q]
      PROVE  SlotIsOutOfMap'
  BY <1>2 DEF SlotIsOutOfMap, Active
<1>3. ASSUME NEW d \in hand[s], Complete(s, d), UNCHANGED <<phase, call>>,
             \A q \in Servers : pending'[q] \subseteq pending[q],
             \A e \in pending'[s] : e.id # d.id
      PROVE  SlotIsOutOfMap'
  <2> SUFFICES ASSUME NEW c \in Callers, Active(c), slot'[c] # Nothing,
                      NEW q \in Servers, NEW e \in pending'[q], e.caller = c
               PROVE  FALSE
    BY <1>3 DEF SlotIsOutOfMap, Active
  <2>1. e \in pending[q] /\ call[c].server = q /\ call[c].id = e.id
    BY <1>3 DEF PendingHasCaller
  <2>2. CASE slot'[c] = slot[c]
    BY <2>1, <2>2 DEF SlotIsOutOfMap
  <2>3. CASE slot'[c] # slot[c]
    <3>1. c = d.caller /\ call[c].server = s /\ call[c].id = d.id
      BY <1>3, <2>3 DEF Complete, McpTypes
    <3> QED BY <1>3, <2>1, <3>1
  <2> QED BY <2>2, <2>3
<1>4. CASE Pump(s)
  <2> DEFINE f == Head(frames[s])
             hits == {e \in pending[s] : e.id = f.id}
  <2>1. /\ pending' = [pending EXCEPT ![s] = @ \ hits]
        /\ hand' = [hand EXCEPT ![s] = {[id |-> e.id, caller |-> e.caller, value |-> f.value] : e \in hits}]
        /\ UNCHANGED <<counter, phase, call, slot, pump>>
    BY <1>4 DEF Pump
  <2>2. \A q \in Servers : pending'[q] \subseteq pending[q]
    BY <2>1 DEF McpTypes
  <2>3. \A d \in hand'[s] : d.id = f.id /\ d.id <= counter[s]
    BY <2>1 DEF McpTypes, IdsAreGiven
  <2>4. \A e \in pending'[s] : e.id # f.id
    BY <2>1 DEF McpTypes
  <2>5. \A q \in Servers : q # s => hand'[q] = hand[q]
    BY <2>1 DEF McpTypes
  <2> HIDE DEF f, hits
  <2> QED BY <1>1, <1>0, <1>2, <2>1, <2>2, <2>3, <2>4, <2>5
<1>5. CASE Give(s)
  <2>1. PICK d \in hand[s] : Complete(s, d) /\ hand' = [hand EXCEPT ![s] = @ \ {d}]
    BY <1>5 DEF Give
  <2>2. UNCHANGED <<counter, phase, call, pending, pump>> /\ pump[s] = "on"
    BY <1>5 DEF Give
  <2>3. hand'[s] \subseteq hand[s] /\ \A q \in Servers : q # s => hand'[q] = hand[q]
    BY <2>1 DEF McpTypes
  <2>4. SlotIsOutOfMap'
    BY <1>3, <2>1, <2>2 DEF HandIsOutOfMap
  <2> QED BY <1>1, <1>0, <2>2, <2>3, <2>4 DEF IdsAreGiven, HandIsOutOfMap
<1>6. CASE PumpCloses(s)
  <2>1. /\ hand' = [hand EXCEPT ![s] = {[id |-> e.id, caller |-> e.caller, value |-> Err("closed")] : e \in pending[s]}]
        /\ pump' = [pump EXCEPT ![s] = "closing"]
        /\ UNCHANGED <<counter, phase, call, slot, pending>>
    BY <1>6 DEF PumpCloses
  <2>2. \A d \in hand'[s] : d.id <= counter[s]
    BY <2>1 DEF McpTypes, IdsAreGiven
  <2>3. pump'[s] = "closing" /\ \A q \in Servers : q # s => hand'[q] = hand[q] /\ pump'[q] = pump[q]
    BY <2>1 DEF McpTypes
  <2> QED BY <1>1, <1>0, <1>2, <2>1, <2>2, <2>3
<1>7. CASE FailOne(s)
  <2>1. PICK d \in hand[s] :
            /\ IF \E e \in pending[s] : e.id = d.id THEN Complete(s, d) ELSE UNCHANGED slot
            /\ pending' = Without(s, d.id)
            /\ hand' = [hand EXCEPT ![s] = @ \ {d}]
    BY <1>7 DEF FailOne
  <2>2. UNCHANGED <<counter, phase, call, pump>> /\ pump[s] = "closing"
    BY <1>7 DEF FailOne
  <2>3. /\ \A q \in Servers : pending'[q] \subseteq pending[q]
        /\ \A e \in pending'[s] : e.id # d.id
    BY <2>1 DEF Without, McpTypes
  <2>4. hand'[s] \subseteq hand[s] /\ \A q \in Servers : q # s => hand'[q] = hand[q]
    BY <2>1 DEF McpTypes
  <2>5. SlotIsOutOfMap'
    <3>1. CASE Complete(s, d)
      BY <1>3, <2>2, <2>3, <3>1
    <3>2. CASE UNCHANGED slot
      BY <1>2, <2>2, <2>3, <3>2
    <3> QED BY <2>1, <3>1, <3>2
  <2> QED BY <1>1, <1>0, <2>2, <2>3, <2>4, <2>5 DEF IdsAreGiven
<1>8. CASE PumpEnds(s)
  <2>1. hand[s] = {} /\ UNCHANGED <<counter, phase, call, slot, pending, hand>>
        /\ pump' = [pump EXCEPT ![s] = "ended"]
    BY <1>8 DEF PumpEnds
  <2>2. \A q \in Servers : q # s => pump'[q] = pump[q]
    BY <2>1 DEF McpTypes
  <2> QED BY <1>1, <1>0, <1>2, <2>1, <2>2
<1> QED BY <1>4, <1>5, <1>6, <1>7, <1>8 DEF PumpStep

\* Every step keeps the map and its callers together.
LEMMA PendingKept ==
    ASSUME PendingInv, BootTypes, [Next]_vars
    PROVE  PendingInv'
<1>1. McpTypes'
  BY TypesKept DEF PendingInv
<1>2. ASSUME UNCHANGED <<pending, counter, hand, pump, phase, call, slot>>,
             \A s \in Servers : proc'[s] = "none" => proc[s] = "none"
      PROVE  PendingInv'
  BY <1>1, <1>2 DEF PendingInv, PendingHasCaller, IdsAreGiven, HandIsOutOfMap, SlotIsOutOfMap, PumpHasProcess, Active
<1>3. CASE \E s \in Servers : ServerStep(s)
  <2>1. PICK s \in Servers : ServerStep(s)
    BY <1>3
  <2>2. \A q \in Servers : proc'[q] = "none" => proc[q] = "none"
    BY <2>1 DEF ServerStep, Read, Say, Stop, PendingInv, McpTypes
  <2> QED BY <1>2, <2>1, <2>2 DEF ServerStep, Read, Say, Stop, pumpVars, mapVars, callerVars
<1>4. CASE McpStep
  BY <1>1, <1>3, <1>4, CallerKeepsPending, PumpKeepsPending DEF McpStep
<1>5. CASE \E c \in Callers, s \in Servers : Calling(c, s)
  BY <1>1, <1>5, CallKeepsPending
<1>6. CASE UNCHANGED mcpVars
  BY <1>2, <1>6 DEF mcpVars, serverVars, pumpVars, mapVars, callerVars
<1> QED BY <1>4, <1>5, <1>6, StepIsCall

\* At first there are no entries.
LEMMA PendingAtFirst ==
    ASSUME Init
    PROVE  PendingInv /\ BootTypes
<1> USE DEF Init, McpInit
<1>1. BootTypes
  BY EmptySeq DEF BootTypes
<1>2. call \in [Callers -> Calls]
  BY DEF NoCall, NoRequest, Calls, Asked
<1>3. McpTypes
  BY <1>2, EmptySeq DEF McpTypes
<1> QED BY <1>1, <1>3 DEF PendingInv, PendingHasCaller, IdsAreGiven, HandIsOutOfMap, SlotIsOutOfMap, PumpHasProcess, Active

\* Every entry of the map of pending requests is that of a request under way,
\* however answers, timeouts and the server's end meet (call_raw, pump).
THEOREM EntriesHaveCallers == Spec => []PendingHasCaller
<1>1. Init => PendingInv /\ BootTypes
  BY PendingAtFirst
<1>2. PendingInv /\ BootTypes /\ [Next]_vars => (PendingInv /\ BootTypes)'
  BY PendingKept, BootKeeps
<1>3. PendingInv => PendingHasCaller
  BY DEF PendingInv
<1> QED BY <1>1, <1>2, <1>3, PTL DEF Spec


-----------------------------------------------------------------------------
(* Answers *)

\* No server makes requests of its own.
NoOwnRequests == OwnIds \subseteq {0}

\* The request that went out to s under an id.
Truth(s, id, request) ==
    /\ id \in Nat /\ 1 <= id /\ id <= counter[s]
    /\ \E c \in Callers : \E n \in Nat : request = <<c, n>> /\ 1 <= n /\ n <= asks[c]
    /\ \A c \in Callers : call[c].server = s /\ call[c].id = id => call[c].request = request

Sent(s) == {w \in Wire : Truth(s, w.id, w.request)}
Said(s) == {f \in Frames : f = Closed \/ f.id = 0 \/ (Truth(s, f.id, f.value.request) /\ f.value.request \in answered)}
Held(s) == {d \in Completions :
                d.value \in Errors \/ (Truth(s, d.id, d.value.request) /\ d.value.request \in answered)}

TruthInv ==
    /\ \A s \in Servers : stdin[s] \in Seq(Sent(s)) /\ heard[s] \subseteq Sent(s)
    /\ \A s \in Servers : frames[s] \in Seq(Said(s)) /\ hand[s] \subseteq Held(s)
    /\ \A s \in Servers : \A e \in pending[s] : 1 <= e.id

\* The request of a call, and an id of its own.
CallsDiffer ==
    \A c \in Callers :
        /\ asks[c] <= MaxAsks[c]
        /\ Active(c) => call[c].server \in Servers
        /\ call[c].server \in Servers =>
            /\ 1 <= call[c].id /\ call[c].id <= counter[call[c].server]
            /\ 1 <= asks[c] /\ call[c].request = <<c, asks[c]>>
            /\ \A x \in Callers : call[x].server = call[c].server /\ call[x].id = call[c].id => x = c

\* What the one-shot channel of a call holds is about it.
SlotIsOurs ==
    \A c \in Callers : Active(c) =>
        \/ slot[c] = Nothing \/ slot[c] \in Errors
        \/ slot[c].request = call[c].request /\ call[c].request \in answered

AnswerInv == TruthInv /\ CallsDiffer /\ SlotIsOurs

\* What is true stays true as long as ids and numbers grow and calls are new.
LEMMA TruthStays ==
    ASSUME NEW s \in Servers, NEW id, NEW request, Truth(s, id, request),
           counter[s] \in Nat, counter'[s] \in Nat, counter[s] <= counter'[s],
           \A c \in Callers : asks[c] \in Nat /\ asks'[c] \in Nat /\ asks[c] <= asks'[c],
           \A c \in Callers : \/ call'[c] = call[c]
                              \/ call'[c].server # s
                              \/ call'[c].id > counter[s] /\ call'[c].id \in Nat
    PROVE  Truth(s, id, request)'
<1>1. id \in Nat /\ 1 <= id /\ id <= counter'[s]
  BY DEF Truth
<1>2. \E c \in Callers : \E n \in Nat : request = <<c, n>> /\ 1 <= n /\ n <= asks'[c]
  <2>1. PICK c \in Callers, n \in Nat : request = <<c, n>> /\ 1 <= n /\ n <= asks[c]
    BY DEF Truth
  <2>2. n <= asks'[c]
    BY <2>1
  <2> QED BY <2>1, <2>2
<1>3. ASSUME NEW c \in Callers, call'[c].server = s, call'[c].id = id PROVE call'[c].request = request
  <2>1. ~(call'[c].id > counter[s])
    BY <1>3 DEF Truth
  <2>2. call'[c] = call[c]
    BY <1>3, <2>1
  <2> QED BY <1>3, <2>2 DEF Truth
<1> QED BY <1>1, <1>2, <1>3 DEF Truth

\* So do the sets of frames and completions that are true.
LEMMA SetsStay ==
    ASSUME McpTypes, McpTypes', NEW s \in Servers,
           counter[s] <= counter'[s], \A c \in Callers : asks[c] <= asks'[c],
           \A c \in Callers : \/ call'[c] = call[c]
                              \/ call'[c].server # s
                              \/ call'[c].id > counter[s],
           answered \subseteq answered'
    PROVE  Sent(s) \subseteq Sent(s)' /\ Said(s) \subseteq Said(s)' /\ Held(s) \subseteq Held(s)'
<1>1. counter[s] \in Nat /\ counter'[s] \in Nat /\ \A c \in Callers : asks[c] \in Nat /\ asks'[c] \in Nat
  BY DEF McpTypes
<1>2. \A c \in Callers : call'[c].id \in Nat
  <2>1. call' \in [Callers -> Calls]
    BY DEF McpTypes
  <2> QED BY <2>1 DEF Calls
<1>3. \A id, request : Truth(s, id, request) => Truth(s, id, request)'
  BY <1>1, <1>2, TruthStays
<1> QED BY <1>3 DEF Sent, Said, Held


\* A step that makes no call and sends nothing but what is true keeps what is true.
LEMMA TruthKept ==
    ASSUME McpTypes, McpTypes', TruthInv,
           UNCHANGED <<counter, asks, call>>, answered \subseteq answered',
           \A s \in Servers : \A e \in pending'[s] : e \in pending[s],
           \A s \in Servers : stdin'[s] = stdin[s] \/ stdin'[s] \in Seq(Sent(s)),
           \A s \in Servers : heard'[s] \subseteq Sent(s),
           \A s \in Servers : frames'[s] = frames[s] \/ frames'[s] \in Seq(Said(s)) \/ frames'[s] \in Seq(Said(s)'),
           \A s \in Servers : hand'[s] \subseteq Held(s)
    PROVE  TruthInv'
<1>1. ASSUME NEW s \in Servers
      PROVE  Sent(s) \subseteq Sent(s)' /\ Said(s) \subseteq Said(s)' /\ Held(s) \subseteq Held(s)'
  <2>1. counter[s] <= counter'[s] /\ \A c \in Callers : asks[c] <= asks'[c]
    BY DEF McpTypes
  <2> QED BY <2>1, SetsStay
<1>2. ASSUME NEW s \in Servers PROVE stdin'[s] \in Seq(Sent(s)') /\ heard'[s] \subseteq Sent(s)'
  BY <1>1, SeqMonotonic DEF TruthInv
<1>3. ASSUME NEW s \in Servers PROVE frames'[s] \in Seq(Said(s)') /\ hand'[s] \subseteq Held(s)'
  BY <1>1, SeqMonotonic DEF TruthInv
<1> QED BY <1>2, <1>3 DEF TruthInv

\* A call's request is true from the moment it has an id.
LEMMA CallIsTrue ==
    ASSUME McpTypes, CallsDiffer, NEW c \in Callers, Active(c)
    PROVE  call[c].server \in Servers /\ Truth(call[c].server, call[c].id, call[c].request)
<1> DEFINE s == call[c].server
<1>1. s \in Servers
  BY DEF CallsDiffer
<1>2. call[c].id \in Nat /\ asks[c] \in Nat
  BY DEF McpTypes, Calls
<1>3. \E n \in Nat : call[c].request = <<c, n>> /\ 1 <= n /\ n <= asks[c]
  BY <1>1, <1>2, SMTT(30) DEF CallsDiffer
<1>4. \A x \in Callers : call[x].server = s /\ call[x].id = call[c].id => x = c
  BY <1>1 DEF CallsDiffer
<1>5. 1 <= call[c].id /\ call[c].id <= counter[s]
  BY <1>1 DEF CallsDiffer
<1> QED BY <1>1, <1>2, <1>3, <1>4, <1>5 DEF Truth

\* A new call has an id that nothing else bears.
LEMMA CallKeepsAnswers ==
    ASSUME PendingInv, McpTypes', AnswerInv, NEW c \in Callers, NEW s \in Servers, Calling(c, s)
    PROVE  AnswerInv'
<1>1. /\ UNCHANGED <<stdin, heard, frames, hand, answered>>
      /\ asks[c] < MaxAsks[c] /\ slot' = [slot EXCEPT ![c] = Nothing]
      /\ asks' = [asks EXCEPT ![c] = @ + 1] /\ counter' = [counter EXCEPT ![s] = @ + 1]
      /\ pending' = [pending EXCEPT ![s] = @ \cup {[id |-> counter[s] + 1, caller |-> c]}]
      /\ call' = [call EXCEPT ![c] = [server |-> s, id |-> counter[s] + 1, request |-> <<c, asks[c] + 1>>]]
      /\ phase' = [phase EXCEPT ![c] = "sending"]
  BY DEF Calling, Call, NewId
<1>2. /\ \A q \in Servers : counter[q] \in Nat /\ counter'[q] = IF q = s THEN counter[q] + 1 ELSE counter[q]
      /\ \A x \in Callers : asks[x] \in Nat /\ asks'[x] = IF x = c THEN asks[x] + 1 ELSE asks[x]
      /\ MaxAsks[c] \in Nat
  BY <1>1 DEF PendingInv, McpTypes
<1>3. /\ \A q \in Servers : counter[q] <= counter'[q]
      /\ \A x \in Callers : asks[x] <= asks'[x]
  <2>1. \A n \in Nat : n <= n /\ n <= n + 1
    OBVIOUS
  <2> QED BY <1>2, <2>1
<1>4. call'[c].server = s /\ call'[c].id = counter[s] + 1 /\ call'[c].request = <<c, asks[c] + 1>>
  BY <1>1 DEF PendingInv, McpTypes
<1>5. \A x \in Callers : x # c => call'[x] = call[x] /\ (Active(x)' <=> Active(x)) /\ slot'[x] = slot[x]
  BY <1>1 DEF PendingInv, McpTypes, Active
<1>6. slot'[c] = Nothing
  BY <1>1 DEF PendingInv, McpTypes
<1>7. ASSUME NEW q \in Servers
      PROVE  Sent(q) \subseteq Sent(q)' /\ Said(q) \subseteq Said(q)' /\ Held(q) \subseteq Held(q)'
  <2>1. counter[q] <= counter'[q] /\ \A x \in Callers : asks[x] <= asks'[x]
    BY <1>3
  <2>2. \A x \in Callers : call'[x] = call[x] \/ call'[x].server # q \/ call'[x].id > counter[q]
    BY <1>2, <1>4, <1>5
  <2> QED BY <1>1, <2>1, <2>2, SetsStay DEF PendingInv
<1>8. TruthInv'
  <2>1. ASSUME NEW q \in Servers PROVE stdin'[q] \in Seq(Sent(q)') /\ heard'[q] \subseteq Sent(q)'
    BY <1>1, <1>7, SeqMonotonic DEF AnswerInv, TruthInv
  <2>2. ASSUME NEW q \in Servers PROVE frames'[q] \in Seq(Said(q)') /\ hand'[q] \subseteq Held(q)'
    BY <1>1, <1>7, SeqMonotonic DEF AnswerInv, TruthInv
  <2>3. ASSUME NEW q \in Servers, NEW e \in pending'[q] PROVE 1 <= e.id
    <3>1. e \in pending[q] \/ e.id = counter[s] + 1
      BY <1>1 DEF PendingInv, McpTypes
    <3> QED BY <1>2, <3>1 DEF AnswerInv, TruthInv
  <2> QED BY <2>1, <2>2, <2>3 DEF TruthInv
<1>9. CallsDiffer'
  <2> SUFFICES ASSUME NEW x \in Callers
               PROVE  /\ asks'[x] <= MaxAsks[x]
                      /\ Active(x)' => call'[x].server \in Servers
                      /\ call'[x].server \in Servers =>
                          /\ 1 <= call'[x].id /\ call'[x].id <= counter'[call'[x].server]
                          /\ 1 <= asks'[x] /\ call'[x].request = <<x, asks'[x]>>
                          /\ \A y \in Callers : call'[y].server = call'[x].server /\ call'[y].id = call'[x].id => y = x
    BY DEF CallsDiffer
  <2>1. \A y \in Callers : call[y].id \in Nat
    <3>1. call \in [Callers -> Calls]
      BY DEF PendingInv, McpTypes
    <3> QED BY <3>1 DEF Calls
  <2>2. \A y \in Callers : call[y].server = s => call[y].id <= counter[s]
    BY DEF AnswerInv, CallsDiffer
  <2>3. CASE x = c
    <3>1. ASSUME NEW y \in Callers, y # c PROVE ~(call'[y].server = s /\ call'[y].id = counter[s] + 1)
      BY <1>2, <1>5, <2>1, <2>2, <3>1
    <3> QED BY <1>1, <1>2, <1>4, <2>3, <3>1
  <2>4. CASE x # c
    <3>1. call'[x] = call[x] /\ (Active(x)' <=> Active(x)) /\ asks'[x] = asks[x]
      BY <1>2, <1>5, <2>4
    <3>2. /\ asks[x] <= MaxAsks[x] /\ (Active(x) => call[x].server \in Servers)
          /\ call[x].server \in Servers =>
              /\ 1 <= call[x].id /\ call[x].id <= counter[call[x].server]
              /\ 1 <= asks[x] /\ call[x].request = <<x, asks[x]>>
              /\ \A y \in Callers : call[y].server = call[x].server /\ call[y].id = call[x].id => y = x
      BY DEF AnswerInv, CallsDiffer
    <3>3. ASSUME call[x].server \in Servers PROVE call[x].id <= counter'[call[x].server]
      <4> DEFINE q == call[x].server
      <4>1. counter[q] \in Nat /\ counter'[q] \in Nat
        BY <3>3 DEF PendingInv, McpTypes
      <4>2. call[x].id <= counter[q] /\ counter[q] <= counter'[q]
        BY <1>3, <3>2, <3>3
      <4> QED BY <2>1, <4>1, <4>2
    <3>4. call[x].server = s => call[x].id # counter[s] + 1
      BY <1>2, <2>1, <2>2
    <3>5. ASSUME NEW y \in Callers, call[x].server \in Servers,
                 call'[y].server = call[x].server, call'[y].id = call[x].id
          PROVE  y = x
      <4>1. y # c
        BY <1>4, <3>4, <3>5
      <4> QED BY <1>5, <3>2, <3>5, <4>1
    <3> QED BY <3>1, <3>2, <3>3, <3>5
  <2> QED BY <2>3, <2>4
<1>10. SlotIsOurs'
  <2> SUFFICES ASSUME NEW x \in Callers, Active(x)', slot'[x] # Nothing
               PROVE  \/ slot'[x] \in Errors
                      \/ slot'[x].request = call'[x].request /\ call'[x].request \in answered
    BY <1>1 DEF SlotIsOurs
  <2>1. x # c
    BY <1>6
  <2>2. call'[x] = call[x] /\ slot'[x] = slot[x] /\ Active(x)
    BY <1>5, <2>1
  <2> QED BY <2>2 DEF AnswerInv, SlotIsOurs
<1> QED BY <1>8, <1>9, <1>10 DEF AnswerInv


\* What a caller writes is its request.
LEMMA CallerKeepsAnswers ==
    ASSUME McpTypes, McpTypes', AnswerInv, NEW c \in Callers, CallerStep(c)
    PROVE  AnswerInv'
<1> USE DEF AnswerInv, serverVars, pumpVars, mapVars, callerVars
<1>1. UNCHANGED <<counter, asks, call, slot, answered, heard, frames, hand>>
  BY DEF CallerStep, Write, WriteFails, Receive, Timeout, Return
<1>2. \A x \in Callers : Active(x)' => Active(x)
  BY DEF McpTypes, CallerStep, Write, WriteFails, Receive, Timeout, Return, Active
<1>3. \A s \in Servers : \A e \in pending'[s] : e \in pending[s]
  <2>1. CASE WriteFails(c) \/ Timeout(c)
    <3>1. pending' = Without(call[c].server, call[c].id)
      BY <2>1 DEF WriteFails, Timeout
    <3> QED BY <3>1 DEF Without, McpTypes
  <2>2. CASE Write(c) \/ Receive(c)
    BY <2>2 DEF Write, Receive
  <2> QED BY <2>1, <2>2 DEF CallerStep
<1>4. \A s \in Servers : stdin'[s] = stdin[s] \/ stdin'[s] \in Seq(Sent(s))
  <2>1. CASE Write(c)
    <3> DEFINE q == call[c].server
               w == [id |-> call[c].id, request |-> call[c].request]
    <3>1. q \in Servers /\ Truth(q, call[c].id, call[c].request)
      BY <2>1, CallIsTrue DEF Write, Active
    <3>2. w \in Wire
      BY DEF McpTypes, Wire, Calls
    <3>3. w \in Sent(q)
      BY <3>1, <3>2 DEF Sent
    <3>4. stdin' = [stdin EXCEPT ![q] = Append(@, w)]
      BY <2>1 DEF Write
    <3> HIDE DEF q, w
    <3>5. Append(stdin[q], w) \in Seq(Sent(q))
      BY <3>1, <3>3, AppendProperties DEF TruthInv
    <3> QED BY <3>1, <3>4, <3>5 DEF McpTypes
  <2>2. CASE WriteFails(c) \/ Timeout(c) \/ Receive(c)
    BY <2>2 DEF WriteFails, Timeout, Receive
  <2> QED BY <2>1, <2>2 DEF CallerStep
<1>5. TruthInv'
  <2>1. \A s \in Servers : heard'[s] \subseteq Sent(s) /\ hand'[s] \subseteq Held(s) /\ frames'[s] = frames[s]
    BY <1>1 DEF TruthInv
  <2> QED BY <1>1, <1>3, <1>4, <2>1, TruthKept
<1>6. CallsDiffer'
  BY <1>1, <1>2 DEF CallsDiffer
<1>7. SlotIsOurs'
  BY <1>1, <1>2 DEF SlotIsOurs
<1> QED BY <1>5, <1>6, <1>7

\* The value that reaches a caller is about the call it waits for.
LEMMA CompleteIsOurs ==
    ASSUME McpTypes, AnswerInv, NEW s \in Servers, NEW d \in hand[s], Complete(s, d),
           UNCHANGED <<phase, call, answered>>
    PROVE  SlotIsOurs'
<1> SUFFICES ASSUME NEW c \in Callers, Active(c)
             PROVE  \/ slot'[c] = Nothing \/ slot'[c] \in Errors
                    \/ slot'[c].request = call[c].request /\ call[c].request \in answered
  BY DEF SlotIsOurs, Active
<1>1. CASE slot'[c] = slot[c]
  BY <1>1 DEF AnswerInv, SlotIsOurs
<1>2. CASE slot'[c] # slot[c]
  <2>1. slot'[c] = d.value /\ call[c].server = s /\ call[c].id = d.id
    BY <1>2 DEF Complete, McpTypes
  <2>2. d \in Held(s)
    BY DEF AnswerInv, TruthInv
  <2>3. d.value \in Errors \/ (Truth(s, d.id, d.value.request) /\ d.value.request \in answered)
    BY <2>2 DEF Held
  <2>4. Truth(s, d.id, d.value.request) => call[c].request = d.value.request
    BY <2>1 DEF Truth
  <2> QED BY <2>1, <2>3, <2>4
<1> QED BY <1>1, <1>2

\* The pump takes values from frames to callers as they are.
LEMMA PumpKeepsAnswers ==
    ASSUME McpTypes, McpTypes', AnswerInv, NEW s \in Servers, PumpStep(s)
    PROVE  AnswerInv'
<1> USE DEF AnswerInv, serverVars, pumpVars, mapVars, callerVars
<1>1. UNCHANGED <<counter, asks, call, phase, answered, heard, stdin>>
  BY DEF PumpStep, Pump, Give, PumpCloses, FailOne, PumpEnds
<1>2. ASSUME \A q \in Servers : \A e \in pending'[q] : e \in pending[q],
             \A q \in Servers : frames'[q] = frames[q] \/ frames'[q] \in Seq(Said(q)),
             \A q \in Servers : hand'[q] \subseteq Held(q),
             SlotIsOurs'
      PROVE  AnswerInv'
  <2>1. \A q \in Servers : heard'[q] \subseteq Sent(q)
    BY <1>1 DEF TruthInv
  <2>2. TruthInv'
    BY <1>1, <1>2, <2>1, TruthKept
  <2>3. CallsDiffer'
    BY <1>1 DEF CallsDiffer, Active
  <2> QED BY <1>2, <2>2, <2>3
<1>3. UNCHANGED slot => SlotIsOurs'
  BY <1>1 DEF SlotIsOurs, Active
<1>4. CASE Pump(s)
  <2> DEFINE f == Head(frames[s])
             hits == {e \in pending[s] : e.id = f.id}
  <2>1. /\ pending' = [pending EXCEPT ![s] = @ \ hits]
        /\ hand' = [hand EXCEPT ![s] = {[id |-> e.id, caller |-> e.caller, value |-> f.value] : e \in hits}]
        /\ frames' = [frames EXCEPT ![s] = Tail(@)] /\ frames[s] # << >> /\ f.kind = "line"
        /\ UNCHANGED slot
    BY <1>4 DEF Pump
  <2>2. f \in Said(s) /\ Tail(frames[s]) \in Seq(Said(s))
    BY <2>1, HeadTailProperties DEF TruthInv
  <2>3. ASSUME NEW e \in hits
        PROVE  [id |-> e.id, caller |-> e.caller, value |-> f.value] \in Held(s)
    <3>1. e.caller \in Callers /\ e.id \in Nat /\ 1 <= e.id /\ e.id = f.id
      BY EntryTypes DEF TruthInv
    <3>2. f \in Frames /\ f # Closed
      BY <2>1, <2>2 DEF Said, Closed
    <3>3. f.value \in Answers
      BY <3>2, FrameTypes
    <3>4. Truth(s, f.id, f.value.request) /\ f.value.request \in answered
      BY <2>2, <3>1, <3>2 DEF Said
    <3> DEFINE d == [id |-> e.id, caller |-> e.caller, value |-> f.value]
    <3>5. d \in Completions /\ d.id = f.id /\ d.value = f.value
      BY <3>1, <3>3 DEF Completions
    <3> HIDE DEF d, f
    <3> QED BY <3>4, <3>5 DEF Held, d
  <2> HIDE DEF f
  <2>4. \A q \in Servers : hand'[q] \subseteq Held(q)
    BY <2>1, <2>3 DEF McpTypes, TruthInv
  <2>5. \A q \in Servers : frames'[q] = frames[q] \/ frames'[q] \in Seq(Said(q))
    BY <2>1, <2>2 DEF McpTypes
  <2>6. \A q \in Servers : \A e \in pending'[q] : e \in pending[q]
    BY <2>1 DEF McpTypes
  <2> QED BY <1>2, <1>3, <2>1, <2>4, <2>5, <2>6
<1>5. CASE Give(s)
  <2>1. PICK d \in hand[s] : Complete(s, d) /\ hand' = [hand EXCEPT ![s] = @ \ {d}]
    BY <1>5 DEF Give
  <2>2. UNCHANGED <<pending, frames>>
    BY <1>5 DEF Give
  <2>3. \A q \in Servers : hand'[q] \subseteq Held(q)
    BY <2>1 DEF McpTypes, TruthInv
  <2> QED BY <1>1, <1>2, <2>1, <2>2, <2>3, CompleteIsOurs
<1>6. CASE PumpCloses(s)
  <2>1. /\ hand' = [hand EXCEPT ![s] = {[id |-> e.id, caller |-> e.caller, value |-> Err("closed")] : e \in pending[s]}]
        /\ UNCHANGED <<pending, frames, slot>>
    BY <1>6 DEF PumpCloses
  <2>2. ASSUME NEW e \in pending[s]
        PROVE  [id |-> e.id, caller |-> e.caller, value |-> Err("closed")] \in Held(s)
    BY EntryTypes, ErrTypes DEF Held, Completions
  <2>3. \A q \in Servers : hand'[q] \subseteq Held(q)
    BY <2>1, <2>2 DEF McpTypes, TruthInv
  <2> QED BY <1>2, <1>3, <2>1, <2>3
<1>7. CASE FailOne(s)
  <2>1. PICK d \in hand[s] :
            /\ IF \E e \in pending[s] : e.id = d.id THEN Complete(s, d) ELSE UNCHANGED slot
            /\ pending' = Without(s, d.id)
            /\ hand' = [hand EXCEPT ![s] = @ \ {d}]
    BY <1>7 DEF FailOne
  <2>2. UNCHANGED frames
    BY <1>7 DEF FailOne
  <2>3. \A q \in Servers : hand'[q] \subseteq Held(q)
    BY <2>1 DEF McpTypes, TruthInv
  <2>4. \A q \in Servers : \A e \in pending'[q] : e \in pending[q]
    BY <2>1 DEF Without, McpTypes
  <2>5. SlotIsOurs'
    BY <1>1, <1>3, <2>1, CompleteIsOurs
  <2> QED BY <1>2, <2>2, <2>3, <2>4, <2>5
<1>8. CASE PumpEnds(s)
  <2>1. UNCHANGED <<hand, pending, slot>> /\ frames' = [frames EXCEPT ![s] = << >>]
    BY <1>8 DEF PumpEnds
  <2>2. \A q \in Servers : frames'[q] = frames[q] \/ frames'[q] \in Seq(Said(q))
    BY <2>1, EmptySeq DEF McpTypes
  <2>3. \A q \in Servers : hand'[q] \subseteq Held(q)
    BY <2>1 DEF TruthInv
  <2> QED BY <1>2, <1>3, <2>1, <2>2, <2>3
<1> QED BY <1>4, <1>5, <1>6, <1>7, <1>8 DEF PumpStep


\* A server answers what it has read.
LEMMA ServerKeepsAnswers ==
    ASSUME NoOwnRequests, McpTypes, McpTypes', AnswerInv, NEW s \in Servers, ServerStep(s)
    PROVE  AnswerInv'
<1> USE DEF AnswerInv, pumpVars, mapVars, callerVars
<1>1. UNCHANGED <<counter, asks, call, phase, slot, pending, hand>> /\ answered \subseteq answered'
  BY DEF ServerStep, Read, Say, Stop
<1>2. ASSUME \A q \in Servers : stdin'[q] = stdin[q] \/ stdin'[q] \in Seq(Sent(q)),
             \A q \in Servers : heard'[q] \subseteq Sent(q),
             \A q \in Servers : frames'[q] = frames[q] \/ frames'[q] \in Seq(Said(q)')
      PROVE  AnswerInv'
  <2>1. \A q \in Servers : hand'[q] \subseteq Held(q)
    BY <1>1 DEF TruthInv
  <2>2. TruthInv'
    BY <1>1, <1>2, <2>1, TruthKept
  <2>3. CallsDiffer' /\ SlotIsOurs'
    BY <1>1 DEF CallsDiffer, SlotIsOurs, Active
  <2> QED BY <2>2, <2>3
<1>3. \A q \in Servers : heard[q] \subseteq Sent(q)
  BY DEF TruthInv
<1>4. ASSUME NEW f \in Said(s)', frames' = [frames EXCEPT ![s] = Append(@, f)]
      PROVE  \A q \in Servers : frames'[q] = frames[q] \/ frames'[q] \in Seq(Said(q)')
  <2>1. Said(s) \subseteq Said(s)'
    <3>1. counter[s] <= counter'[s] /\ \A c \in Callers : asks[c] <= asks'[c]
      BY <1>1 DEF McpTypes
    <3> QED BY <1>1, <3>1, SetsStay
  <2>2. frames[s] \in Seq(Said(s)')
    BY <2>1, SeqMonotonic DEF TruthInv
  <2>3. Append(frames[s], f) \in Seq(Said(s)')
    BY <1>4, <2>2, AppendProperties
  <2> QED BY <1>4, <2>3 DEF McpTypes
<1>5. CASE Read(s)
  <2>1. Head(stdin[s]) \in Sent(s) /\ Tail(stdin[s]) \in Seq(Sent(s))
    BY <1>5, HeadTailProperties DEF Read, TruthInv
  <2>2. /\ heard' = [heard EXCEPT ![s] = @ \cup {Head(stdin[s])}]
        /\ stdin' = [stdin EXCEPT ![s] = Tail(@)] /\ UNCHANGED frames
    BY <1>5 DEF Read
  <2> QED BY <1>2, <1>3, <2>1, <2>2 DEF McpTypes
<1>6. CASE Say(s)
  <2>1. UNCHANGED <<stdin, heard>>
    BY <1>6 DEF Say
  <2>2. CASE \E r \in heard[s], kind \in {"result", "rpc"} :
                /\ frames' = [frames EXCEPT ![s] = Append(@, Line(r.id, kind, r.request))]
                /\ answered' = answered \cup {r.request}
    <3>1. PICK r \in heard[s], kind \in {"result", "rpc"} :
                /\ frames' = [frames EXCEPT ![s] = Append(@, Line(r.id, kind, r.request))]
                /\ answered' = answered \cup {r.request}
      BY <2>2
    <3>2. r \in Wire /\ Truth(s, r.id, r.request)
      BY <1>3 DEF Sent
    <3>3. Line(r.id, kind, r.request) \in Frames
      BY <3>2 DEF Wire, Line, Frames, Answers
    <3>4. Truth(s, r.id, r.request)'
      BY <1>1, <3>2 DEF Truth
    <3>5. Line(r.id, kind, r.request).id = r.id /\ Line(r.id, kind, r.request).value.request = r.request
      BY DEF Line
    <3>6. Line(r.id, kind, r.request) \in Said(s)'
      BY <3>1, <3>3, <3>4, <3>5 DEF Said
    <3> QED BY <1>2, <1>3, <1>4, <2>1, <3>1, <3>6
  <2>3. CASE \E id \in OwnIds : frames' = [frames EXCEPT ![s] = Append(@, Line(id, "result", NoRequest))]
    <3>1. frames' = [frames EXCEPT ![s] = Append(@, Line(0, "result", NoRequest))]
      BY <2>3 DEF NoOwnRequests
    <3>2. Line(0, "result", NoRequest) \in Frames /\ Line(0, "result", NoRequest).id = 0
      BY DEF Line, Frames, Answers, NoRequest, Asked
    <3>3. Line(0, "result", NoRequest) \in Said(s)'
      BY <3>2 DEF Said
    <3> QED BY <1>2, <1>3, <1>4, <2>1, <3>1, <3>3
  <2> QED BY <1>6, <2>2, <2>3 DEF Say
<1>7. ASSUME NEW how \in {"mute", "dead"}, Stop(s, how) PROVE AnswerInv'
  <2>1. UNCHANGED <<stdin, heard>> /\ frames' = [frames EXCEPT ![s] = Append(@, Closed)]
    BY <1>7 DEF Stop
  <2>2. Closed \in Said(s)'
    BY DEF Said, Frames, Closed
  <2> QED BY <1>2, <1>3, <1>4, <2>1, <2>2
<1> QED BY <1>5, <1>6, <1>7 DEF ServerStep

\* Every step keeps what is true.
LEMMA AnswersKept ==
    ASSUME NoOwnRequests, PendingInv, AnswerInv, BootTypes, [Next]_vars
    PROVE  AnswerInv'
<1>1. McpTypes /\ McpTypes'
  BY TypesKept DEF PendingInv
<1>2. CASE McpStep
  BY <1>1, <1>2, CallerKeepsAnswers, PumpKeepsAnswers, ServerKeepsAnswers DEF McpStep
<1>3. CASE \E c \in Callers, s \in Servers : Calling(c, s)
  BY <1>1, <1>3, CallKeepsAnswers
<1>4. CASE UNCHANGED mcpVars
  <2>1. UNCHANGED <<stdin, heard, answered, frames, hand, pending, counter, phase, call, slot, asks>>
    BY <1>4 DEF mcpVars, serverVars, pumpVars, mapVars, callerVars
  <2>2. \A s, id, request : Truth(s, id, request)' <=> Truth(s, id, request)
    BY <2>1 DEF Truth
  <2>3. \A s : Sent(s)' = Sent(s) /\ Said(s)' = Said(s) /\ Held(s)' = Held(s)
    BY <2>1, <2>2 DEF Sent, Said, Held
  <2>4. TruthInv'
    BY <2>1, <2>3 DEF AnswerInv, TruthInv
  <2>5. CallsDiffer' /\ SlotIsOurs'
    BY <2>1 DEF AnswerInv, CallsDiffer, SlotIsOurs, Active
  <2> QED BY <2>4, <2>5 DEF AnswerInv
<1> QED BY <1>2, <1>3, <1>4, StepIsCall

\* At first nothing has been said.
LEMMA AnswersAtFirst ==
    ASSUME Init
    PROVE  AnswerInv
<1> USE DEF Init, McpInit
<1>1. TruthInv
  BY EmptySeq DEF TruthInv
<1>2. CallsDiffer
  BY DEF CallsDiffer, Active, NoCall
<1>3. SlotIsOurs
  BY DEF SlotIsOurs
<1> QED BY <1>1, <1>2, <1>3 DEF AnswerInv

-----------------------------------------------------------------------------
(* The client implements RequestReply *)

\* A call that is under way is asked, one that has returned is not.
LEMMA Outcomes ==
    ASSUME NEW c \in Callers
    PROVE  /\ Active(c) => Outcome(c) = "asked"
           /\ phase[c] = "returned" /\ result[c].kind = "error" => Outcome(c) = "error"
           /\ phase[c] = "returned" /\ result[c].kind # "error" /\ result[c].request = call[c].request
                => Outcome(c) = "answer"
           /\ ~Active(c) => Outcome(c) # "asked"
BY DEF Outcome, Active

\* A call is the Ask of RequestReply,
LEMMA CallIsAsk ==
    ASSUME PendingInv, NEW c \in Callers, NEW s \in Servers, Calling(c, s)
    PROVE  Remote!Ask(c)
<1>1. /\ phase[c] \in {"idle", "returned"} /\ asks[c] < MaxAsks[c]
      /\ phase' = [phase EXCEPT ![c] = "sending"] /\ asks' = [asks EXCEPT ![c] = @ + 1]
      /\ \E v : call' = [call EXCEPT ![c] = v]
      /\ UNCHANGED <<result, answered>>
  BY DEF Calling, Call
<1>2. Outcome(c) # "asked"
  BY <1>1, Outcomes DEF Active
<1>3. Outcome(c)' = "asked"
  BY <1>1 DEF Outcome, PendingInv, McpTypes
<1>4. ASSUME NEW x \in Callers, x # c PROVE Outcome(x)' = Outcome(x)
  <2>1. phase'[x] = phase[x] /\ call'[x] = call[x] /\ result'[x] = result[x]
    BY <1>1, <1>4 DEF PendingInv, McpTypes
  <2> QED BY <2>1 DEF Outcome
<1>5. [x \in Callers |-> Outcome(x)]' = [[x \in Callers |-> Outcome(x)] EXCEPT ![c] = "asked"]
  BY <1>3, <1>4
<1> QED BY <1>1, <1>2, <1>5 DEF Remote!Ask

\* its end a Return,
LEMMA CallerStepIsReturn ==
    ASSUME PendingInv, AnswerInv, NEW c \in Callers, CallerStep(c)
    PROVE  [Remote!Return(c)]_(Remote!rrVars)
<1>1. UNCHANGED <<asks, call, answered>>
  BY DEF CallerStep, Write, WriteFails, Receive, Timeout, Return, serverVars, callerVars
<1>2. Active(c) /\ Outcome(c) = "asked"
  BY Outcomes DEF CallerStep, Write, WriteFails, Receive, Timeout, Active
<1>3. CASE Write(c)
  <2>1. UNCHANGED result /\ phase' = [phase EXCEPT ![c] = "waiting"]
    BY <1>3 DEF Write
  <2>2. \A x \in Callers : Outcome(x)' = Outcome(x)
    <3> SUFFICES ASSUME NEW x \in Callers PROVE Outcome(x)' = Outcome(x)
      OBVIOUS
    <3>1. CASE x = c
      BY <1>2, <2>1, <3>1 DEF Outcome, PendingInv, McpTypes
    <3>2. CASE x # c
      BY <1>1, <2>1, <3>2 DEF Outcome, PendingInv, McpTypes
    <3> QED BY <3>1, <3>2
  <2> QED BY <1>1, <2>2 DEF Remote!rrVars
<1>4. ASSUME NEW v, Return(c, v), v.kind = "error" \/ (v.request = call[c].request /\ call[c].request \in answered)
      PROVE  Remote!Return(c)
  <2>1. phase' = [phase EXCEPT ![c] = "returned"] /\ result' = [result EXCEPT ![c] = v]
    BY <1>4 DEF Return
  <2>2. phase'[c] = "returned" /\ result'[c] = v /\ call'[c] = call[c]
    BY <1>1, <2>1 DEF PendingInv, McpTypes
  <2>3. ASSUME NEW x \in Callers, x # c PROVE Outcome(x)' = Outcome(x)
    <3>1. phase'[x] = phase[x] /\ call'[x] = call[x] /\ result'[x] = result[x]
      BY <1>1, <2>1, <2>3 DEF PendingInv, McpTypes
    <3> QED BY <3>1 DEF Outcome
  <2>4. CASE v.kind = "error"
    <3>1. Outcome(c)' = "error"
      BY <2>2, <2>4 DEF Outcome
    <3>2. [x \in Callers |-> Outcome(x)]' = [[x \in Callers |-> Outcome(x)] EXCEPT ![c] = "error"]
      BY <2>3, <3>1
    <3> QED BY <1>1, <1>2, <3>2 DEF Remote!Return
  <2>5. CASE v.kind # "error"
    <3>1. Outcome(c)' = "answer"
      BY <1>4, <2>2, <2>5 DEF Outcome
    <3>2. [x \in Callers |-> Outcome(x)]' = [[x \in Callers |-> Outcome(x)] EXCEPT ![c] = "answer"]
      BY <2>3, <3>1
    <3>3. <<c, asks[c]>> \in answered
      BY <1>2, <1>4, <2>5 DEF AnswerInv, CallsDiffer
    <3> QED BY <1>1, <1>2, <3>2, <3>3 DEF Remote!Return
  <2> QED BY <2>4, <2>5
<1>5. CASE WriteFails(c) \/ Timeout(c)
  <2>1. \E r \in {"io", "timeout"} : Return(c, Err(r))
    BY <1>5 DEF WriteFails, Timeout
  <2>2. \A r : Err(r).kind = "error"
    BY DEF Err
  <2> QED BY <1>4, <2>1, <2>2
<1>6. CASE Receive(c)
  <2>1. Return(c, slot[c]) /\ slot[c] # Nothing
    BY <1>6 DEF Receive
  <2>2. slot[c].kind = "error" \/ (slot[c].request = call[c].request /\ call[c].request \in answered)
    BY <1>2, <2>1 DEF AnswerInv, SlotIsOurs, Errors
  <2> QED BY <1>4, <2>1, <2>2
<1> QED BY <1>3, <1>5, <1>6 DEF CallerStep

\* and what a server says an Answer.
LEMMA SayIsAnswer ==
    ASSUME PendingInv, AnswerInv, NEW s \in Servers, Say(s)
    PROVE  [Remote!Next]_(Remote!rrVars)
<1>1. UNCHANGED <<asks, phase, call, result>>
  BY DEF Say, callerVars
<1>2. UNCHANGED [x \in Callers |-> Outcome(x)]
  BY <1>1 DEF Outcome
<1>3. CASE UNCHANGED answered
  BY <1>1, <1>2, <1>3 DEF Remote!rrVars
<1>4. CASE \E r \in heard[s] : answered' = answered \cup {r.request}
  <2>1. PICK r \in heard[s] : answered' = answered \cup {r.request}
    BY <1>4
  <2>2. Truth(s, r.id, r.request)
    BY DEF AnswerInv, TruthInv, Sent
  <2>3. PICK c \in Callers, n \in Nat : r.request = <<c, n>> /\ 1 <= n /\ n <= asks[c]
    BY <2>2 DEF Truth
  <2>4. asks[c] \in Nat /\ MaxAsks[c] \in Nat /\ asks[c] <= MaxAsks[c]
    BY DEF PendingInv, McpTypes, AnswerInv, CallsDiffer
  <2>5. n \in 1 .. asks[c] /\ n \in 1 .. MaxAsks[c]
    BY <2>3, <2>4
  <2>6. Remote!Answer(c, n)
    BY <1>1, <1>2, <2>1, <2>3, <2>5 DEF Remote!Answer
  <2> QED BY <2>5, <2>6 DEF Remote!Next
<1> QED BY <1>3, <1>4 DEF Say

\* Every step is one of those, or changes nothing that RequestReply speaks of.
LEMMA StepImplements ==
    ASSUME PendingInv, AnswerInv, BootTypes, [Next]_vars
    PROVE  [Remote!Next]_(Remote!rrVars)
<1>1. ASSUME UNCHANGED <<asks, answered, phase, call, result>> PROVE UNCHANGED Remote!rrVars
  BY <1>1 DEF Remote!rrVars, Outcome
<1>2. CASE McpStep
  <2>1. ASSUME NEW c \in Callers, CallerStep(c) PROVE [Remote!Next]_(Remote!rrVars)
    BY <2>1, CallerStepIsReturn DEF Remote!Next
  <2>2. ASSUME NEW s \in Servers, PumpStep(s) PROVE [Remote!Next]_(Remote!rrVars)
    BY <1>1, <2>2 DEF PumpStep, Pump, Give, PumpCloses, FailOne, PumpEnds, serverVars, callerVars
  <2>3. ASSUME NEW s \in Servers, ServerStep(s) PROVE [Remote!Next]_(Remote!rrVars)
    <3>1. CASE Say(s)
      BY <3>1, SayIsAnswer
    <3>2. CASE ~Say(s)
      BY <1>1, <2>3, <3>2 DEF ServerStep, Read, Stop, callerVars
    <3> QED BY <3>1, <3>2
  <2> QED BY <1>2, <2>1, <2>2, <2>3 DEF McpStep
<1>3. CASE \E c \in Callers, s \in Servers : Calling(c, s)
  BY <1>3, CallIsAsk DEF Remote!Next
<1>4. CASE UNCHANGED mcpVars
  BY <1>1, <1>4 DEF mcpVars, serverVars, callerVars
<1> QED BY <1>2, <1>3, <1>4, StepIsCall

\* A caller that is answered is answered about the request it made, by an answer
\* given after it was made, whatever arrives late, twice or out of order, as long
\* as servers make no requests of their own (call_raw, pump).
THEOREM ClientImplementsRequests ==
    ASSUME NoOwnRequests
    PROVE  Spec => AnswersAreOnes
<1>1. Init => PendingInv /\ AnswerInv /\ BootTypes
  BY PendingAtFirst, AnswersAtFirst
<1>2. PendingInv /\ AnswerInv /\ BootTypes /\ [Next]_vars => (PendingInv /\ AnswerInv /\ BootTypes)'
  BY PendingKept, AnswersKept, BootKeeps
<1>3. Init => Remote!Init
  BY DEF Init, McpInit, Remote!Init, Outcome
<1>4. PendingInv /\ AnswerInv /\ BootTypes /\ [Next]_vars => [Remote!Next]_(Remote!rrVars)
  BY StepImplements
<1> QED BY <1>1, <1>2, <1>3, <1>4, PTL DEF Spec, AnswersAreOnes, Remote!Spec

-----------------------------------------------------------------------------
(* What tasks call *)

\* A call of a task's, once it has been made.
Made(t) == doing[t] \in [state : TaskStates, request : Requests]

LEMMA DoingIsMade ==
    ASSUME doing \in [Tasks -> Doings], NEW t \in Tasks, doing[t].state # "todo"
    PROVE  Made(t)
<1>1. doing[t] \in [state : {"todo"}] \/ doing[t] \in [state : TaskStates, request : Requests]
  BY DEF Doings
<1> QED BY <1>1 DEF Made

\* Its state changes, and nothing else of it.
LEMMA StateChanges ==
    ASSUME doing \in [Tasks -> Doings], NEW t \in Tasks, Made(t), NEW state \in TaskStates, Now(t, state)
    PROVE  /\ doing' \in [Tasks -> Doings]
           /\ doing'[t].state = state /\ doing'[t].request = doing[t].request
           /\ \A u \in Tasks : u # t => doing'[u] = doing[u]
<1> DEFINE new == [doing[t] EXCEPT !.state = state]
<1>1. new \in [state : TaskStates, request : Requests] /\ new.state = state /\ new.request = doing[t].request
  BY DEF Made
<1>2. doing' = [doing EXCEPT ![t] = new]
  BY DEF Now
<1> HIDE DEF new
<1>3. new \in Doings
  BY <1>1 DEF Doings
<1> QED BY <1>1, <1>2, <1>3

\* A new call begins in the state that the ruling puts it in.
LEMMA AskRules ==
    ASSUME doing \in [Tasks -> Doings], NEW t \in Tasks, NEW r \in Requests, Ask(t, r)
    PROVE  /\ doing' \in [Tasks -> Doings]
           /\ doing'[t].request = r /\ doing'[t].state \in {"denied", "approval", "cleared"}
           /\ doing'[t].state # "denied" => Evaluate(Rules, r.tool, r.input, Root) # "deny"
           /\ \A u \in Tasks : u # t => doing'[u] = doing[u]
<1> DEFINE ruling == Evaluate(Rules, r.tool, r.input, Root)
           state == CASE ruling = "deny" -> "denied"
                      [] ruling = "require_approval" -> "approval"
                      [] OTHER -> "cleared"
           new == [state |-> state, request |-> r]
<1>1. doing' = [doing EXCEPT ![t] = new]
  BY DEF Ask
<1> HIDE DEF ruling
<1>2. /\ state \in {"denied", "approval", "cleared"}
      /\ state # "denied" => ruling # "deny"
  OBVIOUS
<1> HIDE DEF state
<1>3. new \in [state : TaskStates, request : Requests] /\ new.state = state /\ new.request = r
  BY <1>2 DEF TaskStates
<1> HIDE DEF new
<1>4. new \in Doings
  BY <1>3 DEF Doings
<1> QED BY <1>1, <1>2, <1>3, <1>4 DEF ruling

\* What has started was enabled, and its tools are those its server announced.
StatusInv ==
    /\ step \in {"initialize", "tools/list"} => Entry.enabled
    /\ \A i \in DOMAIN status : status[i].kind = "started" =>
          Config[i].enabled /\ status[i].tools \subseteq Announced[Config[i].server]

\* What is cleared was not denied; what is called is the tool of an entry there is.
ClearedInv ==
    \A t \in Tasks :
        /\ Active(t) => doing[t].state = "calling"
        /\ doing[t].state \in {"approval", "cleared", "calling"} =>
              /\ step = "done"
              /\ Evaluate(Rules, doing[t].request.tool, doing[t].request.input, Root) # "deny"
        /\ doing[t].state = "calling" =>
              \E i \in DOMAIN status : Owner(i, doing[t].request.tool) /\ Config[i].server = call[t].server

DoingInv == doing \in [Tasks -> Doings] /\ StatusInv /\ ClearedInv

\* The report on an entry comes after the others.
LEMMA ReportAppends ==
    ASSUME BootTypes, MoreEntries, NEW what \in Reports, Report(what), StatusInv,
           what.kind = "started" => Entry.enabled /\ what.tools \subseteq Announced[Entry.server]
    PROVE  StatusInv'
<1> DEFINE n == Len(status)
<1>1. /\ status' = Append(status, what) /\ step' = "entry"
      /\ status \in Seq(Reports)
  BY DEF Report, BootTypes
<1>2. n \in Nat /\ DOMAIN status = 1 .. n
  BY <1>1, LenProperties
<1>3. /\ status' \in Seq(Reports) /\ Len(status') = n + 1 /\ status'[n + 1] = what
      /\ \A i \in 1 .. n : status'[i] = status[i]
  BY <1>1, AppendProperties
<1>4. DOMAIN status' = 1 .. n + 1
  BY <1>3, LenProperties
<1>5. Entry = Config[n + 1]
  BY DEF Entry
<1> HIDE DEF n
<1>6. ASSUME NEW i \in DOMAIN status', status'[i].kind = "started"
      PROVE  Config[i].enabled /\ status'[i].tools \subseteq Announced[Config[i].server]
  <2>1. CASE i = n + 1
    BY <1>3, <1>5, <1>6, <2>1
  <2>2. CASE i # n + 1
    <3>1. i \in 1 .. n
      BY <1>2, <1>4, <2>2
    <3> QED BY <1>2, <1>3, <1>6, <3>1 DEF StatusInv
  <2> QED BY <2>1, <2>2
<1> QED BY <1>1, <1>6 DEF StatusInv

\* Boot keeps it.
LEMMA BootKeepsStatus ==
    ASSUME BootTypes, StatusInv, BootStep
    PROVE  StatusInv'
<1>1. CASE BootSkips \/ BootSpawnFails \/ BootFails
  <2>1. PICK what \in {[kind |-> "disabled"], [kind |-> "failed"]} : Report(what)
    BY <1>1 DEF BootSkips, BootSpawnFails, BootFails
  <2>2. what \in Reports /\ what.kind # "started" /\ MoreEntries
    BY <1>1 DEF Reports, BootSkips, BootSpawnFails, BootFails, BootTypes
  <2> QED BY <2>1, <2>2, ReportAppends
<1>2. CASE BootStarts
  <2>1. MoreEntries /\ Entry.enabled
    BY <1>2 DEF BootStarts, BootTypes, StatusInv
  <2>2. Entry.server \in Servers
    BY <2>1, BootsServer
  <2>3. PICK tools \in {Announced[Entry.server], {}} : Report(Started(tools))
    BY <1>2 DEF BootStarts
  <2>4. /\ Started(tools) \in Reports /\ Started(tools).tools = tools
        /\ tools \subseteq Announced[Entry.server]
    BY <2>2 DEF Started, Reports
  <2> QED BY <2>1, <2>3, <2>4, ReportAppends
<1>3. CASE BootSpawns \/ BootAsksForTools \/ BootEnds
  <2>1. status' = status /\ (step' = "done" \/ Entry.enabled)
    BY <1>3 DEF BootSpawns, BootAsksForTools, BootEnds, StatusInv
  <2> QED BY <2>1 DEF StatusInv, Entry
<1> QED BY <1>1, <1>2, <1>3 DEF BootStep

\* The client goes on with calls there are, and makes none.
LEMMA ClientMakesNoCalls ==
    ASSUME McpTypes, McpStep
    PROVE  call' = call /\ \A c \in Callers : Active(c)' => Active(c)
<1>1. ASSUME NEW c \in Callers, CallerStep(c)
      PROVE  call' = call /\ phase[c] \in {"sending", "waiting"} /\ \E p : phase' = [phase EXCEPT ![c] = p]
  BY <1>1 DEF CallerStep, Write, WriteFails, Receive, Timeout, Return
<1>2. ASSUME NEW s \in Servers, PumpStep(s) \/ ServerStep(s)
      PROVE  call' = call /\ phase' = phase
  BY <1>2 DEF PumpStep, ServerStep, Pump, Give, PumpCloses, FailOne, PumpEnds, Read, Say, Stop, callerVars
<1> QED BY <1>1, <1>2 DEF McpStep, McpTypes, Active

\* A task that has its call in its state, with everyone else's as it was.
LEMMA OthersStay ==
    ASSUME ClearedInv, NEW t \in Tasks, UNCHANGED <<step, status>>,
           \A u \in Tasks : u # t => doing'[u] = doing[u] /\ call'[u] = call[u] /\ (Active(u)' <=> Active(u)),
           /\ Active(t)' => doing'[t].state = "calling"
           /\ doing'[t].state \in {"approval", "cleared", "calling"} =>
                 /\ step = "done"
                 /\ Evaluate(Rules, doing'[t].request.tool, doing'[t].request.input, Root) # "deny"
           /\ doing'[t].state = "calling" =>
                 \E i \in DOMAIN status : Owner(i, doing'[t].request.tool) /\ Config[i].server = call'[t].server
    PROVE  ClearedInv'
<1> DEFINE Good(u) ==
        /\ Active(u) => doing[u].state = "calling"
        /\ doing[u].state \in {"approval", "cleared", "calling"} =>
              /\ step = "done"
              /\ Evaluate(Rules, doing[u].request.tool, doing[u].request.input, Root) # "deny"
        /\ doing[u].state = "calling" =>
              \E i \in DOMAIN status : Owner(i, doing[u].request.tool) /\ Config[i].server = call[u].server
<1>1. \A i, name : Owner(i, name)' <=> Owner(i, name)
  BY DEF Owner, Owners
<1> HIDE DEF Active
<1>2. Good(t)'
  BY <1>1
<1>3. ASSUME NEW u \in Tasks, u # t PROVE Good(u)'
  <2>1. Good(u)
    BY DEF ClearedInv
  <2>2. doing'[u] = doing[u] /\ call'[u] = call[u] /\ (Active(u)' <=> Active(u)) /\ UNCHANGED <<step, status>>
    BY <1>3
  <2> QED BY <1>1, <2>1, <2>2
<1> QED BY <1>2, <1>3 DEF ClearedInv

\* A task's own steps.
LEMMA TaskKeeps ==
    ASSUME McpTypes, BootTypes, DoingInv, NEW t \in Tasks,
           (\E r \in Requests : Ask(t, r)) \/ Approve(t) \/ Invoke(t) \/ Finish(t)
    PROVE  DoingInv'
<1> USE DEF DoingInv
<1>0. Tasks \subseteq Callers
  BY CallersAssumption DEF BootAndTasks
<1>1. UNCHANGED <<step, status>>
  BY DEF Ask, Approve, Invoke, Finish
<1>2. StatusInv'
  BY <1>1 DEF StatusInv, Entry
<1>3. ASSUME mcpVars' = mcpVars
      PROVE  call' = call /\ phase' = phase /\ \A u \in Tasks : Active(u)' <=> Active(u)
  BY <1>3 DEF mcpVars, callerVars, Active
<1>4. ASSUME NEW r \in Requests, Ask(t, r) PROVE DoingInv'
  <2>1. /\ doing' \in [Tasks -> Doings]
        /\ doing'[t].request = r /\ doing'[t].state \in {"denied", "approval", "cleared"}
        /\ doing'[t].state # "denied" => Evaluate(Rules, r.tool, r.input, Root) # "deny"
        /\ \A u \in Tasks : u # t => doing'[u] = doing[u]
    BY <1>4, AskRules
  <2>2. step = "done" /\ doing[t].state # "calling" /\ mcpVars' = mcpVars
    BY <1>4 DEF Ask
  <2>3. ~Active(t)
    BY <2>2 DEF ClearedInv
  <2> HIDE DEF Active
  <2> QED BY <1>1, <1>2, <1>3, <2>1, <2>2, <2>3, OthersStay
<1>5. CASE Approve(t)
  <2>1. doing[t].state = "approval" /\ Now(t, "cleared") /\ mcpVars' = mcpVars
    BY <1>5 DEF Approve
  <2>2. Made(t)
    BY <2>1, DoingIsMade
  <2>3. /\ doing' \in [Tasks -> Doings]
        /\ doing'[t].state = "cleared" /\ doing'[t].request = doing[t].request
        /\ \A u \in Tasks : u # t => doing'[u] = doing[u]
    BY <2>1, <2>2, StateChanges DEF TaskStates
  <2>4. /\ ~Active(t) /\ step = "done"
        /\ Evaluate(Rules, doing[t].request.tool, doing[t].request.input, Root) # "deny"
    BY <2>1 DEF ClearedInv
  <2> HIDE DEF Active
  <2> QED BY <1>1, <1>2, <1>3, <2>1, <2>3, <2>4, OthersStay
<1>6. CASE Invoke(t)
  <2>1. doing[t].state = "cleared"
    BY <1>6 DEF Invoke
  <2>2. Made(t)
    BY <2>1, DoingIsMade
  <2>3. /\ ~Active(t) /\ step = "done"
        /\ Evaluate(Rules, doing[t].request.tool, doing[t].request.input, Root) # "deny"
    BY <2>1 DEF ClearedInv
  <2>4. CASE mcpVars' = mcpVars /\ \E state \in {"ok", "failed"} : Now(t, state)
    <3>1. PICK state \in {"ok", "failed"} : Now(t, state)
      BY <2>4
    <3>2. /\ doing' \in [Tasks -> Doings] /\ doing'[t].state = state
          /\ \A u \in Tasks : u # t => doing'[u] = doing[u]
      BY <2>2, <3>1, StateChanges DEF TaskStates
    <3> HIDE DEF Active
    <3> QED BY <1>1, <1>2, <1>3, <2>3, <2>4, <3>2, OthersStay
  <2>5. CASE /\ \E i \in DOMAIN status : Owner(i, doing[t].request.tool) /\ Call(t, Config[i].server)
             /\ Now(t, "calling")
    <3>1. PICK i \in DOMAIN status : Owner(i, doing[t].request.tool) /\ Call(t, Config[i].server)
      BY <2>5
    <3>2. /\ doing' \in [Tasks -> Doings]
          /\ doing'[t].state = "calling" /\ doing'[t].request = doing[t].request
          /\ \A u \in Tasks : u # t => doing'[u] = doing[u]
      BY <2>2, <2>5, StateChanges DEF TaskStates
    <3>3. /\ call'[t].server = Config[i].server
          /\ \A u \in Tasks : u # t => call'[u] = call[u] /\ (Active(u)' <=> Active(u))
      BY <1>0, <3>1 DEF Call, McpTypes, Active
    <3> HIDE DEF Active
    <3> QED BY <1>1, <1>2, <2>3, <3>1, <3>2, <3>3, OthersStay
  <2> QED BY <1>6, <2>4, <2>5 DEF Invoke
<1>7. CASE Finish(t)
  <2>1. /\ doing[t].state = "calling" /\ phase[t] = "returned" /\ mcpVars' = mcpVars
        /\ \E state \in {"ok", "failed"} : Now(t, state)
    BY <1>7 DEF Finish
  <2>2. PICK state \in {"ok", "failed"} : Now(t, state)
    BY <2>1
  <2>3. Made(t)
    BY <2>1, DoingIsMade
  <2>4. /\ doing' \in [Tasks -> Doings] /\ doing'[t].state = state
        /\ \A u \in Tasks : u # t => doing'[u] = doing[u]
    BY <2>2, <2>3, StateChanges DEF TaskStates
  <2>5. ~Active(t)
    BY <2>1 DEF Active
  <2> HIDE DEF Active
  <2> QED BY <1>1, <1>2, <1>3, <2>1, <2>4, <2>5, OthersStay
<1> QED BY <1>4, <1>5, <1>6, <1>7

\* Boot's steps come before any task has a call.
LEMMA BootKeepsDoing ==
    ASSUME McpTypes, BootTypes, DoingInv, BootStep
    PROVE  DoingInv'
<1> USE DEF DoingInv
<1>1. StatusInv'
  BY BootKeepsStatus
<1>2. doing' = doing /\ step # "done"
  BY DEF BootStep, BootSkips, BootSpawnFails, BootSpawns, BootFails, BootAsksForTools, BootStarts, BootEnds
<1>3. \A t \in Tasks : Active(t)' <=> Active(t)
  <2>1. phase' = phase \/ \E s : Call(Boot, s)
    BY DEF BootStep, BootSkips, BootSpawnFails, BootSpawns, BootFails, BootAsksForTools, BootStarts, BootEnds,
           mcpVars, callerVars
  <2>2. \A t \in Tasks : t # Boot /\ t \in Callers
    BY CallersAssumption DEF BootAndTasks
  <2>3. \A t \in Tasks : phase'[t] = phase[t]
    BY <2>1, <2>2 DEF Call, McpTypes
  <2> QED BY <2>3 DEF Active
<1>4. \A t \in Tasks : doing[t].state \notin {"approval", "cleared", "calling"} /\ ~Active(t)
  BY <1>2 DEF ClearedInv
<1> HIDE DEF Active
<1>5. ClearedInv'
  BY <1>2, <1>3, <1>4 DEF ClearedInv
<1> QED BY <1>1, <1>2, <1>5

\* The types and what tasks do, together.
TaskInv == McpTypes /\ BootTypes /\ DoingInv

LEMMA TaskInvariant == Spec => []TaskInv
<1>1. Init => TaskInv
  <2> SUFFICES ASSUME Init PROVE TaskInv
    OBVIOUS
  <2>1. McpTypes /\ BootTypes
    BY PendingAtFirst DEF PendingInv
  <2>2. doing \in [Tasks -> Doings] /\ \A t \in Tasks : doing[t].state = "todo"
    BY DEF Init, Doings
  <2>3. StatusInv
    BY DEF Init, StatusInv
  <2>4. \A t \in Tasks : ~Active(t)
    BY CallersAssumption DEF Init, McpInit, Active, BootAndTasks
  <2> HIDE DEF Active
  <2>5. ClearedInv
    BY <2>2, <2>4 DEF ClearedInv
  <2> QED BY <2>1, <2>2, <2>3, <2>5 DEF TaskInv, DoingInv
<1>2. TaskInv /\ [Next]_vars => TaskInv'
  <2> SUFFICES ASSUME McpTypes, BootTypes, DoingInv, [Next]_vars PROVE TaskInv'
    BY DEF TaskInv
  <2>1. McpTypes' /\ BootTypes'
    BY TypesKept, BootKeeps
  <2>2. CASE McpStep /\ UNCHANGED <<step, status, doing>>
    <3>1. call' = call /\ \A c \in Callers : Active(c)' => Active(c)
      BY <2>2, ClientMakesNoCalls
    <3>2. Tasks \subseteq Callers
      BY CallersAssumption DEF BootAndTasks
    <3>3. \A i, name : Owner(i, name)' <=> Owner(i, name)
      BY <2>2 DEF Owner, Owners
    <3> HIDE DEF Active
    <3>4. ClearedInv'
      BY <2>2, <3>1, <3>2, <3>3 DEF DoingInv, ClearedInv
    <3>5. StatusInv'
      BY <2>2 DEF DoingInv, StatusInv, Entry
    <3> QED BY <2>1, <2>2, <3>4, <3>5 DEF TaskInv, DoingInv
  <2>3. CASE UNCHANGED vars
    <3>1. UNCHANGED <<step, status, doing, call, phase>>
      BY <2>3 DEF vars, mcpVars, callerVars
    <3>2. ClearedInv'
      BY <3>1 DEF DoingInv, ClearedInv, Active, Owner, Owners
    <3>3. StatusInv'
      BY <3>1 DEF DoingInv, StatusInv, Entry
    <3> QED BY <2>1, <3>1, <3>2, <3>3 DEF TaskInv, DoingInv
  <2> QED BY <2>1, <2>2, <2>3, BootKeepsDoing, TaskKeeps DEF Next, TaskInv
<1> QED BY <1>1, <1>2, PTL DEF Spec

\* Every variable stays in its type, for any number of servers, tasks and calls,
\* whatever the servers say and whenever they stop.
THEOREM TypeCorrect == Spec => []TypeOK
<1>1. TaskInv => TypeOK
  BY DEF TaskInv, DoingInv, TypeOK
<1> QED BY <1>1, TaskInvariant, PTL

\* CallsAreSanctioned: no request of a task's is under way at a server but one that
\* the policy does not deny, for a tool that this server announced under an enabled
\* entry of mcp.yaml, the last that has the name (run_goal, ToolRegistry,
\* McpRegistry::start).
THEOREM OnlySanctionedCalls == Spec => []CallsAreSanctioned
<1>1. TaskInv => CallsAreSanctioned
  <2> SUFFICES ASSUME TaskInv, NEW t \in Tasks, Active(t)
               PROVE  /\ doing[t].state = "calling"
                      /\ Evaluate(Rules, doing[t].request.tool, doing[t].request.input, Root) # "deny"
                      /\ \E i \in DOMAIN status :
                           /\ Owner(i, doing[t].request.tool)
                           /\ Config[i].enabled /\ Config[i].server = call[t].server
                           /\ \E tool \in Announced[call[t].server] : Qualified(i, tool) = doing[t].request.tool
    BY DEF CallsAreSanctioned, Active
  <2>1. /\ doing[t].state = "calling"
        /\ Evaluate(Rules, doing[t].request.tool, doing[t].request.input, Root) # "deny"
    BY DEF TaskInv, DoingInv, ClearedInv
  <2>2. PICK i \in DOMAIN status : Owner(i, doing[t].request.tool) /\ Config[i].server = call[t].server
    BY <2>1 DEF TaskInv, DoingInv, ClearedInv
  <2>3. /\ status[i].kind = "started"
        /\ \E tool \in status[i].tools : Qualified(i, tool) = doing[t].request.tool
    BY <2>2 DEF Owner, Owners
  <2>4. Config[i].enabled /\ status[i].tools \subseteq Announced[Config[i].server]
    BY <2>3 DEF TaskInv, DoingInv, StatusInv
  <2> QED BY <2>1, <2>2, <2>3, <2>4
<1> QED BY <1>1, TaskInvariant, PTL

=============================================================================
