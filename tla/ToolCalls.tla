------------------------------ MODULE ToolCalls ------------------------------
(***************************************************************************)
(* Tools: the registry the runtime fills at boot, MCP servers included,    *)
(* and the tasks that call them (Runtime::boot, crates/forge-mcp's         *)
(* registry.rs and adapter.rs, crates/forge-tools, the part of             *)
(* run_goal that rules on a call and makes it).                            *)
(*                                                                         *)
(* Boot goes through the servers of mcp.yaml one by one: it spawns the     *)
(* process, says hello (initialize), asks for its tools (tools/list), and  *)
(* goes on whatever comes of it.  Its calls are made by the caller Boot.   *)
(***************************************************************************)
EXTENDS McpClient, Policy

CONSTANTS
    Tasks,
    Config,         \* mcp.yaml: entries with a name, an `enabled' and a server
    Announced,      \* the tools a server lists
    Requests,       \* what tasks call: a tool's name and an input
    Rules,          \* the policy file
    Root            \* the workspace's root

ASSUME ToolsAssumption ==
    /\ Config \in Seq([name : STRING, enabled : BOOLEAN, server : Servers])
    /\ Announced \in [Servers -> SUBSET STRING]

VARIABLES
    step,           \* of boot: "entry", "initialize", "tools/list", "done"
    status,         \* McpServerStatus of the entries boot has been through
    doing           \* a task: "todo", "approval", "calling", "ok", "failed", "denied"

vars == <<mcpVars, step, status, doing>>

Boot == "boot"
BootAndTasks == Tasks \cup {Boot}

ASSUME CallersAssumption == Callers = BootAndTasks /\ Boot \notin Tasks

Init ==
    /\ McpInit
    /\ step = "entry"
    /\ status = << >>
    /\ doing = [t \in Tasks |-> [state |-> "todo"]]

-----------------------------------------------------------------------------
(* McpRegistry::start *)

Entry == Config[Len(status) + 1]
MoreEntries == Len(status) < Len(Config)

Started(tools) == [kind |-> "started", tools |-> tools]
Report(what) == status' = Append(status, what) /\ step' = "entry"

BootSkips ==
    /\ step = "entry" /\ MoreEntries /\ ~Entry.enabled
    /\ Report([kind |-> "disabled"])
    /\ UNCHANGED <<mcpVars, doing>>

BootSpawnFails ==
    /\ step = "entry" /\ MoreEntries /\ Entry.enabled
    /\ Report([kind |-> "failed"])
    /\ UNCHANGED <<mcpVars, doing>>

BootSpawns ==
    /\ step = "entry" /\ MoreEntries /\ Entry.enabled
    /\ Spawn(Entry.server) /\ Call(Boot, Entry.server)
    /\ step' = "initialize"
    /\ UNCHANGED <<stdin, heard, spoken, answered, frames, hand, status, doing>>

BootReturned == phase[Boot] = "returned"

\* Any error ends the handshake, and so does a result that cannot be read.
BootFails ==
    /\ step \in {"initialize", "tools/list"} /\ BootReturned
    /\ Report([kind |-> "failed"])
    /\ UNCHANGED <<mcpVars, doing>>

\* Greeted: the notification, then the list of tools.
BootAsksForTools ==
    /\ step = "initialize" /\ BootReturned /\ result[Boot].kind = "result"
    /\ proc[Entry.server] # "dead"
    /\ Call(Boot, Entry.server)
    /\ step' = "tools/list"
    /\ UNCHANGED <<serverVars, pumpVars, status, doing>>

\* Listed; a server that does not know the method has no tools.
BootStarts ==
    /\ step = "tools/list" /\ BootReturned
    /\ \/ result[Boot].kind = "result" /\ Report(Started(Announced[Entry.server]))
       \/ result[Boot].kind = "rpc" /\ Report(Started({}))
    /\ UNCHANGED <<mcpVars, doing>>

BootEnds ==
    /\ step = "entry" /\ ~MoreEntries
    /\ step' = "done"
    /\ UNCHANGED <<mcpVars, status, doing>>

BootStep == \/ BootSkips \/ BootSpawnFails \/ BootSpawns \/ BootFails
            \/ BootAsksForTools \/ BootStarts \/ BootEnds

-----------------------------------------------------------------------------
(* ToolRegistry *)

Builtins == { <<"fs.read">>, <<"fs.write">>, <<"fs.mkdir">>, <<"fs.list">>, <<"code.search">>, <<"shell.run">> }

Qualified(i, tool) == <<"mcp", Config[i].name, tool>>

\* The entries whose servers have registered a name.
Owners(name) ==
    {i \in DOMAIN status : status[i].kind = "started" /\ \E t \in status[i].tools : Qualified(i, t) = name}

\* The last one has it.
Owner(i, name) == i \in Owners(name) /\ \A k \in Owners(name) : k <= i

Known(name) == name \in Builtins \/ Owners(name) # {}

-----------------------------------------------------------------------------
(* A task's call *)

Now(t, state) == doing' = [doing EXCEPT ![t].state = state]

\* The ruling comes first.
Ask(t, r) ==
    /\ step = "done" /\ doing[t].state \in {"todo", "ok", "failed", "denied"} /\ asks[t] < MaxAsks[t]
    /\ LET ruling == Evaluate(Rules, r.tool, r.input, Root) IN
       doing' = [doing EXCEPT ![t] =
            [state |-> CASE ruling = "deny" -> "denied"
                         [] ruling = "require_approval" -> "approval"
                         [] OTHER -> "cleared",
             request |-> r]]
    /\ UNCHANGED <<mcpVars, step, status>>

Approve(t) ==
    /\ doing[t].state = "approval"
    /\ Now(t, "cleared")
    /\ UNCHANGED <<mcpVars, step, status>>

\* The tool is looked up and called: a built-in does its work in this process,
\* a name nobody has fails.
Invoke(t) ==
    /\ doing[t].state = "cleared"
    /\ LET name == doing[t].request.tool IN
       \/ /\ \E i \in DOMAIN status : Owner(i, name) /\ Call(t, Config[i].server)
          /\ Now(t, "calling")
          /\ UNCHANGED <<serverVars, pumpVars>>
       \/ /\ Owners(name) = {}
          /\ \E state \in IF Known(name) THEN {"ok", "failed"} ELSE {"failed"} : Now(t, state)
          /\ UNCHANGED mcpVars
    /\ UNCHANGED <<step, status>>

\* McpToolProxy::invoke: errors of either kind are the tool's, and so is a result
\* that is flagged as one.
Finish(t) ==
    /\ doing[t].state = "calling" /\ phase[t] = "returned"
    /\ \/ result[t].kind = "result" /\ Now(t, "ok")
       \/ Now(t, "failed")
    /\ UNCHANGED <<mcpVars, step, status>>

-----------------------------------------------------------------------------

Next ==
    \/ McpStep /\ UNCHANGED <<step, status, doing>>
    \/ BootStep
    \/ \E t \in Tasks : \/ \E r \in Requests : Ask(t, r)
                        \/ Approve(t) \/ Invoke(t) \/ Finish(t)

Spec == Init /\ [][Next]_vars

\* Tasks are polled, timers fire, pumps run; a server reads what it is sent
\* until it exits.
FairSpec ==
    /\ Spec
    /\ WF_vars(BootStep)
    /\ \A c \in Callers : WF_vars(CallerStep(c) /\ UNCHANGED <<step, status, doing>>)
    /\ \A s \in Servers : /\ WF_vars(PumpStep(s) /\ UNCHANGED <<step, status, doing>>)
                          /\ WF_vars(Read(s) /\ UNCHANGED <<step, status, doing>>)

-----------------------------------------------------------------------------
(* Properties *)

Reports == [kind : {"disabled", "failed"}] \cup [kind : {"started"}, tools : SUBSET STRING]

BootTypes ==
    /\ step \in {"entry", "initialize", "tools/list", "done"}
    /\ status \in Seq(Reports) /\ Len(status) <= Len(Config)
    /\ step \in {"initialize", "tools/list"} => MoreEntries

TaskStates == {"approval", "cleared", "calling", "ok", "failed", "denied"}
Doings == [state : {"todo"}] \cup [state : TaskStates, request : Requests]

\* Every variable stays in its type: boot goes through the configured entries and no
\* more, and nothing comes back from a server that is not an answer or an error.
TypeOK == McpTypes /\ BootTypes /\ doing \in [Tasks -> Doings]

\* Whatever a task has under way at a server: the task is at this call, the policy
\* does not deny it, and the server announced the tool under an enabled entry of
\* mcp.yaml, the last of those that have the tool's name.
CallsAreSanctioned ==
    \A t \in Tasks : phase[t] \in {"sending", "waiting"} =>
        LET asked == doing[t].request IN
        /\ doing[t].state = "calling"
        /\ Evaluate(Rules, asked.tool, asked.input, Root) # "deny"
        /\ \E i \in DOMAIN status :
             /\ Owner(i, asked.tool)
             /\ Config[i].enabled /\ Config[i].server = call[t].server
             /\ \E tool \in Announced[call[t].server] : Qualified(i, tool) = asked.tool

\* "Failures never block boot": whatever the servers do, boot ends.
BootComesToAnEnd == <>(step = "done")

\* Every call returns, also when its server goes silent, stops or dies at any
\* point.
CallsReturn == \A c \in Callers : phase[c] \in {"sending", "waiting"} ~> phase[c] = "returned"

=============================================================================
