-------------------------------- MODULE Clients --------------------------------
(***************************************************************************)
(* The programs that use the HTTP server: the Shells, that is the command   *)
(* line (apps/forge-cli), the editor extension (apps/forge-vscode) and any  *)
(* OpenAI client, and the gateway (apps/forge-gateway), which turns a       *)
(* message from a chat platform into a chat request of its own.            *)
(*                                                                         *)
(* A shell command is one request, or, with --wait, a creation and then    *)
(* looks at the mission until it ends or ten minutes are over.  The gateway *)
(* acknowledges a message from Slack, Discord or Telegram at once and       *)
(* answers it later, out of a task; the sender of a generic webhook waits. *)
(***************************************************************************)
EXTENDS ApiServer, FiniteSets

CONSTANTS
    Shells,         \* commands, of a user or an editor
    Messages,       \* messages the gateway is sent; each is a caller of the server
    MaxRestarts     \* bound: restarts of the gateway

ASSUME ClientAssumption == Shells \cup Messages = Callers /\ Shells \cap Messages = {} /\ MaxRestarts \in Nat

VARIABLES
    watching,       \* the mission a shell waits for, NoMission if none
    overdue,        \* its ten minutes are over
    message,        \* what has become of a message
    acked,          \* messages that were acknowledged before they were answered
    restarts

clientVars == <<watching, overdue, message, acked, restarts>>
vars == <<serverVars, clientVars>>

Init ==
    /\ ServerInit
    /\ watching = [s \in Shells |-> NoMission] /\ overdue = [s \in Shells |-> FALSE]
    /\ message = [g \in Messages |-> "new"] /\ acked = {}
    /\ restarts = 0

-----------------------------------------------------------------------------
(* The command line and the editor *)

\* The bounds on missions and extensions, held against whoever may be about to
\* begin one.
Room ==
    Cardinality({m \in Missions : rows[m] # NoRow} \cup {c \in Callers : At(c) = "inserting"}
                \cup {g \in Messages : message[g] = "taken"}) < MaxMissions
MayExtend == extensions + Cardinality({c \in Callers : At(c) = "checking"}) < MaxExtensions

\* One request, with whatever token is configured.
Request(s, op, m) == \E role \in Roles : Ask(s, op, m, role)

CreateMission(s) == Room /\ \E op \in {"create", "draft"} : Request(s, op, NoMission)
Chat(s) == Room /\ \E op \in Chats : Request(s, op, NoMission)
Show(s) == \E m \in Missions : Request(s, "get", m)
CancelMission(s) == \E m \in Missions : Request(s, "cancel", m)
ExtendMission(s) == MayExtend /\ \E m \in Missions : Request(s, "extend", m)

\* The two commands of the editor.
RunMissionPrompt(s) == Room /\ Request(s, "create", NoMission)
RunSelectionAsChat(s) == Room /\ Request(s, "chat", NoMission)

Command(s) ==
    /\ watching[s] = NoMission
    /\ \/ CreateMission(s) \/ Chat(s) \/ Show(s) \/ CancelMission(s) \/ ExtendMission(s)
       \/ RunMissionPrompt(s) \/ RunSelectionAsChat(s)
    /\ UNCHANGED clientVars

\* run --wait: the mission is created, now it is watched.
StartWatching(s) ==
    /\ watching[s] = NoMission /\ reply[s].word = "create"
    /\ watching' = [watching EXCEPT ![s] = reply[s].mission]
    /\ reply' = [reply EXCEPT ![s] = Silence]
    /\ UNCHANGED <<rows, driver, token, handler, announced, stranded, extensions, faults, overdue, message, acked, restarts>>

\* Mutant: only the end of the mission ends the wait.
WaitIsOverAtTheEnd(s) == reply[s].status \in MissionTerminal

\* The wait ends with the mission, with its time, or with a request that failed.
WaitIsOver(s) ==
    \/ reply[s].status \in MissionTerminal
    \/ reply[s].word = "told" /\ overdue[s]
    \/ reply[s].word \notin {"none", "told"}

Watch(s) ==
    /\ watching[s] # NoMission /\ At(s) = "away"
    /\ IF WaitIsOver(s)
       THEN /\ watching' = [watching EXCEPT ![s] = NoMission]
            /\ overdue' = [overdue EXCEPT ![s] = FALSE]
            /\ UNCHANGED serverVars
       ELSE /\ Ask(s, "get", watching[s], "Full")
            /\ UNCHANGED <<watching, overdue>>
    /\ UNCHANGED <<message, acked, restarts>>

TenMinutes(s) ==
    /\ watching[s] # NoMission /\ ~ overdue[s]
    /\ overdue' = [overdue EXCEPT ![s] = TRUE]
    /\ UNCHANGED <<serverVars, watching, message, acked, restarts>>

-----------------------------------------------------------------------------
(* The gateway *)

\* A message that is not signed as it should be, or ill-formed.
Refuse(g) == message' = [message EXCEPT ![g] = "refused"] /\ UNCHANGED acked

\* It is acknowledged, and nothing comes of it.
Forget(g) == message' = [message EXCEPT ![g] = "ignored"] /\ acked' = acked \cup {g}

\* It is acknowledged, and a task takes it.
Acknowledge(g) == message' = [message EXCEPT ![g] = "taken"] /\ acked' = acked \cup {g}

\* The sender of a generic webhook is left waiting.
GenericWebhook(g) ==
    \/ Refuse(g)
    \/ message' = [message EXCEPT ![g] = "taken"] /\ UNCHANGED acked

SlackSlash(g) == Refuse(g) \/ Acknowledge(g)

\* A ping is answered; anything but a command is told to wait for nothing.
DiscordInteraction(g) == Refuse(g) \/ Forget(g) \/ Acknowledge(g)

\* Telegram's other updates carry no text.
TelegramWebhook(g) == Refuse(g) \/ Forget(g) \/ Acknowledge(g)

Receive(g) ==
    /\ message[g] = "new" /\ Room
    /\ GenericWebhook(g) \/ SlackSlash(g) \/ DiscordInteraction(g) \/ TelegramWebhook(g)
    /\ UNCHANGED <<serverVars, watching, overdue, restarts>>

\* call_forge_chat: a chat that is not streamed, with the gateway's own token.
CallForge(g) ==
    /\ message[g] = "taken"
    /\ \E role \in Roles : Ask(g, "chat", NoMission, role)
    /\ message' = [message EXCEPT ![g] = "asked"]
    /\ UNCHANGED <<watching, overdue, acked, restarts>>

\* Mutant: an error of the server's is logged and nothing else.
ReplyIfForgeAnswered(g) ==
    /\ message[g] = "asked" /\ At(g) = "away" /\ reply[g].word \in {"told", "length"}
    /\ message' = [message EXCEPT ![g] = "replied"]
    /\ UNCHANGED <<serverVars, watching, overdue, acked, restarts>>

\* The answer, or a warning with the error, is posted to the platform; once.
Reply(g) ==
    /\ message[g] = "asked" /\ At(g) = "away"
    /\ message' \in {[message EXCEPT ![g] = "replied"], [message EXCEPT ![g] = "unsent"]}
    /\ UNCHANGED <<serverVars, watching, overdue, acked, restarts>>

\* What the gateway was working on lived in its tasks.
GatewayRestart ==
    /\ restarts < MaxRestarts
    /\ \E g \in Messages : message[g] \in {"taken", "asked"}
    /\ restarts' = restarts + 1
    /\ message' = [g \in Messages |-> IF message[g] \in {"taken", "asked"} THEN "lost" ELSE message[g]]
    /\ handler' = [c \in Callers |-> IF c \in Messages THEN Away ELSE handler[c]]
    /\ driver' = [m \in Missions |-> IF driver[m] \in Messages THEN Nobody ELSE driver[m]]
    /\ UNCHANGED <<rows, token, reply, announced, stranded, extensions, faults, watching, overdue, acked>>

-----------------------------------------------------------------------------

ClientStep ==
    \/ \E s \in Shells : Command(s) \/ StartWatching(s) \/ Watch(s) \/ TenMinutes(s)
    \/ \E g \in Messages : Receive(g) \/ CallForge(g) \/ Reply(g)
    \/ GatewayRestart

Next ==
    \/ Server /\ UNCHANGED clientVars
    \/ \E c \in Callers : Leave(c) /\ UNCHANGED clientVars
    \/ ClientStep

Spec == Init /\ [][Next]_vars

\* A command that waits goes on looking, its clock runs; the gateway's tasks are polled.
FairSpec ==
    /\ Spec /\ ServerFairness
    /\ \A s \in Shells : WF_vars(Watch(s)) /\ WF_vars(TenMinutes(s))
    /\ \A g \in Messages : WF_vars(CallForge(g)) /\ WF_vars(Reply(g))

-----------------------------------------------------------------------------
(* Properties *)

\* Every variable stays in its type.
TypeOK ==
    /\ ServerTypeOK
    /\ watching \in [Shells -> Missions \cup {NoMission}] /\ overdue \in [Shells -> BOOLEAN]
    /\ message \in [Messages -> {"new", "refused", "ignored", "taken", "asked", "replied", "unsent", "lost"}]
    /\ acked \subseteq Messages /\ restarts \in 0 .. MaxRestarts

\* A command that waits for a mission comes to its end, also when the mission
\* never does or the server goes away.
WaitsEnd == \A s \in Shells : watching[s] # NoMission ~> watching[s] = NoMission

\* Whoever was told to wait for a reply is sent one, the reply or a warning, or
\* the gateway was restarted meanwhile; but for what asks for no mission.
AcknowledgedAreAnswered ==
    \A g \in Messages : g \in acked ~> message[g] \in {"replied", "unsent", "lost", "ignored"}

=============================================================================
