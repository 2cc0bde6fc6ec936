----------------------------- MODULE ModelCalls -----------------------------
(***************************************************************************)
(* The calls of a mission's life that a model answers, over the router,    *)
(* the planner's reading of the answers and the organizational memory:     *)
(* MissionService's plan_only, replan loop, cost summary and reflection,   *)
(* seen from the model's side.  (MissionService has the same life seen     *)
(* from the mission's status.)                                             *)
(*                                                                         *)
(* A mission has two callers: its SERVICE task, and a WORKER of the wave   *)
(* in progress that has the final inputs of a goal's tasks written.  A     *)
(* wave that is cancelled ends without its workers, whose calls go on.     *)
(***************************************************************************)
EXTENDS LlmRouter, Planner, OrgMemory

CONSTANTS
    Tools,          \* the registry's schemas
    ReplanCap,      \* REPLAN_CAP
    GoalCap,        \* TOTAL_GOAL_CAP
    GoalTasks,      \* the tasks of the goal a worker has
    MaxReboots      \* bound: restarts of the process

VARIABLES
    stage,          \* where a mission's service task is
    attempt,        \* `attempt' of plan, or `iteration' of the replan loop
    rows,           \* the mission's goal rows
    allocated,      \* goal ids the mission's planner has allocated
    reboots

missionVars == <<stage, attempt, rows, allocated, reboots>>
vars == <<routerVars, memoryVars, missionVars>>

Stages == {"draft", "planning", "wave", "replan", "drain", "summary", "reflect",
           "reflecting", "done", "failed", "stuck"}

Service(m) == <<m, "service">>
Worker(m)  == <<m, "worker">>

\* The callers, for the instances of this module.
ServiceAndWorker == Missions \X {"service", "worker"}
OwnerOf == [c \in ServiceAndWorker |-> c[1]]

ASSUME CallersAssumption == Callers = ServiceAndWorker /\ MissionOf = OwnerOf

ASSUME CapAssumption == ReplanCap \in Nat \ {0} /\ GoalCap \in Nat /\ MaxReboots \in Nat

Init ==
    /\ RouterInit /\ MemoryInit
    /\ stage = [m \in Missions |-> "draft"]
    /\ attempt = [m \in Missions |-> 1]
    /\ rows = [m \in Missions |-> {}]
    /\ allocated = [m \in Missions |-> 0]
    /\ reboots = 0

GoTo(m, next) == stage' = [stage EXCEPT ![m] = next]

Request(limit, messages) == [messages |-> messages, limit |-> limit, json |-> TRUE]

-----------------------------------------------------------------------------
(* plan_only *)

\* Recall, prompt, first attempt.
BeginPlan(m) ==
    /\ stage[m] = "draft"
    /\ \E works \in SUBSET RecallCalls :
        Ask(Service(m), Request(2048,
            << Message("system", SystemPrompt(Recall(m, works), {})),
               Message("user", UserPrompt(m)) >>))
    /\ GoTo(m, "planning")
    /\ attempt' = [attempt EXCEPT ![m] = 1]
    /\ UNCHANGED <<memoryVars, rows, allocated, reboots>>

\* The second attempt is told what was wrong with the first answer.
RetryPrompt(m, error, content) ==
    conv' = [conv EXCEPT ![Service(m)].messages =
                @ \o << Message("assistant", Said(content)), Message("user", Complaint(error, content)) >>]

PlanInvalid(m) ==
    LET c == Service(m)
        parsed == ParsePlan(got[c], Tools) IN
    /\ stage[m] = "planning" /\ phase[c] = "answered" /\ ~parsed.ok
    /\ IF attempt[m] = 1
       THEN /\ RetryPrompt(m, parsed.error, got[c])
            /\ attempt' = [attempt EXCEPT ![m] = 2]
            /\ phase' = [phase EXCEPT ![c] = "routing"]
            /\ at' = [at EXCEPT ![c] = 1]
            /\ got' = [got EXCEPT ![c] = NoContent]
            /\ UNCHANGED <<breakerVars, costVars, requests, stage>>
       ELSE Consume(c) /\ GoTo(m, "failed") /\ UNCHANGED attempt
    /\ UNCHANGED <<memoryVars, rows, allocated, reboots>>

\* No provider answered: the mission has failed.
PlanFails(m) ==
    /\ stage[m] = "planning" /\ phase[Service(m)] = "failed"
    /\ Consume(Service(m)) /\ GoTo(m, "failed")
    /\ UNCHANGED <<memoryVars, attempt, rows, allocated, reboots>>

\* The plan is persisted and the mission runs.  An error on the way leaves it
\* Planning, with the goals persisted so far.
PlanArrives(m) ==
    LET c == Service(m)
        parsed == ParsePlan(got[c], Tools)
        done == Inserted(PlanRows(parsed.value, allocated[m]), rows[m]) IN
    /\ stage[m] = "planning" /\ phase[c] = "answered" /\ parsed.ok
    /\ Consume(c)
    /\ rows' = [rows EXCEPT ![m] = done.rows]
    /\ allocated' = [allocated EXCEPT ![m] = @ + Len(parsed.value)]
    /\ attempt' = [attempt EXCEPT ![m] = 1]
    /\ GoTo(m, IF done.whole THEN "wave" ELSE "stuck")
    /\ UNCHANGED <<memoryVars, reboots>>

-----------------------------------------------------------------------------
(* Waves, replans, the summary and the reflection *)

\* A worker of the wave has a goal's inputs written.
BeginInputs(m) ==
    /\ stage[m] \in {"wave", "drain"}
    /\ Ask(Worker(m), Request(1500, << Message("system", [what |-> "inputs_prompt"]),
                                       Message("user", UserPrompt(m)) >>))
    /\ UNCHANGED <<memoryVars, missionVars>>

\* Whatever came back, the worker has inputs: the new ones or the plan's.
InputsArrive(m) ==
    LET c == Worker(m) IN
    /\ phase[c] \in {"answered", "failed"}
    /\ Consume(c)
    /\ UNCHANGED <<memoryVars, missionVars>>

\* The wave is over: its workers have ended, or it was cancelled.  A mission
\* that has ended goes on to its summary, another to the replan or the verdict.
WaveEnds(m) ==
    /\ stage[m] \in {"wave", "drain"}
    /\ \/ GoTo(m, "summary")
       \/ /\ phase[Worker(m)] = "idle"
          /\ GoTo(m, IF stage[m] = "wave" THEN "replan" ELSE "summary")
    /\ UNCHANGED <<routerVars, memoryVars, attempt, rows, allocated, reboots>>

BeginReplan(m) ==
    /\ stage[m] = "replan" /\ phase[Service(m)] = "idle"
    /\ Ask(Service(m), Request(1500,
            << Message("system", ReplanSystemPrompt({}, {})),
               Message("user", ReplanUserPrompt(m, rows[m])) >>))
    /\ UNCHANGED <<memoryVars, missionVars>>

\* Checked here only: a plan, the first or an extension's, may exceed the cap.
TooMany(m, goals) == Cardinality(rows[m]) + Len(goals) > GoalCap

\* A failed call, an answer that cannot be read, the end, too many goals, or none.
ReplanStops(m) ==
    LET c == Service(m)
        parsed == ParseReplan(got[c], Tools) IN
    /\ stage[m] = "replan"
    /\ phase[c] \in {"answered", "failed"}
    /\ parsed.ok => \/ parsed.value.terminate
                    \/ TooMany(m, parsed.value.goals)
                    \/ parsed.value.goals = << >>
    /\ Consume(c) /\ GoTo(m, "drain")
    /\ UNCHANGED <<memoryVars, attempt, rows, allocated, reboots>>

\* New goals are persisted; an error on the way ends the loop without a verdict.
ReplanAdds(m) ==
    LET c == Service(m)
        parsed == ParseReplan(got[c], Tools)
        done == Inserted(DeltaRows(parsed.value.goals, allocated[m]), rows[m]) IN
    /\ stage[m] = "replan" /\ phase[c] = "answered" /\ parsed.ok
    /\ ~parsed.value.terminate /\ ~TooMany(m, parsed.value.goals) /\ parsed.value.goals # << >>
    /\ Consume(c)
    /\ rows' = [rows EXCEPT ![m] = done.rows]
    /\ allocated' = [allocated EXCEPT ![m] = @ + Len(parsed.value.goals)]
    /\ attempt' = [attempt EXCEPT ![m] = @ + 1]
    /\ GoTo(m, IF ~done.whole THEN "summary"
               ELSE IF attempt[m] < ReplanCap THEN "wave" ELSE "drain")
    /\ UNCHANGED <<memoryVars, reboots>>

Summarize(m) ==
    /\ stage[m] = "summary"
    /\ Drain(m)
    /\ GoTo(m, "reflect")
    /\ UNCHANGED <<breakerVars, requestVars, requests, memoryVars, attempt, rows, allocated, reboots>>

BeginReflection(m) ==
    /\ stage[m] = "reflect"
    /\ Ask(Service(m), Request(1500, << Message("system", [what |-> "reflect_prompt"]),
                                        Message("user", ReplanUserPrompt(m, rows[m])) >>))
    /\ GoTo(m, "reflecting")
    /\ UNCHANGED <<memoryVars, attempt, rows, allocated, reboots>>

\* What was learnt becomes a memory row; nothing, when the call failed.
ReflectionArrives(m) ==
    LET c == Service(m)
        parsed == IF phase[c] = "failed" THEN Refused("Llm") ELSE ParseReflection(got[c]) IN
    /\ stage[m] = "reflecting" /\ phase[c] \in {"answered", "failed"}
    /\ IF parsed.ok /\ Len(memory) < MaxMemory THEN Learn(parsed.value) ELSE UNCHANGED memoryVars
    /\ Consume(c) /\ GoTo(m, "done")
    /\ UNCHANGED <<attempt, rows, allocated, reboots>>

-----------------------------------------------------------------------------
(* The user and the process *)

\* extend: a mission that has ended is planned anew.
Extend(m) ==
    /\ stage[m] \in {"done", "failed"}
    /\ GoTo(m, "draft")
    /\ UNCHANGED <<routerVars, memoryVars, attempt, rows, allocated, reboots>>

\* Breakers, buckets, calls and embedding tasks are the process's; a mission
\* that was in flight stays as it is.
Reboot ==
    /\ reboots < MaxReboots
    /\ reboots' = reboots + 1
    /\ failures' = [n \in Names |-> 0] /\ open' = {}
    /\ phase' = [c \in Callers |-> "idle"]
    /\ conv' = [c \in Callers |-> NoRequest]
    /\ got' = [c \in Callers |-> NoContent] /\ at' = [c \in Callers |-> 1]
    /\ costs' = [m \in Missions |-> 0] /\ answers' = summed
    /\ stage' = [m \in Missions |-> IF stage[m] \in {"draft", "done", "failed"} THEN stage[m] ELSE "stuck"]
    /\ MemoryRestart
    /\ UNCHANGED <<summed, requests, attempt, rows, allocated>>

-----------------------------------------------------------------------------

RouterNext == /\ \/ \E c \in Callers : RouterStep(c)
                 \/ \E n \in Names : Lapse(n)
              /\ UNCHANGED <<memoryVars, missionVars>>

MemoryNext == /\ \E i \in DOMAIN memory : Backfill(i) \/ Retire(i)
              /\ UNCHANGED <<routerVars, missionVars>>

\* The steps of a mission's tasks, which come as long as they are polled.
TaskStep(m) ==
    \/ PlanInvalid(m) \/ PlanFails(m) \/ PlanArrives(m) \/ InputsArrive(m)
    \/ WaveEnds(m) \/ ReplanStops(m) \/ ReplanAdds(m) \/ Summarize(m) \/ ReflectionArrives(m)

Next ==
    \/ RouterNext \/ MemoryNext \/ Reboot
    \/ \E m \in Missions : \/ BeginPlan(m) \/ BeginInputs(m) \/ BeginReplan(m)
                           \/ BeginReflection(m) \/ TaskStep(m) \/ Extend(m)

Spec == Init /\ [][Next]_vars

\* A provider's call ends, by its own timeout at the latest.
FairSpec == Spec /\ \A c \in Callers : WF_vars(RouterStep(c) /\ UNCHANGED <<memoryVars, missionVars>>)

-----------------------------------------------------------------------------
(* Properties *)

\* Every variable stays in its type: a request is at a provider there is, embedding
\* tasks are those of rows there are, and a loop replans ReplanCap times at most.
TypeOK ==
    /\ failures \in [Names -> 0 .. Threshold] /\ open \subseteq Names
    /\ at \in [Callers -> Nat] /\ phase \in [Callers -> Phases]
    /\ \A c \in Callers : phase[c] \in {"routing", "waiting", "answered"} => at[c] \in DOMAIN Providers
    /\ DOMAIN conv = Callers /\ DOMAIN got = Callers /\ requests \in 0 .. MaxRequests
    /\ costs \in [Missions -> Nat] /\ summed \in [Missions -> Nat] /\ answers \in [Missions -> Nat]
    /\ Len(memory) \in 0 .. MaxMemory /\ backfills \subseteq DOMAIN memory /\ dim \in Dims
    /\ \A i \in DOMAIN memory : memory[i].vector \in Dims /\ memory[i].retired \in BOOLEAN
    /\ stage \in [Missions -> Stages] /\ allocated \in [Missions -> Nat] /\ reboots \in 0 .. MaxReboots
    /\ attempt \in [Missions -> Nat \ {0}]
    /\ \A m \in Missions : /\ stage[m] = "planning" => attempt[m] <= 2
                           /\ stage[m] \in {"wave", "replan"} => attempt[m] <= ReplanCap

\* What a mission's service task asks at each stage.
Purpose == [planning |-> "plan_prompt", replan |-> "replan_prompt", reflecting |-> "reflect_prompt"]

\* An answer is read by whoever asked for it: while a call of the service task is
\* under way or its answer waits, the mission is at the stage that asked.
AnswersMeetTheirQuestion ==
    \A m \in Missions :
        /\ phase[Service(m)] # "idle" =>
               /\ stage[m] \in DOMAIN Purpose
               /\ conv[Service(m)].messages[1].text.what = Purpose[stage[m]]
        /\ phase[Worker(m)] # "idle" => conv[Worker(m)].messages[1].text.what = "inputs_prompt"

\* The ids of a mission's goals were allocated, and each is that of one goal.
GoalIdsAreUnique ==
    \A m \in Missions :
        /\ \A r \in rows[m] : r.row \in 1 .. allocated[m]
        /\ \A r, s \in rows[m] : r.row = s.row => r = s

\* No replan takes a mission over the cap on its goals (a plan may).
ReplansKeepTheCap ==
    [][\A m \in Missions :
         stage[m] = "replan" /\ rows'[m] # rows[m] => Cardinality(rows'[m]) <= GoalCap]_vars

\* A plan that was persisted, the first or an extension's, holds every goal its goals
\* wait for, and they wait for none of the goals that were there (a replan's may).
PlansStandAlone ==
    [][\A m \in Missions :
         stage[m] = "planning" /\ stage'[m] = "wave" =>
            LET new == rows'[m] \ rows[m] IN
            \A r \in new : r.deps \subseteq {q.row : q \in new}]_vars

\* Every answer a provider gave on a mission's behalf is in the mission's bucket
\* or in a summary, exactly once, however late it came (LlmRouter::complete,
\* drain_mission_cost).
CostsAddUp == \A m \in Missions : summed[m] + costs[m] = answers[m]

\* A provider is passed over only when it has failed three times in a row, in
\* whatever order concurrent requests ended.
OpenMeansFailing == \A n \in open : failures[n] >= Threshold

\* Whichever provider a request has come to, in whichever dialect, the model
\* reads all that was said, in order and in the right voices, and a complaint
\* right after the answer it is about.
ConversationsSurvive ==
    \A c \in Callers : phase[c] = "waiting" =>
        LET messages == conv[c].messages
            read == ReadBody(Body(Dialect(at[c]), conv[c]))
        IN  /\ read.told = << messages[1].text >>
            /\ read.said = Turns(messages)
            /\ read.json
            /\ \A i \in DOMAIN read.said :
                  read.said[i].text.what = "complaint" =>
                      read.said[i - 1] = Message("assistant", Said(read.said[i].text.about))

\* An answer that is taken for final inputs has one for each task of the goal,
\* and gives each task its own, in whatever order the model listed them.
InputsReachTheirTasks ==
    \A m \in Missions : phase[Worker(m)] = "answered" =>
        LET answer == got[Worker(m)]
            read == ParseInputs(answer, GoalTasks)
        IN  read.ok => /\ DOMAIN read.value = 0 .. GoalTasks - 1
                       /\ \A i \in DOMAIN read.value : answer[1].index[read.value[i]] = i

\* Whether or not the embedder works, was changed, or has been through the rows
\* yet, and whatever becomes of the semantic search: a mission that shares a
\* keyword with an active memory is reminded of something, unless the search by
\* keywords fails as well.
RecallDegrades ==
    \A m \in Missions, works \in SUBSET RecallCalls :
        "search" \in works /\ (\E i \in DOMAIN memory : Active(i) /\ <<m, memory[i].insight>> \in Shares)
            => Recall(m, works) # {}

\* Every call of the router returns to its caller, whatever the breakers do.
CallsComeBack ==
    \A c \in Callers : phase[c] \in {"routing", "waiting"} ~> phase[c] \notin {"routing", "waiting"}

-----------------------------------------------------------------------------
(* What the documentation says, and the code does not do *)

\* MissionCostSummary "[a]ggregates every LlmResponded event whose `mission_id`
\* matches": a mission that is over has nothing left in its bucket.
SummariesAreComplete == \A m \in Missions : stage[m] = "done" => costs[m] = 0

=============================================================================
