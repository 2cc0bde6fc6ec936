# Forge OS in TLA+

This directory holds TLA+ models of Forge OS, the TLC configurations that check them on small
instances, and TLAPS proofs of the properties that carry the rest. Forge OS is an agent runtime:
a *mission* is planned by a language model into a graph of *goals*, each a list of *tasks*, each
a call of one *tool*; an engine walks the graph, a policy decides which calls need a human's
approval, and a shelf of *skills* (prompt documents under version control) shapes what the
planner sees. Missions come from a desktop program, over HTTP, or from chat platforms.

Contents

1. The system: components, state, interactions
2. What is hard about it, and what makes each component correct
3. Modules, and how they correspond to the code
4. Runs: what each checks, its bounds, its fairness
5. Proofs
6. Where code and documentation part
7. What is not modelled, and the plan

To reproduce: `tlc -config exec_plan.cfg MCExecution.tla` and likewise for the table in section
4; `tlapm ExecutionProofs.tla` and likewise for section 5. `PROJECT.json` maps every definition to
the lines it models, and lists for every property a plausible bug of the code (a *mutant*, next to
the definition it alters) under which TLC finds the property violated.

## 1. The system

Paths are relative to the repository's root; "lib.rs" of a crate is `crates/<crate>/src/lib.rs`.

| Component | State it keeps | Operations | Talks to |
|---|---|---|---|
| **Domain types** `forge-domain` | none: ids, status enumerations, `MissionStatus::can_transition`, events | - | everybody |
| **Persistence** `forge-persistence` | SQLite tables: missions, goals, tasks, events, mission_queue, skills_history, reflections, memories | one repository per table; rows of missions, goals, tasks are rewritten whole | everybody |
| **Event bus** `forge-events` | a `broadcast` channel over the events table | `publish` (append the row, then send), `subscribe`, `replay` | every publisher; checkpoints, desktop bridge, event stream |
| **LLM providers** `forge-llm`, one file each | none | turn a conversation into a service's body, its reply into content or an error | router |
| **LLM router** `forge-llm` lib.rs | circuit breakers per provider name, cost buckets per mission | `complete` with failover, `drain_mission_cost` | providers, planner |
| **Planner, reflector** `forge-planner` | none | `plan` (two attempts), `replan`, `materialize_inputs`, `reflect`: prompt a model, read goals, tasks, dependencies, inputs, insights | router, mission service, engine |
| **Organisation memory** `forge-mission`, `forge-persistence`, `forge-runtime` | rows of insights, an embedding in each once it is there; the embedder's dimension | learn, retire, semantic and keyword search, backfill at boot | mission service |
| **Policy** `forge-policy` | a list of rules | the first rule a call violates denies it, asks or lets it pass; no rule violated: it is allowed | engine |
| **Tools** `forge-tools` | a registry by name | file, shell, HTTP tools; those of MCP servers | engine |
| **MCP client** `forge-mcp` | per server: a child process, a request counter, a map of pending requests, a reader and a pump; the servers' status | handshake, `tools/list`, `tools/call`; start of all servers at boot | tools |
| **Execution engine** `forge-execution` | maps `cancels` (mission -> token) and `approvals` (task -> sender); per call of `run_mission`: copies of the goal rows, handles of workers, two sets | `run_mission`, `cancel`, `approve_task` | persistence, policy, tools, bus |
| **Mission service** `forge-mission` | none but the rows | `create`, `plan_only`, `plan_and_run`, `extend`, `cancel`, `approve_task`; the replan loop | planner, engine, reflector, bus |
| **Mission queue** `SqliteMissionQueueRepository` in `forge-persistence/src/sqlite.rs` | rows queued, claimed, done, failed with a heartbeat | `enqueue`, `claim_next`, `heartbeat`, `finish`, `requeue_stale` | worker pool |
| **Worker pool** `forge-runtime/src/worker_pool.rs` | N worker tasks, a heartbeat task per claimed row, a janitor | claim, run, finish, requeue | queue, mission service |
| **Skills** `forge-skills`, `forge-runtime/src/skills_ops.rs` | directories `proposed/`, `active/`, `archived/`, `history/` (content-addressed), table `skills_history`, the registry in memory | propose, approve, promote, rollback, retire; AutoPromoter, Curator; loading and seeding at boot | reflector, planner, desktop |
| **Checkpoints** `forge-runtime/src/checkpoints.rs` and its subscriber in `forge-runtime` lib.rs | a shadow git repository per workspace | `commit` on TaskCompleted, `list`, `revert` | bus, tasks table |
| **Runtime assembly** `forge-runtime` lib.rs | configuration, handles to all of the above | `boot`, `shutdown` | all |
| **HTTP server** `forge-server` | tokens and their roles; a handler per request | create, get, extend, cancel a mission; an OpenAI-compatible chat, with and without a stream; the event stream | mission service, bus |
| **Desktop** `apps/forge-desktop` | the webview's stores | commands, the event bridge, replay of the backlog | mission service, bus, skills |
| **Gateway** `apps/forge-gateway` | a task per message | webhooks of Slack, Discord, Telegram and a generic one, a chat request, the reply to the platform | server, platforms |
| **Command line, VS Code** `apps/forge-cli`, `apps/forge-vscode` | none | one request per command; `run --wait` polls; `events` reads the stream | server |

How they meet: the service calls the engine and awaits it; the engine spawns a tokio task per goal
and polls their handles. Users act through `cancel` and `approve_task`, which reach the engine
through its two shared maps only. Planner, workers (final inputs) and reflector call models through
one router, whose breakers and buckets they share. Everything that has happened is published on the
bus, whose subscribers act on their own time; the checkpoint subscriber publishes on the bus it reads
from. The HTTP server runs missions in tasks of their own, except for an extension's planning, which
is part of the handler and ends with it; the queue serves programs that enqueue instead. Skills are
shared by a user, two background loops and boot, through files and a table, with no lock.

## 2. What is hard, and what makes it correct

`PROJECT.json` lists 40 hazards with their lines. The families:

* **A row is rewritten whole from a copy read earlier** (goal rows in `run_mission`, the mission row
  in `plan_only`, `extend`, the replan loop). Correct if nobody else has written in between, so that
  readers see rows move as they are promised to: `GraphSpec` for the goals of a run, `KeepsItsPromise`
  for a mission over all its calls.
* **A walker that visits goals in row order and polls** - retries, failures that spread, siblings in
  flight. Correct if no goal starts early, no settled goal is touched, failure explains every skip,
  the retry budget is spent once, and a verdict says what the rows say: `DepsDoneBeforeWork`,
  `InvocationBound`, `CompletedMissionIsWhole`, `CompletedGoalIsWhole`, and as one statement the
  refinement `GraphSpec`.
* **Two maps between users and workers** - an answer before the request, an answer dropped, a
  cancelled run whose workers go on. Correct if a tool that needs approval has it and nothing works
  for a run that has returned: `ApprovalBeforeTool`, `NoWorkerLeftBehind`.
* **A loop that must end**: walker, replan loop, queue, router, boot, a chat's wait. `CancelReturns`,
  `RunReturns`, `CallsReturn` (the service's calls; the MCP client's), `ReflectsOnTheEnd`,
  `QueuedMissionsEnd`, `CallsComeBack`, `BootComesToAnEnd`, `RequestsEnd`, `WaitsEnd`.
* **Crash and partial failure**: `?` in the middle of a run, a panic, a process that ends between two
  writes, a handler dropped with its caller, a boot that repairs some of it. `OneWorkerPerMission`,
  `FinishedMeansEnded`, `RowsAreStored`, `OneActiveVersion`, `FilesMatchHistory`, `AnnouncedAreRun`,
  `AcknowledgedAreAnswered`.
* **Check, then act, and reading twice**, in `enqueue`, `extend`, the Curator, the summary of a
  mission: `RowsFollowCalls`, `PromoterSurvives`, `SummaryIsSettled`.
* **State shared by concurrent calls of a model**: `CostsAddUp`, `OpenMeansFailing`; what a model
  reads and what is made of its answer: `ConversationsSurvive`, `InputsReachTheirTasks`,
  `RecallDegrades`.
* **Answers that come late, twice, or for somebody else**: `PendingHasCaller`, and the refinement
  `AnswersAreOnes`.
* **Events that come late, twice, out of order or not at all**: `ChangesAreCommitted`,
  `StoreIsComplete`, `TwiceAtMost`; `StreamsReplay`, which fails.

Two hazards have no property of a run (two calls at once on a mission; the goal cap); section 6 says
what the models show about them.

## 3. Modules

```
ForgeDomain ──┬── GoalGraph            what the engine promises of the goal rows
              ├── ExecutionEngine      run_mission, run_goal   (implements GoalGraph)
              │      └── MCExecution, ExecutionProofs
              ├── MissionRows          what the service promises of a mission's row and goals
              ├── MissionService       plan_and_run, extend, the replan loop (implements MissionRows)
              │      └── MCService, ServiceProofs
              └── ApiServer            HTTP handlers over missions (relies on MissionRows)
                     └── Clients       command line, editor, gateway
                            └── MCClients, ClientProofs
MissionQueue ──── WorkerPool           workers, heartbeats, janitor over the queue
                     └── MCPool, PoolProofs
LlmProviders ──── LlmRouter ──┐
Planner ──────────────────────┼── ModelCalls   a mission's calls of the model
OrgMemory ────────────────────┘        └── MCModels, ModelProofs
RequestReply                           what a caller of a remote procedure may rely on
McpClient ──┐                          (implements RequestReply)
Policy ─────┴──── ToolCalls            boot's servers, the registry, a task's call
                     └── MCTools, ToolProofs
SkillHistory ──── SkillLifecycle       files, history rows, AutoPromoter, Curator, boot
                     └── MCSkills, SkillProofs
EventBus ──┬───── CheckpointFeed ──┐
           ├───── DesktopFeed ─────┴── EventFeeds    the bus with both of its subscribers
           │                              └── MCFeeds, FeedProofs
           └───── EventStream          GET /events and its reader
                     └── MCStream
```

A step of a model is one stretch of code between two points at which another actor could see or
change something the stretch reads: usually from one `await` on the database, a channel or a tool
to the next. Writes of events are folded into the step that publishes them, except where their
order matters (the request for approval, the bus itself). A failing write is a step that goes where
`?` goes, within a bound on faults.

### Missions

**ForgeDomain** has the status enumerations, `CanTransition` and the policy's three decisions.

**GoalGraph** is the abstract specification of a mission's goals while the engine has them: mission,
number of goal rows, dependencies, statuses, retry budgets, and nothing of how they are driven. A goal
is launched below completed goals only, skipped below failed or skipped ones only, and rests once
settled. A retry is two writes, one of the budget and one of the status: between them the goal is `paid`
(`Pay`, then `Retry`), and if whoever paid fails, it is Ready with one retry less (`Forfeit`).

**ExecutionEngine** (`forge-execution` lib.rs). `mission`, `rows`, `deps`, `goal`, `retries`,
`task` are the database; `token` is `cancels`, `sender` is `approvals` (which run's worker holds the
receiver); `rpc`, `cursor`, `local`, `left`, `running`, `check`, `completed`, `failed` are
`run_mission`'s locals, per run; `wpc`, `step`, `seen` are `run_goal`'s, per run and goal. The launch
pass (`PassOver`, `SkipGoal`, `LaunchGoal`, `EndPass`) and the sweep over the handles (`PollBusy`,
`ReapCompleted`, `ReapRetry` - `Demote`, `ReapFailed`, `EndSweep`) visit goals one by one, as the code does.
What follows the loop is three steps: the mission is read and the token looked at (`DrawVerdict`), the
mission's row is written (`FlipMission`), and the token goes (`LeaveRun`); a cancellation in between flips a
token nobody looks at any more. A worker's life runs from `TakePermit` (the semaphore)
through `LoadTasks`, `Materialize` and per task the policy's three ways (`DenyTask`,
`RequestApproval` - `Park` - `Unpark`, `BeginTask`) to `ToolSucceeds` or `ToolFails`. `AbortRun` is
`?` in `run_mission` at any of its writes, `AbortLaunch` the one between a goal's Ready row and its worker
(workers live on, the token stays registered); `LoseWorker` a failed write or a
panic in a worker. `Replan`, `Conclude` and `Extend` are the mission service as the engine sees
it. Goals are numbered in row order; a plan is the function `deps`, a member of `Plans`, and grows by
raising `rows`. Tool input and output, timing, and event payloads are left out. `Exclusive` says
that the service starts a run only when the last one has returned; section 6 says what happens
otherwise.

**MissionService** (`forge-mission` lib.rs). A call of `plan_and_run` or `extend` is a program counter
`pc[c]`; each read or write of the mission row is a step, the status tests are made where the code
makes them. A wave (`run_mission`) is its start, its progress and its end, in the same three steps as in
ExecutionEngine (`EndWave`, `FlipMission`, `LeaveWave`; `next` is the verdict in between): `WaveEffect` says what it may have done to
the goals, of which only the number in each state is kept (ExecutionEngine has the rest, and a goal
is *stuck* when a cycle or an unknown id keeps it from ever starting). `pass` counts the replans of
one call; the goal cap is tested for replans only, as in the code. `Cancel` is accepted at any time
and flips the token that is registered, if any; the history variable `asked` records that a mission in
flight was asked to stop. `Restart` keeps the rows and nothing else.

**MissionRows** is the abstract specification of a mission for whoever reads its rows: goals come in
while it is planned or runs, settle while it runs, and stay settled; its status moves as
`can_transition` allows, and a verdict fits the goals. `MissionService!KeepsItsPromise` is the
refinement; **ApiServer** uses the same steps for what the service may do between two of a handler's
reads, so that what is checked of the clients rests on what is checked of the service.

**MissionQueue** (`sqlite.rs`, the queue's repository). One SQL statement or transaction is one step;
`enqueue` is two (`LookUp`, `Insert`), and `crowd` records how many callers have been between the two for
a mission at once. Of `heartbeat_at` only *null, fresh, old* matters.

**WorkerPool** (`worker_pool.rs`). Workers take a row, check the mission (`plan_only` refuses what is
not Draft), plan, run, and report; the heartbeat is a task of its own (`beat`), which is what lets it
outlive a panic; the janitor requeues; `Restart` is a crash and the boot after it. Planning and
execution are one step each, and `StrandMission` is a fault that leaves a mission without a verdict.
`Timely` says that heartbeats come before the threshold.

### Models

**LlmProviders** (`forge-llm`, one file per provider) is functions: `Body` turns a conversation into
what is sent in each dialect, `Outcome` a reply into content or an error, each with the oddities of its
adapter (which error for an error object, what a null choice does, who sends a limit). `ReadBody`, what
the model at the other end takes in, is the reference for the bodies.

**LlmRouter** (`forge-llm` lib.rs). A request is at a provider (`at`, `phase`) and passes it over
(`Skip`), calls it (`Send`) and hears from it (`Reply`: `Answer` or `Refusal`) in steps that other
requests and `Lapse`, the breaker's time, interleave with. The count behind a breaker outlives its
time, as in the code. `costs` is a mission's bucket; `summed` and `answers` are history.

**Planner** (`forge-planner` lib.rs and `reflector.rs`) is functions on answers: `ParsePlan`,
`ParseReplan`, `ParseInputs`, `ParseReflection`, and what becomes of the ids: `PlanRows`
(`materialize`), `DeltaRows` (`materialize_delta`), `Inserted` (the rows an insert with clashing ids
leaves behind).

**OrgMemory** has the memory's rows with the dimension of their embedding, both searches and the
recall that falls back from one to the other, with each of its three calls failing or not (`works`), the backfill, and a restart with another embedder.

**ModelCalls** composes the three along a mission's life: `BeginPlan`, the second attempt
(`PlanInvalid`), `PlanArrives`, a worker's inputs in a wave, replans, summary, reflection, `Extend`,
`Reboot`. A mission has two callers at once, its service task and a worker of the wave in progress,
whose call outlives a cancelled wave.

### Tools

**RequestReply** is the abstract specification of a remote procedure: a call returns with the answer
to the request it made, or with an error.

**McpClient** (`client.rs`, `transport.rs`). `Call` allocates the id and enters it in `pending`; `Write`
puts the frame into the pipe if there is room; `Receive`, `Timeout` and `WriteFails` end the call. The
pump takes an entry out of the map (`Pump`) and completes it (`Give`) in two steps, between which the
caller may time out; at the end of the server's stdout it lists what is pending (`PumpCloses`) and
fails it one by one (`FailOne`). The server reads, answers in any order and as often as it likes, says
things nobody asked for, closes its stdout or exits.

**Policy** (`forge-policy` lib.rs) is `Evaluate`: rules, patterns of `regex_lite`, prefixes.

**ToolCalls** composes them: boot starts the configured servers one after the other and goes on
whatever comes of it (`BootStep`), the registry has the last server's tools under a name, and a task
is ruled on (`Ask`), approved, and calls a builtin tool or a server (`Invoke`, `Finish`).

### The outside

**ApiServer** (`forge-server` lib.rs and `openai_compat.rs`). `handler[c]` is where the handler of a
caller's request stands; `driver` who plans or runs a mission, a task or a handler. `Leave` drops a
handler at any point; `Crash` all of them with the tasks. A chat polls (`ReadFirst`, `ReadSecond`: the
mission, then its goals) until the mission has ended or its 300 seconds are over (`TimeIsUp`).

**Clients** (`apps/forge-cli`, `apps/forge-vscode`, `apps/forge-gateway`). A shell makes one request at
a time, or waits; the gateway receives a message (one action per webhook), acknowledges it, calls
Forge and replies. What a message says, and whether it is signed as it should be, is left to chance.

### Skills and events

**SkillHistory** (`skills_history`, `versions.rs`) and **SkillLifecycle** (`skills_ops.rs`,
`proposal.rs`, `loader.rs`). A document is its own sha; a history row is a document, the one it
replaced, and whether it is active. `std::fs::write` is two steps, as it creates a file and then fills it:
in between, and for good if it is cut short, the file holds a beginning of what was to be written (`Torn`: no
skill at all, or, for documents in `Beginnings`, a shorter one). `store[d]` is therefore what the file of
d's sha *holds*, and `put` passes over a file that exists, whatever it holds (`Create`, `Fill`, `Stored`).
Files of `active/` have names, and `FileOf` takes a skill to its canonical one: `sanitize` takes `node.js` and
`node-js` to the same, so that `FileOf` need not be injective. An operation is a sequence of file and table
writes of one actor: a user, the AutoPromoter, the Curator. `Sweep` .. `Confirm` is a promotion, `ApproveByHand` the
desktop's approval (the file moves and nothing else happens), `Rollback`, `Retire`, `Scan` and
`Archive` the others; `Approve` - `Write`, `Place` - `PlaceAll` and `Store` - `StoreAll` are the writes of files; `Load`,
`SeedKnown`, `SeedRetire`, `SeedPut` - `SeedPutAll`, `SeedInsert` are boot. Which skills are alike
and which was used less lies outside (`Duplicates`; either of a pair may go). `clash` and `broken` are
history variables: skills on which two operations have overlapped, skills with an operation cut
short, with a file put into `active/` behind the history's back, or with one overwritten by another
skill of the same file name (`Losers`). The SELECT and UPDATE of
`retire_active` are one step.

**EventBus** (`forge-events` lib.rs, the event store in `sqlite.rs`). An event is its row number.
`AppendRow` and `Send` are two steps; `Abandon` is a publisher that is dropped in between. The
channel keeps the last `Capacity` envelopes, and a receiver behind it skips (`Lags`, `CatchUp`).

**CheckpointFeed** models the subscriber that boot starts and its repository: a workspace is the set of
changes it holds, a commit a label and such a set. **DesktopFeed** models the bridge, the webview's
listener, up to `Requests` requests for the backlog and the store that merges the two. **EventFeeds**
composes them over one bus. Desktop process and webview start and end together, so there is no
restart here. **EventStream** is the third kind of subscriber, a connection of `GET /events`, with
`forge events` at its other end.

The definitions marked `Mutant:` in the modules are not part of any specification: each is a form a
definition would take under a plausible bug, and shows that the property named with it in
`PROJECT.json` can fail.

## 4. Runs

| Run | Specification | Instance | What it shows |
|---|---|---|---|
| exec_plan | FairSpec | 3 goals x 2 tasks, 5 plan shapes (chain, reversed chain, fork, join, reversed fork), first task of each asks, 2 in parallel, 1 retry, cancellation; 1 run, no fault | `DepsDoneBeforeWork`, `NoWorkerLeftBehind`, `ApprovalBeforeTool`, `CompletedGoalIsWhole`, `CancelReturns`, `RunReturns` |
| exec_extend | Spec | 2 x 2, independent, chained, cyclic and dangling plans, the last goal denied; 2 runs with a replan or an extension between, 1 fault | `CompletedMissionIsWhole`, `InvocationBound`, and the refinement `GraphSpec` |
| pool_core | FairSpec | 2 missions, 2 workers, 2 callers of enqueue, 2 rows, 1 fault, 1 crash | `RowsFollowCalls`, `OneWorkerPerMission`, `FinishedMeansEnded`, `QueuedMissionsEnd` |
| pool_crash | FairSpec | 1 mission, 1 crash | `CrashLosesNoMission` fails (section 6) |
| service_core | FairSpec | 2 calls one after the other, 2 replans, cap of 4 goals, stuck goals, 1 fault, 1 crash | `CompletedMeansDone`, `ReflectsOnTheEnd`, the refinement `KeepsItsPromise`, `CallsReturn`, `HeardCancelsCancel` |
| models_core | FairSpec | 1 mission and its 2 callers, Gemini with a key and a local server of OpenAI's dialect (a third without its key is left out), 6 replies, 4 requests, 1 insight, embedder on or off, 1 replan, 1 restart | `CostsAddUp`, `OpenMeansFailing`, `ConversationsSurvive`, `RecallDegrades`, `InputsReachTheirTasks`, `CallsComeBack` |
| tools_core | FairSpec | 3 entries of `mcp.yaml`: a server that says up to 3 things, one switched off, one that never speaks; boot, then a task with up to 2 calls; pipe and channel of 2 | `PendingHasCaller`, the refinement `AnswersAreOnes`, `BootComesToAnEnd`, `CallsReturn` |
| tools_requests | FairSpec | the same with a server that makes requests of its own | `AnswersAreOnes` fails |
| skills_core | Spec | a skill with two documents, one a beginning of the other, and a duplicate of it with the same canonical file; 1 user, AutoPromoter and Curator at once, 2 promotions, approvals or rollbacks, any number of retirements, 1 mishap, 2 boots | `RowsAreStored`, `OneActiveVersion`, `FilesMatchHistory`, `PromoterSurvives` |
| feeds_core | Spec | 3 events of a worker and of the checkpoint feed, a channel of 2, 2 requests for the backlog, 2 changes, 1 revert, 1 loss | `ChangesAreCommitted`, `StoreIsComplete`, `TwiceAtMost` |
| clients_core | FairSpec | 1 shell and 1 message of the gateway's, 1 mission of 1 goal, 1 extension, 1 fault, 1 restart of the gateway | `SummaryIsSettled`, `RequestsEnd`, `AnnouncedAreRun`, `WaitsEnd`, `AcknowledgedAreAnswered` |
| stream_replay | Spec | 2 publishers, 1 watcher, 3 events, a channel of 2 | `StreamsReplay` fails |

**Why the bounds are enough.** Three goals are the fewest with a goal that is both child and parent, and
allow a chain, a fork and a join in any row order; two tasks distinguish "before", "during" and "after"
in a worker; with `MaxParallel` 2 of 3 a goal waits for a permit while two run. Two runs suffice for
everything that outlives a run (rows, budget, detached workers, stale map entries); one fault at any
point of either run covers each error path, and further faults start from states that one fault
already reaches or are covered by the proofs, which have no bound. Two missions and two workers let a
row be taken over while its old worker lives, and two callers and two rows of one mission are the race of
`enqueue`; more callers only add rows, which the theorem counts. The wave, replan and drain branches of the service are
all taken with two replans, and the cap of 4 is met with plans of 2.

Four requests let a mission be planned in two attempts with a worker's call before and during the
next, and open a breaker (three failures) of the first provider while a second request is under way;
the replies are one for each thing the planner makes of an answer, in whatever place it comes, so that
a plan arrives where inputs were asked for, and the reverse. A failure is `unsent`; the other kinds differ
in their error only. Two calls of a task, three of boot and a server that says three things put a
late answer, a second answer and a stray frame into the way of the next call. Everything an MCP
property speaks of happens to one server at a time, as each has its own map and pump.

Two documents of one skill and one of another give replacement, rollback to the replaced one and a
Curator's choice; that both have one file name, and that one document is the beginning of the other, are
the worst that names and cut writes can do to two skills. A channel of two lags with three events;
`ReadLimit` and `MaxShown` are just large enough for a history that fits, which is what the properties
about it suppose, and `TwiceAtMost` meets each doubling. With one mission the shell and the gateway's
chat do not compete for work (missions do not meet in the server); what meets is several handlers on one
mission, and its driver. One goal suffices for a summary that shows it open or settled.

`MaxRows`, `MaxRuns`, `MaxCalls`, `MaxBegun`, `MaxBoots`, `MaxEvents`, `MaxWrites`, `MaxReverts`,
`MaxRequests`, `MaxMemory`, `MaxReboots`, `MaxAsks`, `MaxSaid`, `MaxMissions`, `MaxGoals`,
`MaxExtensions`, `MaxRestarts` and the fault counters bound the state space and are guards of the
actions that count.

Deadlock is not checked: every one of these systems comes to rest when its bounds are used up, as a
mission does when it has ended.

The two requests for the backlog are interchangeable in feeds_core, which checks no liveness, hence
the symmetry there.

**Fairness.** `ExecutionEngine!FairSpec`: weak fairness of each walker, because tokio polls a task
that is ready and the walker sleeps for a fixed time only. `CancelReturns` needs nothing more: tools
may hang (the shell tool has no timeout), users may stay silent. `RunReturns` supposes
`Cooperation`: workers are polled, tools return, and a user who is asked answers until the answer is
taken - once is not enough, see section 6. `MissionService!FairSpec`: a call in progress is polled,
planner (its requests have timeouts) and waves (under the conditions of the two properties above)
return. `WorkerPool!FairSpec`: live workers take steps, rows nobody refreshes age, the janitor's timer
fires. `ModelCalls!FairSpec`: a request under way goes on, as each provider's call has a timeout.
`ToolCalls!FairSpec`: tasks are polled, pumps run, a call's timeout fires, boot goes on, and a server
reads what it is sent until it exits (a write has no timeout, see section 6); that it answers is not
assumed. `ApiServer!ServerFairness`: handlers are polled, the clock of a
chat runs, and a plan comes or the planner gives up; that a running mission ends is not assumed.
`Clients!FairSpec` adds that a command that waits goes on looking, its clock runs, and the gateway's tasks
are polled. No fairness is assumed of users, faults, crashes, heartbeats, callers of enqueue, clients
that leave, or new calls.

## 5. Proofs

TLAPS checks 54 theorems (and their lemmas) for every value of the constants that the named
assumptions allow. TLC has checked each property first, the ones no run lists any more on the instances
of section 4.

| Module | Theorem | Establishes | Hypothesis |
|---|---|---|---|
| ExecutionProofs | `TypeCorrect` | `TypeOK` | |
| | `EndedRunsAreClean` | `NoWorkerLeftBehind` | |
| | `WalkerInvariant` | the inductive invariant `IInv` | `Exclusive` |
| | `DependenciesFirst` | `DepsDoneBeforeWork` | `Exclusive` |
| | `SkipsHaveCause` | `SkipHasCause`: a skipped goal has a failed or skipped dependency | `Exclusive` |
| | `CopiesStayFresh` | `RunMirrorsRows`: a run's copies are the rows | `Exclusive` |
| | `EngineImplementsGraph` | `GraphSpec`: every step of the engine is a step of GoalGraph or a stutter | `Exclusive` |
| | `SettledRowsStay` | `TerminalGoalsStay`: a settled goal rests | `Exclusive` |
| | `CompletedMissionsAreWhole` | `CompletedMissionIsWhole` | `Exclusive` |
| | `ApprovalFirst` | `ApprovalBeforeTool` (and `SenderHasOwner`) | `Exclusive`, as long as `CancelledLast` holds |
| | `InvocationsAreBounded` | `InvocationBound` | `Exclusive` |
| | `CompletedGoalsAreWhole` | `CompletedGoalIsWhole` | `Exclusive`, as long as `CancelledLast` holds |
| PoolProofs | `TypeCorrect` | `TypeOK` | |
| | `FinishedRowsStay` | `FinishedRowsRest`: a finished row rests | |
| | `RowsPerCall` | `RowsFollowCalls` | |
| | `WorkersStayApart` | `OneWorkerPerMission` | `Timely` |
| | `FinishedRowsHaveEnded` | `FinishedMeansEnded` | `Timely` |
| ServiceProofs | `TypeCorrect` | `TypeOK`: no call replans more than `ReplanCap` times | |
| | `CallInvariant` | the inductive invariant `CallInv` | `SingleCaller` |
| | `LegalStatusMoves` | `StatusMovesAreLegal`: the status moves as `can_transition` allows | `SingleCaller` |
| | `CompletedIsDone` | `CompletedMeansDone` | `SingleCaller` |
| | `LoopReachesTheEnd` | `ReflectsOnTheEnd` | `SingleCaller` |
| | `ServiceImplementsRows` | `KeepsItsPromise`: every step of the service is a step of MissionRows or a stutter | `SingleCaller` |
| SkillProofs | `TypeCorrect` | `TypeOK` | |
| | `LifeInvariant` | the inductive invariant `LifeInv` | |
| | `HistoryOnlyGrows` | `HistoryGrows`: no history row is removed or rewritten, but for being active | |
| | `RowsStayStored` | `RowsAreStored` | |
| | `ParentsComeFirst` | `ParentsPrecede`: the replaced document has an earlier row | |
| | `OneVersionActive` | `OneActiveVersion` | |
| | `PromoterLives` | `PromoterSurvives` | |
| | `FilesFollowHistory` | `FilesMatchHistory` | |
| FeedProofs | `TypeCorrect` | `TypeOK` of the composed specification | |
| | `EventsAreSentOnce` | `SentOnce` of the composed specification: no event is sent twice | |
| | `EveryChangeIsCommitted` | `ChangesAreCommitted` | |
| | `LabelsFitCheckpoints` | `LabelsFit`: a checkpoint's label is in its commit or was reverted | |
| | `ShownTwiceAtMost` | `TwiceAtMost` | |
| | `StoreComplete` | `StoreIsComplete` | |
| ModelProofs | `CostsAreCounted` | `CostsAddUp` | |
| | `OpenBreakersFail` | `OpenMeansFailing` | |
| | `InputsAreSorted` | `InputsReachTheirTasks` | `RepliesTyped` |
| | `RecallFallsBack` | `RecallDegrades` | |
| | `ConversationsAreRead` | `ConversationsSurvive` | |
| | `AnswersAreExpected` | `AnswersMeetTheirQuestion`: an answer is read at the stage that asked for it | |
| | `GoalsAreDistinct` | `GoalIdsAreUnique`: a mission's goal rows have ids of their own, all of them allocated | `RepliesTyped` |
| | `PlansAreClosed` | `PlansStandAlone`: a plan's goals wait for goals of the same plan, and these are there | `RepliesTyped` |
| | `ReplansAreCapped` | `ReplansKeepTheCap`: a replan never takes a mission over the goal cap | `RepliesTyped` |
| | `TypeCorrect` | `TypeOK` of ModelCalls: two attempts at a plan at most, `ReplanCap` replans at most | `RepliesTyped` |
| ClientProofs | `TypeCorrect` | `TypeOK` of server and clients | finitely many callers |
| | `SummarySettled` | `SummaryIsSettled` | |
| | `AnnouncedHaveDrivers` | `AnnouncedAreDriven`: a mission that was asked to be run has a driver until it runs | |
| ToolProofs | `EntriesHaveCallers` | `PendingHasCaller` | |
| | `ClientImplementsRequests` | `AnswersAreOnes`: every step of boot, tasks, client and servers is a step of RequestReply or a stutter | `NoOwnRequests` |
| | `TypeCorrect` | `TypeOK` of ToolCalls | |
| | `OnlySanctionedCalls` | `CallsAreSanctioned`: what is under way at a server is allowed, announced, and the task's own | |

Where a hypothesis stands, the property is false without it (section 6), and the hypothesis says what
the code does not exclude: overlapping calls on one mission, a threshold below the heartbeat's interval,
or a server that makes requests itself. Two are of another kind and say what a value of the model may
be: callers are finitely many, and in an answer the indexes of final inputs are numbers and the goals of
a plan a list (`RepliesTyped`; serde decodes them as such). Besides hypotheses the proofs use the
assumptions declared with the constants, such as `ConfigAssumption` (a configured provider has a kind
and a key) or the two `CallersAssumption`s (who makes requests of the router and of the MCP client) and
`CapAssumption` (the caps on replans and goals are numbers, and replans are not capped at zero); TLC
evaluates them on every run.

**The engine.** None of the engine's safety properties is inductive. Why may a worker trust that its
goal's dependencies are completed rows? Because the walker launched it from its own copies, and
these *are* the rows (`RunMirrorsRows`); they are because nobody else writes rows while a run is live
(`OneRunAtATime`), and because new goals arrive between runs only and are Pending until then
(`RowsToCome`). Why do completed dependencies stay so, with retries going on? Because the walker only
ever touches goals it has a handle of, and these are Ready (`HandlesAreReady`). Why may a retried
goal be launched anew without two workers on it? `WorkersHaveHandles`. So `IInv` is the conjunction of
these with `TypeOK`, `WorkersBelowDone`, `SkipHasCause` and, for the steps between the last look at the token
and its removal, `CompletingIsWhole` (what is about to be Completed is whole still), in three groups: types;
the handles, which hold however many runs overlap (hence `EndedRunsAreClean` has no hypothesis); and the rows. The proof
has a lemma per kind of step: the walker's writes, the other steps of the walker, the workers, the
environment. The refinement needs `IInv` once more per step. Its mapping takes `paid` to the goals whose
handle a run has taken and whose budget it has written (`Paid`), so that the two writes of a retry are
two steps of GoalGraph, and a failure between them is its `Forfeit`. `DrawVerdict` counts completed and
failed goals in the run's sets, and `CountMeansWhole` shows by cardinality that the count is the
statement about rows GoalGraph makes. `SettledRowsStay` and `CompletedMissionsAreWhole` then follow
from GoalGraph's steps alone, without looking at the engine again.
`ApprovalFirst` adds to `IInv` what a sender in the map means (`AskInv`): it is that of a worker parked on
the task, and a parked worker whose sender is gone was granted its request, so that being let go is being
allowed. A step of a worker disturbs this only for tasks of its own goal, and only if another worker is
there: `OneRunsWorkers` says there is none. Runs come one after the other (`RunsInOrder`) and one that
ends by itself leaves nobody behind, but one that is cancelled does, and therefore the theorem speaks of the
states in which no run has begun after a cancelled one (`CancelledLast`).

`InvocationsAreBounded` is a count. `InvocationBound` itself says nothing of the budget that is left, so the
invariant is an account (`CallsInv`): an invocation of a task is that of a worker that is still behind it,
was paid for with a unit of the goal's budget, or settled the goal. A worker that goes on behind a
cancelled run is on the account until it has ended; at the end at most one run is neither cancelled nor
aborted, which is the bound.
`CompletedGoalsAreWhole` needs that a worker is right about the tasks it has passed (`TasksInv`): it skips
a task because its copy of the row says Completed, and the row still says so as nobody else writes it. A
worker of a cancelled run does, when an extension has begun a run on the same goals; hence
`CancelledLast` once more (section 6).

**The service.** `CallInv` says what the mission's status is wherever the one call is
(`StatusFollowsCall`): the copy a call writes from is then as good as the row. Skips are below failures
(`SkipsBelowFailures`), so that a verdict that counts skipped goals as done never says Completed over
one; a verdict that is drawn and not yet written still fits the goals when it is (`VerdictIsPending`,
`VerdictFits`); and the last drain leaves nothing open that could start (`DrainSettles`). The refinement of
MissionRows follows from `CallInv` in two parts: what a step does to the goals (a wave settles them while the
mission runs, a plan or an extension adds to them), and what it does to the status, which is written by
one call and fits the goals that call has read.

**The queue.** `enqueue` looks and inserts in two statements, and callers may be between the two at once.
`CrowdInv` counts them as if their rows were there: active rows and callers about to insert one are together
no more than have ever been about to at once, since whoever looked last saw no row at all. Nothing has to
be supposed about callers, and where they have not overlapped the count is one. That finished rows rest needs no invariant beyond types: `finish` is
called with a row its worker claimed, `requeue_stale` touches claimed rows only.
That workers stay apart is a matter of rows at first: a worker that works has a claimed row to itself, and
its heartbeat keeps the row fresh (`ClaimInv`). This is where `Timely` is needed, which says that the
stale threshold is longer than the heartbeat's interval: the janitor passes over a row with a beat. A
mission whose enqueues have not overlapped has one active row, and so never two workers. Finished rows need a worker's program counter
and the mission's status to agree (`EndInv`): a mission that has begun and not ended is in the hands of
a worker, so that the status a worker leaves is the one it finds. All three are about histories without
faults, as the properties are; a panic leaves a claim that stays fresh.

**Skills.** `LifeInv` adds to the types that an operation is at a step of its own, has a document, runs
only while the process is up, and that what it is about to record has a file in the store; as files of the
store are never removed, so has every row (`RowsHaveFiles`). That the file holds the document is more: a
put passes over a file that another put has created and not yet filled, or never will. Where operations have
not overlapped nor been cut short, a file of the store is whole unless its one writer is at it
(`WholeStore`), and what a file of `active/` or an operation holds under a document's name is that document,
or is of the same skill at least (`NamesInv`). `ParentsKnown` says
that the document an operation remembers as replaced has a row; since rows are never removed
(`HistoryOnlyGrows`) it still has when the new row is written, whoever was faster. `OneInv` says that
where operations have never overlapped, an operation that is about to insert a row, and boot that is
about to seed one, has no active row of the skill left.
`ConfirmInv` says that a version that has just been promoted is active until the promotion is confirmed, so that
the AutoPromoter does not end itself over a version it does not find; it rests on what promotion and retirement do
to the rows of *other* skills, which is nothing (`RetireTable`, `PromoteTable`).
For `FilesMatchHistory` an operation is followed through its half-done states (`AtStep`): up to the step in
which it writes its row it has either left files and rows in agreement, or made the file that the row will name. A
file is found by its name, and so the names matter: a file is named by its document, or by its skill
when a rollback wrote it (`FileNames`). During boot, files may lack a row, but no row lacks its file;
what seeding has not come to yet is still in `todo`. The proof has a lemma per kind of step, and one that
says that the files and rows of the other skills are as they were (`FilesElse`, `RowsElse`).

**The bus and its subscribers.** `PublishInv`: an event is either with the publisher that wrote it or sent,
never both. What the checkpoints are owed follows from the types alone: a change is under way (`Underway`) until
it is committed, and every step that takes it off the way without a commit puts it in `missed`. Labels
need that what is announced is or was in the workspace (`AnnouncedWasThere`).
On the desktop's side every event is on exactly one way to the store besides backlogs: with its
publisher, in the channel, or on the wire to the webview (`ComesOnce`). An event that is still coming is
therefore in the store once at most, and from a backlog (`ComingIsOnce`), and what arrives cannot make it three
(`NoThird`). `StoreIsComplete` is carried by the statement that no event is unaccounted for
(`BacklogInv`, `StoreInv`): from the moment a request is made with bridge and listener in place, an event
the backlog does not hold is coming, shown, erased or dropped. That events fit into the store while they
may be there twice needs a count of what the bridge has received (`RoomInv`), and that no more events are
sent than there are rows (`SentAtMost`, by the pigeonhole principle). The assumption on the desktop's
constants names one thing these proofs found unsaid: the value for "no request" is not a request.

**The server.** `SummarySettled` relies on the promise of MissionRows, which the handlers' model takes for granted in
`Work`: a row is in order at every read (`RowOK`), and nothing but an extension takes a mission out of
Completed. A handler that has read Completed and not the goals yet is then right about the mission
still, or was crossed by an extension (`SettledInv`). The type invariant needs the count of
extensions under way (`ExtensionInv`), and with it that the callers are finitely many: an extension is begun
in one step and counted in a later one, and the bound must hold for all of them together.
`AnnouncedHaveDrivers` is the safety part of `AnnouncedAreRun`: a mission that is announced and not running yet
never loses its driver to a caller that goes away, unless the caller's own handler was the driver
(`DrivenInv`, with what each handler has in hand, `HandInv`).

**Models.** `CostInv` is `CostsAddUp` with the types it is about: an answer adds to its mission's bucket
in the same step that counts it, and a drain moves the bucket whole. `OpenMeansFailing` needs that a
request in flight is at a provider that there is (`RouteInv`) and that a breaker's count is that of the
failures since the last success (`BreakerInv`).
What an answer holds is that of a reply some provider decoded (`GotInv`), in which the indexes of final inputs are
numbers (`RepliesTyped`: serde decodes them as `usize`, planner lib.rs:299). `parse_materialize` refuses too
few, too many, too large and repeated ones and never asks whether one is missing; that none can be is the
pigeonhole principle (`InputsComplete`).
For recall, the rows of the memory are a sequence (`TableInv`), so that of the rows that share a keyword there is
a newest one, which no row is ahead of and which no limit above zero drops (`KeywordFinds`); a failed search by keywords
is the one way to be reminded of nothing.
`ConversationsSurvive` is about eight dialects and needs to know what is translated: a request under way is a
prompt and a brief, or these with an answer and the complaint about it (`ConversationInv`), since a second attempt is
made once, from the two messages of the first. What a filter keeps of such a list is an interval of it (`KeptParts`),
which is why `Kept` is written with places instead of the library's recursive `SelectSeq`; then each body is
read back case by case (`ConversationIsRead`).

A mission's service task is at one stage at a time, and its call under way is that of the stage
(`AnswersMeetTheirQuestion`, which is inductive): leaving a stage consumes the answer. This is why the
planner may read whatever it gets as an answer to its last question, and why only the worker's call may
outlive a wave. What an answer does to the rows is the same for plans and replans (`Write`): rows with
newly allocated ids (`RowsAreNew`: an id given twice is that of the last goal that has it), inserted up
to the first whose id is taken (`InsertedPart`). Hence ids stay unique (`GoalsInv`), a replan adds no
more rows than it was counted for, and a plan that is inserted whole (`InsertedWhole`) has all the goals
its goals depend on, as `parse_and_validate` refused ids from elsewhere (`PlanIsClosed`). That a
replan's need not is `DeltaRows`: what reads as a row's id is taken for one. The bounds of `TypeOK` on
attempts and replans follow from how a mission moves between stages (`Rounds`).

**Tools.** That an entry of the map has its caller is inductive with three facts about the three places
a request can be in (`PendingInv`): ids in the map or the pump's hand were handed out (`IdsAreGiven`),
so that a new entry meets no old completion; what the pump holds is out of the map, unless it is at its
end, where it looks again (`HandIsOutOfMap`); and a caller whose one-shot channel was used has no entry
(`SlotIsOutOfMap`), so that taking the value may leave the map alone. For the refinement of RequestReply,
`Truth(s, id, request)` says that a request is the one that went out to a server under an id; ids are not used
twice (`CallsDiffer`), and so what is in the server's stdin, in what it has read, in the frames on their
way and in the pump's hand stays true however long it is under way (`TruthInv`) - also after a timeout, when
the same caller waits for another id. Frames with the id 0 stand for those that are answers to nothing; a
server's own request with an id of its own numbering breaks `Truth`, and with it the property (section 6).

For `CallsAreSanctioned` a task is followed from its ruling to its call (`ClearedInv`): what it is about to call was
ruled on with the rules there are, after boot, and what it calls is a tool that boot has reported for
that server (`StatusInv`). Boot is over by then, so that the registry does not change under a call that is
under way; and the client makes no calls by itself (`ClientMakesNoCalls`). Boot is a caller like the tasks and none
of them, which `CallersAssumption` now says.

**Model-checked only.** Liveness (`CancelReturns`, `RunReturns`, `QueuedMissionsEnd`, both
`CallsReturn`, `HeardCancelsCancel`, `CallsComeBack`, `BootComesToAnEnd`, `RequestsEnd`,
`AnnouncedAreRun`, `WaitsEnd`, `AcknowledgedAreAnswered`) is beyond the prover, which has no rule for
fairness. What the runs check of safety is proved, all of it. `SenderHasOwner` (the map of approvals holds nothing
stale; proved with `ApprovalFirst`), `LabelsFit`, the properties the table states for ModelCalls, ToolCalls and
ApiServer beyond those of section 4, and the `TypeOK`s of the feeds, the models, the tools and the clients are proved, and
no run lists them: TLC has checked each of them on the instance of its component's run. `RowsFinish` is defined in its module and holds on the instances of section 4.

## 6. Where code and documentation part

Three statements of the repository's documents and comments are refuted by a run of their own
(`PROJECT.json`, "findings"):

| Run | What is said | What the code does |
|---|---|---|
| pool_crash | stale rows are requeued "so a crash can't lose a mission" (migrations.rs:92) | The worker that claims the requeued row is refused: the mission is not Draft any more. The row ends failed, the mission stays Planning or Running. |
| tools_requests | "`id` correlates back to the request" (protocol.rs:71) | A request of the server's own has an id of the server's numbering. If that id is pending here, the pump completes the call that has it, with the result null (client.rs:213). |
| stream_replay | `/events?since=0` sends the events from boot on (TEST_SUITE.md:909), "`since` skips replay" (BUILD_LOG.md:607) | Nothing published before the connection is ever sent; a `since` above the newest event hides the events to come as well. |

The models show further disagreements under other constants. Each property below is defined in its
module (or is one the runs check under a hypothesis), and TLC finds it violated as follows.

* **Quiescent is not settled.** `QuiescentMeansSettled` (ExecutionEngine) with 3 goals of 1 task, one
  chain listed backwards, 1 run: `run_mission` runs "until quiescent (all terminal)" (forge-execution
  lib.rs:143), but a launch pass visits goals once, in row order, and the run ends when nothing is in
  flight. The first goal fails, its child is skipped, and the child's child is Pending when it returns.
* **Overlapping runs.** `ApprovalBeforeTool` with `Exclusive = FALSE`, 2 goals of 1 task, 2 runs, no retry,
  `MaxParallel` 1: the second run's request for approval replaces the first one's sender in the map,
  and a dropped sender releases the first worker like an approval (forge-execution lib.rs:379 and :11).
  Runs overlap when two calls do, see `ExtensionStartsAlone`.
  It also fails with `Exclusive = TRUE`, 2 goals of 1 task and 2 runs, when the first run was cancelled while
  its worker was parked and an extension starts the second: when the worker is polled, the second run's
  request may have replaced its sender, and both arms of its select are ready. (TLC's shortest trace has
  the first worker's tool, which was allowed, still running when the second run asks again for the task.)
* **More invocations than retries.** `InvocationBound` with `Exclusive = FALSE` and 2 runs: each of two
  runs at once has a worker on the goal, and both have the whole budget to spend.
* **Detached workers write back.** `CompletedGoalIsWhole` with 3 goals, a first goal alone, a follow-up
  below it, 2 runs: the cancelled run's worker finishes its tool after an extension has completed the
  goal, and writes its own status over the task row (mission lib.rs:650, "preserved in the DB").
* **Detached workers take answers.** `RunReturns` with 2 runs, the first cancelled: a worker it left
  behind may hold the map's entry, take the user's approval, and write its task row over the request
  the user should see, so that the second run waits for an answer nobody is asked for.
* **Approval too early.** `AnsweredMeansUnparked`: the request is published before the sender is in the
  map; an answer in between is dropped without an error (forge-execution lib.rs:374).
* **Tasks without an outcome.** `TaskHasOutcome` with one fault: after a panic or a failed write the
  task row stays Running although its run has ended (ARCHITECTURE.md:209).
* **Two callers of enqueue.** `OneActiveRow` on the instance of pool_core: both callers look, both insert
  (forge-persistence lib.rs:197-200, "only ONE row"). `RowsFollowCalls` says how far it goes.
* **Two workers on a mission.** `OneWorkerPerMission` without its `EnqueuedAlone`, or with `Timely = FALSE`:
  two rows, or one that is claimed twice, and both workers have seen the mission Draft before either
  writes Planning. `FinishedMeansEnded` without its `EnqueuedAlone`: the worker that is late finishes its row
  while the mission runs.
* **A panic keeps its claim fresh.** `DeadClaimsRequeued`: the heartbeat task is aborted by code a panic
  unwinds past (worker_pool.rs:64-66).
* **Short thresholds.** `FinishedMeansEnded` with `Timely = FALSE`, which is the case from 10 seconds of
  `worker_stale_secs` down: the heartbeat's interval is at least 10 s, the janitor takes the row from a
  living worker (worker_pool.rs:116, mission lib.rs:143-144).
* **A cancellation nobody hears.** `RequestedCancelsCancel` (MissionService) with 1 call, 1 replan, no
  fault: there is a token only while a wave runs; a cancellation during a replan is published and has
  no effect ("running --> cancelled : mission_cancel_requested", DIAGRAMS.md:114).
* **A token flipped too late.** `FlippedTokenCancels` (MissionService) with 1 call, no fault: `run_mission` looks
  at its token (forge-execution lib.rs:260), writes the mission, publishes an event and then removes the token
  (:278). A cancellation in between finds the token, flips it and is answered as any other, and the mission
  ends Completed, or goes on if the wave had no verdict (the same line of DIAGRAMS.md).
* **Two calls on one mission.** `ExtensionStartsAlone` with two `Callers`: the terminal status is visible
  before the replan loop has looked at it; an extension sends the mission to Draft, the loop takes it
  for one to replan, and both drive it (mission lib.rs:355, :644-645).
  In ApiServer, `RowsKeepTheirPromise` (the handlers' own writes keep MissionRows' promise) fails with two
  shells and two extensions: the second makes a mission Draft that the first has under way again.
* **The goal ceiling** `GoalCeiling`: the cap holds for replans, not for the first plan or an
  extension's (mission lib.rs:36, README.md:177-178).
* **Cycles.** `ReflectsOnTheEnd` excepts stuck goals for a reason: plans are announced to be checked for
  cycles (planner lib.rs:521) and are checked for unknown ids only; such a mission is reflected on and
  stays Running (mission lib.rs:255-256).
* **Restart.** `InFlightMissionsEnd` with one restart: boot requeues rows, missions without a row stay
  Planning, Ready or Running, and both `plan_and_run` and `extend` refuse them (DIAGRAMS.md:226).
* **Costs that no summary has.** `SummariesAreComplete` (ModelCalls): a MissionCostSummary "aggregates
  every LlmResponded event" of its mission (event.rs:89); the reflection's call and a detached worker's
  come after the drain (mission lib.rs:263) and are in no summary unless the mission is extended.
* **An old proposal file wins.** `BootKeepsVersion`: a promotion leaves the previous proposal's file in
  `active/`; the next boot takes it for a user's edit and makes it the active version
  (skills_ops.rs:322).
* **Retired skills come back.** `LoadsOnlyActive` (SkillLifecycle) with one skill, no mishap, 2 boots:
  "archived/: retired skills, never loaded" (versions.rs:19-21); the loader skips `archived/` and
  `proposed/` but walks `history/`, where every promoted document lies as active.
* **A cut write passes for the document.** `StoreIsExact` (SkillLifecycle) with one mishap: "the history row and
  the file always land together (or both fail)" (versions.rs:32-33). A put that fails leaves the beginning of a
  file; the next put of the same document returns early because the file exists (versions.rs:69), the row
  is written, and a rollback to it restores the beginning, or finds no skill in it.
* **Two skills, one file.** `RollbackIsLocal` (SkillLifecycle) with two skills whose names differ in characters
  `sanitize` replaces: a rollback is to replace "whatever active version of `name` currently exists"
  (proposal.rs:203) and writes over the other skill's file, which stays active in the history.
* **The backlog drops live events.** `NoLiveEventDropped` (DesktopFeed): "Wire up subscriptions first so
  no live events are dropped" (App.tsx:57); the backlog replaces the store, and with it what came in
  live after it was read.

Observations without a property:

* A mission with a Failed goal row can end Failed or Cancelled only, however often it is extended.
* A plan that gives an id twice is accepted; the second INSERT fails, and the mission stays Planning
  (a first plan) or Running (a replan). A warning says the mission was marked Failed, which is true of
  the planner's errors only.
* Insights are announced to be "reachable via keyword search" while their embedding is missing; the
  keyword search is only made when the semantic one finds nothing.
* A frame is written to an MCP server outside the call's timeout and under the writer's lock, so that a
  server that does not read keeps its callers waiting without bound; a request entered after the pump's
  end waits for its timeout. Dropping the client does not kill the child, as the pump holds its guard
  until the stdout closes.
* The Anthropic adapter's comment announces that system messages after the first turn are folded into the
  message before them (anthropic.rs:95-97); the code hoists every system message. The planner's
  conversations have one system message, their first (`Conversation` in ModelProofs), so that no body
  shows the difference.
* The policy's documentation names `require_input_string_not_matches`, the code
  `deny_if_input_string_matches`; a rule with a pattern the matcher cannot read is skipped.
* The chat endpoint is said to answer 400 to `stream: true` and streams; its poll limit is said to end
  in "timed_out" and ends in "length". The gateway's own timeout is as long as that limit, so that its
  users see a timeout instead.
* An extension is planned in the handler and dropped with it: a client that hangs up, as the command
  line does after 30 s, leaves the mission Draft or Planning (`AnnouncedAreRun` excepts it).
* A webhook that a platform delivers twice makes two missions; Discord interactions that are neither
  pings nor commands are deferred and never answered.
* The mission filter of the event stream lets events of goals and tasks of all missions pass.
* The desktop's `approve_skill_proposal` moves the file with no validation, history row or stored copy
  (src-tauri lib.rs:156-160); the loader's header announces a tie-break by modification time that it does
  not make (loader.rs:7); the Curator is said to compare versions before names and compares names only
  (skills_ops.rs:525-527 and :708).

## 7. What is not modelled, and the plan

| Component | Why |
|---|---|
| Skill validator, similarity | pure functions of text (patterns, token counts, a ratio of bigrams); the lifecycle takes their verdicts as constants |
| Episodic recall, user memory | rank and assemble text for prompts; nothing else reads what they write |
| Selection of skills for a prompt | scores over text |
| Builtin tools | pure I/O; the engine lets each succeed, fail, hang or be missing |
| Health, list, views | change nothing and wait for nothing |
| Desktop's forwarding commands, bundles of the command line | one call of the service each; files of the user's |
| Postgres dispatch, audit sink, secrets, configuration, feature flags | start-up wiring, or the same operations on another database |
| Prompt wording, JSON extraction | text; what is read out of an answer is in Planner |

The components' status in `PROJECT.json` is per component of section 1: those marked *partly* have
what the last column of this table or their note names left out.

The plan is done. EventStream is the one module of state with no theorem about it: what its documentation says of replay is
false (section 6), and what is true of it, that a connection is sent no event twice, is the channel's doing, of which
`EventsAreSentOnce` is proved.
