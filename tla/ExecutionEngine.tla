--------------------------- MODULE ExecutionEngine ---------------------------
(***************************************************************************)
(* crates/forge-execution: the walker that runs one mission's goal DAG.    *)
(*                                                                         *)
(* The database rows of the mission, its goals and its tasks outlive every *)
(* call.  A call of `run_mission' is a RUN: it loads the goal rows into    *)
(* local copies, launches one worker (`run_goal') per ready goal, polls    *)
(* the workers' handles, and finally flips the mission's status.  A run    *)
(* that leaves its loop because the mission was cancelled does not wait    *)
(* for its workers: they go on, detached, and still write task rows.       *)
(*                                                                         *)
(* Actors: the runs, their workers, the user (approve, cancel, extend) and *)
(* the mission service, which calls run_mission again after it has         *)
(* replanned.  A step is one stretch of code between two awaits at which   *)
(* another actor could observe or change something the stretch reads.      *)
(***************************************************************************)
EXTENDS Naturals, FiniteSets, ForgeDomain

CONSTANTS
    NGoals,         \* goal rows the mission can ever have
    NTasks,         \* tasks of each goal
    Plans,          \* the depends_on relations the planner may produce
    Policy,         \* the policy engine's decision for each task
    Registered,     \* the tasks whose tool is in the registry
    MaxParallel,    \* ExecutionDeps::max_parallel_goals
    Retries,        \* Goal::retries_remaining of a new goal
    MaxRuns,        \* bound: calls of run_mission
    MaxFaults,      \* bound: failed writes and panics
    Exclusive       \* the service starts a run only when the last has returned

Goals == 1 .. NGoals
Steps == 1 .. NTasks
Tasks == Goals \X Steps
Runs  == 1 .. MaxRuns

\* A dependency that names no goal row.
NoGoal == 0

ASSUME EngineAssumption ==
    /\ NGoals \in Nat \ {0} /\ NTasks \in Nat \ {0}
    /\ MaxRuns \in Nat \ {0} /\ MaxFaults \in Nat
    /\ MaxParallel \in Nat \ {0} /\ Retries \in Nat
    /\ Plans \subseteq [Goals -> SUBSET (Goals \cup {NoGoal})]
    /\ Policy \in [Tasks -> PolicyDecisions]
    /\ Registered \subseteq Tasks
    /\ Exclusive \in BOOLEAN

VARIABLES
    \* rows of the database
    mission,        \* the mission's status
    rows,           \* goals 1 .. rows have been inserted
    deps,           \* goals.depends_on_json (written once, by the planner)
    goal,           \* goals.status
    retries,        \* goals.retries_remaining
    task,           \* tasks.status
    invoked,        \* ToolInvoked events of a task in the log
    asked,          \* how far a task's last approval request got
    \* the engine's shared maps
    token,          \* `cancels': the run whose token is registered, or NoRun
    cancelled,      \* the runs whose token is cancelled
    sender,         \* `approvals': the run whose worker's sender is registered
    \* run_mission's locals
    rpc, cursor, loaded, local, left, running, check, completed, failed,
    \* run_goal's locals
    wpc, step, seen,
    faults

dbVars     == <<mission, rows, deps, goal, retries, task, invoked, asked>>
sharedVars == <<token, cancelled, sender>>
runVars    == <<rpc, cursor, loaded, local, left, running, check, completed, failed>>
workerVars == <<wpc, step, seen>>
vars       == <<dbVars, sharedVars, runVars, workerVars, faults>>

NoRun == 0

\* A run that has left its loop: it looks at its token, writes the verdict it
\* comes to, if any, and takes a token out of the map.
Ending   == {"flip", "cancelling", "completing", "leaving"}
RunPC    == {"idle", "top", "launch", "sweep", "retry", "returned", "aborted"} \cup Ending
Finished == {"ok", "err", "fatal"}
\* A worker that has a permit of its run's semaphore and has not ended.
Holding  == {"load", "material", "task", "requested", "parked", "tool"}
WorkerPC == {"none", "queued"} \cup Holding \cup Finished

Live(r) == rpc[r] \notin {"idle", "returned", "aborted"}

-----------------------------------------------------------------------------

\* The planner resolves the ids a new goal depends on: those of the same plan
\* in a plan, any goal id at all in a replan.
DependOn(new, old) == \A g \in new : deps[g] \subseteq old

Init ==
    /\ mission = "Running"
    /\ rows \in Goals
    /\ deps \in Plans
    /\ DependOn(1 .. rows, 1 .. rows)
    /\ goal = [g \in Goals |-> "Pending"]
    /\ retries = [g \in Goals |-> Retries]
    /\ task = [t \in Tasks |-> "Pending"]
    /\ invoked = [t \in Tasks |-> 0]
    /\ asked = [t \in Tasks |-> "never"]
    /\ token = NoRun
    /\ cancelled = {}
    /\ sender = [t \in Tasks |-> NoRun]
    /\ rpc = [r \in Runs |-> "idle"]
    /\ cursor = [r \in Runs |-> 1]
    /\ loaded = [r \in Runs |-> 0]
    /\ local = [r \in Runs |-> goal]
    /\ left = [r \in Runs |-> retries]
    /\ running = [r \in Runs |-> {}]
    /\ check = [r \in Runs |-> {}]
    /\ completed = [r \in Runs |-> {}]
    /\ failed = [r \in Runs |-> {}]
    /\ wpc = [r \in Runs |-> [g \in Goals |-> "none"]]
    /\ step = [r \in Runs |-> [g \in Goals |-> 1]]
    /\ seen = [r \in Runs |-> [g \in Goals |-> [k \in Steps |-> "Pending"]]]
    /\ faults = 0

-----------------------------------------------------------------------------
(* run_mission *)

\* GoalRepository::update from the run's copy of the row: the whole row is
\* rewritten, so the status and the retry budget are written together.
WriteGoal(r, g, status, budget) ==
    /\ local' = [local EXCEPT ![r][g] = status]
    /\ left' = [left EXCEPT ![r][g] = budget]
    /\ goal' = [goal EXCEPT ![g] = status]
    /\ retries' = [retries EXCEPT ![g] = budget]

GoalRows == 1 .. rows

\* Mutant: the retry budget restarts with every run.
StartRunFreshBudget(r) ==
    /\ rpc[r] = "idle"
    /\ \A q \in Runs : q < r => rpc[q] # "idle"
    /\ mission = "Running"
    /\ Exclusive => \A q \in Runs : rpc[q] \in {"idle", "returned"}
    /\ rpc' = [rpc EXCEPT ![r] = "top"]
    /\ token' = r
    /\ loaded' = [loaded EXCEPT ![r] = rows]
    /\ local' = [local EXCEPT ![r] = goal]
    /\ left' = [left EXCEPT ![r] = [g \in Goals |-> Retries]]
    /\ completed' = [completed EXCEPT ![r] = {g \in GoalRows : goal[g] = "Completed"}]
    /\ failed' = [failed EXCEPT ![r] = {g \in GoalRows : goal[g] \in {"Failed", "Skipped"}}]
    /\ UNCHANGED <<dbVars, cancelled, sender, cursor, running, check, workerVars, faults>>

\* The call: register a fresh token over whatever is there, load the rows.
StartRun(r) ==
    /\ rpc[r] = "idle"
    /\ \A q \in Runs : q < r => rpc[q] # "idle"
    /\ mission = "Running"
    /\ Exclusive => \A q \in Runs : rpc[q] \in {"idle", "returned"}
    /\ rpc' = [rpc EXCEPT ![r] = "top"]
    /\ token' = r
    /\ loaded' = [loaded EXCEPT ![r] = rows]
    /\ local' = [local EXCEPT ![r] = goal]
    /\ left' = [left EXCEPT ![r] = retries]
    /\ completed' = [completed EXCEPT ![r] = {g \in GoalRows : goal[g] = "Completed"}]
    /\ failed' = [failed EXCEPT ![r] = {g \in GoalRows : goal[g] \in {"Failed", "Skipped"}}]
    /\ UNCHANGED <<dbVars, cancelled, sender, cursor, running, check, workerVars, faults>>

\* Mutant: the loop does not look at its token.
LoopTopUncancelled(r) ==
    /\ rpc[r] = "top"
    /\ rpc' = [rpc EXCEPT ![r] = "launch"]
    /\ cursor' = [cursor EXCEPT ![r] = 1]
    /\ UNCHANGED <<dbVars, sharedVars, loaded, local, left, running, check,
                   completed, failed, workerVars, faults>>

\* The head of the loop: leave it when cancelled, else begin a launch pass.
LoopTop(r) ==
    /\ rpc[r] = "top"
    /\ rpc' = [rpc EXCEPT ![r] = IF r \in cancelled THEN "flip" ELSE "launch"]
    /\ cursor' = [cursor EXCEPT ![r] = 1]
    /\ UNCHANGED <<dbVars, sharedVars, loaded, local, left, running, check,
                   completed, failed, workerVars, faults>>

\* Mutant: one completed dependency is enough.
BlockedUntilAny(r, g) == deps[g] # {} /\ deps[g] \cap completed[r] = {}

\* The goal under the cursor is neither waiting nor already in flight.
Settled(r, g) == local[r][g] \notin {"Pending", "Ready"} \/ g \in running[r]
Blocked(r, g) == ~ (deps[g] \subseteq completed[r])
Doomed(r, g)  == Blocked(r, g) /\ deps[g] \cap failed[r] # {}

AtCursor(r, g) == rpc[r] = "launch" /\ g = cursor[r] /\ g <= loaded[r]

Advance(r) == cursor' = [cursor EXCEPT ![r] = @ + 1]

PassOver(r, g) ==
    /\ AtCursor(r, g)
    /\ Settled(r, g) \/ (Blocked(r, g) /\ ~Doomed(r, g))
    /\ Advance(r)
    /\ UNCHANGED <<dbVars, sharedVars, rpc, loaded, local, left, running, check,
                   completed, failed, workerVars, faults>>

SkipGoal(r, g) ==
    /\ AtCursor(r, g)
    /\ ~Settled(r, g) /\ Doomed(r, g)
    /\ WriteGoal(r, g, "Skipped", left[r][g])
    /\ failed' = [failed EXCEPT ![r] = @ \cup {g}]
    /\ Advance(r)
    /\ UNCHANGED <<mission, rows, deps, task, invoked, asked, sharedVars,
                   rpc, loaded, running, check, completed, workerVars, faults>>

LaunchGoal(r, g) ==
    /\ AtCursor(r, g)
    /\ ~Settled(r, g) /\ ~Blocked(r, g)
    /\ IF local[r][g] = "Ready"           \* transition_goal returns early
       THEN UNCHANGED <<goal, retries, local, left>>
       ELSE WriteGoal(r, g, "Ready", left[r][g])
    /\ running' = [running EXCEPT ![r] = @ \cup {g}]
    /\ wpc' = [wpc EXCEPT ![r][g] = "queued"]
    /\ Advance(r)
    /\ UNCHANGED <<mission, rows, deps, task, invoked, asked, sharedVars,
                   rpc, loaded, check, completed, failed, step, seen, faults>>

\* Mutant: the loop ends once every handle has finished, reaped or not.
EndPassFinished(r) ==
    /\ rpc[r] = "launch" /\ cursor[r] > loaded[r]
    /\ rpc' = [rpc EXCEPT ![r] = IF \A g \in running[r] : wpc[r][g] \in Finished
                                 THEN "flip" ELSE "sweep"]
    /\ check' = [check EXCEPT ![r] = running[r]]
    /\ UNCHANGED <<dbVars, sharedVars, cursor, loaded, local, left, running,
                   completed, failed, workerVars, faults>>

\* Nothing in flight and nothing launched: quiescent.  Otherwise poll.
EndPass(r) ==
    /\ rpc[r] = "launch" /\ cursor[r] > loaded[r]
    /\ rpc' = [rpc EXCEPT ![r] = IF running[r] = {} THEN "flip" ELSE "sweep"]
    /\ check' = [check EXCEPT ![r] = running[r]]
    /\ UNCHANGED <<dbVars, sharedVars, cursor, loaded, local, left, running,
                   completed, failed, workerVars, faults>>

\* handle.is_finished() is false: look again in the next sweep.
PollBusy(r, g) ==
    /\ rpc[r] = "sweep" /\ g \in check[r]
    /\ wpc[r][g] \notin Finished
    /\ check' = [check EXCEPT ![r] = @ \ {g}]
    /\ UNCHANGED <<dbVars, sharedVars, rpc, cursor, loaded, local, left, running,
                   completed, failed, workerVars, faults>>

\* Mutant: the handle stays in the map.
ReapKeepsHandle(r, g) ==
    /\ rpc[r] = "sweep" /\ g \in check[r]
    /\ check' = [check EXCEPT ![r] = @ \ {g}]
    /\ wpc' = [wpc EXCEPT ![r][g] = "none"]
    /\ UNCHANGED <<mission, rows, deps, task, invoked, asked, sharedVars,
                   rpc, cursor, loaded, running, step, seen, faults>>

\* The finished handle leaves the map.
TakeHandle(r, g) ==
    /\ rpc[r] = "sweep" /\ g \in check[r]
    /\ running' = [running EXCEPT ![r] = @ \ {g}]
    /\ wpc' = [wpc EXCEPT ![r][g] = "none"]
    /\ UNCHANGED <<mission, rows, deps, task, invoked, asked, sharedVars,
                   cursor, loaded, step, seen, faults>>

\* What the sweep does with a finished handle once the goal's row is settled.
Reap(r, g) ==
    /\ TakeHandle(r, g)
    /\ check' = [check EXCEPT ![r] = @ \ {g}]
    /\ UNCHANGED rpc

ReapCompleted(r, g) ==
    /\ wpc[r][g] = "ok"
    /\ Reap(r, g)
    /\ WriteGoal(r, g, "Completed", left[r][g])
    /\ completed' = [completed EXCEPT ![r] = @ \cup {g}]
    /\ UNCHANGED failed

\* Mutant: a retry whatever is left of the budget.
CanRetryAlways(r, g) == wpc[r][g] = "err"

CanRetry(r, g) == wpc[r][g] = "err" /\ left[r][g] > 0

\* A retry is paid first, in a write of its own: the goal is still Ready.
ReapRetry(r, g) ==
    /\ CanRetry(r, g)
    /\ TakeHandle(r, g)
    /\ WriteGoal(r, g, local[r][g], left[r][g] - 1)
    /\ rpc' = [rpc EXCEPT ![r] = "retry"]
    /\ UNCHANGED <<check, completed, failed>>

\* The goals whose retry is paid and whose row does not say so yet.
Retried(r) == IF rpc[r] = "retry" THEN check[r] \ running[r] ELSE {}

\* The goal is Pending again, for the next launch pass.
Demote(r, g) ==
    /\ g \in Retried(r)
    /\ WriteGoal(r, g, "Pending", left[r][g])
    /\ rpc' = [rpc EXCEPT ![r] = "sweep"]
    /\ check' = [check EXCEPT ![r] = @ \ {g}]
    /\ UNCHANGED <<mission, rows, deps, task, invoked, asked, sharedVars,
                   cursor, loaded, running, completed, failed, workerVars, faults>>

ReapFailed(r, g) ==
    /\ wpc[r][g] \in {"err", "fatal"} /\ ~CanRetry(r, g)
    /\ Reap(r, g)
    /\ WriteGoal(r, g, "Failed", left[r][g])
    /\ failed' = [failed EXCEPT ![r] = @ \cup {g}]
    /\ UNCHANGED completed

EndSweep(r) ==
    /\ rpc[r] = "sweep" /\ check[r] = {}
    /\ rpc' = [rpc EXCEPT ![r] = "top"]
    /\ UNCHANGED <<dbVars, sharedVars, cursor, loaded, local, left, running, check,
                   completed, failed, workerVars, faults>>

\* Mutant: no failure is as good as completion.
VerdictWithoutCount(r) ==
    IF r \in cancelled THEN "Cancelled"
    ELSE IF failed[r] = {} THEN "Completed" ELSE "none"

\* The end of run_mission.  Failure is left to the mission service.
Verdict(r) ==
    IF r \in cancelled THEN "Cancelled"
    ELSE IF failed[r] = {} /\ Cardinality(completed[r]) = loaded[r] THEN "Completed"
    ELSE "none"

\* The mission is read, the token looked at for the last time.
DrawVerdict(r) ==
    /\ rpc[r] = "flip"
    /\ rpc' = [rpc EXCEPT ![r] = IF ~CanTransition(mission, Verdict(r)) THEN "leaving"
                                 ELSE IF Verdict(r) = "Cancelled" THEN "cancelling"
                                 ELSE "completing"]
    /\ UNCHANGED <<dbVars, sharedVars, cursor, loaded, local, left, running, check,
                   completed, failed, workerVars, faults>>

\* The mission's row is written from the copy that was read.
FlipMission(r) ==
    /\ rpc[r] \in {"cancelling", "completing"}
    /\ mission' = IF rpc[r] = "cancelling" THEN "Cancelled" ELSE "Completed"
    /\ rpc' = [rpc EXCEPT ![r] = "leaving"]
    /\ UNCHANGED <<rows, deps, goal, retries, task, invoked, asked, sharedVars,
                   cursor, loaded, local, left, running, check, completed, failed,
                   workerVars, faults>>

\* The token goes, whoever's it is; until now a cancellation could flip it.
LeaveRun(r) ==
    /\ rpc[r] = "leaving"
    /\ token' = NoRun
    /\ rpc' = [rpc EXCEPT ![r] = "returned"]
    /\ UNCHANGED <<dbVars, cancelled, sender, cursor, loaded, local, left, running, check,
                   completed, failed, workerVars, faults>>

\* A write or a publish fails: run_mission returns through `?', leaving its
\* token registered and its workers running.  A run that has nothing to write
\* or to publish any more cannot fail.
AbortRun(r) ==
    /\ Live(r) /\ faults < MaxFaults
    /\ rpc[r] = "leaving" => mission \in MissionTerminal
    /\ rpc' = [rpc EXCEPT ![r] = "aborted"]
    /\ faults' = faults + 1
    /\ UNCHANGED <<dbVars, sharedVars, cursor, loaded, local, left, running, check,
                   completed, failed, workerVars>>

\* The same between a goal's Ready row and its worker.
AbortLaunch(r, g) ==
    /\ AtCursor(r, g) /\ faults < MaxFaults
    /\ local[r][g] = "Pending" /\ g \notin running[r] /\ ~Blocked(r, g)
    /\ WriteGoal(r, g, "Ready", left[r][g])
    /\ rpc' = [rpc EXCEPT ![r] = "aborted"]
    /\ faults' = faults + 1
    /\ UNCHANGED <<mission, rows, deps, task, invoked, asked, sharedVars,
                   cursor, loaded, running, check, completed, failed, workerVars>>

-----------------------------------------------------------------------------
(* run_goal *)

SetWorker(r, g, pc) == wpc' = [wpc EXCEPT ![r][g] = pc]

Holders(r) == {g \in Goals : wpc[r][g] \in Holding}

TakePermit(r, g) ==
    /\ wpc[r][g] = "queued"
    /\ Cardinality(Holders(r)) < MaxParallel
    /\ SetWorker(r, g, "load")
    /\ UNCHANGED <<dbVars, sharedVars, runVars, step, seen, faults>>

\* Some task of a direct dependency has a result to hand down.
HasUpstream(g) ==
    \E d \in deps[g] \cap GoalRows, k \in Steps : task[<<d, k>>] = "Completed"

\* Load the task rows; they are not read again while the worker runs.
LoadTasks(r, g) ==
    /\ wpc[r][g] = "load"
    /\ seen' = [seen EXCEPT ![r][g] = [k \in Steps |-> task[<<g, k>>]]]
    /\ step' = [step EXCEPT ![r][g] = 1]
    /\ SetWorker(r, g, IF /\ \E k \in Steps : task[<<g, k>>] = "Pending"
                          /\ HasUpstream(g)
                       THEN "material" ELSE "task")
    /\ UNCHANGED <<dbVars, sharedVars, runVars, faults>>

\* The materializer (an LLM call) answers with new inputs for some of the
\* pending tasks; {} stands for every answer that is ignored.  Each changed
\* task is written back as the whole row the worker loaded before the call.
Materialize(r, g) ==
    /\ wpc[r][g] = "material"
    /\ \E changed \in SUBSET {k \in Steps : seen[r][g][k] = "Pending"} :
         task' = [t \in Tasks |-> IF t \in {g} \X changed THEN "Pending" ELSE task[t]]
    /\ SetWorker(r, g, "task")
    /\ UNCHANGED <<mission, rows, deps, goal, retries, invoked, asked,
                   sharedVars, runVars, step, seen, faults>>

\* The worker is at task t, not cancelled, and the task still has to run.
Due(r, g, t) ==
    /\ wpc[r][g] = "task" /\ step[r][g] \in Steps
    /\ t = <<g, step[r][g]>>
    /\ r \notin cancelled
    /\ seen[r][g][step[r][g]] # "Completed"

AllTasksDone(r, g) ==
    /\ wpc[r][g] = "task" /\ step[r][g] > NTasks
    /\ SetWorker(r, g, "ok")
    /\ UNCHANGED <<dbVars, sharedVars, runVars, step, seen, faults>>

StopCancelled(r, g) ==
    /\ wpc[r][g] = "task" /\ step[r][g] \in Steps
    /\ r \in cancelled
    /\ SetWorker(r, g, "err")
    /\ UNCHANGED <<dbVars, sharedVars, runVars, step, seen, faults>>

\* Mutant: a task that an earlier attempt finished at all is not run again.
SkipFinishedTask(r, g) ==
    /\ wpc[r][g] = "task" /\ step[r][g] \in Steps
    /\ r \notin cancelled
    /\ seen[r][g][step[r][g]] \in {"Completed", "Failed"}
    /\ step' = [step EXCEPT ![r][g] = @ + 1]
    /\ UNCHANGED <<dbVars, sharedVars, runVars, wpc, seen, faults>>

\* A task that an earlier attempt completed is not run again.
SkipTask(r, g) ==
    /\ wpc[r][g] = "task" /\ step[r][g] \in Steps
    /\ r \notin cancelled
    /\ seen[r][g][step[r][g]] = "Completed"
    /\ step' = [step EXCEPT ![r][g] = @ + 1]
    /\ UNCHANGED <<dbVars, sharedVars, runVars, wpc, seen, faults>>

DenyTask(r, g, t) ==
    /\ Due(r, g, t) /\ Policy[t] = "Deny"
    /\ task' = [task EXCEPT ![t] = "Denied"]
    /\ SetWorker(r, g, "fatal")
    /\ UNCHANGED <<mission, rows, deps, goal, retries, invoked, asked,
                   sharedVars, runVars, step, seen, faults>>

\* The row and the event say the task waits; the sender is not there yet.
RequestApproval(r, g, t) ==
    /\ Due(r, g, t) /\ Policy[t] = "RequireApproval"
    /\ task' = [task EXCEPT ![t] = "PendingApproval"]
    /\ asked' = [asked EXCEPT ![t] = "requested"]
    /\ SetWorker(r, g, "requested")
    /\ UNCHANGED <<mission, rows, deps, goal, retries, invoked,
                   sharedVars, runVars, step, seen, faults>>

\* approvals.insert replaces, and so drops, another worker's sender.
Park(r, g, t) ==
    /\ wpc[r][g] = "requested" /\ t = <<g, step[r][g]>>
    /\ sender' = [sender EXCEPT ![t] = r]
    /\ SetWorker(r, g, "parked")
    /\ UNCHANGED <<dbVars, token, cancelled, runVars, step, seen, faults>>

\* The status write, the ToolInvoked event and the tool lookup.
Begin(r, g, t) ==
    /\ invoked' = [invoked EXCEPT ![t] = @ + 1]
    /\ IF t \in Registered
       THEN /\ task' = [task EXCEPT ![t] = "Running"]
            /\ SetWorker(r, g, "tool")
       ELSE /\ task' = [task EXCEPT ![t] = "Failed"]
            /\ SetWorker(r, g, "err")
    /\ UNCHANGED <<mission, rows, deps, goal, retries, asked,
                   sharedVars, runVars, step, seen, faults>>

BeginTask(r, g, t) == Due(r, g, t) /\ Policy[t] = "Allow" /\ Begin(r, g, t)

\* Mutant: the worker does not wait for the receiver.
UnparkUnasked(r, g, t) ==
    /\ wpc[r][g] = "parked" /\ t = <<g, step[r][g]>>
    /\ Begin(r, g, t)

\* The receiver resolves when the sender was used and also when it was
\* dropped: both take the same arm of the select.
Unpark(r, g, t) ==
    /\ wpc[r][g] = "parked" /\ t = <<g, step[r][g]>>
    /\ sender[t] # r
    /\ Begin(r, g, t)

\* The other arm; it removes whatever sender the map holds for the task.
UnparkCancelled(r, g, t) ==
    /\ wpc[r][g] = "parked" /\ t = <<g, step[r][g]>>
    /\ r \in cancelled
    /\ sender' = [sender EXCEPT ![t] = NoRun]
    /\ task' = [task EXCEPT ![t] = "Cancelled"]
    /\ SetWorker(r, g, "err")
    /\ UNCHANGED <<mission, rows, deps, goal, retries, invoked, asked,
                   token, cancelled, runVars, step, seen, faults>>

ToolSucceeds(r, g, t) ==
    /\ wpc[r][g] = "tool" /\ t = <<g, step[r][g]>>
    /\ task' = [task EXCEPT ![t] = "Completed"]
    /\ step' = [step EXCEPT ![r][g] = @ + 1]
    /\ SetWorker(r, g, "task")
    /\ UNCHANGED <<mission, rows, deps, goal, retries, invoked, asked,
                   sharedVars, runVars, seen, faults>>

\* InvalidInput and PolicyDenied are deterministic ("fatal"), the rest is not.
ToolFails(r, g, t) ==
    /\ wpc[r][g] = "tool" /\ t = <<g, step[r][g]>>
    /\ task' = [task EXCEPT ![t] = "Failed"]
    /\ \E outcome \in {"err", "fatal"} : SetWorker(r, g, outcome)
    /\ UNCHANGED <<mission, rows, deps, goal, retries, invoked, asked,
                   sharedVars, runVars, step, seen, faults>>

\* A failed write or publish, or a panic, before the task's next status is
\* written: the handle reports a retryable error, the row stays as it was.
LoseWorker(r, g) ==
    /\ wpc[r][g] \in {"load", "material", "task", "requested", "tool"}
    /\ faults < MaxFaults
    /\ SetWorker(r, g, "err")
    /\ faults' = faults + 1
    /\ UNCHANGED <<dbVars, sharedVars, runVars, step, seen>>

-----------------------------------------------------------------------------
(* The user and the mission service *)

\* ExecutionEngine::cancel: nothing happens when no token is registered.
Cancel ==
    /\ token \in Runs \ cancelled
    /\ cancelled' = cancelled \cup {token}
    /\ UNCHANGED <<dbVars, token, sender, runVars, workerVars, faults>>

\* ExecutionEngine::approve_task, called once the request event is out: a call
\* that finds no sender registered does nothing and is not remembered.
Approve(t) ==
    /\ asked[t] \in {"requested", "ignored"}
    /\ sender' = [sender EXCEPT ![t] = NoRun]
    /\ asked' = [asked EXCEPT ![t] = IF sender[t] = NoRun THEN "ignored" ELSE "granted"]
    /\ UNCHANGED <<mission, rows, deps, goal, retries, task, invoked,
                   token, cancelled, runVars, workerVars, faults>>

Between == /\ \A r \in Runs : rpc[r] \in {"idle", "returned"}
           /\ \E r \in Runs : rpc[r] = "returned"

\* The replan loop inserts corrective goals between two runs.
Replan ==
    /\ Between /\ mission = "Running"
    /\ rows' \in rows + 1 .. NGoals
    /\ DependOn(rows + 1 .. rows', {NoGoal} \cup 1 .. rows')
    /\ UNCHANGED <<mission, deps, goal, retries, task, invoked, asked,
                   sharedVars, runVars, workerVars, faults>>

\* The replan loop's verdict once it gives up.
Conclude ==
    /\ Between /\ mission = "Running"
    /\ mission' = IF \E g \in GoalRows : goal[g] = "Failed" THEN "Failed"
                  ELSE IF \A g \in GoalRows : goal[g] \in {"Completed", "Skipped"}
                  THEN "Completed" ELSE "Running"
    /\ mission' # mission
    /\ UNCHANGED <<rows, deps, goal, retries, task, invoked, asked,
                   sharedVars, runVars, workerVars, faults>>

\* MissionService::extend and the plan it leads to: the terminal mission is
\* Running again, with the new plan's goals after the old ones.
Extend ==
    /\ Between /\ mission \in MissionTerminal
    /\ mission' = "Running"
    /\ rows' \in rows + 1 .. NGoals
    /\ DependOn(rows + 1 .. rows', rows + 1 .. rows')
    /\ UNCHANGED <<deps, goal, retries, task, invoked, asked,
                   sharedVars, runVars, workerVars, faults>>

-----------------------------------------------------------------------------

RunStep(r) ==
    \/ LoopTop(r) \/ EndPass(r) \/ EndSweep(r)
    \/ DrawVerdict(r) \/ FlipMission(r) \/ LeaveRun(r)
    \/ \E g \in Goals : \/ PassOver(r, g) \/ SkipGoal(r, g) \/ LaunchGoal(r, g)
                        \/ PollBusy(r, g) \/ ReapCompleted(r, g)
                        \/ ReapRetry(r, g) \/ Demote(r, g) \/ ReapFailed(r, g)

WorkerStep(r, g) ==
    \/ TakePermit(r, g) \/ LoadTasks(r, g) \/ Materialize(r, g)
    \/ AllTasksDone(r, g) \/ StopCancelled(r, g) \/ SkipTask(r, g)
    \/ \E t \in Tasks : \/ DenyTask(r, g, t) \/ RequestApproval(r, g, t)
                        \/ Park(r, g, t) \/ BeginTask(r, g, t)
                        \/ Unpark(r, g, t) \/ UnparkCancelled(r, g, t)

ToolStep(r, g) == \E t \in Tasks : ToolSucceeds(r, g, t) \/ ToolFails(r, g, t)

Environment ==
    \/ Cancel \/ Replan \/ Conclude \/ Extend
    \/ \E t \in Tasks : Approve(t)

Next ==
    \/ \E r \in Runs : \/ StartRun(r) \/ RunStep(r) \/ AbortRun(r)
                       \/ \E g \in Goals : \/ WorkerStep(r, g) \/ ToolStep(r, g)
                                           \/ LoseWorker(r, g) \/ AbortLaunch(r, g)
    \/ Environment

Spec == Init /\ [][Next]_vars

\* The runtime polls the walkers.  Tools may hang and users may not answer.
FairSpec == Spec /\ \A r \in Runs : WF_vars(RunStep(r))

\* Workers are polled, their tools return, and a user who is asked answers
\* until the answer is taken.
Cooperation ==
    /\ \A r \in Runs, g \in Goals : WF_vars(WorkerStep(r, g)) /\ WF_vars(ToolStep(r, g))
    /\ \A t \in Tasks : WF_vars(Approve(t))

-----------------------------------------------------------------------------
(* Properties *)

\* Every variable stays in its type.
TypeOK ==
    /\ mission \in MissionStatuses
    /\ rows \in Goals
    /\ deps \in [Goals -> SUBSET (Goals \cup {NoGoal})]
    /\ goal \in [Goals -> GoalStatuses]
    /\ retries \in [Goals -> Nat]
    /\ task \in [Tasks -> TaskStatuses]
    /\ invoked \in [Tasks -> Nat]
    /\ asked \in [Tasks -> {"never", "requested", "ignored", "granted"}]
    /\ token \in Runs \cup {NoRun}
    /\ cancelled \subseteq Runs
    /\ sender \in [Tasks -> Runs \cup {NoRun}]
    /\ rpc \in [Runs -> RunPC]
    /\ cursor \in [Runs -> Nat \ {0}]
    /\ loaded \in [Runs -> 0 .. NGoals]
    /\ local \in [Runs -> [Goals -> GoalStatuses]]
    /\ left \in [Runs -> [Goals -> Nat]]
    /\ running \in [Runs -> SUBSET Goals]
    /\ check \in [Runs -> SUBSET Goals]
    /\ completed \in [Runs -> SUBSET Goals]
    /\ failed \in [Runs -> SUBSET Goals]
    /\ wpc \in [Runs -> [Goals -> WorkerPC]]
    /\ step \in [Runs -> [Goals -> 1 .. NTasks + 1]]
    /\ seen \in [Runs -> [Goals -> [Steps -> TaskStatuses]]]
    /\ faults \in 0 .. MaxFaults

\* A goal's worker exists only while every goal it depends on is Completed in
\* the database, whatever happens to the run that launched it.
DepsDoneBeforeWork ==
    \A r \in Runs, g \in Goals :
        wpc[r][g] # "none" =>
            \A d \in deps[g] : d \in Goals /\ goal[d] = "Completed"

\* A goal row that is Completed, Failed or Skipped is never written again, by
\* any later run, retry or extension.
TerminalGoalsStay ==
    [][\A g \in Goals : goal[g] \in GoalTerminal => goal'[g] = goal[g]]_vars

\* A goal is Skipped only below a goal that is Failed or Skipped, and there is
\* a failure at the root of it.
SkipHasCause ==
    \A g \in Goals : goal[g] = "Skipped" =>
        /\ \E d \in deps[g] \cap Goals : goal[d] \in {"Failed", "Skipped"}
        /\ \E f \in Goals : goal[f] = "Failed"

\* Whoever flips the mission to Completed (the walker or the replan loop, which
\* counts Skipped goals as done), every goal row is Completed by then.
CompletedMissionIsWhole ==
    mission = "Completed" => \A g \in GoalRows : goal[g] = "Completed"

\* A goal row is Completed only when each of its task rows is.
CompletedGoalIsWhole ==
    \A g \in Goals : goal[g] = "Completed" =>
        \A k \in Steps : task[<<g, k>>] = "Completed"

\* A tool that needs approval runs only after this request for it was granted.
ApprovalBeforeTool ==
    \A r \in Runs, g \in Goals, k \in Steps :
        /\ wpc[r][g] = "tool" /\ step[r][g] = k
        /\ Policy[<<g, k>>] = "RequireApproval"
        => asked[<<g, k>>] = "granted"

\* Every registered sender belongs to a worker parked on that very task: the
\* map keeps no stale entry for a later approval to be wasted on.
SenderHasOwner ==
    \A g \in Goals, k \in Steps :
        LET r == sender[<<g, k>>] IN
        r # NoRun => wpc[r][g] = "parked" /\ step[r][g] = k

\* The retry budget is persistent: over all runs of the mission a task is
\* executed at most once per unit of budget, once more, and once more for each
\* run that was cut short with the goal in flight.
InvocationBound ==
    \A t \in Tasks :
        invoked[t] <= Retries + 1 + Cardinality({r \in Runs : r \in cancelled \/ rpc[r] = "aborted"})

\* A run that ends by itself leaves no worker behind.
NoWorkerLeftBehind ==
    \A r \in Runs, g \in Goals :
        rpc[r] = "returned" /\ r \notin cancelled => wpc[r][g] = "none"

\* The goal graph this walker implements.
Paid == UNION {Retried(r) : r \in Runs}
Graph == INSTANCE GoalGraph WITH paid <- Paid
GraphSpec == Graph!Spec

\* A cancelled run returns although tools hang and approvals never come.
CancelReturns == \A r \in Runs : (Live(r) /\ r \in cancelled) ~> ~Live(r)

\* Every run returns, when tools return and the user answers.
RunReturns == Cooperation => \A r \in Runs : Live(r) ~> ~Live(r)

-----------------------------------------------------------------------------
(* Why the above holds: the parts of the inductive invariant *)

Active(r) == rpc[r] \notin {"idle", "returned"}

\* At most one call of run_mission is in progress, counting one that failed:
\* the service does not call again after an error.
OneRunAtATime ==
    \A q, r \in Runs : Active(q) /\ Active(r) => q = r

\* While a run is in progress its local copies are exactly the goal rows, so
\* that rewriting whole rows from them loses nobody's update.
RunMirrorsRows ==
    \A r \in Runs : Live(r) =>
        /\ mission = "Running" \/ rpc[r] = "leaving"
        /\ loaded[r] = rows
        /\ local[r] = goal
        /\ left[r] = retries
        /\ completed[r] = {g \in GoalRows : goal[g] = "Completed"}
        /\ failed[r] = {g \in GoalRows : goal[g] \in {"Failed", "Skipped"}}

\* The goals with a handle are exactly Ready in the database, and so is one whose
\* retry is paid; a sweep looks at handles only.
HandlesAreReady ==
    \A r \in Runs :
        /\ Live(r) => \A g \in running[r] : g \in GoalRows /\ goal[g] = "Ready"
        /\ \A g \in Retried(r) : g \in GoalRows /\ goal[g] = "Ready"
        /\ rpc[r] = "sweep" => check[r] \subseteq running[r]
        /\ \A g, h \in Retried(r) : g = h
        /\ rpc[r] = "idle" => running[r] = {}

\* A worker's goal is a row, and so is all it depends on, Completed.
WorkersBelowDone ==
    \A r \in Runs, g \in Goals : wpc[r][g] # "none" =>
        /\ g \in GoalRows
        /\ \A d \in deps[g] : d \in GoalRows /\ goal[d] = "Completed"

\* A worker is in its run's map of handles until the run ends; a run that ends
\* by itself has emptied the map.
WorkersHaveHandles ==
    \A r \in Runs :
        /\ rpc[r] = "idle" => \A g \in Goals : wpc[r][g] = "none"
        /\ Live(r) => \A g \in Goals : wpc[r][g] # "none" => g \in running[r]
        /\ rpc[r] \in Ending /\ r \notin cancelled => running[r] = {}

\* A run about to write Completed has every goal Completed.
CompletingIsWhole ==
    \A r \in Runs : rpc[r] = "completing" => \A g \in GoalRows : goal[g] = "Completed"

\* Goals that have not been inserted are Pending.
RowsToCome == \A g \in Goals : g \notin GoalRows => goal[g] = "Pending"

-----------------------------------------------------------------------------
(* What the documentation says, and the code does not do *)

\* "Run all goals for a mission until quiescent (all terminal)": a run that
\* ends by itself leaves every goal it loaded Completed, Failed or Skipped.
QuiescentMeansSettled ==
    \A r \in Runs : rpc[r] = "returned" /\ r \notin cancelled =>
        \A g \in 1 .. loaded[r] : goal[g] \in GoalTerminal

\* A worker parks "until approve_task is called": if the user has answered the
\* request that is out, no worker waits for an answer to it.
AnsweredMeansUnparked ==
    \A r \in Runs, g \in Goals, k \in Steps :
        wpc[r][g] = "parked" /\ step[r][g] = k /\ sender[<<g, k>>] = r
            => asked[<<g, k>>] # "ignored"

\* Every tool call is followed by TaskCompleted or TaskFailed: once a run has
\* ended by itself, no task row says that its tool is still running.
TaskHasOutcome ==
    \A r \in Runs, t \in Tasks :
        rpc[r] = "returned" /\ r \notin cancelled => task[t] # "Running"

=============================================================================
