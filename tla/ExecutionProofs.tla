-------------------------- MODULE ExecutionProofs --------------------------
(***************************************************************************)
(* What TLAPS proves of ExecutionEngine, for every number of goals, tasks, *)
(* runs and faults, every plan and every policy.                           *)
(***************************************************************************)
EXTENDS ExecutionEngine, FiniteSetTheorems, TLAPS

-----------------------------------------------------------------------------
(* Type correctness *)

\* The position after a task is a task's or the one past the last.
LEMMA NextStep ==
    ASSUME NEW k \in Steps PROVE k + 1 \in 1 .. NTasks + 1
BY EngineAssumption DEF Steps

\* A step of the walker keeps every variable in its type.
LEMMA RunStepType ==
    ASSUME TypeOK, NEW r \in Runs, RunStep(r) PROVE TypeOK'
<1> USE DEF TypeOK, vars, dbVars, sharedVars, runVars, workerVars
<1>1. CASE LoopTop(r)
    BY <1>1 DEF LoopTop, RunPC, Ending
<1>2. CASE EndPass(r)
    BY <1>2 DEF EndPass, RunPC, Ending
<1>3. CASE EndSweep(r)
    BY <1>3 DEF EndSweep, RunPC
<1>4. CASE DrawVerdict(r) \/ FlipMission(r) \/ LeaveRun(r)
    BY <1>4 DEF DrawVerdict, FlipMission, LeaveRun, RunPC, Ending, MissionStatuses
<1>5. ASSUME NEW g \in Goals, PassOver(r, g) PROVE TypeOK'
    BY <1>5 DEF PassOver, Advance
<1>6. ASSUME NEW g \in Goals, SkipGoal(r, g) PROVE TypeOK'
    BY <1>6 DEF SkipGoal, Advance, WriteGoal, GoalStatuses
<1>7. ASSUME NEW g \in Goals, LaunchGoal(r, g) PROVE TypeOK'
  <2>1. CASE local[r][g] = "Ready"
    BY <1>7, <2>1 DEF LaunchGoal, Advance, WorkerPC
  <2>2. CASE local[r][g] # "Ready"
    <3>1. WriteGoal(r, g, "Ready", left[r][g])
      BY <1>7, <2>2 DEF LaunchGoal
    <3>2. local' \in [Runs -> [Goals -> GoalStatuses]] /\ left' \in [Runs -> [Goals -> Nat]]
      BY <3>1 DEF WriteGoal, GoalStatuses
    <3>3. goal' \in [Goals -> GoalStatuses] /\ retries' \in [Goals -> Nat]
      BY <3>1 DEF WriteGoal, GoalStatuses
    <3>4. cursor' \in [Runs -> Nat \ {0}] /\ running' \in [Runs -> SUBSET Goals]
      BY <1>7 DEF LaunchGoal, Advance
    <3>5. wpc' \in [Runs -> [Goals -> WorkerPC]]
      BY <1>7 DEF LaunchGoal, WorkerPC
    <3> QED
      BY <1>7, <3>2, <3>3, <3>4, <3>5 DEF LaunchGoal, WorkerPC
  <2> QED
    BY <2>1, <2>2
<1>8. ASSUME NEW g \in Goals, PollBusy(r, g) PROVE TypeOK'
    BY <1>8 DEF PollBusy
<1>9. ASSUME NEW g \in Goals, ReapCompleted(r, g) PROVE TypeOK'
    BY <1>9 DEF ReapCompleted, Reap, TakeHandle, WriteGoal, GoalStatuses, WorkerPC
<1>10. ASSUME NEW g \in Goals, ReapRetry(r, g) PROVE TypeOK'
  <2>1. local[r][g] \in GoalStatuses /\ left[r][g] - 1 \in Nat
    BY <1>10 DEF ReapRetry, CanRetry
  <2> QED
    BY <1>10, <2>1 DEF ReapRetry, TakeHandle, WriteGoal, WorkerPC, RunPC
<1>11. ASSUME NEW g \in Goals, ReapFailed(r, g) PROVE TypeOK'
    BY <1>11 DEF ReapFailed, Reap, TakeHandle, WriteGoal, GoalStatuses, WorkerPC
<1>12. ASSUME NEW g \in Goals, Demote(r, g) PROVE TypeOK'
    BY <1>12 DEF Demote, WriteGoal, GoalStatuses, RunPC
<1> QED
    BY <1>1, <1>2, <1>3, <1>4, <1>5, <1>6, <1>7, <1>8, <1>9, <1>10, <1>11, <1>12 DEF RunStep

\* A step of a worker or of its tool keeps every variable in its type.
LEMMA WorkerStepType ==
    ASSUME TypeOK, NEW r \in Runs, NEW g \in Goals,
           WorkerStep(r, g) \/ ToolStep(r, g) \/ LoseWorker(r, g)
    PROVE  TypeOK'
<1> USE DEF TypeOK, vars, dbVars, sharedVars, runVars, workerVars, SetWorker
<1>1. CASE TakePermit(r, g)
    BY <1>1 DEF TakePermit, WorkerPC, Holding
<1>2. CASE LoadTasks(r, g)
    BY <1>2, EngineAssumption DEF LoadTasks, WorkerPC, Holding, Tasks
<1>3. CASE Materialize(r, g)
    BY <1>3 DEF Materialize, WorkerPC, Holding, TaskStatuses
<1>4. CASE AllTasksDone(r, g)
    BY <1>4 DEF AllTasksDone, WorkerPC, Finished
<1>5. CASE StopCancelled(r, g)
    BY <1>5 DEF StopCancelled, WorkerPC, Finished
<1>6. CASE SkipTask(r, g)
  <2>1. step[r][g] + 1 \in 1 .. NTasks + 1
    BY <1>6, NextStep DEF SkipTask
  <2> QED
    BY <1>6, <2>1 DEF SkipTask
<1>7. ASSUME NEW t \in Tasks, DenyTask(r, g, t) PROVE TypeOK'
    BY <1>7 DEF DenyTask, WorkerPC, Finished, TaskStatuses
<1>8. ASSUME NEW t \in Tasks, RequestApproval(r, g, t) PROVE TypeOK'
    BY <1>8 DEF RequestApproval, WorkerPC, Holding, TaskStatuses
<1>9. ASSUME NEW t \in Tasks, Park(r, g, t) PROVE TypeOK'
    BY <1>9 DEF Park, WorkerPC, Holding
<1>10. ASSUME NEW t \in Tasks, Begin(r, g, t), UNCHANGED sender PROVE TypeOK'
  <2>1. invoked' \in [Tasks -> Nat]
    BY <1>10 DEF Begin
  <2>2. CASE t \in Registered
    <3>1. task' = [task EXCEPT ![t] = "Running"] /\ SetWorker(r, g, "tool")
      BY <1>10, <2>2 DEF Begin
    <3> QED
      BY <1>10, <2>1, <3>1 DEF Begin, WorkerPC, Holding, TaskStatuses
  <2>3. CASE t \notin Registered
    <3>1. task' = [task EXCEPT ![t] = "Failed"] /\ SetWorker(r, g, "err")
      BY <1>10, <2>3 DEF Begin
    <3> QED
      BY <1>10, <2>1, <3>1 DEF Begin, WorkerPC, Finished, TaskStatuses
  <2> QED
    BY <2>2, <2>3
<1>11. ASSUME NEW t \in Tasks, UnparkCancelled(r, g, t) PROVE TypeOK'
    BY <1>11 DEF UnparkCancelled, WorkerPC, Finished, TaskStatuses
<1>12. ASSUME NEW t \in Tasks, ToolSucceeds(r, g, t) PROVE TypeOK'
  <2>1. step[r][g] \in Steps
    <3>1. <<g, step[r][g]>> \in Goals \X Steps
      BY <1>12 DEF ToolSucceeds, Tasks
    <3> QED
      BY <3>1
  <2>2. step[r][g] + 1 \in 1 .. NTasks + 1
    BY <2>1, NextStep
  <2>3. step' \in [Runs -> [Goals -> 1 .. NTasks + 1]]
    BY <1>12, <2>2 DEF ToolSucceeds
  <2> QED
    BY <1>12, <2>3 DEF ToolSucceeds, WorkerPC, Holding, TaskStatuses
<1>13. ASSUME NEW t \in Tasks, ToolFails(r, g, t) PROVE TypeOK'
    BY <1>13 DEF ToolFails, WorkerPC, Finished, TaskStatuses
<1>14. CASE LoseWorker(r, g)
    BY <1>14, EngineAssumption DEF LoseWorker, WorkerPC, Finished
<1>15. ASSUME NEW t \in Tasks, BeginTask(r, g, t) \/ Unpark(r, g, t) PROVE TypeOK'
    BY <1>10, <1>15 DEF BeginTask, Unpark, Begin
<1> QED
    BY <1>1, <1>2, <1>3, <1>4, <1>5, <1>6, <1>7, <1>8, <1>9, <1>11, <1>12,
       <1>13, <1>14, <1>15 DEF WorkerStep, ToolStep

\* Every step keeps every variable in its type.
LEMMA NextType ==
    ASSUME TypeOK, [Next]_vars PROVE TypeOK'
<1> USE DEF TypeOK, vars, dbVars, sharedVars, runVars, workerVars
<1>1. ASSUME NEW r \in Runs, StartRun(r) PROVE TypeOK'
  <2>1. rows \in 0 .. NGoals /\ GoalRows \subseteq Goals
    BY EngineAssumption DEF Goals, GoalRows
  <2> QED
    BY <1>1, <2>1 DEF StartRun, RunPC
<1>2. ASSUME NEW r \in Runs, AbortRun(r) PROVE TypeOK'
    BY <1>2, EngineAssumption DEF AbortRun, RunPC
<1>9. ASSUME NEW r \in Runs, NEW g \in Goals, AbortLaunch(r, g) PROVE TypeOK'
    BY <1>9, EngineAssumption DEF AbortLaunch, WriteGoal, GoalStatuses, RunPC
<1>3. CASE Cancel
    BY <1>3 DEF Cancel
<1>4. ASSUME NEW t \in Tasks, Approve(t) PROVE TypeOK'
    BY <1>4 DEF Approve
<1>5. CASE Replan
  <2>1. rows' \in Goals
    BY <1>5, EngineAssumption DEF Replan, Goals
  <2> QED
    BY <1>5, <2>1 DEF Replan
<1>6. CASE Conclude
    BY <1>6 DEF Conclude, MissionStatuses
<1>7. CASE Extend
  <2>1. rows' \in Goals
    BY <1>7, EngineAssumption DEF Extend, Goals
  <2> QED
    BY <1>7, <2>1 DEF Extend, MissionStatuses
<1>8. CASE UNCHANGED vars
    BY <1>8
<1> QED
    BY <1>1, <1>2, <1>3, <1>4, <1>5, <1>6, <1>7, <1>8, <1>9, RunStepType, WorkerStepType
       DEF Next, Environment

\* Every variable of the engine stays in its type, whatever the constants.
THEOREM TypeCorrect == Spec => []TypeOK
<1>1. Init => TypeOK
    BY EngineAssumption DEF Init, TypeOK, Goals, Tasks, Steps, MissionStatuses, GoalStatuses,
       TaskStatuses, RunPC, WorkerPC, NoRun
<1>2. TypeOK /\ [Next]_vars => TypeOK'
    BY NextType
<1> QED
    BY <1>1, <1>2, PTL DEF Spec

-----------------------------------------------------------------------------
(* The walker's inductive invariant *)

\* The parts that hold however often the mission is run at once.
HandleInv == WorkersHaveHandles /\ NoWorkerLeftBehind

\* The parts that need runs to exclude one another.
RowInv ==
    /\ OneRunAtATime
    /\ RunMirrorsRows
    /\ HandlesAreReady
    /\ WorkersBelowDone
    /\ RowsToCome
    /\ SkipHasCause
    /\ CompletingIsWhole

IInv == TypeOK /\ HandleInv /\ RowInv

\* What a worker's step leaves alone: the rows of mission and goals, the runs,
\* and which goals have a worker.
WorkerFrame ==
    /\ UNCHANGED <<mission, rows, deps, goal, retries, runVars, token, cancelled>>
    /\ \A q \in Runs, h \in Goals : (wpc'[q][h] = "none") <=> (wpc[q][h] = "none")

LEMMA SetWorkerFrame ==
    ASSUME TypeOK, NEW r \in Runs, NEW g \in Goals, NEW pc,
           wpc[r][g] # "none", pc # "none", SetWorker(r, g, pc)
    PROVE  \A q \in Runs, h \in Goals : (wpc'[q][h] = "none") <=> (wpc[q][h] = "none")
<1>1. wpc \in [Runs -> [Goals -> WorkerPC]]
    BY DEF TypeOK
<1> QED
    BY <1>1 DEF SetWorker

\* Worker and tool steps stay within the frame.
LEMMA WorkerStepFrame ==
    ASSUME TypeOK, NEW r \in Runs, NEW g \in Goals,
           WorkerStep(r, g) \/ ToolStep(r, g) \/ LoseWorker(r, g)
    PROVE  WorkerFrame
<1> USE DEF vars, dbVars, sharedVars, runVars, workerVars, WorkerFrame
<1>1. CASE TakePermit(r, g)
    BY <1>1, SetWorkerFrame DEF TakePermit
<1>2. CASE LoadTasks(r, g)
    BY <1>2, SetWorkerFrame DEF LoadTasks
<1>3. CASE Materialize(r, g)
    BY <1>3, SetWorkerFrame DEF Materialize
<1>4. CASE AllTasksDone(r, g)
    BY <1>4, SetWorkerFrame DEF AllTasksDone
<1>5. CASE StopCancelled(r, g)
    BY <1>5, SetWorkerFrame DEF StopCancelled
<1>6. CASE SkipTask(r, g)
    BY <1>6 DEF SkipTask
<1>7. ASSUME NEW t \in Tasks, DenyTask(r, g, t) PROVE WorkerFrame
    BY <1>7, SetWorkerFrame DEF DenyTask, Due
<1>8. ASSUME NEW t \in Tasks, RequestApproval(r, g, t) PROVE WorkerFrame
    BY <1>8, SetWorkerFrame DEF RequestApproval, Due
<1>9. ASSUME NEW t \in Tasks, Park(r, g, t) PROVE WorkerFrame
    BY <1>9, SetWorkerFrame DEF Park
<1>10. ASSUME NEW t \in Tasks, BeginTask(r, g, t) \/ Unpark(r, g, t) PROVE WorkerFrame
  <2>1. wpc[r][g] # "none" /\ Begin(r, g, t)
    BY <1>10 DEF BeginTask, Unpark, Due
  <2>2. SetWorker(r, g, "tool") \/ SetWorker(r, g, "err")
    BY <2>1 DEF Begin
  <2> QED
    BY <2>1, <2>2, SetWorkerFrame DEF Begin
<1>11. ASSUME NEW t \in Tasks, UnparkCancelled(r, g, t) PROVE WorkerFrame
    BY <1>11, SetWorkerFrame DEF UnparkCancelled
<1>12. ASSUME NEW t \in Tasks, ToolSucceeds(r, g, t) PROVE WorkerFrame
    BY <1>12, SetWorkerFrame DEF ToolSucceeds
<1>13. ASSUME NEW t \in Tasks, ToolFails(r, g, t) PROVE WorkerFrame
    BY <1>13, SetWorkerFrame DEF ToolFails
<1>14. CASE LoseWorker(r, g)
    BY <1>14, SetWorkerFrame DEF LoseWorker
<1> QED
    BY <1>1, <1>2, <1>3, <1>4, <1>5, <1>6, <1>7, <1>8, <1>9, <1>10, <1>11, <1>12,
       <1>13, <1>14 DEF WorkerStep, ToolStep

\* Every step keeps workers and handles together.
LEMMA HandleStep ==
    ASSUME TypeOK, HandleInv, [Next]_vars PROVE HandleInv'
<1> USE DEF HandleInv, WorkersHaveHandles, NoWorkerLeftBehind, Live, Ending
<1>0. /\ rpc \in [Runs -> RunPC] /\ running \in [Runs -> SUBSET Goals]
      /\ check \in [Runs -> SUBSET Goals] /\ wpc \in [Runs -> [Goals -> WorkerPC]]
    BY DEF TypeOK
<1>1. ASSUME NEW r \in Runs, StartRun(r) PROVE HandleInv'
    BY <1>0, <1>1 DEF StartRun, workerVars
<1>2. ASSUME NEW r \in Runs, LoopTop(r) PROVE HandleInv'
    BY <1>0, <1>2 DEF LoopTop, workerVars, sharedVars
<1>3. ASSUME NEW r \in Runs, EndPass(r) PROVE HandleInv'
    BY <1>0, <1>3 DEF EndPass, workerVars, sharedVars
<1>4. ASSUME NEW r \in Runs, EndSweep(r) PROVE HandleInv'
    BY <1>0, <1>4 DEF EndSweep, workerVars, sharedVars
<1>5. ASSUME NEW r \in Runs, DrawVerdict(r) \/ FlipMission(r) \/ LeaveRun(r) PROVE HandleInv'
  <2>1. UNCHANGED <<cancelled, running, wpc>> /\ rpc[r] \in Ending
    BY <1>5 DEF DrawVerdict, FlipMission, LeaveRun, workerVars, sharedVars
  <2>2. \E pc \in Ending \cup {"returned"} : rpc' = [rpc EXCEPT ![r] = pc]
    BY <1>5 DEF DrawVerdict, FlipMission, LeaveRun
  <2> QED
    BY <1>0, <2>1, <2>2
<1>6. ASSUME NEW r \in Runs, AbortRun(r) PROVE HandleInv'
    BY <1>0, <1>6 DEF AbortRun, workerVars, sharedVars
<1>7. ASSUME NEW r \in Runs, NEW g \in Goals, PassOver(r, g) \/ SkipGoal(r, g) \/ PollBusy(r, g)
      PROVE  HandleInv'
    BY <1>7 DEF PassOver, SkipGoal, PollBusy, workerVars, sharedVars
<1>8. ASSUME NEW r \in Runs, NEW g \in Goals, LaunchGoal(r, g) PROVE HandleInv'
  <2>1. /\ rpc[r] = "launch"
        /\ UNCHANGED <<rpc, cancelled>>
        /\ running' = [running EXCEPT ![r] = @ \cup {g}]
        /\ wpc' = [wpc EXCEPT ![r][g] = "queued"]
    BY <1>8 DEF LaunchGoal, AtCursor, sharedVars
  <2> QED
    BY <1>0, <2>1
<1>9. ASSUME NEW r \in Runs, NEW g \in Goals,
             ReapCompleted(r, g) \/ ReapRetry(r, g) \/ ReapFailed(r, g)
      PROVE  HandleInv'
  <2>1. TakeHandle(r, g) /\ (rpc' = rpc \/ rpc' = [rpc EXCEPT ![r] = "retry"])
    BY <1>9 DEF ReapCompleted, ReapRetry, ReapFailed, Reap
  <2> QED
    BY <1>0, <2>1 DEF TakeHandle, sharedVars
<1>14. ASSUME NEW r \in Runs, NEW g \in Goals, Demote(r, g) PROVE HandleInv'
    BY <1>0, <1>14 DEF Demote, Retried, workerVars, sharedVars
<1>15. ASSUME NEW r \in Runs, NEW g \in Goals, AbortLaunch(r, g) PROVE HandleInv'
    BY <1>0, <1>15 DEF AbortLaunch, AtCursor, workerVars, sharedVars
<1>10. ASSUME NEW r \in Runs, NEW g \in Goals,
              WorkerStep(r, g) \/ ToolStep(r, g) \/ LoseWorker(r, g)
       PROVE  HandleInv'
  <2>1. WorkerFrame
    BY <1>10, WorkerStepFrame
  <2> QED
    BY <2>1 DEF WorkerFrame, runVars
<1>11. CASE Cancel
    BY <1>11 DEF Cancel, runVars, workerVars
<1>12. CASE Environment /\ ~Cancel
    BY <1>12 DEF Environment, Approve, Replan, Conclude, Extend, sharedVars, runVars, workerVars
<1>13. CASE UNCHANGED vars
    BY <1>13 DEF vars, sharedVars, runVars, workerVars
<1> QED
    BY <1>1, <1>2, <1>3, <1>4, <1>5, <1>6, <1>7, <1>8, <1>9, <1>10, <1>11, <1>12, <1>13,
       <1>14, <1>15 DEF Next, RunStep

\* A run that ends by itself, without being cancelled, leaves no worker behind,
\* even when several runs of the mission overlap.
THEOREM EndedRunsAreClean == Spec => []NoWorkerLeftBehind
<1>1. Init => HandleInv
    BY DEF Init, HandleInv, WorkersHaveHandles, NoWorkerLeftBehind, Live, Ending
<1>2. TypeOK /\ HandleInv /\ [Next]_vars => HandleInv'
    BY HandleStep
<1>3. HandleInv => NoWorkerLeftBehind
    BY DEF HandleInv
<1> QED
    BY <1>1, <1>2, <1>3, TypeCorrect, PTL DEF Spec

-----------------------------------------------------------------------------
(* One run at a time: the rows *)

\* Rows and runs are as they were: nothing of the row invariant can change.
LEMMA RowFrame ==
    ASSUME RowInv,
           UNCHANGED <<mission, rows, deps, goal, retries, runVars>>,
           \A q \in Runs, h \in Goals : (wpc'[q][h] = "none") <=> (wpc[q][h] = "none")
    PROVE  RowInv'
BY DEF RowInv, OneRunAtATime, RunMirrorsRows, HandlesAreReady, WorkersBelowDone,
       RowsToCome, SkipHasCause, CompletingIsWhole, Retried, Active, Live, GoalRows, runVars

\* The walker moves between its phases; no goal row and no worker changes.
LEMMA PhaseRows ==
    ASSUME TypeOK, RowInv, NEW r \in Runs, Live(r),
           UNCHANGED <<rows, deps, goal, retries, wpc,
                       loaded, local, left, running, completed, failed>>,
           NEW pc, rpc' = [rpc EXCEPT ![r] = pc], pc \notin {"idle", "retry"},
           \/ pc = "leaving"
           \/ mission' = mission /\ (rpc[r] = "leaving" => pc \in {"returned", "aborted"}),
           pc = "sweep" => check'[r] \subseteq running[r],
           pc = "completing" => \A g \in GoalRows : goal[g] = "Completed",
           \A q \in Runs \ {r} : check'[q] = check[q]
    PROVE  RowInv'
<1>1. rpc \in [Runs -> RunPC]
    BY DEF TypeOK
<1>2. \A q \in Runs : Active(q) => q = r
    BY DEF RowInv, OneRunAtATime, Active, Live
<1>3. OneRunAtATime'
    BY <1>1, <1>2 DEF OneRunAtATime, Active
<1>4. RunMirrorsRows'
    BY <1>1, <1>2 DEF RowInv, RunMirrorsRows, Live, Active, GoalRows
<1>5. HandlesAreReady'
    BY <1>1 DEF RowInv, HandlesAreReady, Retried, Live, GoalRows
<1>6. CompletingIsWhole'
    BY <1>1, <1>2 DEF RowInv, CompletingIsWhole, Active, GoalRows
<1> QED
    BY <1>3, <1>4, <1>5, <1>6 DEF RowInv, WorkersBelowDone, RowsToCome, SkipHasCause, GoalRows

\* The live run r rewrites a row that has not settled, from its own copy, and
\* keeps its sets in step with it.
LEMMA WriteRows ==
    ASSUME TypeOK, RowInv, NEW r \in Runs, Live(r), rpc[r] # "leaving",
           NEW pc \in RunPC \ {"idle", "completing"}, rpc' = [rpc EXCEPT ![r] = pc],
           NEW g \in Goals, g \in GoalRows, goal[g] \notin GoalTerminal,
           NEW status \in GoalStatuses, NEW budget \in Nat, WriteGoal(r, g, status, budget),
           status = "Skipped" => \E d \in deps[g] \cap Goals : goal[d] \in {"Failed", "Skipped"},
           UNCHANGED <<mission, rows, deps, loaded>>,
           completed' = [completed EXCEPT ![r] =
                            IF status = "Completed" THEN @ \cup {g} ELSE @],
           failed' = [failed EXCEPT ![r] =
                            IF status \in {"Failed", "Skipped"} THEN @ \cup {g} ELSE @]
    PROVE  /\ OneRunAtATime' /\ RunMirrorsRows' /\ RowsToCome' /\ SkipHasCause'
           /\ CompletingIsWhole'
           /\ \A d \in Goals : goal[d] \in GoalTerminal => goal'[d] = goal[d]
<1>1. /\ goal \in [Goals -> GoalStatuses] /\ retries \in [Goals -> Nat]
      /\ local \in [Runs -> [Goals -> GoalStatuses]] /\ left \in [Runs -> [Goals -> Nat]]
      /\ completed \in [Runs -> SUBSET Goals] /\ failed \in [Runs -> SUBSET Goals]
    BY DEF TypeOK
<1>2. \A q \in Runs : Live(q) => q = r
    BY DEF RowInv, OneRunAtATime, Active, Live
<1>3. goal' = [goal EXCEPT ![g] = status] /\ retries' = [retries EXCEPT ![g] = budget]
    BY DEF WriteGoal
<1>10. rpc \in [Runs -> RunPC]
    BY DEF TypeOK
<1>11. \A q \in Runs : Active(q) \/ Active(q)' => q = r
    BY <1>10 DEF RowInv, OneRunAtATime, Active, Live
<1>4. OneRunAtATime'
    BY <1>11 DEF OneRunAtATime
<1>9. CompletingIsWhole'
    BY <1>10, <1>11 DEF CompletingIsWhole, Active
<1>5. RunMirrorsRows'
  <2> SUFFICES ASSUME NEW q \in Runs, Live(q)'
               PROVE  /\ mission' = "Running" \/ rpc'[q] = "leaving"
                      /\ loaded'[q] = rows'
                      /\ local'[q] = goal'
                      /\ left'[q] = retries'
                      /\ completed'[q] = {h \in GoalRows' : goal'[h] = "Completed"}
                      /\ failed'[q] = {h \in GoalRows' : goal'[h] \in {"Failed", "Skipped"}}
    BY DEF RunMirrorsRows
  <2>1. q = r
    BY <1>11 DEF Live, Active
  <2>2. /\ mission = "Running" /\ loaded[r] = rows /\ local[r] = goal /\ left[r] = retries
        /\ completed[r] = {h \in GoalRows : goal[h] = "Completed"}
        /\ failed[r] = {h \in GoalRows : goal[h] \in {"Failed", "Skipped"}}
    BY DEF RowInv, RunMirrorsRows
  <2>3. local'[r] = goal' /\ left'[r] = retries'
    BY <1>1, <1>3, <2>2 DEF WriteGoal
  <2>4. completed'[r] = {h \in GoalRows : goal'[h] = "Completed"}
    BY <1>1, <1>3, <2>2 DEF GoalTerminal, GoalRows, Goals
  <2>5. failed'[r] = {h \in GoalRows : goal'[h] \in {"Failed", "Skipped"}}
    BY <1>1, <1>3, <2>2 DEF GoalTerminal, GoalRows, Goals
  <2> QED
    BY <2>1, <2>2, <2>3, <2>4, <2>5 DEF GoalRows
<1>6. RowsToCome'
    BY <1>1, <1>3 DEF RowInv, RowsToCome, GoalRows
<1>7. \A d \in Goals : goal[d] \in GoalTerminal => goal'[d] = goal[d]
    BY <1>1, <1>3
<1>8. SkipHasCause'
  <2>1. \A h \in Goals : goal[h] = "Skipped" =>
            /\ \E d \in deps[h] \cap Goals : goal[d] \in {"Failed", "Skipped"}
            /\ \E f \in Goals : goal[f] = "Failed"
    BY DEF RowInv, SkipHasCause
  <2> SUFFICES ASSUME NEW h \in Goals, goal'[h] = "Skipped"
               PROVE  /\ \E d \in deps[h] \cap Goals : goal'[d] \in {"Failed", "Skipped"}
                      /\ \E f \in Goals : goal'[f] = "Failed"
    BY DEF SkipHasCause
  <2>2. \E d \in deps[h] \cap Goals : goal[d] \in {"Failed", "Skipped"}
    BY <1>1, <1>3, <2>1
  <2>3. \E f \in Goals : goal[f] = "Failed"
    BY <2>1, <2>2
  <2> QED
    BY <1>7, <2>2, <2>3 DEF GoalTerminal
<1> QED
    BY <1>4, <1>5, <1>6, <1>7, <1>8, <1>9

\* A settled row stays what it is, and no goal gets a worker.
LEMMA WorkersStayBelowDone ==
    ASSUME TypeOK, WorkersBelowDone, UNCHANGED <<rows, deps>>,
           \A d \in Goals : goal[d] \in GoalTerminal => goal'[d] = goal[d],
           \A q \in Runs, h \in Goals : wpc'[q][h] # "none" => wpc[q][h] # "none"
    PROVE  WorkersBelowDone'
<1>1. GoalRows \subseteq Goals
    BY EngineAssumption DEF TypeOK, GoalRows, Goals
<1> SUFFICES ASSUME NEW q \in Runs, NEW h \in Goals, wpc'[q][h] # "none"
             PROVE  h \in GoalRows' /\ \A d \in deps'[h] : d \in GoalRows' /\ goal'[d] = "Completed"
    BY DEF WorkersBelowDone
<1>2. h \in GoalRows /\ \A d \in deps[h] : d \in GoalRows /\ goal[d] = "Completed"
    BY DEF WorkersBelowDone
<1> QED
    BY <1>1, <1>2 DEF GoalRows, GoalTerminal

\* What the walker says when it ends by itself with nothing failed and as many
\* goals completed as it loaded.
LEMMA CountMeansWhole ==
    ASSUME IInv, NEW r \in Runs, Live(r), Cardinality(completed[r]) = loaded[r]
    PROVE  \A g \in GoalRows : goal[g] = "Completed"
<1>1. loaded[r] = rows /\ completed[r] = {g \in GoalRows : goal[g] = "Completed"}
    BY DEF IInv, RowInv, RunMirrorsRows
<1>2. rows \in Nat /\ rows >= 1
    BY EngineAssumption DEF IInv, TypeOK, Goals
<1>3. IsFiniteSet(GoalRows) /\ Cardinality(GoalRows) = rows
    BY <1>2, FS_Interval DEF GoalRows
<1>4. completed[r] \subseteq GoalRows
    BY <1>1
<1>5. completed[r] = GoalRows
    BY <1>1, <1>3, <1>4, FS_Subset
<1> QED
    BY <1>1, <1>5

\* The walker's own steps.
LEMMA RunStepRows ==
    ASSUME IInv, NEW r \in Runs, RunStep(r) PROVE RowInv'
<1>0. TypeOK /\ RowInv /\ HandleInv
    BY DEF IInv
<1>1. Live(r)
    BY DEF RunStep, LoopTop, EndPass, EndSweep, DrawVerdict, FlipMission, LeaveRun, PassOver, SkipGoal,
           LaunchGoal, AtCursor, PollBusy, ReapCompleted, ReapRetry, ReapFailed, Reap, TakeHandle,
           Demote, Retried, Live
<1>2. /\ rpc \in [Runs -> RunPC] /\ running \in [Runs -> SUBSET Goals]
      /\ check \in [Runs -> SUBSET Goals] /\ wpc \in [Runs -> [Goals -> WorkerPC]]
      /\ completed \in [Runs -> SUBSET Goals] /\ failed \in [Runs -> SUBSET Goals]
      /\ left \in [Runs -> [Goals -> Nat]] /\ rows \in Goals
      /\ goal \in [Goals -> GoalStatuses] /\ loaded \in [Runs -> 0 .. NGoals]
    BY <1>0 DEF TypeOK
<1>3. /\ local[r] = goal /\ left[r] = retries /\ loaded[r] = rows
      /\ completed[r] = {g \in GoalRows : goal[g] = "Completed"}
      /\ failed[r] = {g \in GoalRows : goal[g] \in {"Failed", "Skipped"}}
    BY <1>0, <1>1 DEF RowInv, RunMirrorsRows
<1>4. \A q \in Runs : Live(q) \/ Active(q) => q = r
    BY <1>0, <1>1 DEF RowInv, OneRunAtATime, Active, Live
<1>5. ASSUME NEW g \in Goals, AtCursor(r, g) PROVE g \in GoalRows
    BY <1>3, <1>5 DEF AtCursor, GoalRows, Goals
<1>6. ASSUME NEW g \in Goals, TakeHandle(r, g) \/ Demote(r, g)
      PROVE  /\ g \in GoalRows /\ goal[g] = "Ready" /\ rpc[r] # "leaving"
             /\ WorkersBelowDone /\ (\A d \in Goals : goal[d] \in GoalTerminal => goal'[d] = goal[d])
                    => WorkersBelowDone'
  <2>1. g \in GoalRows /\ goal[g] = "Ready" /\ rpc[r] # "leaving"
    BY <1>0, <1>1, <1>6 DEF RowInv, HandlesAreReady, TakeHandle, Demote, Retried
  <2>3. ASSUME WorkersBelowDone, \A d \in Goals : goal[d] \in GoalTerminal => goal'[d] = goal[d]
        PROVE  WorkersBelowDone'
    <3>1. \A q \in Runs, h \in Goals : wpc'[q][h] # "none" => wpc[q][h] # "none"
      <4>1. CASE wpc' = [wpc EXCEPT ![r][g] = "none"]
        BY <1>2, <4>1
      <4>2. CASE wpc' = wpc
        BY <4>2
      <4> QED
        BY <1>6, <4>1, <4>2 DEF TakeHandle, Demote, workerVars
    <3>2. UNCHANGED <<rows, deps>>
      BY <1>6 DEF TakeHandle, Demote
    <3>3. TypeOK
      BY <1>0 DEF RowInv
    <3> QED
      BY <2>3, <3>1, <3>2, <3>3, WorkersStayBelowDone
  <2> QED
    BY <2>1, <2>3
<1>7. CASE LoopTop(r)
  <2>1. /\ UNCHANGED <<rows, deps, goal, retries, wpc, loaded, local, left, running, completed, failed>>
        /\ mission' = mission /\ check' = check /\ rpc[r] = "top"
        /\ rpc' = [rpc EXCEPT ![r] = "flip"] \/ rpc' = [rpc EXCEPT ![r] = "launch"]
    BY <1>7 DEF LoopTop, dbVars, sharedVars, workerVars
  <2>2. CASE rpc' = [rpc EXCEPT ![r] = "flip"]
    BY <1>0, <1>1, <2>1, <2>2, PhaseRows
  <2>3. CASE rpc' = [rpc EXCEPT ![r] = "launch"]
    BY <1>0, <1>1, <2>1, <2>3, PhaseRows
  <2> QED
    BY <2>1, <2>2, <2>3
<1>8. CASE EndPass(r)
  <2>1. check'[r] \subseteq running[r] /\ \A q \in Runs \ {r} : check'[q] = check[q]
    BY <1>2, <1>8 DEF EndPass
  <2> QED
    BY <1>0, <1>1, <1>8, <2>1, PhaseRows DEF EndPass, dbVars, sharedVars, workerVars
<1>9. CASE EndSweep(r)
    BY <1>0, <1>1, <1>9, PhaseRows DEF EndSweep, dbVars, sharedVars, workerVars
<1>10. CASE DrawVerdict(r)
  <2>1. /\ UNCHANGED <<dbVars, loaded, local, left, running, check, completed, failed, workerVars>>
        /\ rpc[r] = "flip"
    BY <1>10 DEF DrawVerdict
  <2>2. ASSUME CanTransition(mission, Verdict(r)), Verdict(r) # "Cancelled"
        PROVE  \A g \in GoalRows : goal[g] = "Completed"
    <3>1. mission = "Running"
      BY <1>0, <1>1, <2>1 DEF RowInv, RunMirrorsRows
    <3>2. Verdict(r) # "none"
      BY <2>2, <3>1 DEF CanTransition, MissionTransitions
    <3>3. Verdict(r) = "Completed"
      BY <2>2, <3>2 DEF Verdict
    <3>4. Cardinality(completed[r]) = loaded[r]
      BY <3>3 DEF Verdict
    <3> QED
      BY <1>1, <3>4, CountMeansWhole
  <2>3. PICK pc \in {"leaving", "cancelling", "completing"} :
            /\ rpc' = [rpc EXCEPT ![r] = pc]
            /\ pc = "completing" => CanTransition(mission, Verdict(r)) /\ Verdict(r) # "Cancelled"
    BY <1>10 DEF DrawVerdict
  <2> QED
    BY <1>0, <1>1, <2>1, <2>2, <2>3, PhaseRows DEF dbVars, workerVars
<1>19. CASE FlipMission(r)
  <2>1. /\ UNCHANGED <<rows, deps, goal, retries, wpc, loaded, local, left, running, check,
                       completed, failed>>
        /\ rpc' = [rpc EXCEPT ![r] = "leaving"]
    BY <1>19 DEF FlipMission, workerVars
  <2> QED
    BY <1>0, <1>1, <2>1, PhaseRows
<1>20. CASE LeaveRun(r)
    BY <1>0, <1>1, <1>20, PhaseRows DEF LeaveRun, dbVars, workerVars
<1>11. ASSUME NEW g \in Goals, PassOver(r, g) PROVE RowInv'
    BY <1>0, <1>11 DEF PassOver, RowInv, OneRunAtATime, RunMirrorsRows, HandlesAreReady, Retried,
       WorkersBelowDone, RowsToCome, SkipHasCause, CompletingIsWhole, Active, Live, GoalRows,
       dbVars, workerVars
<1>12. ASSUME NEW g \in Goals, PollBusy(r, g) PROVE RowInv'
  <2>1. HandlesAreReady'
    BY <1>0, <1>2, <1>12 DEF PollBusy, RowInv, HandlesAreReady, Retried, Live, GoalRows, dbVars
  <2> QED
    BY <1>0, <1>12, <2>1 DEF PollBusy, RowInv, OneRunAtATime, RunMirrorsRows, CompletingIsWhole,
       WorkersBelowDone, RowsToCome, SkipHasCause, Active, Live, GoalRows, dbVars, workerVars
<1>13. ASSUME NEW g \in Goals, SkipGoal(r, g) PROVE RowInv'
  <2>1. g \in GoalRows /\ goal[g] \in {"Pending", "Ready"} /\ g \notin running[r]
    BY <1>2, <1>3, <1>5, <1>13 DEF SkipGoal, Settled
  <2>2. \E d \in deps[g] \cap Goals : goal[d] \in {"Failed", "Skipped"}
    BY <1>2, <1>3, <1>13 DEF SkipGoal, Doomed, GoalRows, Goals
  <2>3. WriteGoal(r, g, "Skipped", left[r][g]) /\ left[r][g] \in Nat
    BY <1>2, <1>13 DEF SkipGoal
  <2>4. goal' = [goal EXCEPT ![g] = "Skipped"]
    BY <2>3 DEF WriteGoal
  <2>5. /\ OneRunAtATime' /\ RunMirrorsRows' /\ RowsToCome' /\ SkipHasCause' /\ CompletingIsWhole'
        /\ \A d \in Goals : goal[d] \in GoalTerminal => goal'[d] = goal[d]
    <3>1. /\ completed' = [completed EXCEPT ![r] = IF "Skipped" = "Completed" THEN @ \cup {g} ELSE @]
          /\ failed' = [failed EXCEPT ![r] = IF "Skipped" \in {"Failed", "Skipped"} THEN @ \cup {g} ELSE @]
      BY <1>2, <1>13 DEF SkipGoal
    <3>2. rpc[r] = "launch" /\ rpc' = [rpc EXCEPT ![r] = "launch"] /\ "launch" \in RunPC \ {"idle", "completing"}
      BY <1>2, <1>13 DEF SkipGoal, AtCursor, RunPC
    <3>3. UNCHANGED <<mission, rows, deps, loaded>>
      BY <1>13 DEF SkipGoal
    <3>4. "Skipped" \in GoalStatuses /\ goal[g] \notin GoalTerminal
      BY <2>1 DEF GoalStatuses, GoalTerminal
    <3> QED
      BY <1>0, <1>1, <2>1, <2>2, <2>3, <3>1, <3>2, <3>3, <3>4, WriteRows
  <2>6. HandlesAreReady'
    BY <1>0, <1>2, <1>4, <1>13, <2>1, <2>4
       DEF SkipGoal, AtCursor, RowInv, HandlesAreReady, Retried, Live, Active, GoalRows
  <2>7. WorkersBelowDone'
    BY <1>0, <1>13, <2>5, WorkersStayBelowDone DEF SkipGoal, RowInv, workerVars
  <2> QED
    BY <2>5, <2>6, <2>7 DEF RowInv
<1>14. ASSUME NEW g \in Goals, LaunchGoal(r, g) PROVE RowInv'
  <2>1. g \in GoalRows /\ goal[g] \in {"Pending", "Ready"} /\ g \notin running[r]
    BY <1>2, <1>3, <1>5, <1>14 DEF LaunchGoal, Settled
  <2>2. \A d \in deps[g] : d \in GoalRows /\ goal[d] = "Completed"
    BY <1>3, <1>14 DEF LaunchGoal, Blocked
  <2>3. /\ goal' = [goal EXCEPT ![g] = "Ready"]
        /\ OneRunAtATime' /\ RunMirrorsRows' /\ RowsToCome' /\ SkipHasCause' /\ CompletingIsWhole'
        /\ \A d \in Goals : goal[d] \in GoalTerminal => goal'[d] = goal[d]
    <3>1. CASE local[r][g] = "Ready"
      <4>1. UNCHANGED <<goal, retries, local, left>>
        BY <1>14, <3>1 DEF LaunchGoal
      <4>2. goal' = [goal EXCEPT ![g] = "Ready"]
        BY <1>2, <1>3, <3>1, <4>1
      <4>3. OneRunAtATime' /\ RunMirrorsRows' /\ RowsToCome' /\ SkipHasCause' /\ CompletingIsWhole'
        BY <1>0, <1>14, <4>1 DEF LaunchGoal, RowInv, OneRunAtATime, RunMirrorsRows,
           RowsToCome, SkipHasCause, CompletingIsWhole, Active, Live, GoalRows
      <4> QED
        BY <4>1, <4>2, <4>3
    <3>2. CASE local[r][g] # "Ready"
      <4>1. WriteGoal(r, g, "Ready", left[r][g]) /\ left[r][g] \in Nat
        BY <1>2, <1>14, <3>2 DEF LaunchGoal
      <4>2. /\ completed' = [completed EXCEPT ![r] = IF "Ready" = "Completed" THEN @ \cup {g} ELSE @]
            /\ failed' = [failed EXCEPT ![r] = IF "Ready" \in {"Failed", "Skipped"} THEN @ \cup {g} ELSE @]
        BY <1>2, <1>14 DEF LaunchGoal
      <4>3. goal' = [goal EXCEPT ![g] = "Ready"]
        BY <4>1 DEF WriteGoal
      <4>4. rpc[r] = "launch" /\ rpc' = [rpc EXCEPT ![r] = "launch"] /\ "launch" \in RunPC \ {"idle", "completing"}
        BY <1>2, <1>14 DEF LaunchGoal, AtCursor, RunPC
      <4>5. UNCHANGED <<mission, rows, deps, loaded>>
        BY <1>14 DEF LaunchGoal
      <4>6. "Ready" \in GoalStatuses /\ goal[g] \notin GoalTerminal
        BY <2>1 DEF GoalStatuses, GoalTerminal
      <4> QED
        BY <1>0, <1>1, <2>1, <4>1, <4>2, <4>3, <4>4, <4>5, <4>6, WriteRows
    <3> QED
      BY <3>1, <3>2
  <2>4. HandlesAreReady'
    BY <1>0, <1>2, <1>4, <1>14, <2>1, <2>3
       DEF LaunchGoal, AtCursor, RowInv, HandlesAreReady, Retried, Live, Active, GoalRows
  <2>5. WorkersBelowDone'
    <3>1. ASSUME NEW q \in Runs, NEW h \in Goals, wpc'[q][h] # "none"
          PROVE  h = g \/ wpc[q][h] # "none"
      BY <1>2, <1>14, <3>1 DEF LaunchGoal
    <3> QED
      BY <1>0, <1>14, <2>1, <2>2, <2>3, <3>1
         DEF LaunchGoal, RowInv, WorkersBelowDone, GoalRows, Goals, GoalTerminal
  <2> QED
    BY <2>3, <2>4, <2>5 DEF RowInv
\* The goal of a finished handle, or of a paid retry, is written.
<1>15. ASSUME NEW g \in Goals, TakeHandle(r, g) \/ Demote(r, g),
              NEW pc \in RunPC \ {"idle", "completing"}, rpc' = [rpc EXCEPT ![r] = pc],
              NEW status \in GoalStatuses \ {"Skipped"}, NEW budget \in Nat,
              WriteGoal(r, g, status, budget), HandlesAreReady',
              completed' = [completed EXCEPT ![r] =
                               IF status = "Completed" THEN @ \cup {g} ELSE @],
              failed' = [failed EXCEPT ![r] =
                               IF status \in {"Failed", "Skipped"} THEN @ \cup {g} ELSE @]
       PROVE  RowInv'
  <2>1. g \in GoalRows /\ goal[g] = "Ready" /\ rpc[r] # "leaving"
    BY <1>6, <1>15
  <2>3. UNCHANGED <<mission, rows, deps, loaded>>
    BY <1>15 DEF TakeHandle, Demote
  <2>4. goal[g] \notin GoalTerminal /\ status \in GoalStatuses
    BY <1>15, <2>1 DEF GoalTerminal
  <2>5. /\ OneRunAtATime' /\ RunMirrorsRows' /\ RowsToCome' /\ SkipHasCause' /\ CompletingIsWhole'
        /\ \A d \in Goals : goal[d] \in GoalTerminal => goal'[d] = goal[d]
    BY <1>0, <1>1, <1>15, <2>1, <2>3, <2>4, WriteRows
  <2> QED
    BY <1>0, <1>6, <1>15, <2>5 DEF RowInv
\* The handle is gone and the goal settled: what is left in the map is Ready.
<1>21. ASSUME NEW g \in Goals, Reap(r, g), \A h \in Goals : h # g => goal'[h] = goal[h]
       PROVE  HandlesAreReady' /\ rpc' = [rpc EXCEPT ![r] = "sweep"]
  <2>1. /\ rpc[r] = "sweep" /\ rpc' = rpc /\ rows' = rows
        /\ running' = [running EXCEPT ![r] = @ \ {g}] /\ check' = [check EXCEPT ![r] = @ \ {g}]
    BY <1>21 DEF Reap, TakeHandle
  <2> QED
    BY <1>0, <1>2, <1>4, <1>21, <2>1 DEF RowInv, HandlesAreReady, Retried, Live, Active, GoalRows
<1>22. "sweep" \in RunPC \ {"idle", "completing"} /\ "retry" \in RunPC \ {"idle", "completing"}
    BY DEF RunPC
<1>16. ASSUME NEW g \in Goals, ReapCompleted(r, g) PROVE RowInv'
  <2>1. /\ completed' = [completed EXCEPT ![r] = IF "Completed" = "Completed" THEN @ \cup {g} ELSE @]
        /\ failed' = [failed EXCEPT ![r] = IF "Completed" \in {"Failed", "Skipped"} THEN @ \cup {g} ELSE @]
    BY <1>2, <1>16 DEF ReapCompleted
  <2> QED
    <3>1. Reap(r, g) /\ TakeHandle(r, g) /\ WriteGoal(r, g, "Completed", left[r][g])
      BY <1>16 DEF ReapCompleted, Reap
    <3>2. "Completed" \in GoalStatuses \ {"Skipped"} /\ left[r][g] \in Nat
      BY <1>2 DEF GoalStatuses
    <3>3. HandlesAreReady' /\ rpc' = [rpc EXCEPT ![r] = "sweep"]
      BY <1>2, <1>21, <3>1 DEF WriteGoal
    <3> QED
      BY <1>15, <1>22, <2>1, <3>1, <3>2, <3>3
<1>17. ASSUME NEW g \in Goals, ReapRetry(r, g) PROVE RowInv'
  <2>1. g \in GoalRows /\ goal[g] = "Ready" /\ local[r][g] = "Ready"
    BY <1>3, <1>6, <1>17 DEF ReapRetry
  <2>2. left[r][g] - 1 \in Nat /\ WriteGoal(r, g, "Ready", left[r][g] - 1)
    BY <1>2, <1>17, <2>1 DEF ReapRetry, CanRetry
  <2>3. /\ completed' = [completed EXCEPT ![r] = IF "Ready" = "Completed" THEN @ \cup {g} ELSE @]
        /\ failed' = [failed EXCEPT ![r] = IF "Ready" \in {"Failed", "Skipped"} THEN @ \cup {g} ELSE @]
    BY <1>2, <1>17 DEF ReapRetry
  <2>4. goal' = goal
    BY <1>2, <2>1, <2>2 DEF WriteGoal
  <2>5. /\ rpc[r] = "sweep" /\ rpc' = [rpc EXCEPT ![r] = "retry"] /\ rows' = rows
        /\ running' = [running EXCEPT ![r] = @ \ {g}] /\ check' = check
        /\ g \in running[r] /\ check[r] \subseteq running[r]
    BY <1>0, <1>17 DEF ReapRetry, TakeHandle, RowInv, HandlesAreReady
  <2>6. Retried(r)' \subseteq {g}
    BY <1>2, <2>5 DEF Retried
  <2>7. HandlesAreReady'
    BY <1>0, <1>1, <1>2, <1>4, <2>1, <2>4, <2>5, <2>6
       DEF RowInv, HandlesAreReady, Retried, Live, Active, GoalRows
  <2>8. TakeHandle(r, g) /\ "Ready" \in GoalStatuses \ {"Skipped"}
    BY <1>17 DEF ReapRetry, GoalStatuses
  <2> QED
    BY <1>15, <1>22, <2>2, <2>3, <2>5, <2>7, <2>8
<1>23. ASSUME NEW g \in Goals, Demote(r, g) PROVE RowInv'
  <2>1. /\ completed' = [completed EXCEPT ![r] = IF "Pending" = "Completed" THEN @ \cup {g} ELSE @]
        /\ failed' = [failed EXCEPT ![r] = IF "Pending" \in {"Failed", "Skipped"} THEN @ \cup {g} ELSE @]
    BY <1>2, <1>23 DEF Demote
  <2>2. WriteGoal(r, g, "Pending", left[r][g]) /\ left[r][g] \in Nat
    BY <1>2, <1>23 DEF Demote
  <2>3. \A h \in Goals : h # g => goal'[h] = goal[h]
    BY <1>2, <2>2 DEF WriteGoal
  <2>4. /\ rpc[r] = "retry" /\ rpc' = [rpc EXCEPT ![r] = "sweep"] /\ UNCHANGED <<rows, running>>
        /\ check' = [check EXCEPT ![r] = @ \ {g}] /\ g \in check[r] \ running[r]
    BY <1>23 DEF Demote, Retried
  <2>5. check[r] \ {g} \subseteq running[r]
    BY <1>0, <2>4 DEF RowInv, HandlesAreReady, Retried
  <2>6. HandlesAreReady'
    BY <1>0, <1>1, <1>2, <1>4, <2>3, <2>4, <2>5
       DEF RowInv, HandlesAreReady, Retried, Live, Active, GoalRows
  <2>7. "Pending" \in GoalStatuses \ {"Skipped"}
    BY DEF GoalStatuses
  <2> QED
    BY <1>15, <1>22, <1>23, <2>1, <2>2, <2>4, <2>6, <2>7
<1>18. ASSUME NEW g \in Goals, ReapFailed(r, g) PROVE RowInv'
  <2>1. /\ completed' = [completed EXCEPT ![r] = IF "Failed" = "Completed" THEN @ \cup {g} ELSE @]
        /\ failed' = [failed EXCEPT ![r] = IF "Failed" \in {"Failed", "Skipped"} THEN @ \cup {g} ELSE @]
    BY <1>2, <1>18 DEF ReapFailed
  <2> QED
    <3>1. Reap(r, g) /\ TakeHandle(r, g) /\ WriteGoal(r, g, "Failed", left[r][g])
      BY <1>18 DEF ReapFailed, Reap
    <3>2. "Failed" \in GoalStatuses \ {"Skipped"} /\ left[r][g] \in Nat
      BY <1>2 DEF GoalStatuses
    <3>3. HandlesAreReady' /\ rpc' = [rpc EXCEPT ![r] = "sweep"]
      BY <1>2, <1>21, <3>1 DEF WriteGoal
    <3> QED
      BY <1>15, <1>22, <2>1, <3>1, <3>2, <3>3
<1> QED
  BY <1>7, <1>8, <1>9, <1>10, <1>11, <1>12, <1>13, <1>14, <1>16, <1>17, <1>18, <1>19, <1>20, <1>23
     DEF RunStep

\* Every step, when the service starts a run only after the last has returned.
LEMMA RowStep ==
    ASSUME Exclusive, IInv, [Next]_vars PROVE RowInv'
<1>0. TypeOK /\ RowInv /\ HandleInv
    BY DEF IInv
<1>1. /\ rpc \in [Runs -> RunPC] /\ loaded \in [Runs -> 0 .. NGoals] /\ rows \in Goals
      /\ local \in [Runs -> [Goals -> GoalStatuses]] /\ left \in [Runs -> [Goals -> Nat]]
      /\ completed \in [Runs -> SUBSET Goals] /\ failed \in [Runs -> SUBSET Goals]
    BY <1>0 DEF TypeOK
<1>2. ASSUME NEW r \in Runs, StartRun(r) PROVE RowInv'
  <2>1. \A q \in Runs : rpc[q] \in {"idle", "returned"}
    BY <1>2 DEF StartRun
  <2>2. rpc' = [rpc EXCEPT ![r] = "top"] /\ rpc[r] = "idle"
    BY <1>2 DEF StartRun
  <2>3. \A q \in Runs : (Live(q)' \/ Active(q)') => q = r
    BY <1>1, <2>1, <2>2 DEF Live, Active
  <2>4. OneRunAtATime'
    BY <2>3 DEF OneRunAtATime
  <2>5. RunMirrorsRows'
    BY <1>1, <1>2, <2>3 DEF StartRun, RunMirrorsRows, GoalRows, dbVars
  <2>6. HandlesAreReady'
    BY <1>0, <1>1, <1>2, <2>2, <2>3
       DEF StartRun, RowInv, HandlesAreReady, Retried, GoalRows, dbVars
  <2>7. CompletingIsWhole'
    BY <1>1, <2>2, <2>3 DEF CompletingIsWhole, Active
  <2> QED
    BY <1>0, <1>2, <2>4, <2>5, <2>6, <2>7
       DEF StartRun, RowInv, WorkersBelowDone, RowsToCome, SkipHasCause, GoalRows, dbVars, workerVars
<1>3. ASSUME NEW r \in Runs, AbortRun(r) PROVE RowInv'
    BY <1>0, <1>1, <1>3, PhaseRows DEF AbortRun, dbVars, runVars, workerVars
<1>10. ASSUME NEW r \in Runs, NEW g \in Goals, AbortLaunch(r, g) PROVE RowInv'
  <2>1. Live(r) /\ rpc[r] = "launch" /\ RunMirrorsRows /\ WorkersBelowDone
    BY <1>0, <1>10 DEF AbortLaunch, AtCursor, Live, RowInv
  <2>2. local[r] = goal /\ loaded[r] = rows
    BY <2>1 DEF RunMirrorsRows
  <2>3. g \in GoalRows /\ goal[g] = "Pending"
    BY <1>1, <1>10, <2>2 DEF AbortLaunch, AtCursor, GoalRows, Goals
  <2>4. rpc' = [rpc EXCEPT ![r] = "aborted"] /\ "aborted" \in RunPC \ {"idle", "completing"}
    BY <1>10 DEF AbortLaunch, RunPC
  <2>5. /\ completed' = [completed EXCEPT ![r] = IF "Ready" = "Completed" THEN @ \cup {g} ELSE @]
        /\ failed' = [failed EXCEPT ![r] = IF "Ready" \in {"Failed", "Skipped"} THEN @ \cup {g} ELSE @]
    BY <1>1, <1>10 DEF AbortLaunch
  <2>6. /\ WriteGoal(r, g, "Ready", left[r][g]) /\ left[r][g] \in Nat
        /\ UNCHANGED <<mission, rows, deps, loaded, running, check, wpc>>
        /\ "Ready" \in GoalStatuses /\ goal[g] \notin GoalTerminal
    BY <1>1, <1>10, <2>3 DEF AbortLaunch, GoalStatuses, GoalTerminal, workerVars
  <2>7. /\ OneRunAtATime' /\ RunMirrorsRows' /\ RowsToCome' /\ SkipHasCause' /\ CompletingIsWhole'
        /\ \A d \in Goals : goal[d] \in GoalTerminal => goal'[d] = goal[d]
    BY <1>0, <2>1, <2>3, <2>4, <2>5, <2>6, WriteRows
  <2>8. \A q \in Runs : ~Live(q)'
    <3>1. \A q \in Runs : Live(q) => q = r
      BY <1>0, <2>1 DEF RowInv, OneRunAtATime, Active, Live
    <3> QED
      BY <1>1, <2>4, <3>1 DEF Live
  <2>9. HandlesAreReady'
    <3>1. \A q \in Runs : rpc'[q] # "sweep" /\ rpc'[q] # "retry"
      BY <2>8 DEF Live
    <3>2. \A q \in Runs : rpc'[q] = "idle" => running'[q] = {}
      BY <1>0, <1>1, <2>4, <2>6 DEF RowInv, HandlesAreReady
    <3> QED
      BY <2>8, <3>1, <3>2 DEF HandlesAreReady, Retried
  <2>10. WorkersBelowDone'
    BY <1>0, <2>1, <2>6, <2>7, WorkersStayBelowDone
  <2> QED
    BY <2>7, <2>9, <2>10 DEF RowInv
<1>4. ASSUME NEW r \in Runs, NEW g \in Goals,
             WorkerStep(r, g) \/ ToolStep(r, g) \/ LoseWorker(r, g)
      PROVE  RowInv'
  <2>1. WorkerFrame
    BY <1>0, <1>4, WorkerStepFrame
  <2> QED
    BY <1>0, <2>1, RowFrame DEF WorkerFrame
<1>5. CASE Cancel \/ \E t \in Tasks : Approve(t)
    BY <1>0, <1>5, RowFrame DEF Cancel, Approve, dbVars, workerVars
<1>6. ASSUME Between, UNCHANGED <<deps, goal, retries, runVars, workerVars>>,
             rows' \in Nat, rows' >= rows
      PROVE  RowInv'
  <2>1. \A q \in Runs : ~Live(q) /\ ~Live(q)'
    BY <1>6 DEF Between, Live, runVars
  <2>2. GoalRows \subseteq GoalRows'
    BY <1>1, <1>6, EngineAssumption DEF GoalRows, Goals
  <2>3. OneRunAtATime' /\ RunMirrorsRows'
    BY <1>0, <1>6, <2>1 DEF RowInv, OneRunAtATime, RunMirrorsRows, Active, runVars
  <2>4. HandlesAreReady' /\ CompletingIsWhole'
    BY <1>0, <1>6, <2>1 DEF RowInv, HandlesAreReady, CompletingIsWhole, Retried, Live, runVars
  <2>5. WorkersBelowDone' /\ RowsToCome' /\ SkipHasCause'
    BY <1>0, <1>6, <2>2 DEF RowInv, WorkersBelowDone, RowsToCome, SkipHasCause, workerVars
  <2> QED
    BY <2>3, <2>4, <2>5 DEF RowInv
<1>7. CASE Replan \/ Extend
  <2>1. /\ Between /\ rows' \in rows + 1 .. NGoals
        /\ UNCHANGED <<deps, goal, retries, runVars, workerVars>>
    BY <1>7 DEF Replan, Extend
  <2>2. rows' \in Nat /\ rows' >= rows
    BY <1>1, <2>1, EngineAssumption DEF Goals
  <2> QED
    BY <1>6, <2>1, <2>2
<1>8. CASE Conclude
  <2>1. Between /\ UNCHANGED <<rows, deps, goal, retries, runVars, workerVars>>
    BY <1>8 DEF Conclude
  <2>2. rows' \in Nat /\ rows' >= rows
    BY <1>1, <2>1, EngineAssumption DEF Goals
  <2> QED
    BY <1>6, <2>1, <2>2
<1>9. CASE UNCHANGED vars
    BY <1>0, <1>9, RowFrame DEF vars, dbVars, sharedVars, workerVars
<1> QED
    BY <1>2, <1>3, <1>4, <1>5, <1>7, <1>8, <1>9, <1>10, RunStepRows DEF Next, Environment

\* The walker's invariant.
THEOREM WalkerInvariant ==
    ASSUME Exclusive PROVE Spec => []IInv
<1>1. Init => IInv
  <2> SUFFICES ASSUME Init PROVE HandleInv /\ RowInv /\ TypeOK
    BY DEF IInv
  <2>1. TypeOK
    BY EngineAssumption DEF Init, TypeOK, Goals, Tasks, Steps, MissionStatuses, GoalStatuses,
       TaskStatuses, RunPC, WorkerPC, NoRun
  <2>2. HandleInv
    BY DEF Init, HandleInv, WorkersHaveHandles, NoWorkerLeftBehind, Live, Ending
  <2>3. RowInv
    BY DEF Init, RowInv, OneRunAtATime, RunMirrorsRows, HandlesAreReady, WorkersBelowDone,
       RowsToCome, SkipHasCause, CompletingIsWhole, Retried, Active, Live
  <2> QED
    BY <2>1, <2>2, <2>3
<1>2. IInv /\ [Next]_vars => IInv'
    BY NextType, HandleStep, RowStep DEF IInv
<1> QED
    BY <1>1, <1>2, PTL DEF Spec

\* A worker exists only while every goal below it is Completed.
THEOREM DependenciesFirst ==
    ASSUME Exclusive PROVE Spec => []DepsDoneBeforeWork
<1>1. IInv => DepsDoneBeforeWork
  <2> SUFFICES ASSUME IInv, NEW r \in Runs, NEW g \in Goals, wpc[r][g] # "none", NEW d \in deps[g]
               PROVE  d \in Goals /\ goal[d] = "Completed"
    BY DEF DepsDoneBeforeWork
  <2>1. d \in GoalRows /\ goal[d] = "Completed"
    BY DEF IInv, RowInv, WorkersBelowDone
  <2>2. GoalRows \subseteq Goals
    BY EngineAssumption DEF IInv, TypeOK, GoalRows, Goals
  <2> QED
    BY <2>1, <2>2
<1> QED
    BY <1>1, WalkerInvariant, PTL

\* A goal is skipped only where there is a failure to blame.
THEOREM SkipsHaveCause ==
    ASSUME Exclusive PROVE Spec => []SkipHasCause
<1>1. IInv => SkipHasCause
    BY DEF IInv, RowInv
<1> QED
    BY <1>1, WalkerInvariant, PTL

\* A live run's copies never diverge from the rows.
THEOREM CopiesStayFresh ==
    ASSUME Exclusive PROVE Spec => []RunMirrorsRows
<1>1. IInv => RunMirrorsRows
    BY DEF IInv, RowInv
<1> QED
    BY <1>1, WalkerInvariant, PTL

-----------------------------------------------------------------------------
(* The engine implements GoalGraph *)

\* Only the run in progress can owe a goal its retry.
LEMMA PaidByLiveRun ==
    ASSUME OneRunAtATime, NEW r \in Runs, Live(r) PROVE Paid = Retried(r)
<1>1. \A q \in Runs : q # r => Retried(q) = {}
    BY DEF OneRunAtATime, Active, Live, Retried
<1> QED
    BY <1>1 DEF Paid

\* No retry is paid unless a run is between paying it and taking it.
LEMMA NothingPaid ==
    ASSUME \A q \in Runs : rpc[q] # "retry" PROVE Paid = {}
BY DEF Paid, Retried

\* Walking on elsewhere, the run neither pays nor takes a retry.
LEMMA PaidStays ==
    ASSUME TypeOK, OneRunAtATime, NEW r \in Runs, Live(r), rpc[r] # "retry",
           NEW pc, pc # "retry", rpc' = [rpc EXCEPT ![r] = pc]
    PROVE  Paid = {} /\ Paid' = {}
<1>1. \A q \in Runs : rpc[q] # "retry"
    BY DEF OneRunAtATime, Active, Live
<1>2. \A q \in Runs : rpc'[q] # "retry"
    BY <1>1 DEF TypeOK
<1>3. Paid' = {}
    BY <1>2 DEF Paid, Retried
<1> QED
    BY <1>1, <1>3, NothingPaid

\* The walker's steps, as steps of the goal graph.
LEMMA RunStepGraph ==
    ASSUME IInv, NEW r \in Runs, RunStep(r) PROVE [Graph!Next]_(Graph!vars)
<1> USE DEF Graph!vars, dbVars
<1>1. Live(r)
    BY DEF RunStep, LoopTop, EndPass, EndSweep, DrawVerdict, FlipMission, LeaveRun, PassOver, SkipGoal,
           LaunchGoal, AtCursor, PollBusy, ReapCompleted, ReapRetry, ReapFailed, Reap, TakeHandle,
           Demote, Retried, Live
<1>2. /\ goal \in [Goals -> GoalStatuses] /\ retries \in [Goals -> Nat] /\ rows \in Goals
      /\ local \in [Runs -> [Goals -> GoalStatuses]] /\ left \in [Runs -> [Goals -> Nat]]
      /\ rpc \in [Runs -> RunPC]
    BY DEF IInv, TypeOK
<1>3. /\ mission = "Running" \/ rpc[r] = "leaving"
      /\ local[r] = goal /\ left[r] = retries /\ loaded[r] = rows
      /\ completed[r] = {g \in GoalRows : goal[g] = "Completed"}
      /\ failed[r] = {g \in GoalRows : goal[g] \in {"Failed", "Skipped"}}
    BY <1>1 DEF IInv, RowInv, RunMirrorsRows
<1>4. GoalRows = Graph!Present /\ Goals = Graph!Goals
    BY DEF GoalRows, Graph!Present, Goals, Graph!Goals
<1>5. ASSUME NEW g \in Goals, TakeHandle(r, g) PROVE g \in Graph!Present /\ goal[g] = "Ready"
    BY <1>1, <1>4, <1>5 DEF IInv, RowInv, HandlesAreReady, TakeHandle
<1>15. ASSUME rpc[r] # "retry", NEW pc, pc # "retry", rpc' = [rpc EXCEPT ![r] = pc]
       PROVE  Paid = {} /\ Paid' = {}
    BY <1>1, <1>15, PaidStays DEF IInv, RowInv
<1>16. ASSUME rpc[r] # "retry", rpc' = rpc PROVE Paid = {} /\ Paid' = {}
    BY <1>2, <1>15, <1>16
<1>6. ASSUME NEW g \in Goals, AtCursor(r, g) PROVE g \in Graph!Present
  <2>1. g \in GoalRows
    BY <1>3, <1>6 DEF AtCursor, GoalRows, Goals
  <2> QED
    BY <1>4, <2>1
<1>7. CASE LoopTop(r) \/ EndPass(r) \/ EndSweep(r) \/ DrawVerdict(r) \/ LeaveRun(r)
  <2>1. rpc[r] # "retry" /\ UNCHANGED dbVars
    BY <1>7 DEF LoopTop, EndPass, EndSweep, DrawVerdict, LeaveRun
  <2>2. PICK pc \in RunPC \ {"retry"} : rpc' = [rpc EXCEPT ![r] = pc]
    BY <1>7 DEF LoopTop, EndPass, EndSweep, DrawVerdict, LeaveRun, RunPC, Ending
  <2> QED
    BY <1>15, <2>1, <2>2
<1>8. ASSUME NEW g \in Goals, PassOver(r, g) \/ PollBusy(r, g) PROVE UNCHANGED Graph!vars
  <2>1. rpc[r] # "retry" /\ rpc' = rpc /\ UNCHANGED dbVars
    BY <1>8 DEF PassOver, PollBusy, AtCursor
  <2> QED
    BY <1>16, <2>1
<1>9. ASSUME NEW g \in Goals, SkipGoal(r, g) PROVE Graph!Skip(g)
  <2>1. g \in Graph!Present /\ Graph!Waiting(g)
    BY <1>2, <1>3, <1>6, <1>9 DEF SkipGoal, Settled, Graph!Waiting
  <2>2. \E d \in deps[g] \cap Graph!Present : goal[d] \in {"Failed", "Skipped"}
    BY <1>3, <1>4, <1>9 DEF SkipGoal, Doomed
  <2>3. goal' = [goal EXCEPT ![g] = "Skipped"] /\ UNCHANGED <<mission, rows, deps>>
    BY <1>9 DEF SkipGoal, WriteGoal
  <2>4. retries' = retries
    BY <1>2, <1>3, <1>9 DEF SkipGoal, WriteGoal
  <2>5. rpc[r] = "launch" /\ rpc' = rpc
    BY <1>9 DEF SkipGoal, AtCursor
  <2>6. mission = "Running" /\ Paid = {} /\ Paid' = {}
    BY <1>3, <1>16, <2>5
  <2> QED
    BY <2>1, <2>2, <2>3, <2>4, <2>6 DEF Graph!Skip, Graph!Move
<1>10. ASSUME NEW g \in Goals, LaunchGoal(r, g) PROVE Graph!Launch(g) \/ UNCHANGED Graph!vars
  <2>1. UNCHANGED <<mission, rows, deps, task, invoked, asked>> /\ rpc[r] = "launch" /\ rpc' = rpc
    BY <1>10 DEF LaunchGoal, AtCursor
  <2>4. mission = "Running" /\ Paid = {} /\ Paid' = {}
    BY <1>3, <1>16, <2>1
  <2>2. CASE local[r][g] = "Ready"
    BY <1>10, <2>1, <2>2, <2>4 DEF LaunchGoal
  <2>3. CASE local[r][g] # "Ready"
    <3>1. g \in Graph!Present /\ goal[g] = "Pending"
      BY <1>2, <1>3, <1>6, <1>10, <2>3 DEF LaunchGoal, Settled
    <3>2. \A d \in deps[g] : d \in Graph!Present /\ goal[d] = "Completed"
      BY <1>3, <1>4, <1>10 DEF LaunchGoal, Blocked
    <3>3. WriteGoal(r, g, "Ready", left[r][g])
      BY <1>10, <2>3 DEF LaunchGoal
    <3>4. goal' = [goal EXCEPT ![g] = "Ready"] /\ retries' = retries
      BY <1>2, <1>3, <3>3 DEF WriteGoal
    <3> QED
      BY <2>1, <2>4, <3>1, <3>2, <3>4 DEF Graph!Launch, Graph!Move
  <2> QED
    BY <2>2, <2>3
\* A settled goal's row is written with the budget it has.
<1>17. ASSUME NEW g \in Goals, NEW status, Reap(r, g), WriteGoal(r, g, status, left[r][g])
       PROVE  goal[g] = "Ready" /\ Graph!Move(g, status)
  <2>1. /\ TakeHandle(r, g) /\ rpc[r] = "sweep" /\ rpc' = rpc
        /\ UNCHANGED <<mission, rows, deps>>
    BY <1>17 DEF Reap, TakeHandle
  <2>2. g \in Graph!Present /\ goal[g] = "Ready"
    BY <1>5, <2>1
  <2>3. goal' = [goal EXCEPT ![g] = status] /\ retries' = retries
    BY <1>2, <1>3, <1>17 DEF WriteGoal
  <2>4. mission = "Running" /\ Paid = {} /\ Paid' = {}
    BY <1>3, <1>16, <2>1
  <2> QED
    BY <2>1, <2>2, <2>3, <2>4 DEF Graph!Move
<1>11. ASSUME NEW g \in Goals, ReapCompleted(r, g) PROVE Graph!Complete(g)
    BY <1>11, <1>17 DEF ReapCompleted, Graph!Complete
<1>13. ASSUME NEW g \in Goals, ReapFailed(r, g) PROVE Graph!Fail(g)
    BY <1>13, <1>17 DEF ReapFailed, Graph!Fail
<1>12. ASSUME NEW g \in Goals, ReapRetry(r, g) PROVE Graph!Pay(g)
  <2>1. /\ TakeHandle(r, g) /\ WriteGoal(r, g, local[r][g], left[r][g] - 1) /\ left[r][g] > 0
        /\ rpc[r] = "sweep" /\ rpc' = [rpc EXCEPT ![r] = "retry"] /\ check' = check
        /\ running' = [running EXCEPT ![r] = @ \ {g}] /\ g \in check[r]
        /\ UNCHANGED <<mission, rows, deps>>
    BY <1>12 DEF ReapRetry, CanRetry, TakeHandle
  <2>2. g \in Graph!Present /\ goal[g] = "Ready"
    BY <1>5, <2>1
  <2>3. /\ goal' = goal
        /\ retries' = [retries EXCEPT ![g] = @ - 1] /\ retries[g] > 0
    BY <1>2, <1>3, <2>1 DEF WriteGoal
  <2>4. mission = "Running" /\ Paid = {}
    <3>1. Paid = Retried(r)
      BY <1>1, PaidByLiveRun DEF IInv, RowInv
    <3> QED
      BY <1>3, <2>1, <3>1 DEF Retried
  <2>5. Paid' = {g}
    <3>1. OneRunAtATime'
      BY RunStepRows DEF RowInv
    <3>2. rpc'[r] = "retry" /\ \A q \in Runs : q # r => rpc'[q] # "retry"
      BY <1>2, <2>1, <3>1 DEF OneRunAtATime, Active
    <3>3. Paid' = check'[r] \ running'[r]
      BY <3>2 DEF Paid, Retried
    <3>4. check[r] \subseteq running[r] /\ running \in [Runs -> SUBSET Goals]
      BY <2>1 DEF IInv, TypeOK, RowInv, HandlesAreReady
    <3> QED
      BY <2>1, <3>3, <3>4
  <2> QED
    BY <2>1, <2>2, <2>3, <2>4, <2>5 DEF Graph!Pay
<1>18. ASSUME NEW g \in Goals, Demote(r, g) PROVE Graph!Retry(g)
  <2>1. /\ g \in Retried(r) /\ WriteGoal(r, g, "Pending", left[r][g])
        /\ rpc[r] = "retry" /\ rpc' = [rpc EXCEPT ![r] = "sweep"]
        /\ UNCHANGED <<mission, rows, deps>>
    BY <1>18 DEF Demote, Retried
  <2>2. goal' = [goal EXCEPT ![g] = "Pending"] /\ retries' = retries
    BY <1>2, <1>3, <2>1 DEF WriteGoal
  <2>3. Paid = {g}
    <3>1. Paid = Retried(r)
      BY <1>1, PaidByLiveRun DEF IInv, RowInv
    <3> QED
      BY <2>1, <3>1 DEF IInv, RowInv, HandlesAreReady
  <2>4. Paid' = {}
    <3>1. \A q \in Runs : rpc'[q] # "retry"
      BY <1>1, <1>2, <2>1 DEF IInv, RowInv, OneRunAtATime, Active, Live
    <3> QED
      BY <3>1 DEF Paid, Retried
  <2>5. mission = "Running"
    BY <1>3, <2>1
  <2> QED
    BY <2>1, <2>2, <2>3, <2>4, <2>5 DEF Graph!Retry
<1>14. CASE FlipMission(r)
  <2>1. /\ UNCHANGED <<rows, deps, goal, retries>>
        /\ rpc[r] \in {"cancelling", "completing"} /\ rpc' = [rpc EXCEPT ![r] = "leaving"]
        /\ mission' = IF rpc[r] = "cancelling" THEN "Cancelled" ELSE "Completed"
    BY <1>14 DEF FlipMission
  <2>2. mission = "Running" /\ Paid = {} /\ Paid' = {}
    BY <1>3, <1>15, <2>1
  <2>3. ASSUME mission' = "Completed" PROVE \A g \in Graph!Present : goal[g] = "Completed"
    BY <1>4, <2>1, <2>3 DEF IInv, RowInv, CompletingIsWhole
  <2>4. Graph!Settle
    BY <2>1, <2>2, <2>3 DEF Graph!Settle
  <2> QED
    BY <2>4 DEF Graph!Next
<1> QED
    BY <1>4, <1>7, <1>8, <1>9, <1>10, <1>11, <1>12, <1>13, <1>14, <1>18 DEF RunStep, Graph!Next

\* Every step of the engine is a step of the goal graph or leaves it alone.
LEMMA GraphStep ==
    ASSUME Exclusive, IInv, [Next]_vars PROVE [Graph!Next]_(Graph!vars)
<1> USE DEF Graph!vars, dbVars
<1>0. rpc \in [Runs -> RunPC]
    BY DEF IInv, TypeOK
\* Runs that stay where they are owe what they owed.
<1>7. ASSUME UNCHANGED <<rpc, check, running>> PROVE Paid' = Paid
    BY <1>7 DEF Paid, Retried
<1>1. ASSUME NEW r \in Runs, StartRun(r) PROVE UNCHANGED Graph!vars
  <2>1. \A q \in Runs : rpc[q] # "retry" /\ rpc'[q] # "retry"
    BY <1>0, <1>1 DEF StartRun
  <2>2. Paid = {} /\ Paid' = {}
    BY <2>1 DEF Paid, Retried
  <2> QED
    BY <1>1, <2>2 DEF StartRun
<1>8. ASSUME NEW r \in Runs, AbortRun(r) PROVE Graph!Forfeit \/ UNCHANGED Graph!vars
  <2>1. Live(r) /\ rpc' = [rpc EXCEPT ![r] = "aborted"] /\ UNCHANGED dbVars
    BY <1>8 DEF AbortRun
  <2>2. \A q \in Runs : rpc'[q] # "retry"
    BY <1>0, <2>1 DEF IInv, RowInv, OneRunAtATime, Active, Live
  <2>3. Paid' = {}
    BY <2>2 DEF Paid, Retried
  <2> QED
    BY <2>1, <2>3 DEF Graph!Forfeit
<1>9. ASSUME NEW r \in Runs, NEW g \in Goals, AbortLaunch(r, g) PROVE Graph!Launch(g)
  <2>1. /\ Live(r) /\ rpc[r] = "launch" /\ rpc' = [rpc EXCEPT ![r] = "aborted"]
        /\ UNCHANGED <<mission, rows, deps>> /\ local[r][g] = "Pending"
        /\ ~Blocked(r, g) /\ WriteGoal(r, g, "Ready", left[r][g]) /\ g <= loaded[r]
    BY <1>9 DEF AbortLaunch, AtCursor, Live
  <2>2. /\ mission = "Running" /\ local[r] = goal /\ left[r] = retries /\ loaded[r] = rows
        /\ completed[r] = {h \in GoalRows : goal[h] = "Completed"}
    BY <2>1 DEF IInv, RowInv, RunMirrorsRows
  <2>3. /\ goal \in [Goals -> GoalStatuses] /\ retries \in [Goals -> Nat]
        /\ left \in [Runs -> [Goals -> Nat]] /\ local \in [Runs -> [Goals -> GoalStatuses]]
    BY DEF IInv, TypeOK
  <2>4. goal' = [goal EXCEPT ![g] = "Ready"] /\ retries' = retries
    BY <2>1, <2>2, <2>3 DEF WriteGoal
  <2>5. g \in Graph!Present /\ goal[g] = "Pending"
    BY <2>1, <2>2 DEF Graph!Present, Goals
  <2>6. \A d \in deps[g] : d \in Graph!Present /\ goal[d] = "Completed"
    BY <2>1, <2>2 DEF Blocked, GoalRows, Graph!Present
  <2>7. Paid = {} /\ Paid' = {}
    BY <2>1, PaidStays DEF IInv, RowInv
  <2> QED
    BY <2>1, <2>2, <2>4, <2>5, <2>6, <2>7 DEF Graph!Launch, Graph!Move
<1>2. ASSUME NEW r \in Runs, NEW g \in Goals,
             WorkerStep(r, g) \/ ToolStep(r, g) \/ LoseWorker(r, g)
      PROVE  UNCHANGED Graph!vars
  <2>1. UNCHANGED <<mission, rows, deps, goal, retries, runVars>>
    BY <1>2, WorkerStepFrame DEF IInv, WorkerFrame
  <2> QED
    BY <1>7, <2>1 DEF runVars
<1>3. CASE Cancel \/ \E t \in Tasks : Approve(t)
    BY <1>3, <1>7 DEF Cancel, Approve, runVars
<1>4. CASE Replan \/ Extend
  <2>1. /\ mission \in {"Running"} \cup MissionTerminal /\ mission' = "Running"
        /\ rows' \in rows + 1 .. NGoals
        /\ UNCHANGED <<deps, goal, retries, rpc, check, running>>
    BY <1>4 DEF Replan, Extend, runVars
  <2>2. Graph!Grow
    BY <1>7, <2>1 DEF Graph!Grow, MissionTerminal, Graph!MissionTerminal
  <2> QED
    BY <2>2 DEF Graph!Next
<1>5. CASE Conclude
  <2>1. mission = "Running" /\ UNCHANGED <<rows, deps, goal, retries>> /\ Paid' = Paid
    BY <1>5, <1>7 DEF Conclude, runVars
  <2>2. GoalRows = Graph!Present
    BY DEF GoalRows, Graph!Present
  <2>3. CASE \E g \in GoalRows : goal[g] = "Failed"
    BY <1>5, <2>1, <2>2, <2>3 DEF Conclude, Graph!Settle, Graph!Next
  <2>4. CASE ~ \E g \in GoalRows : goal[g] = "Failed"
    <3>1. mission' = "Completed" /\ \A g \in GoalRows : goal[g] \in {"Completed", "Skipped"}
      BY <1>5, <2>1, <2>4 DEF Conclude
    <3>2. GoalRows \subseteq Goals
      BY EngineAssumption DEF IInv, TypeOK, GoalRows, Goals
    <3>3. \A f \in Goals : goal[f] # "Failed"
      BY <2>4 DEF IInv, RowInv, RowsToCome
    <3>4. \A g \in GoalRows : goal[g] = "Completed"
      BY <3>1, <3>2, <3>3 DEF IInv, RowInv, SkipHasCause
    <3> QED
      BY <2>1, <2>2, <3>1, <3>4 DEF Graph!Settle, Graph!Next
  <2> QED
    BY <2>3, <2>4
<1>6. CASE UNCHANGED vars
    BY <1>6, <1>7 DEF vars, runVars
<1>10. Goals = Graph!Goals
    BY DEF Goals, Graph!Goals
<1> QED
    BY <1>1, <1>2, <1>3, <1>4, <1>5, <1>6, <1>8, <1>9, <1>10, RunStepGraph
       DEF Next, Environment, Graph!Next

\* The engine implements the goal graph.
THEOREM EngineImplementsGraph ==
    ASSUME Exclusive PROVE Spec => GraphSpec
<1>1. Init => Graph!Init
    BY DEF Init, Graph!Init, Goals, Graph!Goals, Paid, Retried
<1>2. IInv /\ [Next]_vars => [Graph!Next]_(Graph!vars)
    BY GraphStep
<1> QED
    BY <1>1, <1>2, WalkerInvariant, PTL DEF Spec, GraphSpec, Graph!Spec

\* A settled goal row is never written again.
THEOREM SettledRowsStay ==
    ASSUME Exclusive PROVE Spec => TerminalGoalsStay
<1>1. IInv /\ [Next]_vars => [\A g \in Goals : goal[g] \in GoalTerminal => goal'[g] = goal[g]]_vars
  <2> SUFFICES ASSUME IInv, [Next]_vars, NEW g \in Goals, goal[g] \in GoalTerminal
               PROVE  goal'[g] = goal[g]
    OBVIOUS
  <2>1. [Graph!Next]_(Graph!vars)
    BY GraphStep
  <2>2. goal \in [Goals -> GoalStatuses]
    BY DEF IInv, TypeOK
  <2>3. ASSUME NEW h \in Goals,
               Graph!Launch(h) \/ Graph!Complete(h) \/ Graph!Fail(h) \/ Graph!Skip(h)
        PROVE  goal'[g] = goal[g]
    <3>1. goal[h] \in {"Pending", "Ready"}
      BY <2>3 DEF Graph!Launch, Graph!Complete, Graph!Fail, Graph!Skip, Graph!Waiting
    <3>2. PICK status : goal' = [goal EXCEPT ![h] = status]
      BY <2>3 DEF Graph!Launch, Graph!Complete, Graph!Fail, Graph!Skip, Graph!Move
    <3> QED
      BY <2>2, <3>1, <3>2 DEF GoalTerminal
  <2>4. ASSUME NEW h \in Goals, Graph!Retry(h) PROVE goal'[g] = goal[g]
    <3>1. h \in Paid /\ goal' = [goal EXCEPT ![h] = "Pending"]
      BY <2>4 DEF Graph!Retry
    <3>2. goal[h] = "Ready"
      BY <3>1 DEF Paid, IInv, RowInv, HandlesAreReady
    <3> QED
      BY <2>2, <3>1, <3>2 DEF GoalTerminal
  <2> QED
    BY <2>1, <2>3, <2>4 DEF Graph!Next, Graph!vars, Graph!Settle, Graph!Grow, Graph!Pay, Graph!Forfeit,
       Graph!Goals, Goals
<1> QED
    BY <1>1, WalkerInvariant, PTL DEF Spec, TerminalGoalsStay

\* Whoever declares the mission Completed, all its goals are.
THEOREM CompletedMissionsAreWhole ==
    ASSUME Exclusive PROVE Spec => []CompletedMissionIsWhole
<1>1. Init => CompletedMissionIsWhole
    BY DEF Init, CompletedMissionIsWhole
<1>2. IInv /\ CompletedMissionIsWhole /\ [Next]_vars => CompletedMissionIsWhole'
  <2> SUFFICES ASSUME IInv, CompletedMissionIsWhole, [Next]_vars PROVE CompletedMissionIsWhole'
    OBVIOUS
  <2>1. [Graph!Next]_(Graph!vars)
    BY GraphStep
  <2>2. CASE Graph!Settle
    BY <2>2 DEF CompletedMissionIsWhole, Graph!Settle, Graph!Present, GoalRows
  <2>3. CASE Graph!Grow
    BY <2>3 DEF CompletedMissionIsWhole, Graph!Grow
  <2>4. ASSUME NEW h \in Graph!Goals,
               \/ Graph!Launch(h) \/ Graph!Complete(h) \/ Graph!Fail(h) \/ Graph!Skip(h)
               \/ Graph!Pay(h) \/ Graph!Retry(h)
        PROVE  CompletedMissionIsWhole'
  <3>1. mission = "Running" /\ mission' = mission
    BY <2>4 DEF Graph!Launch, Graph!Complete, Graph!Fail, Graph!Skip, Graph!Move,
                Graph!Pay, Graph!Retry
  <3> QED
    BY <3>1 DEF CompletedMissionIsWhole
  <2>5. CASE Graph!Forfeit \/ UNCHANGED Graph!vars
    BY <2>5 DEF Graph!Forfeit, Graph!vars, CompletedMissionIsWhole, GoalRows
  <2> QED
    BY <2>1, <2>2, <2>3, <2>4, <2>5 DEF Graph!Next
<1> QED
    BY <1>1, <1>2, WalkerInvariant, PTL DEF Spec

-----------------------------------------------------------------------------
(* Approvals *)

\* Runs come one after the other.
RunsInOrder == \A q, r \in Runs : q < r /\ rpc[r] # "idle" => rpc[q] = "returned"

\* No run has begun after one that was cancelled, whose workers may still be there.
CancelledLast == \A r \in cancelled, q \in Runs : rpc[q] # "idle" => q <= r

\* A registered sender is that of a worker parked on the task, and a worker
\* whose sender is gone was granted what it asked for.
AskInv ==
    /\ \A r \in Runs, g \in Goals, k \in Steps : sender[<<g, k>>] = r =>
            wpc[r][g] = "parked" /\ step[r][g] = k
    /\ \A r \in Runs, g \in Goals, k \in Steps :
            wpc[r][g] = "parked" /\ step[r][g] = k /\ sender[<<g, k>>] # r =>
                asked[<<g, k>>] = "granted"
    /\ ApprovalBeforeTool

\* What a call of run_mission does, to its end or its failure.
CallStep(r) ==
    \/ StartRun(r) \/ RunStep(r) \/ AbortRun(r)
    \/ \E g \in Goals : AbortLaunch(r, g)

\* What a step does to the phases of runs.
LEMMA PhaseStep ==
    ASSUME TypeOK, [Next]_vars
    PROVE  \/ rpc' = rpc
           \/ \E q \in Runs, pc \in RunPC \ {"idle"} :
                (StartRun(q) \/ Live(q)) /\ rpc' = [rpc EXCEPT ![q] = pc]
<1> DEFINE Goal == \/ rpc' = rpc
                   \/ \E q \in Runs, pc \in RunPC \ {"idle"} :
                        (StartRun(q) \/ Live(q)) /\ rpc' = [rpc EXCEPT ![q] = pc]
<1> USE DEF Live, runVars, RunPC
<1>1. ASSUME NEW q \in Runs, StartRun(q) PROVE Goal
    BY <1>1 DEF StartRun
<1>2. ASSUME NEW q \in Runs, \/ LoopTop(q) \/ EndPass(q) \/ EndSweep(q)
                              \/ DrawVerdict(q) \/ FlipMission(q) \/ LeaveRun(q)
      PROVE  Goal
    BY <1>2 DEF LoopTop, EndPass, EndSweep, DrawVerdict, FlipMission, LeaveRun, Ending
<1>6. ASSUME NEW q \in Runs, AbortRun(q) PROVE Goal
    BY <1>6 DEF AbortRun
<1>7. ASSUME NEW q \in Runs, NEW g \in Goals, ReapRetry(q, g) \/ Demote(q, g) \/ AbortLaunch(q, g)
      PROVE  Goal
    BY <1>7 DEF ReapRetry, TakeHandle, Demote, Retried, AbortLaunch, AtCursor
<1>3. ASSUME NEW q \in Runs, NEW g \in Goals,
             \/ PassOver(q, g) \/ SkipGoal(q, g) \/ LaunchGoal(q, g) \/ PollBusy(q, g)
             \/ ReapCompleted(q, g) \/ ReapFailed(q, g)
      PROVE  rpc' = rpc
    BY <1>3 DEF PassOver, SkipGoal, LaunchGoal, PollBusy, ReapCompleted, ReapFailed, Reap
<1>4. ASSUME NEW q \in Runs, NEW g \in Goals,
             WorkerStep(q, g) \/ ToolStep(q, g) \/ LoseWorker(q, g)
      PROVE  rpc' = rpc
    BY <1>4, WorkerStepFrame DEF WorkerFrame
<1>5. CASE Environment \/ UNCHANGED vars
    BY <1>5 DEF Environment, Cancel, Replan, Conclude, Extend, Approve, vars
<1> QED
    BY <1>1, <1>2, <1>3, <1>4, <1>5, <1>6, <1>7 DEF Next, RunStep

\* A run begins only when all before it have begun and none is in progress.
LEMMA OrderStep ==
    ASSUME Exclusive, TypeOK, RunsInOrder, [Next]_vars PROVE RunsInOrder'
<1>0. rpc \in [Runs -> RunPC]
    BY DEF TypeOK
<1>1. CASE rpc' = rpc
    BY <1>1 DEF RunsInOrder
<1>2. ASSUME NEW r \in Runs, NEW pc \in RunPC, StartRun(r), rpc' = [rpc EXCEPT ![r] = pc] PROVE RunsInOrder'
  <2>1. /\ rpc[r] = "idle" /\ \A q \in Runs : q < r => rpc[q] # "idle"
        /\ \A q \in Runs : rpc[q] \in {"idle", "returned"}
    BY <1>2 DEF StartRun
  <2>2. \A q \in Runs : r < q => rpc[q] = "idle"
    BY <2>1 DEF RunsInOrder
  <2> QED
    BY <1>0, <1>2, <2>1, <2>2 DEF RunsInOrder, Runs
<1>3. ASSUME NEW r \in Runs, NEW pc \in RunPC \ {"idle"}, Live(r),
             rpc' = [rpc EXCEPT ![r] = pc]
      PROVE  RunsInOrder'
    BY <1>0, <1>3 DEF RunsInOrder, Live
<1> QED
    BY <1>1, <1>2, <1>3, PhaseStep

\* A run that has begun and a cancellation are for good.
LEMMA CancelledLastBefore ==
    ASSUME TypeOK, [Next]_vars, CancelledLast' PROVE CancelledLast
<1>1. cancelled \subseteq cancelled'
  <2>1. ASSUME NEW r \in Runs, NEW g \in Goals, WorkerStep(r, g) \/ ToolStep(r, g) \/ LoseWorker(r, g)
        PROVE  cancelled' = cancelled
    BY <2>1, WorkerStepFrame DEF WorkerFrame
  <2>2. ASSUME NEW r \in Runs, CallStep(r) PROVE cancelled' = cancelled
    <3>1. CASE StartRun(r) \/ AbortRun(r) \/ \E g \in Goals : AbortLaunch(r, g)
      BY <3>1 DEF StartRun, AbortRun, AbortLaunch, sharedVars
    <3>2. CASE RunStep(r)
      BY <3>2 DEF RunStep, LoopTop, EndPass, EndSweep, DrawVerdict, FlipMission, LeaveRun,
         PassOver, SkipGoal, LaunchGoal, PollBusy, ReapCompleted, ReapRetry, Demote, ReapFailed,
         Reap, TakeHandle, sharedVars
    <3> QED
      BY <2>2, <3>1, <3>2 DEF CallStep
  <2>3. CASE Environment \/ UNCHANGED vars
    BY <2>3 DEF Environment, Cancel, Replan, Conclude, Extend, Approve, vars, sharedVars
  <2> QED
    BY <2>1, <2>2, <2>3 DEF Next, CallStep
<1>2. \A q \in Runs : rpc[q] # "idle" => rpc'[q] # "idle"
  <2>1. rpc \in [Runs -> RunPC]
    BY DEF TypeOK
  <2> QED
    BY <2>1, PhaseStep
<1> QED
    BY <1>1, <1>2 DEF CancelledLast

\* All workers there are belong to one run.
LEMMA OneRunsWorkers ==
    ASSUME TypeOK, HandleInv, RunsInOrder, CancelledLast,
           NEW q \in Runs, NEW r \in Runs, NEW g \in Goals, NEW h \in Goals,
           wpc[q][g] # "none", wpc[r][h] # "none"
    PROVE  q = r
<1>1. ASSUME NEW x \in Runs, NEW y \in Runs, NEW a \in Goals, NEW b \in Goals,
             wpc[x][a] # "none", wpc[y][b] # "none", x < y
      PROVE  FALSE
  <2>1. rpc[y] # "idle"
    BY <1>1 DEF HandleInv, WorkersHaveHandles
  <2>2. rpc[x] = "returned"
    BY <1>1, <2>1 DEF RunsInOrder
  <2>3. x \in cancelled
    BY <1>1, <2>2 DEF HandleInv, NoWorkerLeftBehind
  <2> QED
    BY <1>1, <2>1, <2>3 DEF CancelledLast, Runs
<1> QED
    BY <1>1 DEF Runs

\* Senders, requests and tasks' positions are as they were, and so are the
\* workers that wait for an answer or run a tool.
LEMMA AskFrame ==
    ASSUME AskInv, UNCHANGED <<sender, asked, step>>,
           \A r \in Runs, g \in Goals :
                \/ wpc'[r][g] = wpc[r][g]
                \/ wpc[r][g] # "parked" /\ wpc'[r][g] \notin {"parked", "tool"}
    PROVE  AskInv'
<1>1. \A r \in Runs, g \in Goals : wpc[r][g] = "parked" <=> wpc'[r][g] = "parked"
    OBVIOUS
<1>2. \A r \in Runs, g \in Goals : wpc'[r][g] = "tool" => wpc[r][g] = "tool"
    OBVIOUS
<1> QED
    BY <1>1, <1>2 DEF AskInv, ApprovalBeforeTool

\* The walker's steps make and take workers that wait for nobody.
LEMMA WalkerAsks ==
    ASSUME TypeOK, HandleInv, AskInv, NEW r \in Runs, CallStep(r)
    PROVE  AskInv'
<1> USE DEF dbVars, sharedVars, workerVars
<1>0. wpc \in [Runs -> [Goals -> WorkerPC]]
    BY DEF TypeOK
<1>1. CASE \/ StartRun(r) \/ LoopTop(r) \/ EndPass(r) \/ EndSweep(r)
           \/ DrawVerdict(r) \/ FlipMission(r) \/ LeaveRun(r) \/ AbortRun(r)
  <2>1. UNCHANGED <<sender, asked, step, wpc>>
    BY <1>1 DEF StartRun, LoopTop, EndPass, EndSweep, DrawVerdict, FlipMission, LeaveRun, AbortRun
  <2> QED
    BY <2>1, AskFrame
<1>2. ASSUME NEW g \in Goals,
             \/ PassOver(r, g) \/ SkipGoal(r, g) \/ PollBusy(r, g)
             \/ Demote(r, g) \/ AbortLaunch(r, g)
      PROVE  AskInv'
  <2>1. UNCHANGED <<sender, asked, step, wpc>>
    BY <1>2 DEF PassOver, SkipGoal, PollBusy, Demote, AbortLaunch
  <2> QED
    BY <2>1, AskFrame
<1>3. ASSUME NEW g \in Goals, LaunchGoal(r, g) PROVE AskInv'
  <2>1. wpc[r][g] = "none"
    BY <1>3 DEF LaunchGoal, AtCursor, Settled, HandleInv, WorkersHaveHandles, Live
  <2>2. UNCHANGED <<sender, asked, step>> /\ wpc' = [wpc EXCEPT ![r][g] = "queued"]
    BY <1>3 DEF LaunchGoal
  <2> QED
    BY <1>0, <2>1, <2>2, AskFrame
<1>4. ASSUME NEW g \in Goals, ReapCompleted(r, g) \/ ReapRetry(r, g) \/ ReapFailed(r, g) PROVE AskInv'
  <2>1. TakeHandle(r, g) /\ wpc[r][g] # "parked"
    BY <1>4 DEF ReapCompleted, ReapRetry, CanRetry, ReapFailed, Reap
  <2>2. UNCHANGED <<sender, asked, step>> /\ wpc' = [wpc EXCEPT ![r][g] = "none"]
    BY <2>1 DEF TakeHandle
  <2> QED
    BY <1>0, <2>1, <2>2, AskFrame
<1> QED
    BY <1>1, <1>2, <1>3, <1>4 DEF RunStep, CallStep

\* A worker that waits for nobody moves to where it waits for nobody.
LEMMA WorkerMoves ==
    ASSUME TypeOK, AskInv, NEW r \in Runs, NEW g \in Goals, NEW pc, NEW k,
           UNCHANGED <<sender, asked>>,
           wpc[r][g] # "parked", pc \notin {"parked", "tool"},
           wpc' = [wpc EXCEPT ![r][g] = pc], step' = [step EXCEPT ![r][g] = k]
    PROVE  AskInv'
<1>0. wpc \in [Runs -> [Goals -> WorkerPC]] /\ step \in [Runs -> [Goals -> 1 .. NTasks + 1]]
    BY DEF TypeOK
<1>1. \A q \in Runs, h \in Goals :
        \/ wpc'[q][h] = wpc[q][h] /\ step'[q][h] = step[q][h]
        \/ wpc[q][h] # "parked" /\ wpc'[q][h] \notin {"parked", "tool"}
    BY <1>0
<1> QED
    BY <1>1 DEF AskInv, ApprovalBeforeTool

\* Only the worker of goal g asks for, waits for and uses a permission for a
\* task of g.
LEMMA WorkerAsks ==
    ASSUME TypeOK, HandleInv, RunsInOrder, CancelledLast, AskInv,
           NEW r \in Runs, NEW g \in Goals,
           WorkerStep(r, g) \/ ToolStep(r, g) \/ LoseWorker(r, g)
    PROVE  AskInv'
<1> USE DEF dbVars, sharedVars, workerVars, SetWorker
<1>0. /\ wpc \in [Runs -> [Goals -> WorkerPC]]
      /\ step \in [Runs -> [Goals -> 1 .. NTasks + 1]]
      /\ sender \in [Tasks -> Runs \cup {NoRun}]
      /\ asked \in [Tasks -> {"never", "requested", "ignored", "granted"}]
      /\ step = [step EXCEPT ![r][g] = step[r][g]]
    BY DEF TypeOK
<1>1. CASE TakePermit(r, g) \/ Materialize(r, g) \/ AllTasksDone(r, g) \/ StopCancelled(r, g)
           \/ LoseWorker(r, g)
  <2>1. PICK pc : /\ wpc' = [wpc EXCEPT ![r][g] = pc]
                  /\ pc \notin {"parked", "tool"} /\ wpc[r][g] # "parked"
    BY <1>1 DEF TakePermit, Materialize, AllTasksDone, StopCancelled, LoseWorker
  <2>2. UNCHANGED <<sender, asked, step>>
    BY <1>1 DEF TakePermit, Materialize, AllTasksDone, StopCancelled, LoseWorker
  <2> QED
    BY <1>0, <2>1, <2>2, WorkerMoves
<1>2. CASE LoadTasks(r, g)
  <2> DEFINE to == IF (\E k \in Steps : task[<<g, k>>] = "Pending") /\ HasUpstream(g)
                   THEN "material" ELSE "task"
  <2>1. /\ wpc[r][g] = "load" /\ wpc' = [wpc EXCEPT ![r][g] = to]
        /\ UNCHANGED <<sender, asked>> /\ step' = [step EXCEPT ![r][g] = 1]
    BY <1>2 DEF LoadTasks
  <2>2. PICK pc : pc = to
    OBVIOUS
  <2>3. /\ wpc' = [wpc EXCEPT ![r][g] = pc]
        /\ pc \notin {"parked", "tool"} /\ wpc[r][g] # "parked"
    BY <2>1, <2>2
  <2> QED
    BY <2>1, <2>3, WorkerMoves
<1>3. CASE SkipTask(r, g)
  <2>1. /\ wpc[r][g] = "task" /\ UNCHANGED <<sender, asked, wpc>>
        /\ step' = [step EXCEPT ![r][g] = step[r][g] + 1]
    BY <1>3 DEF SkipTask
  <2>2. wpc' = [wpc EXCEPT ![r][g] = "task"]
    BY <1>0, <2>1
  <2> QED
    BY <2>1, <2>2, WorkerMoves
<1>4. ASSUME NEW t \in Tasks, DenyTask(r, g, t) \/ ToolFails(r, g, t) PROVE AskInv'
  <2>1. PICK pc : /\ wpc' = [wpc EXCEPT ![r][g] = pc]
                  /\ pc \notin {"parked", "tool"} /\ wpc[r][g] # "parked"
    BY <1>4 DEF DenyTask, Due, ToolFails
  <2>2. UNCHANGED <<sender, asked, step>>
    BY <1>4 DEF DenyTask, ToolFails
  <2> QED
    BY <1>0, <2>1, <2>2, WorkerMoves
<1>5. ASSUME NEW t \in Tasks, ToolSucceeds(r, g, t) PROVE AskInv'
  <2>1. /\ wpc[r][g] # "parked" /\ wpc' = [wpc EXCEPT ![r][g] = "task"]
        /\ UNCHANGED <<sender, asked>> /\ step' = [step EXCEPT ![r][g] = step[r][g] + 1]
    BY <1>5 DEF ToolSucceeds
  <2>2. PICK pc : pc = "task"
    OBVIOUS
  <2>3. PICK k : k = step[r][g] + 1
    OBVIOUS
  <2>4. /\ wpc' = [wpc EXCEPT ![r][g] = pc] /\ pc \notin {"parked", "tool"}
        /\ step' = [step EXCEPT ![r][g] = k]
    BY <2>1, <2>2, <2>3
  <2> QED
    BY <2>1, <2>4, WorkerMoves
\* The other steps are about the task the worker is at, and no other worker is
\* at a task of that goal.
<1>6. \A q \in Runs : q # r /\ wpc[r][g] # "none" => wpc[q][g] = "none"
    BY OneRunsWorkers
<1>7. \A h \in Goals, k \in Steps : <<h, k>> \in Tasks
    BY DEF Tasks
<1>8. ASSUME NEW t \in Tasks, RequestApproval(r, g, t) PROVE AskInv'
  <2>1. /\ wpc[r][g] = "task" /\ t = <<g, step[r][g]>>
        /\ wpc' = [wpc EXCEPT ![r][g] = "requested"]
        /\ asked' = [asked EXCEPT ![t] = "requested"]
        /\ UNCHANGED <<sender, step>>
    BY <1>8 DEF RequestApproval, Due
  <2>2. \A q \in Runs, h \in Goals :
            wpc'[q][h] \in {"parked", "tool"} => h # g /\ wpc'[q][h] = wpc[q][h]
    BY <1>0, <1>6, <2>1
  <2>3. \A h \in Goals, k \in Steps : h # g => asked'[<<h, k>>] = asked[<<h, k>>]
    BY <1>0, <1>7, <2>1
  <2>4. \A q \in Runs, h \in Goals : wpc[q][h] = "parked" => wpc'[q][h] = "parked"
    BY <1>0, <2>1
  <2> QED
    BY <2>1, <2>2, <2>3, <2>4 DEF AskInv, ApprovalBeforeTool
<1>9. ASSUME NEW t \in Tasks, Park(r, g, t) PROVE AskInv'
  <2>1. /\ wpc[r][g] = "requested" /\ t = <<g, step[r][g]>>
        /\ wpc' = [wpc EXCEPT ![r][g] = "parked"]
        /\ sender' = [sender EXCEPT ![t] = r]
        /\ UNCHANGED <<asked, step>>
    BY <1>9 DEF Park
  <2>2. \A q \in Runs, h \in Goals :
            \/ q = r /\ h = g /\ wpc'[q][h] = "parked"
            \/ h # g /\ wpc'[q][h] = wpc[q][h]
            \/ h = g /\ q # r /\ wpc'[q][h] = "none"
    BY <1>0, <1>6, <2>1
  <2>3. \A h \in Goals, k \in Steps :
            sender'[<<h, k>>] = IF h = g /\ k = step[r][g] THEN r ELSE sender[<<h, k>>]
    BY <1>0, <1>7, <2>1
  <2>4. \A k \in Steps : sender[<<g, k>>] \notin Runs
    BY <1>0, <1>6, <2>1 DEF AskInv
  <2>5. ASSUME NEW q \in Runs, NEW h \in Goals, NEW k \in Steps, sender'[<<h, k>>] = q
        PROVE  wpc'[q][h] = "parked" /\ step'[q][h] = k
    BY <2>1, <2>2, <2>3, <2>4, <2>5 DEF AskInv
  <2>6. ASSUME NEW q \in Runs, NEW h \in Goals, NEW k \in Steps,
               wpc'[q][h] = "parked", step'[q][h] = k, sender'[<<h, k>>] # q
        PROVE  asked'[<<h, k>>] = "granted"
    BY <2>1, <2>2, <2>3, <2>6 DEF AskInv
  <2>7. ApprovalBeforeTool'
    BY <2>1, <2>2 DEF AskInv, ApprovalBeforeTool
  <2> QED
    BY <2>5, <2>6, <2>7 DEF AskInv
<1>10. ASSUME NEW t \in Tasks, BeginTask(r, g, t) \/ Unpark(r, g, t) PROVE AskInv'
  <2>1. /\ wpc[r][g] \in {"task", "parked"} /\ t = <<g, step[r][g]>> /\ step[r][g] \in Steps
        /\ UNCHANGED <<sender, asked, step>>
        /\ \E pc \in {"tool", "err"} : wpc' = [wpc EXCEPT ![r][g] = pc]
    BY <1>7, <1>10 DEF BeginTask, Unpark, Due, Begin, Tasks
  <2>2. PICK pc \in {"tool", "err"} : wpc' = [wpc EXCEPT ![r][g] = pc]
    BY <2>1
  <2>3. Policy[t] = "RequireApproval" => asked[t] = "granted"
    <3>1. CASE BeginTask(r, g, t)
        BY <3>1 DEF BeginTask
    <3>2. CASE Unpark(r, g, t)
        BY <2>1, <3>2 DEF Unpark, AskInv
    <3> QED
        BY <1>10, <3>1, <3>2
  <2>4. \A k \in Steps : sender[<<g, k>>] # r
    <3>1. CASE BeginTask(r, g, t)
        BY <3>1 DEF BeginTask, Due, AskInv
    <3>2. CASE Unpark(r, g, t)
        BY <2>1, <3>2 DEF Unpark, AskInv
    <3> QED
        BY <1>10, <3>1, <3>2
  <2>5. \A q \in Runs, h \in Goals : (q # r \/ h # g) => wpc'[q][h] = wpc[q][h]
    BY <1>0, <2>2
  <2>6. wpc'[r][g] = pc
    BY <1>0, <2>2
  <2>7. ASSUME NEW q \in Runs, NEW h \in Goals, NEW k \in Steps, sender[<<h, k>>] = q
        PROVE  wpc'[q][h] = "parked" /\ step[q][h] = k
    BY <2>4, <2>5, <2>7 DEF AskInv
  <2>8. ASSUME NEW q \in Runs, NEW h \in Goals, NEW k \in Steps,
               wpc'[q][h] = "parked", step[q][h] = k, sender[<<h, k>>] # q
        PROVE  asked[<<h, k>>] = "granted"
    BY <2>5, <2>6, <2>8 DEF AskInv
  <2>9. ApprovalBeforeTool'
    BY <2>1, <2>3, <2>5 DEF AskInv, ApprovalBeforeTool
  <2> QED
    BY <2>1, <2>7, <2>8, <2>9 DEF AskInv
<1>11. ASSUME NEW t \in Tasks, UnparkCancelled(r, g, t) PROVE AskInv'
  <2>1. /\ wpc[r][g] = "parked" /\ t = <<g, step[r][g]>>
        /\ wpc' = [wpc EXCEPT ![r][g] = "err"]
        /\ sender' = [sender EXCEPT ![t] = NoRun]
        /\ UNCHANGED <<asked, step>>
    BY <1>11 DEF UnparkCancelled
  <2>2. \A q \in Runs, h \in Goals :
            \/ h # g /\ wpc'[q][h] = wpc[q][h]
            \/ h = g /\ wpc'[q][h] \in {"none", "err"}
    BY <1>0, <1>6, <2>1
  <2>3. \A h \in Goals, k \in Steps :
            sender'[<<h, k>>] = IF h = g /\ k = step[r][g] THEN NoRun ELSE sender[<<h, k>>]
    BY <1>0, <1>7, <2>1
  <2>4. NoRun \notin Runs
    BY DEF NoRun, Runs
  <2>5. ASSUME NEW q \in Runs, NEW h \in Goals, NEW k \in Steps, sender'[<<h, k>>] = q
        PROVE  wpc'[q][h] = "parked" /\ step'[q][h] = k
    BY <1>6, <2>1, <2>2, <2>3, <2>4, <2>5 DEF AskInv
  <2>6. ASSUME NEW q \in Runs, NEW h \in Goals, NEW k \in Steps,
               wpc'[q][h] = "parked", step'[q][h] = k, sender'[<<h, k>>] # q
        PROVE  asked'[<<h, k>>] = "granted"
    BY <2>1, <2>2, <2>3, <2>6 DEF AskInv
  <2>7. ApprovalBeforeTool'
    BY <2>1, <2>2 DEF AskInv, ApprovalBeforeTool
  <2> QED
    BY <2>5, <2>6, <2>7 DEF AskInv
<1> QED
    BY <1>1, <1>2, <1>3, <1>4, <1>5, <1>8, <1>9, <1>10, <1>11 DEF WorkerStep, ToolStep

\* An approval is remembered only when it finds the sender of a parked worker.
LEMMA EnvironmentAsks ==
    ASSUME TypeOK, HandleInv, RunsInOrder, CancelledLast, AskInv, Environment \/ UNCHANGED vars
    PROVE  AskInv'
<1> USE DEF dbVars, sharedVars, workerVars
<1>1. CASE Cancel \/ Replan \/ Conclude \/ Extend \/ UNCHANGED vars
    BY <1>1, AskFrame DEF Cancel, Replan, Conclude, Extend, vars
<1>2. ASSUME NEW t \in Tasks, Approve(t) PROVE AskInv'
  <2>0. /\ sender \in [Tasks -> Runs \cup {NoRun}]
        /\ asked \in [Tasks -> {"never", "requested", "ignored", "granted"}]
    BY DEF TypeOK
  <2>1. /\ asked[t] \in {"requested", "ignored"}
        /\ sender' = [sender EXCEPT ![t] = NoRun]
        /\ asked' = [asked EXCEPT ![t] = IF sender[t] = NoRun THEN "ignored" ELSE "granted"]
        /\ UNCHANGED <<wpc, step>>
    BY <1>2 DEF Approve
  <2>2. NoRun \notin Runs
    BY DEF NoRun, Runs
  <2>3. \A h \in Goals, k \in Steps : <<h, k>> \in Tasks
    BY DEF Tasks
  <2>4. \A h \in Goals, k \in Steps :
            \/ <<h, k>> # t /\ sender'[<<h, k>>] = sender[<<h, k>>] /\ asked'[<<h, k>>] = asked[<<h, k>>]
            \/ /\ <<h, k>> = t /\ sender'[<<h, k>>] = NoRun /\ asked[<<h, k>>] # "granted"
               /\ sender[<<h, k>>] \in Runs => asked'[<<h, k>>] = "granted"
    BY <2>0, <2>1, <2>2, <2>3
  <2>5. ASSUME NEW q \in Runs, NEW h \in Goals, NEW k \in Steps,
               wpc[q][h] = "parked", step[q][h] = k, sender'[<<h, k>>] # q
        PROVE  asked'[<<h, k>>] = "granted"
    BY <2>4, <2>5 DEF AskInv
  <2>6. ApprovalBeforeTool'
    BY <2>1, <2>4 DEF AskInv, ApprovalBeforeTool
  <2>7. ASSUME NEW q \in Runs, NEW h \in Goals, NEW k \in Steps, sender'[<<h, k>>] = q
        PROVE  wpc[q][h] = "parked" /\ step[q][h] = k
    BY <2>2, <2>4, <2>7 DEF AskInv
  <2> QED
    BY <2>1, <2>5, <2>6, <2>7 DEF AskInv
<1> QED
    BY <1>1, <1>2 DEF Environment

\* ApprovalBeforeTool: when the service calls run_mission again only after the
\* last call has returned, a tool that needs approval runs only after this
\* request for it was granted, and every registered sender has its worker, in
\* every state in which no run has begun after a cancelled one. (A cancelled run
\* leaves its parked workers behind; a later run's request replaces the sender
\* of one, and the dropped sender lets it go.)
THEOREM ApprovalFirst ==
    ASSUME Exclusive PROVE Spec => [](CancelledLast => ApprovalBeforeTool /\ SenderHasOwner)
<1> DEFINE Inv == RunsInOrder /\ (CancelledLast => AskInv)
<1>1. Init => Inv
    BY DEF Init, RunsInOrder, AskInv, ApprovalBeforeTool, Tasks, NoRun, Runs
<1>2. IInv /\ Inv /\ [Next]_vars => Inv'
  <2> SUFFICES ASSUME IInv, Inv, [Next]_vars PROVE Inv'
    OBVIOUS
  <2>1. RunsInOrder'
    BY OrderStep DEF IInv
  <2>2. ASSUME CancelledLast' PROVE AskInv'
    <3>1. CancelledLast /\ AskInv
        BY <2>2, CancelledLastBefore DEF IInv
    <3>2. CASE Environment \/ UNCHANGED vars
        BY <3>1, <3>2, EnvironmentAsks DEF IInv
    <3>3. ASSUME NEW r \in Runs, CallStep(r) PROVE AskInv'
        BY <3>1, <3>3, WalkerAsks DEF IInv
    <3>4. ASSUME NEW r \in Runs, NEW g \in Goals, WorkerStep(r, g) \/ ToolStep(r, g) \/ LoseWorker(r, g)
          PROVE  AskInv'
        BY <3>1, <3>4, WorkerAsks DEF IInv
    <3> QED
        BY <3>2, <3>3, <3>4 DEF Next, CallStep
  <2> QED
    BY <2>1, <2>2
<1>3. IInv /\ Inv => (CancelledLast => ApprovalBeforeTool /\ SenderHasOwner)
  <2> SUFFICES ASSUME TypeOK, AskInv PROVE ApprovalBeforeTool /\ SenderHasOwner
    BY DEF IInv
  <2>1. \A g \in Goals, k \in Steps : sender[<<g, k>>] \in Runs \cup {NoRun}
    BY DEF TypeOK, Tasks
  <2> QED
    BY <2>1 DEF AskInv, SenderHasOwner
<1> QED
    BY <1>1, <1>2, <1>3, WalkerInvariant, PTL DEF Spec


-----------------------------------------------------------------------------
(* The retry budget *)

\* The worker of run r is done with task k of its goal: it ran it, passed it
\* over or has ended.
Behind(r, g, k) ==
    \/ wpc[r][g] \in Finished
    \/ wpc[r][g] = "tool" /\ k <= step[r][g]
    \/ wpc[r][g] \in {"task", "requested", "parked"} /\ k < step[r][g]

Callers(g, k) == {r \in Runs : Behind(r, g, k)}

\* The last attempt, which no budget was spent for.
Last(g) == IF goal[g] \in {"Completed", "Failed"} THEN 1 ELSE 0

\* An invocation of a task is that of a worker that is still there, was paid
\* for with a unit of the goal's budget, or settled the goal.
CallsInv ==
    \A g \in Goals, k \in Steps :
        invoked[<<g, k>>] + retries[g] <= Retries + Cardinality(Callers(g, k)) + Last(g)

\* Sets of runs are finite, and larger ones are larger.
LEMMA RunsCount ==
    ASSUME NEW T \in SUBSET Runs
    PROVE  /\ IsFiniteSet(T) /\ Cardinality(T) \in Nat
           /\ \A S \in SUBSET T : IsFiniteSet(S) /\ Cardinality(S) \in Nat /\ Cardinality(S) <= Cardinality(T)
           /\ \A r \in Runs : Cardinality(T \cup {r}) <= Cardinality(T) + 1
           /\ \A r \in Runs \ T : Cardinality(T \cup {r}) = Cardinality(T) + 1
<1>1. IsFiniteSet(Runs)
    BY EngineAssumption, FS_Interval DEF Runs
<1>2. IsFiniteSet(T) /\ Cardinality(T) \in Nat
    BY <1>1, FS_Subset, FS_CardinalityType
<1>3. \A S \in SUBSET T : IsFiniteSet(S) /\ Cardinality(S) <= Cardinality(T)
    BY <1>2, FS_Subset
<1>4. \A S \in SUBSET T : Cardinality(S) \in Nat
    BY <1>3, FS_CardinalityType
<1>5. ASSUME NEW r \in Runs
      PROVE  /\ r \in T => Cardinality(T \cup {r}) = Cardinality(T)
             /\ r \notin T => Cardinality(T \cup {r}) = Cardinality(T) + 1
    BY <1>2, FS_AddElement
<1> QED
    BY <1>2, <1>3, <1>4, <1>5

\* No worker that is done with a task goes away, except for one that is paid
\* for or settles the goal.
LEMMA CallsFrame ==
    ASSUME TypeOK, TypeOK', CallsInv, invoked' = invoked,
           \A g \in Goals, k \in Steps :
              /\ goal[g] \in {"Completed", "Failed"} => goal'[g] \in {"Completed", "Failed"}
              /\ \/ retries'[g] = retries[g] /\ \A q \in Runs : Behind(q, g, k) => Behind(q, g, k)'
                 \/ /\ \E r \in Runs : \A q \in Runs \ {r} : Behind(q, g, k) => Behind(q, g, k)'
                    /\ \/ retries[g] > 0 /\ retries'[g] = retries[g] - 1
                       \/ /\ retries'[g] = retries[g]
                          /\ goal[g] \notin {"Completed", "Failed"}
                          /\ goal'[g] \in {"Completed", "Failed"}
    PROVE  CallsInv'
<1> SUFFICES ASSUME NEW g \in Goals, NEW k \in Steps
             PROVE  invoked'[<<g, k>>] + retries'[g] <= Retries + Cardinality(Callers(g, k)') + Last(g)'
    BY Zenon DEF CallsInv
<1> DEFINE S == Callers(g, k)
<1> DEFINE T == Callers(g, k)'
<1> SUFFICES invoked'[<<g, k>>] + retries'[g] <= Retries + Cardinality(T) + Last(g)'
    OBVIOUS
<1>1. S \in SUBSET Runs /\ T \in SUBSET Runs
    BY DEF Callers
<1>2. /\ invoked[<<g, k>>] \in Nat /\ retries[g] \in Nat /\ retries'[g] \in Nat /\ Retries \in Nat
    BY EngineAssumption DEF TypeOK, Tasks
<1>3. invoked[<<g, k>>] + retries[g] <= Retries + Cardinality(S) + Last(g)
    BY DEF CallsInv
<1>4. Cardinality(S) \in Nat /\ Cardinality(T) \in Nat
    BY <1>1, RunsCount
<1>5. CASE retries'[g] = retries[g] /\ \A q \in Runs : Behind(q, g, k) => Behind(q, g, k)'
  <2>1. S \in SUBSET T
    BY <1>5 DEF Callers
  <2>2. Cardinality(S) <= Cardinality(T)
    BY <1>1, <2>1, RunsCount
  <2>3. Last(g) <= Last(g)' /\ Last(g) \in Nat /\ Last(g)' \in Nat
    BY DEF Last
  <2> HIDE DEF S, T
  <2> QED
    BY <1>2, <1>3, <1>4, <1>5, <2>2, <2>3
<1>6. ASSUME NEW r \in Runs, \A q \in Runs \ {r} : Behind(q, g, k) => Behind(q, g, k)',
             \/ retries[g] > 0 /\ retries'[g] = retries[g] - 1
             \/ /\ retries'[g] = retries[g]
                /\ goal[g] \notin {"Completed", "Failed"}
                /\ goal'[g] \in {"Completed", "Failed"}
      PROVE  invoked'[<<g, k>>] + retries'[g] <= Retries + Cardinality(T) + Last(g)'
  <2>1. S \in SUBSET (T \cup {r}) /\ T \cup {r} \in SUBSET Runs
    BY <1>1, <1>6 DEF Callers
  <2>2. Cardinality(S) <= Cardinality(T \cup {r}) /\ Cardinality(T \cup {r}) \in Nat
    BY <2>1, RunsCount
  <2>3. Cardinality(T \cup {r}) <= Cardinality(T) + 1
    BY <1>1, RunsCount
  <2>4. \/ retries'[g] = retries[g] - 1 /\ Last(g) <= Last(g)'
        \/ retries'[g] = retries[g] /\ Last(g) = 0 /\ Last(g)' = 1
    BY <1>6 DEF Last
  <2>5. Last(g) \in Nat /\ Last(g)' \in Nat
    BY DEF Last
  <2> HIDE DEF S, T
  <2> QED
    BY <1>2, <1>3, <1>4, <2>2, <2>3, <2>4, <2>5
<1> QED
    BY <1>5, <1>6

\* A run that reaps a finished worker spends a unit of the goal's budget or
\* settles the goal; nothing else a run does takes a worker away.
LEMMA WalkerCalls ==
    ASSUME IInv, TypeOK', CallsInv, NEW r \in Runs, CallStep(r)
    PROVE  CallsInv'
<1> USE DEF dbVars, sharedVars, workerVars
<1>0. /\ wpc \in [Runs -> [Goals -> WorkerPC]] /\ goal \in [Goals -> GoalStatuses]
      /\ retries \in [Goals -> Nat] /\ TypeOK
    BY DEF IInv, TypeOK
<1>1. CASE \/ StartRun(r) \/ LoopTop(r) \/ EndPass(r) \/ EndSweep(r)
           \/ DrawVerdict(r) \/ FlipMission(r) \/ LeaveRun(r) \/ AbortRun(r)
  <2>1. UNCHANGED <<invoked, goal, retries, wpc, step>>
    BY <1>1 DEF StartRun, LoopTop, EndPass, EndSweep, DrawVerdict, FlipMission, LeaveRun, AbortRun
  <2> QED
    BY <1>0, <2>1, CallsFrame DEF Behind
<1>2. ASSUME NEW g \in Goals, PassOver(r, g) \/ PollBusy(r, g) PROVE CallsInv'
  <2>1. UNCHANGED <<invoked, goal, retries, wpc, step>>
    BY <1>2 DEF PassOver, PollBusy
  <2> QED
    BY <1>0, <2>1, CallsFrame DEF Behind
<1>3. Live(r) => local[r] = goal /\ left[r] = retries
    BY DEF IInv, RowInv, RunMirrorsRows
<1>4. ASSUME NEW g \in Goals, SkipGoal(r, g) PROVE CallsInv'
  <2>1. /\ goal' = [goal EXCEPT ![g] = "Skipped"] /\ goal[g] \notin {"Completed", "Failed"}
        /\ retries' = [retries EXCEPT ![g] = retries[g]]
        /\ UNCHANGED <<invoked, wpc, step>>
    BY <1>3, <1>4 DEF SkipGoal, WriteGoal, AtCursor, Settled, Live
  <2>2. retries' = retries
    BY <1>0, <2>1
  <2>3. \A h \in Goals : goal[h] \in {"Completed", "Failed"} => goal'[h] = goal[h]
    BY <1>0, <2>1
  <2> QED
    BY <1>0, <2>1, <2>2, <2>3, CallsFrame DEF Behind
<1>5. ASSUME NEW g \in Goals, LaunchGoal(r, g) PROVE CallsInv'
  <2>1. /\ wpc[r][g] = "none" /\ Live(r) /\ goal[g] \in {"Pending", "Ready"}
        /\ wpc' = [wpc EXCEPT ![r][g] = "queued"] /\ UNCHANGED <<invoked, step>>
    BY <1>3, <1>5 DEF LaunchGoal, AtCursor, Settled, IInv, HandleInv, WorkersHaveHandles, Live
  <2>2. \/ UNCHANGED <<goal, retries>>
        \/ /\ goal' = [goal EXCEPT ![g] = "Ready"]
           /\ retries' = [retries EXCEPT ![g] = retries[g]]
    BY <1>3, <1>5, <2>1 DEF LaunchGoal, WriteGoal
  <2>3. retries' = retries /\ \A h \in Goals : goal[h] \in {"Completed", "Failed"} => goal'[h] = goal[h]
    BY <1>0, <2>1, <2>2
  <2>4. \A q \in Runs, h \in Goals, k \in Steps : Behind(q, h, k) => Behind(q, h, k)'
    BY <1>0, <2>1 DEF Behind, Finished
  <2> QED
    BY <1>0, <2>1, <2>3, <2>4, CallsFrame
\* No worker comes or goes, and the goal's row moves before it has settled.
<1>7. ASSUME NEW g \in Goals, NEW status, Live(r), goal[g] \in {"Pending", "Ready"},
             WriteGoal(r, g, status, left[r][g]), UNCHANGED <<invoked, wpc, step>>
      PROVE  CallsInv'
  <2>1. goal' = [goal EXCEPT ![g] = status] /\ retries' = [retries EXCEPT ![g] = retries[g]]
    BY <1>3, <1>7 DEF WriteGoal
  <2>2. retries' = retries /\ \A h \in Goals : goal[h] \in {"Completed", "Failed"} => goal'[h] = goal[h]
    BY <1>0, <1>7, <2>1
  <2> QED
    BY <1>0, <1>7, <2>2, CallsFrame DEF Behind
<1>8. ASSUME NEW g \in Goals, Demote(r, g) PROVE CallsInv'
  <2>1. /\ Live(r) /\ goal[g] = "Ready" /\ WriteGoal(r, g, "Pending", left[r][g])
        /\ UNCHANGED <<invoked, wpc, step>>
    BY <1>8 DEF Demote, Retried, Live, IInv, RowInv, HandlesAreReady
  <2> QED
    BY <1>7, <2>1
<1>9. ASSUME NEW g \in Goals, AbortLaunch(r, g) PROVE CallsInv'
  <2>1. /\ Live(r) /\ local[r][g] = "Pending" /\ WriteGoal(r, g, "Ready", left[r][g])
        /\ UNCHANGED <<invoked, wpc, step>>
    BY <1>9 DEF AbortLaunch, AtCursor, Live
  <2> QED
    BY <1>3, <1>7, <2>1
<1>6. ASSUME NEW g \in Goals, ReapCompleted(r, g) \/ ReapRetry(r, g) \/ ReapFailed(r, g) PROVE CallsInv'
  <2>1. TakeHandle(r, g)
    BY <1>6 DEF ReapCompleted, ReapRetry, ReapFailed, Reap
  <2>2. /\ Live(r) /\ goal[g] = "Ready" /\ UNCHANGED <<invoked, step>>
        /\ wpc' = [wpc EXCEPT ![r][g] = "none"]
    BY <2>1 DEF TakeHandle, Live, IInv, RowInv, HandlesAreReady
  <2>3. \A q \in Runs, h \in Goals, k \in Steps : (q # r \/ h # g) /\ Behind(q, h, k) => Behind(q, h, k)'
    BY <1>0, <2>2 DEF Behind
  <2>4. \/ /\ goal' = [goal EXCEPT ![g] = "Completed"]
           /\ retries' = [retries EXCEPT ![g] = retries[g]]
        \/ /\ goal' = [goal EXCEPT ![g] = "Failed"]
           /\ retries' = [retries EXCEPT ![g] = retries[g]]
        \/ /\ goal' = [goal EXCEPT ![g] = "Ready"]
           /\ retries' = [retries EXCEPT ![g] = retries[g] - 1] /\ retries[g] > 0
    BY <1>3, <1>6, <2>2 DEF ReapCompleted, ReapRetry, ReapFailed, CanRetry, WriteGoal
  <2>5. \A h \in Goals : h # g => goal'[h] = goal[h] /\ retries'[h] = retries[h]
    BY <1>0, <2>4
  <2>6. \/ goal'[g] \in {"Completed", "Failed"} /\ retries'[g] = retries[g]
        \/ retries[g] > 0 /\ retries'[g] = retries[g] - 1
    BY <1>0, <2>4
  <2> QED
    BY <1>0, <2>2, <2>3, <2>5, <2>6, CallsFrame
<1> QED
    BY <1>1, <1>2, <1>4, <1>5, <1>6, <1>8, <1>9 DEF RunStep, CallStep


\* A worker never gets back to a task it was done with.
LEMMA WorkerGoesOn ==
    ASSUME TypeOK, NEW r \in Runs, NEW g \in Goals,
           WorkerStep(r, g) \/ ToolStep(r, g) \/ LoseWorker(r, g)
    PROVE  \A q \in Runs, h \in Goals, k \in Steps : Behind(q, h, k) => Behind(q, h, k)'
<1> DEFINE Goal == \A q \in Runs, h \in Goals, k \in Steps : Behind(q, h, k) => Behind(q, h, k)'
<1> USE DEF dbVars, sharedVars, workerVars, SetWorker
<1>0. /\ wpc \in [Runs -> [Goals -> WorkerPC]]
      /\ step \in [Runs -> [Goals -> 1 .. NTasks + 1]]
    BY DEF TypeOK
<1>1. ASSUME NEW pc, wpc' = [wpc EXCEPT ![r][g] = pc], UNCHANGED step,
             \/ wpc[r][g] \in {"queued", "load", "material"}
             \/ pc \in Finished
             \/ wpc[r][g] \in {"task", "requested", "parked"} /\ pc \in {"requested", "parked", "tool"}
      PROVE  Goal
  <2>1. \A q \in Runs, h \in Goals : (q # r \/ h # g) => wpc'[q][h] = wpc[q][h]
    BY <1>0, <1>1
  <2>2. wpc'[r][g] = pc
    BY <1>0, <1>1
  <2>3. \A k \in Steps : Behind(r, g, k) => Behind(r, g, k)'
    BY <1>0, <1>1, <2>2, EngineAssumption DEF Behind, Finished, Steps
  <2> QED
    BY <1>1, <2>1, <2>3 DEF Behind
<1>2. CASE TakePermit(r, g) \/ Materialize(r, g)
    BY <1>1, <1>2 DEF TakePermit, Materialize
<1>3. CASE AllTasksDone(r, g) \/ StopCancelled(r, g) \/ LoseWorker(r, g)
    BY <1>1, <1>3 DEF AllTasksDone, StopCancelled, LoseWorker, Finished
<1>4. ASSUME NEW t \in Tasks, DenyTask(r, g, t) \/ UnparkCancelled(r, g, t) \/ ToolFails(r, g, t) PROVE Goal
    BY <1>1, <1>4 DEF DenyTask, UnparkCancelled, ToolFails, Finished
<1>5. ASSUME NEW t \in Tasks, RequestApproval(r, g, t) \/ Park(r, g, t) PROVE Goal
    BY <1>1, <1>5 DEF RequestApproval, Due, Park
<1>6. ASSUME NEW t \in Tasks, BeginTask(r, g, t) \/ Unpark(r, g, t) PROVE Goal
  <2>1. wpc[r][g] \in {"task", "parked"} /\ UNCHANGED step
    BY <1>6 DEF BeginTask, Unpark, Due, Begin
  <2>2. wpc' = [wpc EXCEPT ![r][g] = "tool"] \/ wpc' = [wpc EXCEPT ![r][g] = "err"]
    BY <1>6 DEF BeginTask, Unpark, Begin
  <2> QED
    BY <1>1, <2>1, <2>2 DEF Finished
<1>7. CASE LoadTasks(r, g)
  <2>1. \A q \in Runs, h \in Goals :
            (q # r \/ h # g) => wpc'[q][h] = wpc[q][h] /\ step'[q][h] = step[q][h]
    BY <1>0, <1>7 DEF LoadTasks
  <2>2. wpc[r][g] = "load"
    BY <1>7 DEF LoadTasks
  <2> QED
    BY <2>1, <2>2 DEF Behind, Finished
<1>8. ASSUME \/ SkipTask(r, g)
             \/ \E t \in Tasks : ToolSucceeds(r, g, t)
      PROVE  Goal
  <2>1. /\ wpc[r][g] \in {"task", "tool"} /\ step' = [step EXCEPT ![r][g] = step[r][g] + 1]
        /\ wpc' = [wpc EXCEPT ![r][g] = "task"]
    BY <1>0, <1>8 DEF SkipTask, ToolSucceeds
  <2>2. \A q \in Runs, h \in Goals :
            (q # r \/ h # g) => wpc'[q][h] = wpc[q][h] /\ step'[q][h] = step[q][h]
    BY <1>0, <2>1
  <2>3. wpc'[r][g] = "task" /\ step'[r][g] = step[r][g] + 1 /\ step[r][g] \in Nat
    BY <1>0, <2>1, EngineAssumption
  <2>4. \A k \in Steps : Behind(r, g, k) => Behind(r, g, k)'
    BY <2>1, <2>3, EngineAssumption DEF Behind, Finished, Steps
  <2> QED
    BY <2>2, <2>4 DEF Behind
<1> QED
    BY <1>2, <1>3, <1>4, <1>5, <1>6, <1>7, <1>8 DEF WorkerStep, ToolStep

\* A worker invokes the task it is at, once.
LEMMA WorkerCalls ==
    ASSUME IInv, TypeOK', CallsInv, NEW r \in Runs, NEW g \in Goals,
           WorkerStep(r, g) \/ ToolStep(r, g) \/ LoseWorker(r, g)
    PROVE  CallsInv'
<1> USE DEF dbVars, sharedVars, workerVars
<1>0. TypeOK /\ wpc \in [Runs -> [Goals -> WorkerPC]] /\ step \in [Runs -> [Goals -> 1 .. NTasks + 1]]
    BY DEF IInv, TypeOK
<1>1. UNCHANGED <<goal, retries>> /\ \A q \in Runs, h \in Goals, k \in Steps : Behind(q, h, k) => Behind(q, h, k)'
  <2>1. UNCHANGED <<goal, retries>>
    BY <1>0, WorkerStepFrame DEF WorkerFrame
  <2>2. \A q \in Runs, h \in Goals, k \in Steps : Behind(q, h, k) => Behind(q, h, k)'
    BY <1>0, WorkerGoesOn
  <2> QED
    BY <2>1, <2>2
<1>2. CASE UNCHANGED invoked
  <2>1. goal' = goal /\ retries' = retries /\ invoked' = invoked
    BY <1>1, <1>2
  <2>2. \A q \in Runs, h \in Goals, k \in Steps : Behind(q, h, k) => Behind(q, h, k)'
    BY <1>1
  <2> QED
    BY <1>0, <2>1, <2>2, CallsFrame
<1>3. ASSUME NEW t \in Tasks, BeginTask(r, g, t) \/ Unpark(r, g, t) PROVE CallsInv'
  <2>1. /\ wpc[r][g] \in {"task", "parked"} /\ t = <<g, step[r][g]>> /\ step[r][g] \in Steps
        /\ invoked' = [invoked EXCEPT ![t] = @ + 1] /\ UNCHANGED step
    BY <1>3 DEF BeginTask, Unpark, Due, Begin, Tasks
  <2>2. wpc' = [wpc EXCEPT ![r][g] = "tool"] \/ wpc' = [wpc EXCEPT ![r][g] = "err"]
    BY <1>3 DEF BeginTask, Unpark, Begin, SetWorker
  <2>3. wpc'[r][g] \in {"tool", "err"}
    BY <1>0, <2>2
  <2> SUFFICES ASSUME NEW h \in Goals, NEW k \in Steps
               PROVE  invoked'[<<h, k>>] + retries'[h] <= Retries + Cardinality(Callers(h, k)') + Last(h)'
    BY Zenon DEF CallsInv
  <2> DEFINE S == Callers(h, k)
  <2> DEFINE T == Callers(h, k)'
  <2> SUFFICES invoked'[<<h, k>>] + retries'[h] <= Retries + Cardinality(T) + Last(h)'
    OBVIOUS
  <2>4. S \in SUBSET T /\ S \in SUBSET Runs /\ T \in SUBSET Runs
    BY <1>1 DEF Callers
  <2>5. invoked[<<h, k>>] + retries[h] <= Retries + Cardinality(S) + Last(h)
    BY DEF CallsInv
  <2>6. /\ invoked[<<h, k>>] \in Nat /\ retries[h] \in Nat /\ Retries \in Nat
        /\ Cardinality(S) \in Nat /\ Cardinality(T) \in Nat
        /\ invoked \in [Tasks -> Nat] /\ <<h, k>> \in Tasks
    BY <2>4, RunsCount, EngineAssumption DEF IInv, TypeOK, Tasks
  <2>7. Last(h)' = Last(h) /\ Last(h) \in Nat
    BY <1>1 DEF Last
  <2>8. CASE <<h, k>> # t
    <3>1. Cardinality(S) <= Cardinality(T)
        BY <2>4, RunsCount
    <3>2. invoked'[<<h, k>>] = invoked[<<h, k>>]
        BY <2>1, <2>6, <2>8
    <3> HIDE DEF S, T
    <3> QED
        BY <1>1, <2>5, <2>6, <2>7, <3>1, <3>2
  <2>9. CASE <<h, k>> = t
    <3>1. h = g /\ k = step[r][g]
        BY <2>1, <2>9
    <3>2. ~Behind(r, h, k) /\ Behind(r, h, k)'
        BY <1>0, <2>1, <2>3, <3>1, EngineAssumption DEF Behind, Finished, Steps
    <3>3. S \cup {r} \in SUBSET T /\ r \in Runs \ S
        BY <2>4, <3>2 DEF Callers
    <3>4. Cardinality(S \cup {r}) = Cardinality(S) + 1 /\ Cardinality(S \cup {r}) <= Cardinality(T)
        BY <2>4, <3>3, RunsCount
    <3>5. invoked'[<<h, k>>] = invoked[<<h, k>>] + 1
        BY <2>1, <2>6, <2>9
    <3> HIDE DEF S, T
    <3> QED
        BY <1>1, <2>5, <2>6, <2>7, <3>4, <3>5
  <2> QED
    BY <2>8, <2>9
<1>4. CASE LoseWorker(r, g)
    BY <1>2, <1>4 DEF LoseWorker
<1>5. CASE ToolStep(r, g)
    BY <1>2, <1>5 DEF ToolStep, ToolSucceeds, ToolFails
<1>6. ASSUME NEW t \in Tasks, DenyTask(r, g, t) \/ RequestApproval(r, g, t) \/ Park(r, g, t) \/ UnparkCancelled(r, g, t)
      PROVE  UNCHANGED invoked
    BY <1>6 DEF DenyTask, RequestApproval, Park, UnparkCancelled
<1>7. CASE TakePermit(r, g) \/ LoadTasks(r, g) \/ Materialize(r, g) \/ AllTasksDone(r, g)
           \/ StopCancelled(r, g) \/ SkipTask(r, g)
    BY <1>2, <1>7 DEF TakePermit, LoadTasks, Materialize, AllTasksDone, StopCancelled, SkipTask
<1> QED
    BY <1>2, <1>3, <1>4, <1>5, <1>6, <1>7 DEF WorkerStep

\* InvocationBound: when the service calls run_mission again only after the last
\* call has returned, a task is invoked at most once, once more for each unit
\* of its goal's retry budget, and once more for each run that was cut short,
\* over all the runs, extensions and replans the mission ever has.
THEOREM InvocationsAreBounded ==
    ASSUME Exclusive PROVE Spec => []InvocationBound
<1>1. Init => CallsInv
  <2> SUFFICES ASSUME Init, NEW g \in Goals, NEW k \in Steps
               PROVE  invoked[<<g, k>>] + retries[g] <= Retries + Cardinality(Callers(g, k)) + Last(g)
    BY Zenon DEF CallsInv
  <2>1. Callers(g, k) \in SUBSET Runs
    BY DEF Callers
  <2>2. Cardinality(Callers(g, k)) \in Nat
    BY <2>1, RunsCount
  <2>3. invoked[<<g, k>>] = 0 /\ retries[g] = Retries /\ Last(g) = 0
    BY DEF Init, Tasks, Last
  <2> QED
    BY <2>2, <2>3, EngineAssumption
<1>2. IInv /\ CallsInv /\ IInv' /\ [Next]_vars => CallsInv'
  <2> SUFFICES ASSUME IInv, CallsInv, IInv', [Next]_vars PROVE CallsInv'
    OBVIOUS
  <2>0. TypeOK /\ TypeOK'
    BY DEF IInv
  <2>1. CASE Environment \/ UNCHANGED vars
    <3>1. UNCHANGED <<goal, retries, invoked, wpc, step>>
        BY <2>1 DEF Environment, Cancel, Replan, Conclude, Extend, Approve, vars, dbVars, workerVars
    <3> QED
        BY <2>0, <3>1, CallsFrame DEF Behind
  <2>2. ASSUME NEW r \in Runs, CallStep(r) PROVE CallsInv'
    BY <2>0, <2>2, WalkerCalls
  <2>3. ASSUME NEW r \in Runs, NEW g \in Goals, WorkerStep(r, g) \/ ToolStep(r, g) \/ LoseWorker(r, g)
        PROVE  CallsInv'
    BY <2>0, <2>3, WorkerCalls
  <2> QED
    BY <2>1, <2>2, <2>3 DEF Next, CallStep
<1>3. IInv /\ CallsInv => InvocationBound
  <2> DEFINE Cut == {r \in Runs : r \in cancelled \/ rpc[r] = "aborted"}
  <2> SUFFICES ASSUME IInv, CallsInv, NEW t \in Tasks PROVE invoked[t] <= Retries + 1 + Cardinality(Cut)
    BY DEF InvocationBound
  <2>1. PICK g \in Goals, k \in Steps : t = <<g, k>>
    BY DEF Tasks
  <2> DEFINE S == Callers(g, k)
  <2>2. S \in SUBSET Runs /\ Cut \in SUBSET Runs
    BY DEF Callers
  <2>3. \A q \in Runs, h \in Goals : wpc[q][h] # "none" /\ q \notin Cut => Live(q) /\ goal[h] = "Ready"
    BY DEF IInv, TypeOK, HandleInv, WorkersHaveHandles, NoWorkerLeftBehind, RowInv, HandlesAreReady, Live
  <2>4. \A q \in S : wpc[q][g] # "none"
    BY DEF Callers, Behind, Finished
  <2>5. /\ invoked[t] \in Nat /\ retries[g] \in Nat /\ Retries \in Nat
        /\ Cardinality(S) \in Nat /\ Cardinality(Cut) \in Nat
    BY <2>2, RunsCount, EngineAssumption DEF IInv, TypeOK
  <2>6. invoked[t] + retries[g] <= Retries + Cardinality(S) + Last(g)
    BY <2>1 DEF CallsInv
  <2>7. Last(g) \in {0, 1}
    BY DEF Last
  <2>8. CASE S \in SUBSET Cut
    <3>1. Cardinality(S) <= Cardinality(Cut)
        BY <2>2, <2>8, RunsCount
    <3> HIDE DEF S, Cut
    <3> QED
        BY <2>5, <2>6, <2>7, <3>1
  <2>9. ASSUME NEW q \in S, q \notin Cut PROVE invoked[t] <= Retries + 1 + Cardinality(Cut)
    <3>1. Last(g) = 0 /\ Live(q) /\ q \in Runs
        BY <2>2, <2>3, <2>4, <2>9 DEF Last
    <3>2. \A p \in Runs : Live(p) => p = q
        BY <3>1 DEF IInv, RowInv, OneRunAtATime, Active, Live
    <3>3. S \in SUBSET (Cut \cup {q}) /\ Cut \cup {q} \in SUBSET Runs
        BY <2>2, <2>3, <2>4, <3>1, <3>2
    <3>4. Cardinality(S) <= Cardinality(Cut \cup {q}) /\ Cardinality(Cut \cup {q}) \in Nat
        BY <3>3, RunsCount
    <3>5. Cardinality(Cut \cup {q}) <= Cardinality(Cut) + 1
        BY <2>2, <3>1, RunsCount
    <3> HIDE DEF S, Cut
    <3> QED
        BY <2>5, <2>6, <3>1, <3>4, <3>5
  <2> QED
    BY <2>8, <2>9
<1> QED
    BY <1>1, <1>2, <1>3, WalkerInvariant, PTL DEF Spec


-----------------------------------------------------------------------------
(* The tasks of a completed goal *)

\* What the worker of goal g takes task k to be: completed.
Passed(r, g, k) ==
    \/ wpc[r][g] \in {"task", "requested", "parked", "tool"} /\ k < step[r][g]
    \/ /\ wpc[r][g] \in {"material", "task", "requested", "parked", "tool"}
       /\ seen[r][g][k] = "Completed"
    \/ wpc[r][g] = "ok"

\* The worker has asked for its task's approval.
Waits(r, g) == wpc[r][g] \in {"requested", "parked"}

\* A goal with a worker is Ready, and its worker is right about its tasks.
TasksInv ==
    /\ \A r \in Runs, g \in Goals : wpc[r][g] # "none" => goal[g] = "Ready"
    /\ \A r \in Runs, g \in Goals : wpc[r][g] = "material" => step[r][g] = 1
    /\ \A r \in Runs, g \in Goals : Waits(r, g) => seen[r][g][step[r][g]] # "Completed"
    /\ \A r \in Runs, g \in Goals, k \in Steps : Passed(r, g, k) => task[<<g, k>>] = "Completed"
    /\ CompletedGoalIsWhole

\* While a run is in progress all workers there are belong to it.
LEMMA WorkersOfTheRun ==
    ASSUME TypeOK, HandleInv, RunsInOrder, CancelledLast,
           NEW q \in Runs, NEW r \in Runs, NEW g \in Goals, Live(r), wpc[q][g] # "none"
    PROVE  q = r
<1>1. rpc[q] # "idle" /\ rpc[r] # "idle" /\ rpc[r] # "returned"
    BY DEF HandleInv, WorkersHaveHandles, Live
<1>2. ~ (r < q)
    BY <1>1 DEF RunsInOrder
<1>3. ASSUME q < r PROVE FALSE
  <2>1. rpc[q] = "returned"
    BY <1>1, <1>3 DEF RunsInOrder
  <2>2. q \in cancelled
    BY <2>1 DEF HandleInv, NoWorkerLeftBehind
  <2> QED
    BY <1>1, <1>3, <2>2 DEF CancelledLast, Runs
<1> QED
    BY <1>2, <1>3 DEF Runs

\* A run moves a goal that has no worker, gives it one or takes its own away.
LEMMA WalkerTasks ==
    ASSUME TypeOK, HandleInv, RowInv, RunsInOrder, CancelledLast, TasksInv,
           NEW r \in Runs, CallStep(r)
    PROVE  TasksInv'
<1> USE DEF dbVars, sharedVars, workerVars
<1>0. wpc \in [Runs -> [Goals -> WorkerPC]] /\ goal \in [Goals -> GoalStatuses]
    BY DEF TypeOK
<1>1. CASE UNCHANGED <<goal, task, wpc, step, seen>>
    BY <1>1 DEF TasksInv, Waits, Passed, CompletedGoalIsWhole
<1>2. CASE \/ StartRun(r) \/ LoopTop(r) \/ EndPass(r) \/ EndSweep(r)
           \/ DrawVerdict(r) \/ FlipMission(r) \/ LeaveRun(r) \/ AbortRun(r)
    BY <1>1, <1>2 DEF StartRun, LoopTop, EndPass, EndSweep, DrawVerdict, FlipMission, LeaveRun, AbortRun
<1>3. ASSUME NEW g \in Goals, PassOver(r, g) \/ PollBusy(r, g) PROVE TasksInv'
    BY <1>1, <1>3 DEF PassOver, PollBusy
<1>4. Live(r) => local[r] = goal
    BY DEF RowInv, RunMirrorsRows
\* The goal in question, its status and its worker in this run are all that changes.
<1>5. ASSUME NEW g \in Goals, NEW status, NEW pc, Live(r),
             pc = "none" \/ (pc = "queued" /\ status = "Ready"),
             status = "Completed" => \A k \in Steps : task[<<g, k>>] = "Completed",
             goal' = [goal EXCEPT ![g] = status], wpc' = [wpc EXCEPT ![r][g] = pc],
             UNCHANGED <<task, step, seen>>
      PROVE  TasksInv'
  <2>1. \A q \in Runs : q # r => wpc[q][g] = "none"
    BY <1>5, WorkersOfTheRun
  <2>2. \A q \in Runs, h \in Goals :
            \/ h # g /\ goal'[h] = goal[h] /\ wpc'[q][h] = wpc[q][h]
            \/ h = g /\ goal'[h] = status /\ wpc'[q][h] \in {"none", pc}
    BY <1>0, <1>5, <2>1
  <2>3. \A q \in Runs, h \in Goals : wpc'[q][h] # "none" => goal'[h] = "Ready"
    BY <1>5, <2>2 DEF TasksInv
  <2>4. \A q \in Runs, h \in Goals : wpc'[q][h] = "material" => step'[q][h] = 1
    BY <1>5, <2>2 DEF TasksInv
  <2>7. \A q \in Runs, h \in Goals : Waits(q, h)' => seen'[q][h][step'[q][h]] # "Completed"
    BY <1>5, <2>2 DEF TasksInv, Waits
  <2>5. ASSUME NEW q \in Runs, NEW h \in Goals, NEW k \in Steps, Passed(q, h, k)'
        PROVE  task'[<<h, k>>] = "Completed"
    BY <1>5, <2>2, <2>5 DEF TasksInv, Passed
  <2>6. \A h \in Goals : goal'[h] = "Completed" => \A k \in Steps : task'[<<h, k>>] = "Completed"
    BY <1>0, <1>5 DEF TasksInv, CompletedGoalIsWhole
  <2> QED
    BY <2>3, <2>4, <2>5, <2>6, <2>7 DEF TasksInv, CompletedGoalIsWhole
<1>6. ASSUME NEW g \in Goals, SkipGoal(r, g) PROVE TasksInv'
  <2>1. /\ Live(r) /\ wpc[r][g] = "none" /\ goal' = [goal EXCEPT ![g] = "Skipped"]
        /\ UNCHANGED <<task, wpc, step, seen>>
    BY <1>6 DEF SkipGoal, WriteGoal, AtCursor, Settled, HandleInv, WorkersHaveHandles, Live
  <2>2. wpc' = [wpc EXCEPT ![r][g] = "none"]
    BY <1>0, <2>1
  <2> QED
    BY <1>5, <2>1, <2>2
<1>7. ASSUME NEW g \in Goals, LaunchGoal(r, g) PROVE TasksInv'
  <2>1. /\ Live(r) /\ wpc' = [wpc EXCEPT ![r][g] = "queued"] /\ UNCHANGED <<task, step, seen>>
        /\ \/ goal[g] = "Ready" /\ goal' = goal
           \/ goal' = [goal EXCEPT ![g] = "Ready"]
    BY <1>4, <1>7 DEF LaunchGoal, WriteGoal, AtCursor, Live
  <2>2. goal' = [goal EXCEPT ![g] = "Ready"]
    BY <1>0, <2>1
  <2> QED
    BY <1>5, <2>1, <2>2
<1>9. ASSUME NEW g \in Goals, Demote(r, g) PROVE TasksInv'
  <2>1. /\ Live(r) /\ wpc[r][g] = "none" /\ goal' = [goal EXCEPT ![g] = "Pending"]
        /\ UNCHANGED <<task, wpc, step, seen>>
    BY <1>9 DEF Demote, Retried, WriteGoal, HandleInv, WorkersHaveHandles, Live
  <2>2. wpc' = [wpc EXCEPT ![r][g] = "none"]
    BY <1>0, <2>1
  <2> QED
    BY <1>5, <2>1, <2>2
<1>10. ASSUME NEW g \in Goals, AbortLaunch(r, g) PROVE TasksInv'
  <2>1. /\ Live(r) /\ wpc[r][g] = "none" /\ goal' = [goal EXCEPT ![g] = "Ready"]
        /\ UNCHANGED <<task, wpc, step, seen>>
    BY <1>10 DEF AbortLaunch, AtCursor, WriteGoal, HandleInv, WorkersHaveHandles, Live
  <2>2. wpc' = [wpc EXCEPT ![r][g] = "none"]
    BY <1>0, <2>1
  <2> QED
    BY <1>5, <2>1, <2>2
<1>8. ASSUME NEW g \in Goals, ReapCompleted(r, g) \/ ReapRetry(r, g) \/ ReapFailed(r, g) PROVE TasksInv'
  <2>1. /\ Live(r) /\ wpc' = [wpc EXCEPT ![r][g] = "none"] /\ UNCHANGED <<task, step, seen>>
    BY <1>8 DEF ReapCompleted, ReapRetry, ReapFailed, Reap, TakeHandle, Live
  <2>4. local[r][g] = "Ready" /\ goal[g] = "Ready"
    BY <1>4, <1>8, <2>1 DEF ReapCompleted, ReapRetry, ReapFailed, Reap, TakeHandle, RowInv, HandlesAreReady
  <2>2. \/ wpc[r][g] = "ok" /\ goal' = [goal EXCEPT ![g] = "Completed"]
        \/ goal' = [goal EXCEPT ![g] = "Ready"]
        \/ goal' = [goal EXCEPT ![g] = "Failed"]
    BY <1>8, <2>4 DEF ReapCompleted, ReapRetry, ReapFailed, WriteGoal
  <2>3. wpc[r][g] = "ok" => \A k \in Steps : task[<<g, k>>] = "Completed"
    BY DEF TasksInv, Passed
  <2> QED
    BY <1>5, <2>1, <2>2, <2>3
<1> QED
    BY <1>2, <1>3, <1>6, <1>7, <1>8, <1>9, <1>10 DEF RunStep, CallStep

\* A worker writes its own goal's tasks, and stays right about them.
LEMMA WorkerTasks ==
    ASSUME TypeOK, HandleInv, RunsInOrder, CancelledLast, TasksInv,
           NEW r \in Runs, NEW g \in Goals,
           WorkerStep(r, g) \/ ToolStep(r, g) \/ LoseWorker(r, g)
    PROVE  TasksInv'
<1> USE DEF dbVars, sharedVars, workerVars, SetWorker
<1>0. /\ wpc \in [Runs -> [Goals -> WorkerPC]] /\ goal \in [Goals -> GoalStatuses]
      /\ step \in [Runs -> [Goals -> 1 .. NTasks + 1]]
      /\ seen \in [Runs -> [Goals -> [Steps -> TaskStatuses]]]
      /\ task \in [Tasks -> TaskStatuses]
    BY DEF TypeOK
<1>1. \A h \in Goals, k \in Steps : <<h, k>> \in Tasks
    BY DEF Tasks
<1>2. goal' = goal
    BY WorkerStepFrame DEF WorkerFrame
\* Whatever changes is about goal g, and run r's worker is its only one.
<1>3. ASSUME wpc[r][g] # "none", wpc'[r][g] = "material" => step'[r][g] = 1,
             Waits(r, g)' => seen'[r][g][step'[r][g]] # "Completed",
             \A k \in Steps : Passed(r, g, k)' => task'[<<g, k>>] = "Completed",
             \A q \in Runs, h \in Goals : (q # r \/ h # g) =>
                wpc'[q][h] = wpc[q][h] /\ step'[q][h] = step[q][h] /\ seen'[q][h] = seen[q][h],
             \A h \in Goals \ {g}, k \in Steps : task'[<<h, k>>] = task[<<h, k>>]
      PROVE  TasksInv'
  <2>1. \A q \in Runs : q # r => wpc'[q][g] = "none"
    BY <1>3, OneRunsWorkers
  <2>2. goal[g] = "Ready"
    BY <1>3 DEF TasksInv
  <2>3. \A q \in Runs, h \in Goals : wpc'[q][h] # "none" => goal'[h] = "Ready"
    BY <1>2, <1>3, <2>1, <2>2 DEF TasksInv
  <2>4. \A q \in Runs, h \in Goals : wpc'[q][h] = "material" => step'[q][h] = 1
    BY <1>3, <2>1 DEF TasksInv
  <2>7. \A q \in Runs, h \in Goals : Waits(q, h)' => seen'[q][h][step'[q][h]] # "Completed"
    BY <1>3, <2>1 DEF TasksInv, Waits
  <2>5. ASSUME NEW q \in Runs, NEW h \in Goals, NEW k \in Steps, Passed(q, h, k)'
        PROVE  task'[<<h, k>>] = "Completed"
    <3>1. CASE h = g
        BY <1>3, <2>1, <2>5, <3>1 DEF Passed
    <3>2. CASE h # g
        BY <1>3, <2>5, <3>2 DEF Passed, TasksInv
    <3> QED
        BY <3>1, <3>2
  <2>6. \A h \in Goals : goal'[h] = "Completed" => \A k \in Steps : task'[<<h, k>>] = "Completed"
    BY <1>2, <1>3, <2>2 DEF TasksInv, CompletedGoalIsWhole
  <2> QED
    BY <2>3, <2>4, <2>5, <2>6, <2>7 DEF TasksInv, CompletedGoalIsWhole
<1>4. \A k \in Steps : Passed(r, g, k) => task[<<g, k>>] = "Completed"
    BY DEF TasksInv
\* The worker's place changes to pc, at the same task.
<1>5. ASSUME NEW pc, wpc' = [wpc EXCEPT ![r][g] = pc], UNCHANGED <<step, seen>>, wpc[r][g] # "none",
             pc # "material", pc \in {"requested", "parked"} => seen[r][g][step[r][g]] # "Completed",
             \A h \in Goals \ {g}, k \in Steps : task'[<<h, k>>] = task[<<h, k>>],
             \A k \in Steps : Passed(r, g, k)' => task'[<<g, k>>] = "Completed"
      PROVE  TasksInv'
    BY <1>0, <1>3, <1>5 DEF Waits
<1>6. CASE TakePermit(r, g)
  <2>1. /\ wpc[r][g] = "queued" /\ wpc' = [wpc EXCEPT ![r][g] = "load"]
        /\ UNCHANGED <<task, step, seen>>
    BY <1>6 DEF TakePermit
  <2>2. wpc'[r][g] = "load"
    BY <1>0, <2>1
  <2>3. \A k \in Steps : ~Passed(r, g, k)'
    BY <2>2 DEF Passed
  <2> QED
    BY <1>5, <2>1, <2>3
<1>7. CASE LoadTasks(r, g)
  <2> DEFINE to == IF (\E k \in Steps : task[<<g, k>>] = "Pending") /\ HasUpstream(g)
                   THEN "material" ELSE "task"
  <2>1. /\ wpc[r][g] = "load" /\ wpc' = [wpc EXCEPT ![r][g] = to] /\ UNCHANGED task
        /\ step' = [step EXCEPT ![r][g] = 1]
        /\ seen' = [seen EXCEPT ![r][g] = [k \in Steps |-> task[<<g, k>>]]]
    BY <1>7 DEF LoadTasks
  <2>2. to \in {"material", "task"}
    OBVIOUS
  <2> HIDE DEF to
  <2>3. /\ wpc'[r][g] = to /\ step'[r][g] = 1
        /\ \A k \in Steps : seen'[r][g][k] = task[<<g, k>>]
    BY <1>0, <2>1
  <2>4. \A q \in Runs, h \in Goals : (q # r \/ h # g) =>
            wpc'[q][h] = wpc[q][h] /\ step'[q][h] = step[q][h] /\ seen'[q][h] = seen[q][h]
    BY <1>0, <2>1
  <2>5. \A k \in Steps : Passed(r, g, k)' => task'[<<g, k>>] = "Completed"
    BY <2>1, <2>2, <2>3, EngineAssumption DEF Passed, Steps
  <2> QED
    BY <1>3, <2>1, <2>2, <2>3, <2>4, <2>5 DEF Waits
<1>8. CASE Materialize(r, g)
  <2>1. PICK changed \in SUBSET {k \in Steps : seen[r][g][k] = "Pending"} :
            task' = [t \in Tasks |-> IF t \in {g} \X changed THEN "Pending" ELSE task[t]]
    BY <1>8 DEF Materialize
  <2>2. wpc[r][g] = "material" /\ wpc' = [wpc EXCEPT ![r][g] = "task"] /\ UNCHANGED <<step, seen>>
    BY <1>8 DEF Materialize
  <2>3. wpc'[r][g] = "task" /\ step[r][g] = 1
    BY <1>0, <2>2 DEF TasksInv
  <2>4. \A h \in Goals \ {g}, k \in Steps : task'[<<h, k>>] = task[<<h, k>>]
    BY <1>1, <2>1
  <2>5. \A k \in Steps : seen[r][g][k] = "Completed" => task'[<<g, k>>] = task[<<g, k>>]
    BY <1>1, <2>1
  <2>6. \A k \in Steps : Passed(r, g, k)' => task'[<<g, k>>] = "Completed"
    BY <1>4, <2>2, <2>3, <2>5, EngineAssumption DEF Passed, Steps
  <2> QED
    BY <1>5, <2>2, <2>4, <2>6
<1>9. CASE AllTasksDone(r, g)
  <2>1. /\ wpc[r][g] = "task" /\ step[r][g] > NTasks /\ wpc' = [wpc EXCEPT ![r][g] = "ok"]
        /\ UNCHANGED <<task, step, seen>>
    BY <1>9 DEF AllTasksDone
  <2>2. \A k \in Steps : k < step[r][g]
    BY <1>0, <2>1, EngineAssumption DEF Steps
  <2>3. \A k \in Steps : task[<<g, k>>] = "Completed"
    BY <1>4, <2>1, <2>2 DEF Passed
  <2> QED
    BY <1>5, <2>1, <2>3
\* A worker that ends without success, whatever it did to its current task.
<1>10. ASSUME NEW pc \in {"err", "fatal"}, wpc' = [wpc EXCEPT ![r][g] = pc], UNCHANGED <<step, seen>>,
              wpc[r][g] # "none",
              \A h \in Goals \ {g}, k \in Steps : task'[<<h, k>>] = task[<<h, k>>]
       PROVE  TasksInv'
  <2>1. wpc'[r][g] \in {"err", "fatal"}
    BY <1>0, <1>10
  <2>2. \A k \in Steps : ~Passed(r, g, k)'
    BY <2>1 DEF Passed
  <2> QED
    BY <1>5, <1>10, <2>2
<1>11. CASE StopCancelled(r, g) \/ LoseWorker(r, g)
    BY <1>10, <1>11 DEF StopCancelled, LoseWorker
<1>12. ASSUME NEW t \in Tasks, NEW s, t = <<g, step[r][g]>>, task' = [task EXCEPT ![t] = s]
       PROVE  /\ \A h \in Goals \ {g}, k \in Steps : task'[<<h, k>>] = task[<<h, k>>]
              /\ \A k \in Steps : k # step[r][g] => task'[<<g, k>>] = task[<<g, k>>]
              /\ task'[<<g, step[r][g]>>] = s
    BY <1>0, <1>1, <1>12
<1>13. ASSUME NEW t \in Tasks, DenyTask(r, g, t) PROVE TasksInv'
    BY <1>10, <1>12, <1>13 DEF DenyTask, Due
<1>14. ASSUME NEW t \in Tasks, UnparkCancelled(r, g, t) PROVE TasksInv'
    BY <1>10, <1>12, <1>14 DEF UnparkCancelled
<1>15. ASSUME NEW t \in Tasks, ToolFails(r, g, t) PROVE TasksInv'
    BY <1>10, <1>12, <1>15 DEF ToolFails
\* A worker that goes on with the task it is at, which it does not take to be completed.
<1>16. ASSUME NEW pc \in {"requested", "parked", "tool"}, wpc' = [wpc EXCEPT ![r][g] = pc],
              UNCHANGED <<step, seen>>, wpc[r][g] \in {"task", "requested", "parked"},
              \A h \in Goals \ {g}, k \in Steps : task'[<<h, k>>] = task[<<h, k>>],
              pc \in {"requested", "parked"} => seen[r][g][step[r][g]] # "Completed",
              \A k \in Steps : Passed(r, g, k) => task'[<<g, k>>] = task[<<g, k>>]
       PROVE  TasksInv'
  <2>1. wpc'[r][g] = pc
    BY <1>0, <1>16
  <2>2. \A k \in Steps : Passed(r, g, k)' => Passed(r, g, k)
    BY <1>16, <2>1 DEF Passed
  <2> QED
    BY <1>4, <1>5, <1>16, <2>2
\* Writing the row of a task it does not take to be completed changes no other.
<1>17. ASSUME NEW t \in Tasks, NEW s, t = <<g, step[r][g]>>, task' = [task EXCEPT ![t] = s],
              wpc[r][g] \in {"task", "requested", "parked", "tool"},
              seen[r][g][step[r][g]] # "Completed"
       PROVE  /\ \A h \in Goals \ {g}, k \in Steps : task'[<<h, k>>] = task[<<h, k>>]
              /\ \A k \in Steps : Passed(r, g, k) => task'[<<g, k>>] = task[<<g, k>>]
  <2>1. \A k \in Steps : Passed(r, g, k) => k # step[r][g]
    BY <1>0, <1>17, EngineAssumption DEF Passed, Steps
  <2> QED
    BY <1>12, <1>17, <2>1
<1>18. ASSUME NEW t \in Tasks, RequestApproval(r, g, t) PROVE TasksInv'
    BY <1>16, <1>17, <1>18 DEF RequestApproval, Due
<1>19. ASSUME NEW t \in Tasks, Park(r, g, t) PROVE TasksInv'
  <2>1. seen[r][g][step[r][g]] # "Completed"
    BY <1>19 DEF Park, TasksInv, Waits
  <2> QED
    BY <1>16, <1>19, <2>1 DEF Park
<1>20. ASSUME NEW t \in Tasks, BeginTask(r, g, t) \/ Unpark(r, g, t) PROVE TasksInv'
  <2>1. /\ wpc[r][g] \in {"task", "parked"} /\ t = <<g, step[r][g]>> /\ UNCHANGED <<step, seen>>
        /\ seen[r][g][step[r][g]] # "Completed"
    BY <1>20 DEF BeginTask, Unpark, Due, Begin, TasksInv, Waits
  <2>2. \/ wpc' = [wpc EXCEPT ![r][g] = "tool"] /\ task' = [task EXCEPT ![t] = "Running"]
        \/ wpc' = [wpc EXCEPT ![r][g] = "err"] /\ task' = [task EXCEPT ![t] = "Failed"]
    BY <1>20 DEF BeginTask, Unpark, Begin
  <2>3. \A h \in Goals \ {g}, k \in Steps : task'[<<h, k>>] = task[<<h, k>>]
    BY <1>12, <2>1, <2>2
  <2>4. \A k \in Steps : Passed(r, g, k) => task'[<<g, k>>] = task[<<g, k>>]
    BY <1>17, <2>1, <2>2
  <2> QED
    BY <1>10, <1>16, <2>1, <2>2, <2>3, <2>4
<1>21. CASE SkipTask(r, g)
  <2>1. /\ wpc[r][g] = "task" /\ seen[r][g][step[r][g]] = "Completed" /\ step[r][g] \in Steps
        /\ UNCHANGED <<task, wpc, seen>> /\ step' = [step EXCEPT ![r][g] = step[r][g] + 1]
    BY <1>21 DEF SkipTask
  <2>2. /\ wpc'[r][g] = "task" /\ step'[r][g] = step[r][g] + 1
        /\ \A q \in Runs, h \in Goals : (q # r \/ h # g) => step'[q][h] = step[q][h]
    BY <1>0, <2>1
  <2>3. \A k \in Steps : k < step[r][g] + 1 => k < step[r][g] \/ k = step[r][g]
    BY <2>1, EngineAssumption DEF Steps
  <2>4. \A k \in Steps : Passed(r, g, k)' => Passed(r, g, k)
    BY <2>1, <2>2, <2>3 DEF Passed
  <2>5. \A k \in Steps : Passed(r, g, k)' => task'[<<g, k>>] = "Completed"
    BY <1>4, <2>1, <2>4
  <2> QED
    BY <1>3, <2>1, <2>2, <2>5 DEF Waits
<1>22. ASSUME NEW t \in Tasks, ToolSucceeds(r, g, t) PROVE TasksInv'
  <2>1. /\ wpc[r][g] = "tool" /\ t = <<g, step[r][g]>> /\ task' = [task EXCEPT ![t] = "Completed"]
        /\ step' = [step EXCEPT ![r][g] = step[r][g] + 1]
        /\ wpc' = [wpc EXCEPT ![r][g] = "task"] /\ UNCHANGED seen
    BY <1>22 DEF ToolSucceeds
  <2>2. step[r][g] \in Steps
    BY <2>1 DEF Tasks
  <2>3. /\ wpc'[r][g] = "task" /\ step'[r][g] = step[r][g] + 1
        /\ \A q \in Runs, h \in Goals : (q # r \/ h # g) =>
                step'[q][h] = step[q][h] /\ wpc'[q][h] = wpc[q][h]
    BY <1>0, <2>1
  <2>4. /\ \A h \in Goals \ {g}, k \in Steps : task'[<<h, k>>] = task[<<h, k>>]
        /\ \A k \in Steps : k # step[r][g] => task'[<<g, k>>] = task[<<g, k>>]
        /\ task'[<<g, step[r][g]>>] = "Completed"
    BY <1>12, <2>1
  <2>5. \A k \in Steps : k < step[r][g] + 1 => k < step[r][g] \/ k = step[r][g]
    BY <2>2, EngineAssumption DEF Steps
  <2>6. \A k \in Steps : Passed(r, g, k)' => Passed(r, g, k) \/ k = step[r][g]
    BY <2>1, <2>3, <2>5 DEF Passed
  <2>7. \A k \in Steps : Passed(r, g, k)' => task'[<<g, k>>] = "Completed"
    BY <1>4, <2>4, <2>6
  <2> QED
    BY <1>3, <2>1, <2>3, <2>4, <2>7 DEF Waits
<1> QED
    BY <1>6, <1>7, <1>8, <1>9, <1>11, <1>13, <1>14, <1>15, <1>18, <1>19, <1>20, <1>21, <1>22
       DEF WorkerStep, ToolStep

\* CompletedGoalIsWhole: when the service calls run_mission again only after the
\* last call has returned, a goal row is Completed only when each of its task
\* rows is, in every state in which no run has begun after a cancelled one. (A
\* cancelled run leaves its workers behind, and one of them writes over a task
\* that a worker of a later run has completed.)
THEOREM CompletedGoalsAreWhole ==
    ASSUME Exclusive PROVE Spec => [](CancelledLast => CompletedGoalIsWhole)
<1> DEFINE Inv == RunsInOrder /\ (CancelledLast => TasksInv)
<1>1. Init => Inv
  <2> SUFFICES ASSUME Init PROVE RunsInOrder /\ TasksInv
    OBVIOUS
  <2>1. (\A r \in Runs, g \in Goals : wpc[r][g] = "none") /\ (\A g \in Goals : goal[g] = "Pending")
    BY DEF Init
  <2>2. RunsInOrder
    BY DEF Init, RunsInOrder
  <2>3. \A r \in Runs, g \in Goals : ~Waits(r, g) /\ \A k \in Steps : ~Passed(r, g, k)
    BY <2>1 DEF Passed, Waits
  <2>4. CompletedGoalIsWhole
    BY <2>1 DEF CompletedGoalIsWhole
  <2> QED
    BY <2>1, <2>2, <2>3, <2>4 DEF TasksInv
<1>2. IInv /\ Inv /\ [Next]_vars => Inv'
  <2> SUFFICES ASSUME IInv, Inv, [Next]_vars PROVE Inv'
    OBVIOUS
  <2>0. TypeOK /\ HandleInv /\ RowInv
    BY DEF IInv
  <2>1. RunsInOrder'
    BY <2>0, OrderStep
  <2>2. ASSUME CancelledLast' PROVE TasksInv'
    <3>1. CancelledLast /\ TasksInv
        BY <2>0, <2>2, CancelledLastBefore
    <3>2. CASE Environment \/ UNCHANGED vars
      <4>1. UNCHANGED <<goal, task, wpc, step, seen>>
          BY <3>2 DEF Environment, Cancel, Replan, Conclude, Extend, Approve, vars, dbVars, workerVars
      <4> QED
          BY <3>1, <4>1 DEF TasksInv, Waits, Passed, CompletedGoalIsWhole
    <3>3. ASSUME NEW r \in Runs, CallStep(r) PROVE TasksInv'
        BY <2>0, <3>1, <3>3, WalkerTasks
    <3>4. ASSUME NEW r \in Runs, NEW g \in Goals, WorkerStep(r, g) \/ ToolStep(r, g) \/ LoseWorker(r, g)
          PROVE  TasksInv'
        BY <2>0, <3>1, <3>4, WorkerTasks
    <3> QED
        BY <3>2, <3>3, <3>4 DEF Next, CallStep
  <2> QED
    BY <2>1, <2>2
<1>3. IInv /\ Inv => (CancelledLast => CompletedGoalIsWhole)
    BY DEF TasksInv
<1> QED
    BY <1>1, <1>2, <1>3, WalkerInvariant, PTL DEF Spec

=============================================================================
