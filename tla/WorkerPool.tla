------------------------------ MODULE WorkerPool ------------------------------
(***************************************************************************)
(* The worker pool over the mission queue (crates/forge-runtime/src/       *)
(* worker_pool.rs): workers that claim a row, run its mission through      *)
(* plan_and_run_sync and finish the row, a heartbeat task per claimed row, *)
(* and the janitor.                                                        *)
(*                                                                         *)
(* Of a mission the pool sees its status.  Planning and execution are each *)
(* one step here; MissionService and ExecutionEngine model what happens    *)
(* inside.  The heartbeat is a task of its own: it is aborted by           *)
(* run_claimed before finish, dies with the process, ends at its first     *)
(* error, and survives a panic of the worker that spawned it.              *)
(***************************************************************************)
EXTENDS MissionQueue, ForgeDomain

CONSTANTS
    Workers,
    MaxFaults,      \* bound: failed heartbeats and finishes, panics, stranded missions
    MaxRestarts,    \* bound: crashes of the process
    Timely          \* the heartbeat interval is below the stale threshold

ASSUME PoolAssumption ==
    /\ MaxFaults \in Nat /\ MaxRestarts \in Nat
    /\ Timely \in BOOLEAN

VARIABLES
    mission,        \* status of a mission
    wpc,            \* where a worker is
    row,            \* the row it claimed
    outcome,        \* what it will report
    beat,           \* the row its heartbeat task refreshes, or NoRow
    faults, restarts

workVars == <<mission, wpc, row, outcome, beat>>
vars == <<queueVars, workVars, faults, restarts>>

NoRow == 0

\* A worker inside run_claimed, before finish.
Executing == {"claimed", "draft", "planning", "running"}
WorkerPC == Executing \cup {"idle", "report", "dead"}

PoolInit ==
    /\ Init
    /\ mission = [m \in Missions |-> "Draft"]
    /\ wpc = [w \in Workers |-> "idle"]
    /\ row = [w \in Workers |-> NoRow]
    /\ outcome = [w \in Workers |-> TRUE]
    /\ beat = [w \in Workers |-> NoRow]
    /\ faults = 0 /\ restarts = 0

MissionOf(w) == of[row[w]]

-----------------------------------------------------------------------------
(* A worker *)

Take(w) ==
    /\ wpc[w] = "idle"
    /\ \E i \in RowIds :
         /\ Claim(i)
         /\ row' = [row EXCEPT ![w] = i]
         /\ beat' = [beat EXCEPT ![w] = i]
    /\ wpc' = [wpc EXCEPT ![w] = "claimed"]
    /\ UNCHANGED <<mission, outcome, faults, restarts>>

GoTo(w, pc) == wpc' = [wpc EXCEPT ![w] = pc]

Return(w) ==
    /\ GoTo(w, "idle") /\ beat' = [beat EXCEPT ![w] = NoRow]
    /\ row' = [row EXCEPT ![w] = NoRow] /\ outcome' = [outcome EXCEPT ![w] = TRUE]

\* plan_only reads the mission and checks that it can be planned.
CheckMission(w) ==
    /\ wpc[w] = "claimed"
    /\ IF CanTransition(mission[MissionOf(w)], "Planning")
       THEN GoTo(w, "draft") /\ UNCHANGED outcome
       ELSE GoTo(w, "report") /\ outcome' = [outcome EXCEPT ![w] = FALSE]
    /\ UNCHANGED <<queueVars, mission, row, beat, faults, restarts>>

\* ... and writes Planning from what it read.
MarkPlanning(w) ==
    /\ wpc[w] = "draft"
    /\ mission' = [mission EXCEPT ![MissionOf(w)] = "Planning"]
    /\ GoTo(w, "planning")
    /\ UNCHANGED <<queueVars, outcome, row, beat, faults, restarts>>

\* Mutant: the error of the planner is returned and nothing else.
PlanMissionOrNot(w) ==
    /\ wpc[w] = "planning"
    /\ \/ /\ mission' = [mission EXCEPT ![MissionOf(w)] = "Running"]
          /\ GoTo(w, "running") /\ UNCHANGED outcome
       \/ /\ GoTo(w, "report") /\ outcome' = [outcome EXCEPT ![w] = FALSE]
          /\ UNCHANGED mission
    /\ UNCHANGED <<queueVars, row, beat, faults, restarts>>

\* The planner's answer: goals and a mission that runs, or Failed.
PlanMission(w) ==
    /\ wpc[w] = "planning"
    /\ \/ /\ mission' = [mission EXCEPT ![MissionOf(w)] = "Running"]
          /\ GoTo(w, "running") /\ UNCHANGED outcome
       \/ /\ mission' = [mission EXCEPT ![MissionOf(w)] = "Failed"]
          /\ GoTo(w, "report") /\ outcome' = [outcome EXCEPT ![w] = FALSE]
    /\ UNCHANGED <<queueVars, row, beat, faults, restarts>>

\* Mutant: plan_and_run in place of plan_and_run_sync; execution is detached.
RunDetached(w) ==
    /\ wpc[w] = "running"
    /\ outcome' = [outcome EXCEPT ![w] = TRUE]
    /\ GoTo(w, "report")
    /\ UNCHANGED <<queueVars, mission, row, beat, faults, restarts>>

\* execute_and_reflect, to a verdict.
RunMission(w) ==
    /\ wpc[w] = "running"
    /\ \E verdict \in MissionTerminal :
         mission' = [mission EXCEPT ![MissionOf(w)] =
                        IF CanTransition(@, verdict) THEN verdict ELSE @]
    /\ outcome' = [outcome EXCEPT ![w] = TRUE]
    /\ GoTo(w, "report")
    /\ UNCHANGED <<queueVars, row, beat, faults, restarts>>

\* A read or write fails and the mission stays as it is.  An error of plan_only
\* is reported; one of the replan loop, or a loop that ends without a verdict,
\* is logged and reported as success.
StrandMission(w) ==
    /\ wpc[w] \in Executing /\ faults < MaxFaults
    /\ outcome' = [outcome EXCEPT ![w] = wpc[w] = "running"]
    /\ GoTo(w, "report")
    /\ faults' = faults + 1
    /\ UNCHANGED <<queueVars, mission, row, beat, restarts>>

\* hb_handle.abort(), then finish; run_claimed returns.
Report(w) ==
    /\ wpc[w] = "report"
    /\ Finish(row[w], outcome[w])
    /\ Return(w)
    /\ UNCHANGED <<mission, faults, restarts>>

\* finish fails: the error is logged and the row stays claimed.
ReportLost(w) ==
    /\ wpc[w] = "report" /\ faults < MaxFaults
    /\ Return(w)
    /\ faults' = faults + 1
    /\ UNCHANGED <<queueVars, mission, restarts>>

\* The worker's task panics: nobody aborts its heartbeat, nobody restarts it.
Panic(w) ==
    /\ wpc[w] \in Executing /\ faults < MaxFaults
    /\ GoTo(w, "dead")
    /\ faults' = faults + 1
    /\ UNCHANGED <<queueVars, mission, outcome, row, beat, restarts>>

-----------------------------------------------------------------------------
(* Heartbeats, the janitor, the process *)

Beat(w) ==
    /\ beat[w] # NoRow
    /\ Heartbeat(beat[w])
    /\ UNCHANGED <<workVars, faults, restarts>>

\* The heartbeat task stops at its first error; the worker does not notice.
LoseBeat(w) ==
    /\ beat[w] # NoRow /\ faults < MaxFaults
    /\ beat' = [beat EXCEPT ![w] = NoRow]
    /\ faults' = faults + 1
    /\ UNCHANGED <<queueVars, mission, wpc, row, outcome, restarts>>

\* A row ages when no task refreshes it in time.
Age(i) ==
    /\ Timely => \A w \in Workers : beat[w] # i
    /\ GrowOld(i)
    /\ UNCHANGED <<workVars, faults, restarts>>

Janitor ==
    /\ RequeueStale
    /\ UNCHANGED <<workVars, faults, restarts>>

\* The process ends and is started again: only the tables survive.
Restart ==
    /\ restarts < MaxRestarts
    /\ restarts' = restarts + 1
    /\ wpc' = [w \in Workers |-> "idle"]
    /\ row' = [w \in Workers |-> NoRow]
    /\ outcome' = [w \in Workers |-> TRUE]
    /\ beat' = [w \in Workers |-> NoRow]
    /\ want' = [c \in Callers |-> NoMission]
    /\ UNCHANGED <<count, of, status, age, crowd, mission, faults>>

\* enqueue, of any mission at any time.
Enqueue(c) ==
    /\ \/ \E m \in Missions : LookUp(c, m)
       \/ Insert(c)
    /\ UNCHANGED <<workVars, faults, restarts>>

-----------------------------------------------------------------------------

WorkerStep(w) ==
    \/ Take(w) \/ CheckMission(w) \/ MarkPlanning(w)
    \/ PlanMission(w) \/ RunMission(w) \/ Report(w)

Next ==
    \/ \E w \in Workers : WorkerStep(w) \/ StrandMission(w) \/ ReportLost(w)
                         \/ Panic(w) \/ Beat(w) \/ LoseBeat(w)
    \/ \E i \in RowIds : Age(i)
    \/ \E c \in Callers : Enqueue(c)
    \/ Janitor \/ Restart

Spec == PoolInit /\ [][Next]_vars

\* Live workers run, the janitor's timer fires, unrefreshed rows age.
FairSpec ==
    /\ Spec
    /\ \A w \in Workers : WF_vars(WorkerStep(w))
    /\ \A i \in RowIds : WF_vars(Age(i))
    /\ WF_vars(Janitor)

-----------------------------------------------------------------------------

\* Every variable stays in its type; a worker that works has a row.
TypeOK ==
    /\ QueueTypeOK
    /\ mission \in [Missions -> MissionStatuses]
    /\ wpc \in [Workers -> WorkerPC]
    /\ row \in [Workers -> RowIds \cup {NoRow}]
    /\ outcome \in [Workers -> BOOLEAN]
    /\ beat \in [Workers -> RowIds \cup {NoRow}]
    /\ \A w \in Workers : wpc[w] # "idle" => row[w] \in Present
    /\ faults \in 0 .. MaxFaults
    /\ restarts \in 0 .. MaxRestarts

\* Nothing has failed and the process has not been restarted.
Undisturbed == faults = 0 /\ restarts = 0

\* No two enqueues of a mission have overlapped.
EnqueuedAlone(m) == crowd[m] <= 1

\* A mission is planned and executed by one worker at a time, across a restart
\* too, unless enqueues of it have overlapped, or a heartbeat has failed under a
\* worker that goes on.
OneWorkerPerMission ==
    faults = 0 => \A v, w \in Workers :
        /\ wpc[v] \in {"planning", "running"} /\ wpc[w] \in {"planning", "running"}
        /\ MissionOf(v) = MissionOf(w) /\ EnqueuedAlone(MissionOf(v))
        => v = w

\* "The queue row stays Claimed until the mission is actually terminal", as
\* long as nothing goes wrong.
FinishedMeansEnded ==
    \A i \in Present : ~IsActive(i) /\ Undisturbed /\ EnqueuedAlone(of[i]) => mission[of[i]] \in MissionTerminal

\* Every row that is queued is eventually finished, across a restart too; a
\* fault may keep it claimed.
RowsFinish ==
    \A i \in RowIds : (i \in Present /\ status[i] = "queued")
                        ~> (status[i] \in {"done", "failed"} \/ faults > 0)

\* A mission that has an active row ends, as long as nothing goes wrong.
QueuedMissionsEnd ==
    \A m \in Missions : (ActiveRows(m) # {}) ~> (mission[m] \in MissionTerminal \/ ~Undisturbed)

-----------------------------------------------------------------------------
(* What the documentation says, and the code does not do *)

\* "Orphaned rows are requeued so a crash can't lose a mission": a mission that
\* has an active row ends, whether or not the process is restarted.
CrashLosesNoMission ==
    \A m \in Missions : (ActiveRows(m) # {}) ~> mission[m] \in MissionTerminal

\* "In case a worker panics mid-mission after enqueueing and before finish":
\* the claim of a dead worker does not last.
DeadClaimsRequeued ==
    \A w \in Workers, i \in RowIds :
        (wpc[w] = "dead" /\ row[w] = i /\ status[i] = "claimed") ~> status[i] # "claimed"

=============================================================================
