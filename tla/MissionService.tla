---------------------------- MODULE MissionService ----------------------------
(***************************************************************************)
(* crates/forge-mission: one mission from Draft to its verdict.            *)
(*                                                                         *)
(* A CALL is one task going through plan_and_run or extend: it plans the   *)
(* mission, runs it wave by wave with a replan after each, drains it and   *)
(* passes a verdict.  It writes the mission's status from a copy it read   *)
(* earlier and does not read again, so each write is a step of its own.    *)
(* A wave (ExecutionEngine!run_mission) is its start, its end, where it    *)
(* looks at its token and draws its verdict, the write of the verdict, and *)
(* its return, which unregisters the token.  Of the goals only their       *)
(* number in each state matters here.  A goal is "stuck" when what it      *)
(* depends on can never complete: the planner's output is not checked for  *)
(* cycles, nor a replan's for unknown ids.                                 *)
(***************************************************************************)
EXTENDS Naturals, ForgeDomain

CONSTANTS
    Callers,        \* tasks that may go through plan_and_run or extend
    ReplanCap,      \* REPLAN_CAP
    GoalCap,        \* TOTAL_GOAL_CAP
    PlanSize,       \* bound: goals of a plan or of a replan's delta
    Knots,          \* the planner may return stuck goals
    MaxCalls,       \* bound: calls
    MaxFaults,      \* bound: failed reads, writes and waves
    MaxRestarts     \* bound: crashes of the process

ASSUME ServiceAssumption ==
    /\ ReplanCap \in Nat \ {0} /\ GoalCap \in Nat
    /\ PlanSize \in Nat \ {0} /\ Knots \in BOOLEAN
    /\ MaxCalls \in Nat /\ MaxFaults \in Nat /\ MaxRestarts \in Nat

NoCaller == "none"

ASSUME CallerAssumption == NoCaller \notin Callers

VARIABLES
    status,         \* the mission row's status
    goals,          \* how many of its goal rows are in each state
    pc,             \* where a call is
    pass,           \* `iteration' of a call's replan loop
    token,          \* whose wave's cancellation token is registered
    cancelled,      \* the calls whose wave's token is cancelled
    asked,          \* the user has asked for the mission to be cancelled
    next,           \* the verdict a call's wave has drawn, until the wave returns
    calls, faults, restarts

bounds == <<calls, faults, restarts>>
vars == <<status, goals, pc, pass, token, cancelled, asked, next, bounds>>

GoalStates == {"todo", "stuck", "done", "failed", "skipped"}

Planning == {"extending", "entering", "checked", "planning", "persisted", "ready"}
Looping  == {"loop", "wave", "ending", "after", "replan", "drain", "draining", "drained", "verdict"}
PC == Planning \cup Looping \cup {"idle", "reflect"}
Drawn == {"none", "Cancelled", "Completed", "written"}

Total == goals["todo"] + goals["stuck"] + goals["done"] + goals["failed"] + goals["skipped"]

Init ==
    /\ status = "Draft"
    /\ goals = [s \in GoalStates |-> 0]
    /\ pc = [c \in Callers |-> "idle"]
    /\ pass = [c \in Callers |-> 1]
    /\ token = NoCaller
    /\ cancelled = {}
    /\ asked = FALSE
    /\ next = [c \in Callers |-> "none"]
    /\ calls = 0 /\ faults = 0 /\ restarts = 0

GoTo(c, to) == pc' = [pc EXCEPT ![c] = to]

\* New goal rows: n of them, k of which can never start.
AddGoals(n, k) ==
    /\ k \in IF Knots THEN 0 .. n ELSE {0}
    /\ goals' = [goals EXCEPT !["todo"] = @ + n - k, !["stuck"] = @ + k]

-----------------------------------------------------------------------------
(* plan_and_run and extend, up to Running *)

PlanAndRun(c) ==
    /\ pc[c] = "idle" /\ calls < MaxCalls
    /\ calls' = calls + 1
    /\ GoTo(c, "entering")
    /\ UNCHANGED <<status, goals, pass, token, cancelled, asked, next, faults, restarts>>

\* extend: refused unless the mission has ended.
Extend(c) ==
    /\ pc[c] = "idle" /\ calls < MaxCalls
    /\ calls' = calls + 1
    /\ GoTo(c, IF status \in MissionTerminal THEN "extending" ELSE "idle")
    /\ UNCHANGED <<status, goals, pass, token, cancelled, asked, next, faults, restarts>>

Redraft(c) ==
    /\ pc[c] = "extending"
    /\ status' = "Draft" /\ asked' = FALSE
    /\ GoTo(c, "entering")
    /\ UNCHANGED <<goals, pass, token, cancelled, next, bounds>>

\* Mutant: the mission is planned whatever its status is.
CheckNothing(c) ==
    /\ pc[c] = "entering"
    /\ GoTo(c, "checked")
    /\ UNCHANGED <<status, goals, pass, token, cancelled, asked, next, bounds>>

\* plan_only reads the mission and refuses it unless it can be planned.
Check(c) ==
    /\ pc[c] = "entering"
    /\ GoTo(c, IF CanTransition(status, "Planning") THEN "checked" ELSE "idle")
    /\ UNCHANGED <<status, goals, pass, token, cancelled, asked, next, bounds>>

MarkPlanning(c) ==
    /\ pc[c] = "checked"
    /\ status' = "Planning"
    /\ GoTo(c, "planning")
    /\ UNCHANGED <<goals, pass, token, cancelled, asked, next, bounds>>

PlanFails(c) ==
    /\ pc[c] = "planning"
    /\ status' = "Failed"
    /\ GoTo(c, "idle")
    /\ UNCHANGED <<goals, pass, token, cancelled, asked, next, bounds>>

\* The initial plan's size is not held against the goal cap.
PlanArrives(c) ==
    /\ pc[c] = "planning"
    /\ \E n \in 1 .. PlanSize : \E k \in 0 .. n : AddGoals(n, k)
    /\ GoTo(c, "persisted")
    /\ UNCHANGED <<status, pass, token, cancelled, asked, next, bounds>>

MarkReady(c) ==
    /\ pc[c] = "persisted"
    /\ status' = "Ready"
    /\ GoTo(c, "ready")
    /\ UNCHANGED <<goals, pass, token, cancelled, asked, next, bounds>>

MarkRunning(c) ==
    /\ pc[c] = "ready"
    /\ status' = "Running"
    /\ GoTo(c, "loop")
    /\ pass' = [pass EXCEPT ![c] = 1]
    /\ UNCHANGED <<goals, token, cancelled, asked, next, bounds>>

\* A read, an insert or an update fails while planning: the error is returned
\* and the mission stays as it is, with the goals persisted so far.
PlanningError(c) ==
    /\ pc[c] \in Planning /\ faults < MaxFaults
    /\ \/ UNCHANGED goals
       \/ /\ pc[c] = "planning"
          /\ \E n \in 1 .. PlanSize : \E k \in 0 .. n : AddGoals(n, k)
    /\ GoTo(c, "idle")
    /\ faults' = faults + 1
    /\ UNCHANGED <<status, pass, token, cancelled, asked, next, calls, restarts>>

-----------------------------------------------------------------------------
(* run_with_replan_loop *)

\* run_mission registers a fresh token over whatever is there.
StartWave(c) ==
    /\ pc[c] \in {"loop", "drain"}
    /\ token' = c
    /\ cancelled' = cancelled \ {c}
    /\ GoTo(c, IF pc[c] = "loop" THEN "wave" ELSE "draining")
    /\ UNCHANGED <<status, goals, pass, asked, next, bounds>>

\* What a wave does to the goals: it settles open ones, skips below failures only.
WaveProgress ==
    \E done, failed, skipped \in 0 .. goals["todo"], k \in 0 .. goals["stuck"] :
        LET settled == done + failed + skipped IN
        /\ settled <= goals["todo"]
        /\ skipped + k > 0 => goals["failed"] + failed > 0
        /\ goals' = [goals EXCEPT !["todo"] = @ - settled, !["stuck"] = @ - k, !["done"] = @ + done,
                                  !["failed"] = @ + failed, !["skipped"] = @ + skipped + k]

\* A wave that comes to its end uncancelled has settled every goal that can
\* start, or leaves some below a failed one for the next wave.
WaveEffect(c) ==
    /\ WaveProgress
    /\ c \in cancelled \/ goals'["todo"] = 0 \/ goals'["failed"] > 0

AllDone == \A s \in GoalStates \ {"done"} : goals[s] = 0

\* Mutant: the verdict of a wave does not look at the token.
EndWaveUncancelled(c) ==
    /\ pc[c] \in {"wave", "draining"}
    /\ WaveEffect(c)
    /\ next' = [next EXCEPT ![c] = IF AllDone' /\ CanTransition(status, "Completed")
                                   THEN "Completed" ELSE "none"]
    /\ GoTo(c, IF pc[c] = "wave" THEN "ending" ELSE "drained")
    /\ UNCHANGED <<status, pass, token, cancelled, asked, bounds>>

\* Mutant: the verdict of a wave counts only what has failed.
EndWaveUncounted(c) ==
    /\ pc[c] \in {"wave", "draining"}
    /\ WaveEffect(c)
    /\ LET verdict == IF c \in cancelled THEN "Cancelled"
                      ELSE IF goals["failed"]' = 0 THEN "Completed" ELSE "none"
       IN  next' = [next EXCEPT ![c] = IF CanTransition(status, verdict) THEN verdict ELSE "none"]
    /\ GoTo(c, IF pc[c] = "wave" THEN "ending" ELSE "drained")
    /\ UNCHANGED <<status, pass, token, cancelled, asked, bounds>>

\* run_mission ends: it reads the mission, looks at its token for the last time
\* and draws its verdict, if any: Cancelled or Completed.
EndWave(c) ==
    /\ pc[c] \in {"wave", "draining"}
    /\ WaveEffect(c)
    /\ LET verdict == IF c \in cancelled THEN "Cancelled"
                      ELSE IF AllDone' THEN "Completed" ELSE "none"
       IN  next' = [next EXCEPT ![c] = IF CanTransition(status, verdict) THEN verdict ELSE "none"]
    /\ GoTo(c, IF pc[c] = "wave" THEN "ending" ELSE "drained")
    /\ UNCHANGED <<status, pass, token, cancelled, asked, bounds>>

\* The verdict is written; what becomes of the token meanwhile is not looked at.
FlipMission(c) ==
    /\ pc[c] \in {"ending", "drained"}
    /\ next[c] \in {"Cancelled", "Completed"}
    /\ status' = next[c]
    /\ next' = [next EXCEPT ![c] = "written"]
    /\ UNCHANGED <<goals, pc, pass, token, cancelled, asked, bounds>>

\* The status event is out, if there is one: the token goes and run_mission
\* returns.
LeaveWave(c) ==
    /\ pc[c] \in {"ending", "drained"}
    /\ next[c] \in {"none", "written"}
    /\ token' = NoCaller
    /\ next' = [next EXCEPT ![c] = "none"]
    /\ GoTo(c, IF pc[c] = "ending" THEN "after" ELSE "verdict")
    /\ UNCHANGED <<status, goals, pass, cancelled, asked, bounds>>

LookAgain(c) ==
    /\ pc[c] = "after"
    /\ GoTo(c, IF status \in MissionTerminal THEN "reflect" ELSE "replan")
    /\ UNCHANGED <<status, goals, pass, token, cancelled, asked, next, bounds>>

\* Mutant: an empty delta goes round again.
ReplanStopsNever(c) ==
    /\ pc[c] = "replan"
    /\ GoTo(c, "loop")
    /\ UNCHANGED <<status, goals, pass, token, cancelled, asked, next, bounds>>

\* The planner terminates, fails, adds nothing, or would exceed the cap.
ReplanStops(c) ==
    /\ pc[c] = "replan"
    /\ GoTo(c, "drain")
    /\ UNCHANGED <<status, goals, pass, token, cancelled, asked, next, bounds>>

ReplanAdds(c) ==
    /\ pc[c] = "replan"
    /\ \E n \in 1 .. PlanSize : /\ Total + n <= GoalCap
                                /\ \E k \in 0 .. n : AddGoals(n, k)
    /\ IF pass[c] < ReplanCap
       THEN GoTo(c, "loop") /\ pass' = [pass EXCEPT ![c] = @ + 1]
       ELSE GoTo(c, "drain") /\ UNCHANGED pass
    /\ UNCHANGED <<status, token, cancelled, asked, next, bounds>>

\* Mutant: no verdict on failed goals; the executor's business.
VerdictWithoutFailed(c) ==
    /\ pc[c] = "verdict"
    /\ status' = IF status = "Running" /\ goals["failed"] = 0 /\ goals["todo"] + goals["stuck"] = 0
                 THEN "Completed" ELSE status
    /\ GoTo(c, "reflect")
    /\ UNCHANGED <<goals, pass, token, cancelled, asked, next, bounds>>

\* The loop is over: a mission that still runs has failed if a goal has, is
\* completed if every goal is done or skipped, and is left alone otherwise.
Verdict(c) ==
    /\ pc[c] = "verdict"
    /\ status' = IF status # "Running" THEN status
                 ELSE IF goals["failed"] > 0 THEN "Failed"
                 ELSE IF goals["todo"] + goals["stuck"] = 0 THEN "Completed" ELSE status
    /\ GoTo(c, "reflect")
    /\ UNCHANGED <<goals, pass, token, cancelled, asked, next, bounds>>

\* A wave, or a read or write of the loop, fails half-way: the error is logged.
\* The token of a failed wave stays registered; a wave that has drawn no verdict
\* has nothing left that can fail.
LoopError(c) ==
    /\ pc[c] \in Looping \ {"loop", "drain"} /\ faults < MaxFaults
    /\ pc[c] \in {"ending", "drained"} => next[c] # "none"
    /\ \/ UNCHANGED goals
       \/ pc[c] \in {"wave", "draining"} /\ WaveProgress
       \/ /\ pc[c] = "replan"
          /\ \E n \in 1 .. PlanSize : /\ Total + n <= GoalCap
                                      /\ \E k \in 0 .. n : AddGoals(n, k)
    /\ GoTo(c, "reflect")
    /\ next' = [next EXCEPT ![c] = "none"]
    /\ faults' = faults + 1
    /\ UNCHANGED <<status, pass, token, cancelled, asked, calls, restarts>>

\* The cost summary and the reflection leave the mission alone.
Reflect(c) ==
    /\ pc[c] = "reflect"
    /\ GoTo(c, "idle")
    /\ UNCHANGED <<status, goals, pass, token, cancelled, asked, next, bounds>>

-----------------------------------------------------------------------------
(* The user and the process *)

\* cancel: the event goes out, then the registered token, if any, is flipped.
\* It is accepted in every status; only a mission in flight can be cancelled.
Cancel ==
    /\ asked' = (asked \/ status \in {"Planning", "Ready", "Running"})
    /\ cancelled' = IF token = NoCaller THEN cancelled ELSE cancelled \cup {token}
    /\ UNCHANGED <<status, goals, pc, pass, token, next, bounds>>

\* The process ends and is started again: only the rows survive.
Restart ==
    /\ restarts < MaxRestarts
    /\ restarts' = restarts + 1
    /\ pc' = [c \in Callers |-> "idle"]
    /\ token' = NoCaller
    /\ cancelled' = {}
    /\ next' = [c \in Callers |-> "none"]
    /\ UNCHANGED <<status, goals, pass, asked, calls, faults>>

-----------------------------------------------------------------------------

CallStep(c) ==
    \/ Redraft(c) \/ Check(c) \/ MarkPlanning(c) \/ PlanFails(c) \/ PlanArrives(c)
    \/ MarkReady(c) \/ MarkRunning(c)
    \/ StartWave(c) \/ EndWave(c) \/ FlipMission(c) \/ LeaveWave(c)
    \/ LookAgain(c) \/ ReplanStops(c) \/ ReplanAdds(c)
    \/ Verdict(c) \/ Reflect(c)

Next ==
    \/ \E c \in Callers : \/ PlanAndRun(c) \/ Extend(c) \/ CallStep(c)
                          \/ PlanningError(c) \/ LoopError(c)
    \/ Cancel \/ Restart

Spec == Init /\ [][Next]_vars

\* Calls in progress are polled; planner and waves return.
FairSpec == Spec /\ \A c \in Callers : WF_vars(CallStep(c))

-----------------------------------------------------------------------------
(* Properties *)

\* Every variable stays in its type; a call replans at most ReplanCap times.
TypeOK ==
    /\ status \in MissionStatuses
    /\ goals \in [GoalStates -> Nat]
    /\ pc \in [Callers -> PC]
    /\ pass \in [Callers -> 1 .. ReplanCap]
    /\ token \in Callers \cup {NoCaller}
    /\ cancelled \subseteq Callers
    /\ asked \in BOOLEAN
    /\ next \in [Callers -> Drawn]
    /\ calls \in 0 .. MaxCalls
    /\ faults \in 0 .. MaxFaults
    /\ restarts \in 0 .. MaxRestarts

\* Although each write of the status is made from a copy read earlier, the
\* status moves as MissionStatus::can_transition allows.
StatusMovesAreLegal ==
    [][status' # status => CanTransition(status, status')]_vars

\* A Completed mission has no goal that is open, failed or skipped, whichever
\* of the engine and the replan loop passed the verdict, extensions included.
CompletedMeansDone == status = "Completed" => AllDone

\* execute_and_reflect "returns when the mission reaches a terminal state":
\* whoever reflects on a mission reflects on one that has ended, unless a read
\* or write failed or goals are left that can never start.
ReflectsOnTheEnd ==
    \A c \in Callers :
        pc[c] = "reflect" => status \in MissionTerminal \/ goals["stuck"] > 0 \/ faults > 0

\* What a reader of the rows sees of a mission is what MissionRows promises: no
\* goal comes back, none is added once the mission has ended, and the status
\* moves, on copies read earlier, as can_transition and the goals allow.
Rows == INSTANCE MissionRows WITH
    row <- [status |-> status, open |-> goals["todo"] + goals["stuck"],
            failed |-> goals["failed"], closed |-> goals["done"] + goals["skipped"]]
KeepsItsPromise == Rows!Spec

\* A call that has a mission planned or run always comes to its end.
CallsReturn == \A c \in Callers : pc[c] # "idle" ~> pc[c] = "idle"

\* A cancellation that reaches a wave's token before run_mission looks at it for
\* the last time cancels the mission, whatever the goals do meanwhile, unless a
\* write fails or the process ends.  (Later ones: FlippedTokenCancels, below.)
HeardCancelsCancel ==
    \A c \in Callers :
        (c \in cancelled /\ pc[c] \in {"wave", "draining"})
            ~> (status = "Cancelled" \/ faults > 0 \/ restarts > 0)

-----------------------------------------------------------------------------
(* Why the above holds: the parts of the inductive invariant *)

\* With one call at a time, where the call is says what the mission's status is,
\* so that the copy the call writes from is as good as the row.
StatusFollowsCall ==
    \A c \in Callers :
        /\ pc[c] = "extending" => status \in MissionTerminal
        /\ pc[c] = "checked" => status = "Draft"
        /\ pc[c] \in {"planning", "persisted"} => status = "Planning"
        /\ pc[c] = "ready" => status = "Ready"
        /\ pc[c] \in {"loop", "wave", "replan", "drain", "draining"} => status = "Running"
        /\ pc[c] \in {"ending", "drained", "after", "verdict"}
               => status \in {"Running"} \cup MissionTerminal

\* A verdict that is drawn and not yet written is one on a mission that runs; a
\* written one has ended the mission.
VerdictIsPending ==
    \A c \in Callers :
        /\ pc[c] \notin {"ending", "drained"} => next[c] = "none"
        /\ next[c] \in {"Cancelled", "Completed"} => status = "Running"
        /\ next[c] = "written" => status \in MissionTerminal

\* Completed is drawn when every goal is done, and no goal row changes before it
\* is written.
VerdictFits == \A c \in Callers : next[c] = "Completed" => AllDone

\* Goals are skipped below failed ones only.
SkipsBelowFailures == goals["skipped"] > 0 => goals["failed"] > 0

\* The final drain leaves goals open that could start only if it was cancelled
\* or they are below a failure.
DrainSettles ==
    \A c \in Callers :
        pc[c] \in {"drained", "verdict"} =>
            \/ status \in MissionTerminal \/ next[c] = "Cancelled"
            \/ goals["todo"] = 0 \/ goals["failed"] > 0

-----------------------------------------------------------------------------
(* What the documentation says, and the code does not do *)

\* "Mission must be terminal": when an extension sends the mission back to
\* Draft, no other call is still taking it through its replan loop.
ExtensionStartsAlone ==
    status = "Draft" => \A c \in Callers : pc[c] \notin Looping \ {"after"}

\* "Hard ceiling on total goals per mission".
GoalCeiling == Total <= GoalCap

\* "running --> cancelled : mission_cancel_requested": whenever cancel finds the
\* token of a wave in the registry, the mission is cancelled.  Between the wave's
\* last look at the token and its removal it is not.
FlippedTokenCancels ==
    \A c \in Callers :
        (token = c /\ c \in cancelled /\ pc[c] \in Looping)
            ~> (status = "Cancelled" \/ faults > 0 \/ restarts > 0)

\* "running --> cancelled : mission_cancel_requested".
RequestedCancelsCancel ==
    (asked /\ status \in {"Ready", "Running"}) ~> status = "Cancelled"

\* "on restart: rehydrate in-flight missions": a mission that is Planning, Ready
\* or Running comes to an end.
InFlightMissionsEnd ==
    status \in {"Planning", "Ready", "Running"} ~> status \in MissionTerminal

=============================================================================
