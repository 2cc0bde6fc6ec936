---------------------------- MODULE ServiceProofs ----------------------------
(***************************************************************************)
(* Theorems about MissionService, for every replan cap, goal cap, size of  *)
(* plan and number of calls, faults and restarts.  Those about the status  *)
(* assume that one call at a time goes through plan_and_run or extend: two *)
(* calls at once do not keep to it (MissionService!ExtensionStartsAlone).   *)
(***************************************************************************)
EXTENDS MissionService, TLAPS

USE ServiceAssumption, CallerAssumption

SingleCaller == \A c, d \in Callers : c = d

-----------------------------------------------------------------------------
(* Type correctness *)

\* Goal rows are only ever added.
LEMMA AddGoalsType ==
    ASSUME goals \in [GoalStates -> Nat], NEW n \in Nat, NEW k \in 0 .. n, AddGoals(n, k)
    PROVE  /\ goals' \in [GoalStates -> Nat]
           /\ \A s \in {"done", "failed", "skipped"} : goals'[s] = goals[s]
           /\ ~Knots => goals'["stuck"] = goals["stuck"]
BY DEF AddGoals, GoalStates

\* What a wave does to the numbers of goals.
LEMMA WaveGoals ==
    ASSUME goals \in [GoalStates -> Nat], WaveProgress
    PROVE  /\ goals' \in [GoalStates -> Nat]
           /\ goals["stuck"] = 0 => goals'["stuck"] = 0
           /\ SkipsBelowFailures => SkipsBelowFailures'
BY DEF WaveProgress, GoalStates, SkipsBelowFailures

\* Every step preserves the types.
LEMMA NextType == TypeOK /\ [Next]_vars => TypeOK'
<1> USE DEF TypeOK, MissionStatuses, PC, Planning, Looping, GoTo, bounds
<1> SUFFICES ASSUME TypeOK, [Next]_vars PROVE TypeOK'
  OBVIOUS
<1>1. ASSUME NEW c \in Callers, PlanAndRun(c) \/ Extend(c) PROVE TypeOK'
  BY <1>1 DEF PlanAndRun, Extend
<1>2. ASSUME NEW c \in Callers, Redraft(c) \/ Check(c) \/ MarkPlanning(c) PROVE TypeOK'
  BY <1>2 DEF Redraft, Check, MarkPlanning
<1>3. ASSUME NEW c \in Callers, PlanFails(c) \/ MarkReady(c) \/ MarkRunning(c) PROVE TypeOK'
  BY <1>3 DEF PlanFails, MarkReady, MarkRunning
<1>4. ASSUME NEW c \in Callers, PlanArrives(c) PROVE TypeOK'
  <2>1. goals' \in [GoalStates -> Nat]
    BY <1>4, AddGoalsType DEF PlanArrives
  <2> QED BY <1>4, <2>1 DEF PlanArrives
<1>5. ASSUME NEW c \in Callers, PlanningError(c) PROVE TypeOK'
  <2>1. goals' \in [GoalStates -> Nat]
    BY <1>5, AddGoalsType DEF PlanningError
  <2> QED BY <1>5, <2>1 DEF PlanningError
<1>6. ASSUME NEW c \in Callers, StartWave(c) \/ LookAgain(c) \/ ReplanStops(c) PROVE TypeOK'
  BY <1>6 DEF StartWave, LookAgain, ReplanStops
<1>7. ASSUME NEW c \in Callers, EndWave(c) PROVE TypeOK'
  <2>1. goals' \in [GoalStates -> Nat]
    BY <1>7, WaveGoals DEF EndWave, WaveEffect
  <2>2. next' \in [Callers -> Drawn]
    BY <1>7 DEF EndWave, Drawn
  <2> QED BY <1>7, <2>1, <2>2 DEF EndWave
<1>14. ASSUME NEW c \in Callers, FlipMission(c) PROVE TypeOK'
  <2>1. status' \in MissionStatuses /\ next' \in [Callers -> Drawn]
    BY <1>14 DEF FlipMission, Drawn
  <2> QED BY <1>14, <2>1 DEF FlipMission
<1>15. ASSUME NEW c \in Callers, LeaveWave(c) PROVE TypeOK'
  <2>1. next' \in [Callers -> Drawn]
    BY <1>15 DEF LeaveWave, Drawn
  <2> QED BY <1>15, <2>1 DEF LeaveWave
<1>8. ASSUME NEW c \in Callers, ReplanAdds(c) PROVE TypeOK'
  <2>1. goals' \in [GoalStates -> Nat]
    BY <1>8, AddGoalsType DEF ReplanAdds
  <2>2. pass' \in [Callers -> 1 .. ReplanCap]
    BY <1>8 DEF ReplanAdds
  <2> QED BY <1>8, <2>1, <2>2 DEF ReplanAdds
<1>9. ASSUME NEW c \in Callers, Verdict(c) \/ Reflect(c) PROVE TypeOK'
  BY <1>9 DEF Verdict, Reflect
<1>13. ASSUME NEW c \in Callers, LoopError(c) PROVE TypeOK'
  <2>1. goals' \in [GoalStates -> Nat]
    BY <1>13, AddGoalsType, WaveGoals DEF LoopError
  <2>2. next' \in [Callers -> Drawn]
    BY <1>13 DEF LoopError, Drawn
  <2> QED BY <1>13, <2>1, <2>2 DEF LoopError
<1>10. CASE Cancel
  BY <1>10 DEF Cancel
<1>11. CASE Restart
  <2>1. next' \in [Callers -> Drawn]
    BY <1>11 DEF Restart, Drawn
  <2> QED BY <1>11, <2>1 DEF Restart
<1>12. CASE UNCHANGED vars
  BY <1>12 DEF vars
<1> QED BY <1>1, <1>2, <1>3, <1>4, <1>5, <1>6, <1>7, <1>8, <1>9, <1>10, <1>11, <1>12, <1>13,
           <1>14, <1>15
        DEF Next, CallStep

\* The initial state is well typed.
LEMMA InitType == Init => TypeOK
<1> SUFFICES ASSUME Init PROVE TypeOK
  OBVIOUS
<1>1. goals \in [GoalStates -> Nat]
  BY DEF Init
<1>2. pc \in [Callers -> PC] /\ status \in MissionStatuses
  BY DEF Init, PC, MissionStatuses
<1>3. pass \in [Callers -> 1 .. ReplanCap]
  BY DEF Init
<1>4. token \in Callers \cup {NoCaller} /\ cancelled \subseteq Callers /\ asked \in BOOLEAN
  BY DEF Init
<1>5. calls \in 0 .. MaxCalls /\ faults \in 0 .. MaxFaults /\ restarts \in 0 .. MaxRestarts
  BY DEF Init
<1>6. next \in [Callers -> Drawn]
  BY DEF Init, Drawn
<1> QED BY <1>1, <1>2, <1>3, <1>4, <1>5, <1>6 DEF TypeOK

\* Every variable of the service stays in its type: in particular no call
\* replans more than ReplanCap times.
THEOREM TypeCorrect == Spec => []TypeOK
<1> QED BY InitType, NextType, PTL DEF Spec

-----------------------------------------------------------------------------
(* One call at a time: the status, and what a verdict says of the goals *)

CallInv ==
    /\ TypeOK
    /\ StatusFollowsCall
    /\ VerdictIsPending
    /\ VerdictFits
    /\ SkipsBelowFailures
    /\ CompletedMeansDone

\* Where the one call is, and what the status is there, step by step: each step
\* keeps the status or moves it as can_transition allows.
LEMMA StatusStep ==
    ASSUME SingleCaller, TypeOK, StatusFollowsCall, VerdictIsPending, [Next]_vars
    PROVE  /\ StatusFollowsCall'
           /\ VerdictIsPending'
           /\ status' = status \/ CanTransition(status, status')
<1> USE DEF SingleCaller, TypeOK, StatusFollowsCall, VerdictIsPending, CanTransition,
            MissionTransitions, MissionTerminal, MissionStatuses, PC, GoTo
<1> DEFINE Goal == /\ StatusFollowsCall'
                   /\ VerdictIsPending'
                   /\ status' = status \/ CanTransition(status, status')
<1>1. ASSUME NEW c \in Callers, PlanAndRun(c) \/ Extend(c) PROVE Goal
  BY <1>1 DEF PlanAndRun, Extend
<1>2. ASSUME NEW c \in Callers, Redraft(c) \/ Check(c) \/ MarkPlanning(c) PROVE Goal
  BY <1>2 DEF Redraft, Check, MarkPlanning
<1>3. ASSUME NEW c \in Callers, PlanFails(c) \/ PlanArrives(c) PROVE Goal
  BY <1>3 DEF PlanFails, PlanArrives
<1>15. ASSUME NEW c \in Callers, PlanningError(c) PROVE Goal
  <2>1. status' = status /\ next' = next /\ pc'[c] = "idle" /\ pc[c] \in Planning
    BY <1>15 DEF PlanningError
  <2>2. next[c] = "none"
    BY <2>1 DEF Planning
  <2> QED BY <2>1, <2>2
<1>4. ASSUME NEW c \in Callers, MarkReady(c) \/ MarkRunning(c) PROVE Goal
  BY <1>4 DEF MarkReady, MarkRunning
<1>5. ASSUME NEW c \in Callers, StartWave(c) \/ LookAgain(c) PROVE Goal
  BY <1>5 DEF StartWave, LookAgain
<1>6. ASSUME NEW c \in Callers, EndWave(c) PROVE Goal
  <2>1. status = "Running" /\ status' = "Running"
    BY <1>6 DEF EndWave
  <2>2. pc'[c] \in {"ending", "drained"}
    BY <1>6 DEF EndWave
  <2>3. next'[c] \in {"none", "Cancelled", "Completed"}
    BY <1>6 DEF EndWave
  <2> QED BY <2>1, <2>2, <2>3
<1>13. ASSUME NEW c \in Callers, FlipMission(c) PROVE Goal
  <2>1. status = "Running" /\ status' \in {"Completed", "Cancelled"}
    BY <1>13 DEF FlipMission
  <2>2. pc' = pc /\ pc[c] \in {"ending", "drained"} /\ next'[c] = "written"
    BY <1>13 DEF FlipMission
  <2> QED BY <2>1, <2>2
<1>14. ASSUME NEW c \in Callers, LeaveWave(c) PROVE Goal
  <2>1. status' = status /\ pc[c] \in {"ending", "drained"}
    BY <1>14 DEF LeaveWave
  <2>2. pc'[c] \in {"after", "verdict"} /\ next'[c] = "none"
    BY <1>14 DEF LeaveWave
  <2> QED BY <2>1, <2>2
<1>7. ASSUME NEW c \in Callers, ReplanStops(c) \/ ReplanAdds(c) PROVE Goal
  BY <1>7 DEF ReplanStops, ReplanAdds
<1>8. ASSUME NEW c \in Callers, Verdict(c) PROVE Goal
  BY <1>8 DEF Verdict
<1>9. ASSUME NEW c \in Callers, LoopError(c) PROVE Goal
  <2>1. status' = status /\ pc'[c] = "reflect" /\ next'[c] = "none"
    BY <1>9 DEF LoopError
  <2> QED BY <2>1
<1>16. ASSUME NEW c \in Callers, Reflect(c) PROVE Goal
  BY <1>16 DEF Reflect
<1>10. CASE Cancel
  BY <1>10 DEF Cancel
<1>11. CASE Restart
  BY <1>11 DEF Restart
<1>12. CASE UNCHANGED vars
  BY <1>12 DEF vars
<1> QED BY <1>1, <1>2, <1>3, <1>4, <1>5, <1>6, <1>7, <1>8, <1>9, <1>10, <1>11, <1>12, <1>13,
           <1>14, <1>15, <1>16
        DEF Next, CallStep

\* Goals are skipped below failures only, and the status says Completed only
\* when every goal is done.
LEMMA GoalsStep ==
    ASSUME SingleCaller, CallInv, [Next]_vars
    PROVE  SkipsBelowFailures' /\ CompletedMeansDone' /\ VerdictFits'
<1> USE DEF CallInv, TypeOK, SkipsBelowFailures, CompletedMeansDone, VerdictFits,
            SingleCaller, VerdictIsPending, GoTo
<1> DEFINE Goal == SkipsBelowFailures' /\ CompletedMeansDone' /\ VerdictFits'
<1>1. ASSUME goals' = goals, status' = status \/ status' # "Completed",
             \A d \in Callers : next'[d] = "Completed" => next[d] = "Completed"
      PROVE  Goal
  BY <1>1 DEF AllDone
<1>2. ASSUME NEW c \in Callers, PlanArrives(c) PROVE Goal
  BY <1>2, AddGoalsType DEF PlanArrives, StatusFollowsCall
<1>3. ASSUME NEW c \in Callers, PlanningError(c) PROVE Goal
  <2>1. CASE UNCHANGED goals
    BY <1>1, <1>3, <2>1 DEF PlanningError
  <2>2. CASE pc[c] = "planning" /\ \E n \in 1 .. PlanSize : \E k \in 0 .. n : AddGoals(n, k)
    BY <1>3, <2>2, AddGoalsType DEF PlanningError, StatusFollowsCall
  <2> QED BY <1>3, <2>1, <2>2 DEF PlanningError
<1>4. ASSUME NEW c \in Callers, EndWave(c) PROVE Goal
  <2>1. SkipsBelowFailures'
    BY <1>4, WaveGoals DEF EndWave, WaveEffect
  <2>2. status' # "Completed"
    BY <1>4 DEF EndWave, StatusFollowsCall
  <2>3. next'[c] = "Completed" => AllDone'
    BY <1>4 DEF EndWave
  <2> QED BY <2>1, <2>2, <2>3
<1>10. ASSUME NEW c \in Callers, FlipMission(c) PROVE Goal
  <2>1. goals' = goals /\ next'[c] = "written"
    BY <1>10 DEF FlipMission
  <2>2. status' = "Completed" => AllDone
    BY <1>10 DEF FlipMission
  <2> QED BY <2>1, <2>2 DEF AllDone
<1>11. ASSUME NEW c \in Callers, LeaveWave(c) PROVE Goal
  <2>1. goals' = goals /\ status' = status /\ next'[c] = "none"
    BY <1>11 DEF LeaveWave
  <2> QED BY <2>1 DEF AllDone
<1>5. ASSUME NEW c \in Callers, ReplanAdds(c) PROVE Goal
  BY <1>5, AddGoalsType DEF ReplanAdds, StatusFollowsCall
<1>6. ASSUME NEW c \in Callers, Verdict(c) PROVE Goal
  <2>1. CASE status' = status
    BY <1>1, <1>6, <2>1 DEF Verdict
  <2>2. CASE status' = "Failed"
    BY <1>1, <1>6, <2>2 DEF Verdict
  <2>3. CASE status' = "Completed" /\ status # "Completed"
    <3>1. goals["failed"] = 0 /\ goals["todo"] + goals["stuck"] = 0 /\ goals' = goals
      BY <1>6, <2>3 DEF Verdict, GoalStates
    <3>2. AllDone
      BY <3>1 DEF AllDone, GoalStates
    <3> QED BY <3>1, <3>2 DEF AllDone
  <2> QED BY <1>6, <2>1, <2>2, <2>3 DEF Verdict
<1>7. ASSUME NEW c \in Callers,
             \/ PlanAndRun(c) \/ Extend(c) \/ Redraft(c) \/ Check(c) \/ MarkPlanning(c)
             \/ PlanFails(c) \/ MarkReady(c) \/ MarkRunning(c) \/ StartWave(c)
             \/ LookAgain(c) \/ ReplanStops(c) \/ Reflect(c)
      PROVE  Goal
  BY <1>1, <1>7 DEF PlanAndRun, Extend, Redraft, Check, MarkPlanning, PlanFails, MarkReady,
                    MarkRunning, StartWave, LookAgain, ReplanStops, Reflect
<1>9. ASSUME NEW c \in Callers, LoopError(c) PROVE Goal
  <2>4. \A d \in Callers : next'[d] # "Completed"
    BY <1>9 DEF LoopError
  <2>1. CASE UNCHANGED goals
    BY <1>1, <1>9, <2>1, <2>4 DEF LoopError
  <2>2. CASE pc[c] \in {"wave", "draining"} /\ WaveProgress
    BY <1>9, <2>2, <2>4, WaveGoals DEF LoopError, StatusFollowsCall
  <2>3. CASE pc[c] = "replan" /\ \E n \in 1 .. PlanSize : \E k \in 0 .. n : AddGoals(n, k)
    BY <1>9, <2>3, <2>4, AddGoalsType DEF LoopError, StatusFollowsCall
  <2> QED BY <1>9, <2>1, <2>2, <2>3 DEF LoopError
<1>8. CASE Cancel \/ Restart \/ UNCHANGED vars
  BY <1>1, <1>8 DEF Cancel, Restart, vars
<1> QED BY <1>2, <1>3, <1>4, <1>5, <1>6, <1>7, <1>8, <1>9, <1>10, <1>11 DEF Next, CallStep

\* The inductive invariant.
THEOREM CallInvariant == ASSUME SingleCaller PROVE Spec => []CallInv
<1>1. Init => CallInv
  <2> SUFFICES ASSUME Init PROVE /\ StatusFollowsCall /\ VerdictIsPending /\ VerdictFits
                                 /\ SkipsBelowFailures /\ CompletedMeansDone
    BY InitType DEF CallInv
  <2> QED BY DEF Init, StatusFollowsCall, VerdictIsPending, VerdictFits, SkipsBelowFailures,
                 CompletedMeansDone, GoalStates
<1>2. CallInv /\ [Next]_vars => CallInv'
  BY NextType, StatusStep, GoalsStep DEF CallInv
<1> QED BY <1>1, <1>2, PTL DEF Spec

\* With one call at a time the mission's status only moves along the arrows of
\* can_transition, although every write is made from a stale copy.
THEOREM LegalStatusMoves == ASSUME SingleCaller PROVE Spec => StatusMovesAreLegal
<1>1. CallInv /\ [Next]_vars => [status' # status => CanTransition(status, status')]_vars
  BY StatusStep DEF CallInv
<1> QED BY <1>1, CallInvariant, PTL DEF Spec, StatusMovesAreLegal

\* With one call at a time a Completed mission has no goal that is not done.
THEOREM CompletedIsDone == ASSUME SingleCaller PROVE Spec => []CompletedMeansDone
BY CallInvariant, PTL DEF CallInv

-----------------------------------------------------------------------------
(* The replan loop's promise to reflect on a mission that has ended *)

EndInv == CallInv /\ DrainSettles /\ ReflectsOnTheEnd

\* The final drain leaves the verdict something to say.
LEMMA EndStep ==
    ASSUME SingleCaller, EndInv, [Next]_vars
    PROVE  DrainSettles' /\ ReflectsOnTheEnd'
<1> USE DEF EndInv, CallInv, TypeOK, SingleCaller, DrainSettles, ReflectsOnTheEnd, GoTo,
            MissionTerminal, bounds
<1> DEFINE Goal == DrainSettles' /\ ReflectsOnTheEnd'
<1>1. ASSUME NEW c \in Callers, PlanAndRun(c) \/ Extend(c) PROVE Goal
  BY <1>1 DEF PlanAndRun, Extend
<1>2. ASSUME NEW c \in Callers, Redraft(c) \/ Check(c) \/ MarkPlanning(c) PROVE Goal
  BY <1>2 DEF Redraft, Check, MarkPlanning
<1>3. ASSUME NEW c \in Callers, PlanFails(c) \/ MarkReady(c) \/ MarkRunning(c) PROVE Goal
  BY <1>3 DEF PlanFails, MarkReady, MarkRunning
<1>4. ASSUME NEW c \in Callers, PlanArrives(c) PROVE Goal
  BY <1>4 DEF PlanArrives
<1>5. ASSUME NEW c \in Callers, PlanningError(c) \/ LoopError(c) PROVE Goal
  BY <1>5 DEF PlanningError, LoopError
<1>6. ASSUME NEW c \in Callers, StartWave(c) \/ ReplanStops(c) PROVE Goal
  BY <1>6 DEF StartWave, ReplanStops
<1>7. ASSUME NEW c \in Callers, EndWave(c) PROVE Goal
  <2>1. (c \in cancelled \/ goals'["todo"] = 0 \/ goals'["failed"] > 0)
    BY <1>7, WaveGoals DEF EndWave, WaveEffect
  <2>2. status = "Running"
    BY <1>7 DEF EndWave, StatusFollowsCall
  <2>3. c \in cancelled => next'[c] = "Cancelled"
    BY <1>7, <2>2 DEF EndWave, CanTransition, MissionTransitions
  <2>4. pc'[c] # "reflect"
    BY <1>7 DEF EndWave
  <2> QED BY <2>1, <2>3, <2>4
<1>13. ASSUME NEW c \in Callers, FlipMission(c) PROVE Goal
  BY <1>13 DEF FlipMission
<1>14. ASSUME NEW c \in Callers, LeaveWave(c) PROVE Goal
  <2>1. status' = status /\ goals' = goals /\ pc'[c] # "reflect"
    BY <1>14 DEF LeaveWave
  <2>2. pc'[c] = "verdict" => pc[c] = "drained"
    BY <1>14 DEF LeaveWave
  <2>3. next[c] = "written" => status \in MissionTerminal
    BY DEF VerdictIsPending
  <2>4. pc'[c] # "drained" /\ next[c] # "Cancelled"
    BY <1>14 DEF LeaveWave
  <2> QED BY <2>1, <2>2, <2>3, <2>4
<1>8. ASSUME NEW c \in Callers, LookAgain(c) PROVE Goal
  BY <1>8 DEF LookAgain
<1>9. ASSUME NEW c \in Callers, ReplanAdds(c) PROVE Goal
  BY <1>9 DEF ReplanAdds
<1>10. ASSUME NEW c \in Callers, Verdict(c) PROVE Goal
  <2>2. status \in {"Running"} \cup MissionTerminal /\ next[c] = "none"
    BY <1>10 DEF Verdict, StatusFollowsCall, VerdictIsPending
  <2>1. status' \in MissionTerminal \/ goals'["stuck"] > 0
    BY <1>10, <2>2 DEF Verdict, GoalStates
  <2> QED BY <1>10, <2>1 DEF Verdict
<1>11. ASSUME NEW c \in Callers, Reflect(c) PROVE Goal
  BY <1>11 DEF Reflect
<1>12. CASE Cancel \/ Restart \/ UNCHANGED vars
  BY <1>12 DEF Cancel, Restart, vars
<1> QED BY <1>1, <1>2, <1>3, <1>4, <1>5, <1>6, <1>7, <1>8, <1>9, <1>10, <1>11, <1>12, <1>13,
           <1>14
        DEF Next, CallStep

\* With one call at a time the replan loop returns only when the mission is
\* Completed, Failed or Cancelled, unless a read or write failed or goals are
\* left that can never start.
THEOREM LoopReachesTheEnd ==
    ASSUME SingleCaller
    PROVE  Spec => []ReflectsOnTheEnd
<1>1. Init => DrainSettles /\ ReflectsOnTheEnd
  BY DEF Init, DrainSettles, ReflectsOnTheEnd, GoalStates
<1>2. EndInv /\ [Next]_vars /\ CallInv' => EndInv'
  BY EndStep DEF EndInv
<1>3. Init /\ CallInv => EndInv
  BY <1>1 DEF EndInv
<1>4. EndInv => ReflectsOnTheEnd
  BY DEF EndInv
<1> QED BY <1>2, <1>3, <1>4, CallInvariant, PTL DEF Spec

-----------------------------------------------------------------------------
(* MissionService implements MissionRows *)

\* The row as a reader sees it.
RowSeen == [status |-> status, open |-> goals["todo"] + goals["stuck"],
            failed |-> goals["failed"], closed |-> goals["done"] + goals["skipped"]]

GoalsCome ==
    /\ status \in {"Planning", "Running"}
    /\ goals'["todo"] + goals'["stuck"] > goals["todo"] + goals["stuck"]
    /\ \A s \in {"done", "failed", "skipped"} : goals'[s] = goals[s]

GoalsAreSettled ==
    /\ status = "Running"
    /\ \A s \in {"done", "failed", "skipped"} : goals'[s] >= goals[s]
    /\ Total' = Total

\* New goals: at least one, and nothing else changes.
LEMMA AddedGoalsCome ==
    ASSUME goals \in [GoalStates -> Nat], NEW n \in Nat \ {0}, NEW k \in 0 .. n, AddGoals(n, k)
    PROVE  /\ goals'["todo"] + goals'["stuck"] > goals["todo"] + goals["stuck"]
           /\ \A s \in {"done", "failed", "skipped"} : goals'[s] = goals[s]
BY DEF AddGoals, GoalStates

\* A wave settles goals, adds none, and takes no verdict back.
LEMMA WaveSettles ==
    ASSUME goals \in [GoalStates -> Nat], WaveProgress
    PROVE  /\ \A s \in {"done", "failed", "skipped"} : goals'[s] >= goals[s]
           /\ Total' = Total
BY DEF WaveProgress, GoalStates, Total

\* Whatever a step does to the goals, it does where the mission's status allows it.
LEMMA GoalsMove ==
    ASSUME CallInv, [Next]_vars
    PROVE  goals' = goals \/ GoalsCome \/ GoalsAreSettled
<1> USE DEF CallInv, TypeOK, StatusFollowsCall, PC
<1> DEFINE Goal == goals' = goals \/ GoalsCome \/ GoalsAreSettled
<1>1. ASSUME NEW c \in Callers,
             \/ PlanAndRun(c) \/ Extend(c) \/ Redraft(c) \/ Check(c) \/ MarkPlanning(c)
             \/ PlanFails(c) \/ MarkReady(c) \/ MarkRunning(c) \/ StartWave(c)
             \/ FlipMission(c) \/ LeaveWave(c)
             \/ LookAgain(c) \/ ReplanStops(c) \/ Verdict(c) \/ Reflect(c)
      PROVE  Goal
  BY <1>1 DEF PlanAndRun, Extend, Redraft, Check, MarkPlanning, PlanFails, MarkReady,
              MarkRunning, StartWave, FlipMission, LeaveWave, LookAgain, ReplanStops, Verdict,
              Reflect
<1>2. ASSUME NEW c \in Callers, PlanArrives(c) PROVE Goal
  BY <1>2, AddedGoalsCome DEF PlanArrives, GoalsCome
<1>3. ASSUME NEW c \in Callers, PlanningError(c) PROVE Goal
  BY <1>3, AddedGoalsCome DEF PlanningError, GoalsCome
<1>4. ASSUME NEW c \in Callers, EndWave(c) PROVE Goal
  BY <1>4, WaveSettles DEF EndWave, WaveEffect, GoalsAreSettled
<1>5. ASSUME NEW c \in Callers, ReplanAdds(c) PROVE Goal
  BY <1>5, AddedGoalsCome DEF ReplanAdds, GoalsCome
<1>6. ASSUME NEW c \in Callers, LoopError(c) PROVE Goal
  <2>1. CASE UNCHANGED goals
    BY <2>1
  <2>2. CASE pc[c] \in {"wave", "draining"} /\ WaveProgress
    BY <2>2, WaveSettles DEF GoalsAreSettled
  <2>3. CASE pc[c] = "replan" /\ \E n \in 1 .. PlanSize : \E k \in 0 .. n : AddGoals(n, k)
    BY <2>3, AddedGoalsCome DEF GoalsCome
  <2> QED BY <1>6, <2>1, <2>2, <2>3 DEF LoopError
<1>7. CASE Cancel \/ Restart \/ UNCHANGED vars
  BY <1>7 DEF Cancel, Restart, vars
<1> QED BY <1>1, <1>2, <1>3, <1>4, <1>5, <1>6, <1>7 DEF Next, CallStep

\* A mission fails while it is planned or by its failed goals, and is cancelled
\* while it runs.
LEMMA StatusMove ==
    ASSUME CallInv, [Next]_vars, status' # status
    PROVE  /\ status' # "Paused"
           /\ status' = "Failed" => status = "Planning" \/ goals'["failed"] > 0
           /\ status' = "Cancelled" => status = "Running"
<1> USE DEF CallInv, TypeOK, StatusFollowsCall, VerdictIsPending, PC
<1> DEFINE Goal == /\ status' # "Paused"
                   /\ status' = "Failed" => status = "Planning" \/ goals'["failed"] > 0
                   /\ status' = "Cancelled" => status = "Running"
<1>1. ASSUME NEW c \in Callers, Redraft(c) \/ MarkPlanning(c) \/ MarkReady(c) \/ MarkRunning(c)
      PROVE  Goal
  BY <1>1 DEF Redraft, MarkPlanning, MarkReady, MarkRunning
<1>2. ASSUME NEW c \in Callers, PlanFails(c) PROVE Goal
  BY <1>2 DEF PlanFails
<1>3. ASSUME NEW c \in Callers, FlipMission(c) PROVE Goal
  BY <1>3 DEF FlipMission
<1>4. ASSUME NEW c \in Callers, Verdict(c) PROVE Goal
  BY <1>4 DEF Verdict
<1>5. ASSUME NEW c \in Callers,
             \/ PlanAndRun(c) \/ Extend(c) \/ Check(c) \/ PlanArrives(c) \/ PlanningError(c)
             \/ StartWave(c) \/ EndWave(c) \/ LeaveWave(c) \/ LookAgain(c)
             \/ ReplanStops(c) \/ ReplanAdds(c) \/ LoopError(c) \/ Reflect(c)
      PROVE  FALSE
  BY <1>5 DEF PlanAndRun, Extend, Check, PlanArrives, PlanningError, StartWave, EndWave,
              LeaveWave, LookAgain, ReplanStops, ReplanAdds, LoopError, Reflect
<1>6. ~(Cancel \/ Restart \/ UNCHANGED vars)
  BY DEF Cancel, Restart, vars
<1> QED BY <1>1, <1>2, <1>3, <1>4, <1>5, <1>6 DEF Next, CallStep

\* Every step is a step of MissionRows.
LEMMA PromiseStep ==
    ASSUME SingleCaller, CallInv, [Next]_vars
    PROVE  Rows!RowStep(RowSeen, RowSeen')
<1>1. goals \in [GoalStates -> Nat] /\ goals' \in [GoalStates -> Nat]
  BY NextType DEF CallInv, TypeOK
<1>2. \/ Rows!GoalsRest(RowSeen, RowSeen')
      \/ Rows!GoalsArrive(RowSeen, RowSeen')
      \/ Rows!GoalsSettle(RowSeen, RowSeen')
  <2>1. CASE goals' = goals
    BY <2>1 DEF Rows!GoalsRest, RowSeen
  <2>2. CASE GoalsCome
    BY <1>1, <2>2 DEF Rows!GoalsArrive, GoalsCome, RowSeen, GoalStates
  <2>3. CASE GoalsAreSettled
    BY <1>1, <2>3 DEF Rows!GoalsSettle, GoalsAreSettled, RowSeen, GoalStates, Total
  <2> QED BY <2>1, <2>2, <2>3, GoalsMove
<1>3. status' = status \/ Rows!StatusMoves(RowSeen, RowSeen')
  <2> SUFFICES ASSUME status' # status PROVE Rows!StatusMoves(RowSeen, RowSeen')
    OBVIOUS
  <2>1. Rows!CanTransition(status, status')
    <3>1. CanTransition(status, status')
      BY StatusStep DEF CallInv
    <3> QED BY <3>1 DEF Rows!CanTransition, CanTransition, Rows!MissionTransitions,
                        MissionTransitions, Rows!MissionTerminal, MissionTerminal
  <2>2. status' = "Completed" => goals'["todo"] + goals'["stuck"] = 0 /\ goals'["failed"] = 0
    <3>1. CompletedMeansDone'
      BY GoalsStep
    <3> QED BY <3>1, <1>1 DEF CompletedMeansDone, AllDone, GoalStates
  <2>3. /\ status' # "Paused"
        /\ status' = "Failed" => status = "Planning" \/ goals'["failed"] > 0
        /\ status' = "Cancelled" => status = "Running"
    BY StatusMove
  <2> QED BY <2>1, <2>2, <2>3 DEF Rows!StatusMoves, RowSeen
<1> QED BY <1>2, <1>3 DEF Rows!RowStep, RowSeen

\* With one call at a time on the mission, whoever reads its rows sees them move
\* as MissionRows promises, although they are written from copies read earlier.
THEOREM ServiceImplementsRows == ASSUME SingleCaller PROVE Spec => KeepsItsPromise
<1>1. Init => Rows!Init
  BY DEF Init, Rows!Init, Rows!NewRow, GoalStates
<1>2. CallInv /\ [Next]_vars => [Rows!Next]_RowSeen
  BY PromiseStep DEF Rows!Next, RowSeen
<1> QED BY <1>1, <1>2, CallInvariant, PTL DEF Spec, KeepsItsPromise, Rows!Spec, RowSeen

=============================================================================
