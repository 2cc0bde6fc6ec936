---------------------------- MODULE MCExecution ----------------------------
(***************************************************************************)
(* Small instances of ExecutionEngine for TLC.                             *)
(***************************************************************************)
EXTENDS ExecutionEngine

\* Acyclic plans over three goals, written in every order the planner may list
\* them in: chains forwards and backwards, a diamond's halves, a fork, a join.
ShapePlans ==
    { << {}, {1}, {2} >>, << {2}, {3}, {} >>, << {}, {1}, {1} >>,
      << {}, {}, {1, 2} >>, << {2, 3}, {}, {} >> }

\* Two goals: independent, chained either way.
PairPlans == { << {}, {} >>, << {}, {1} >>, << {2}, {} >> }

\* Besides, what the planner lets through: a cycle, and a replanned goal that
\* depends on an id that names nothing.
LoosePlans == PairPlans \cup { << {2}, {1} >>, << {}, {NoGoal} >> }

\* A chain the planner listed backwards.
BackwardPlan == { << {2}, {3}, {} >> }

AllowAll == [t \in Tasks |-> "Allow"]

\* The first task of every goal needs approval.
AskFirst == [t \in Tasks |-> IF t[2] = 1 THEN "RequireApproval" ELSE "Allow"]

\* The last goal is denied, the others ask first.
Mixed == [t \in Tasks |-> IF t[1] = NGoals THEN "Deny"
                          ELSE IF t[2] = 1 THEN "RequireApproval" ELSE "Allow"]

\* Every tool is registered.
AllTasks == Tasks

\* The last goal names a tool that is not.
NotLast == {t \in Tasks : t[1] # NGoals}

=============================================================================
