------------------------------ MODULE GoalGraph ------------------------------
(***************************************************************************)
(* What the execution engine promises about a mission's goal rows, without *)
(* runs, workers, polling or shared maps: the goal lifecycle of            *)
(* docs/DIAGRAMS.md section 3 as the code has it.  A goal starts below     *)
(* completed goals only, is skipped below a failed or skipped goal only,   *)
(* pays each retry from its budget before it is Pending again, and is      *)
(* never touched again once it has settled; goals move only while the      *)
(* mission is Running.                                                     *)
(* ExecutionEngine implements this specification.                          *)
(***************************************************************************)
EXTENDS Naturals, ForgeDomain

CONSTANTS NGoals, Plans, Retries

Goals == 1 .. NGoals

VARIABLES
    mission, rows, deps, goal, retries,
    paid            \* goals whose retry is paid and that are still Ready

vars == <<mission, rows, deps, goal, retries, paid>>

Init ==
    /\ mission = "Running"
    /\ rows \in Goals
    /\ deps \in Plans
    /\ goal = [g \in Goals |-> "Pending"]
    /\ retries = [g \in Goals |-> Retries]
    /\ paid = {}

Present == 1 .. rows

Waiting(g) == goal[g] \in {"Pending", "Ready"}

\* Goal g's row takes a new status; nothing else changes.
Move(g, status) ==
    /\ mission = "Running"
    /\ g \in Present \ paid
    /\ goal' = [goal EXCEPT ![g] = status]
    /\ UNCHANGED <<mission, rows, deps, retries, paid>>

Launch(g) ==
    /\ goal[g] = "Pending"
    /\ \A d \in deps[g] : d \in Present /\ goal[d] = "Completed"
    /\ Move(g, "Ready")

Complete(g) == goal[g] = "Ready" /\ Move(g, "Completed")

Fail(g) == goal[g] = "Ready" /\ Move(g, "Failed")

Skip(g) ==
    /\ Waiting(g)
    /\ \E d \in deps[g] \cap Present : goal[d] \in {"Failed", "Skipped"}
    /\ Move(g, "Skipped")

\* A retry is paid for, one unit of the budget, and then taken.
Pay(g) ==
    /\ mission = "Running"
    /\ g \in Present \ paid
    /\ goal[g] = "Ready" /\ retries[g] > 0
    /\ retries' = [retries EXCEPT ![g] = @ - 1]
    /\ paid' = paid \cup {g}
    /\ UNCHANGED <<mission, rows, deps, goal>>

Retry(g) ==
    /\ mission = "Running"
    /\ g \in paid
    /\ goal' = [goal EXCEPT ![g] = "Pending"]
    /\ paid' = paid \ {g}
    /\ UNCHANGED <<mission, rows, deps, retries>>

\* Or it never is: whoever paid has failed.
Forfeit ==
    /\ paid # {} /\ paid' = {}
    /\ UNCHANGED <<mission, rows, deps, goal, retries>>

\* The mission settles: Completed when every goal is, Failed when some goal
\* is, Cancelled at any time.
Settle ==
    /\ mission = "Running"
    /\ \/ mission' = "Completed" /\ \A g \in Present : goal[g] = "Completed"
       \/ mission' = "Failed" /\ \E g \in Present : goal[g] = "Failed"
       \/ mission' = "Cancelled"
    /\ UNCHANGED <<rows, deps, goal, retries, paid>>

\* New goals join the rows: a replan of a running mission, or an extension,
\* which sets a settled mission running again.
Grow ==
    /\ mission \in {"Running"} \cup MissionTerminal
    /\ mission' = "Running"
    /\ rows' \in rows + 1 .. NGoals
    /\ UNCHANGED <<deps, goal, retries, paid>>

Next ==
    \/ Settle \/ Grow \/ Forfeit
    \/ \E g \in Goals : \/ Launch(g) \/ Complete(g) \/ Fail(g) \/ Skip(g)
                        \/ Pay(g) \/ Retry(g)

Spec == Init /\ [][Next]_vars

=============================================================================
