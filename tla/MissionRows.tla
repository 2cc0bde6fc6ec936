------------------------------ MODULE MissionRows ------------------------------
(***************************************************************************)
(* What the mission service (crates/forge-mission) promises whoever reads  *)
(* the rows of one mission: how its status and its goals may change from    *)
(* one write to the next, while one call at a time works on the mission.    *)
(* MissionService implements it; ApiServer relies on it.                   *)
(***************************************************************************)
EXTENDS Naturals, ForgeDomain

VARIABLE row        \* the mission's status, and its goals: how many are open,
                    \* how many failed, how many completed or were skipped

NewRow == [status |-> "Draft", open |-> 0, failed |-> 0, closed |-> 0]

GoalsRest(r, s) == s.open = r.open /\ s.failed = r.failed /\ s.closed = r.closed

\* Goals come in while the mission is planned or replanned.
GoalsArrive(r, s) ==
    /\ r.status \in {"Planning", "Running"}
    /\ s.open > r.open /\ s.failed = r.failed /\ s.closed = r.closed

\* Goals settle while it runs, and stay settled.
GoalsSettle(r, s) ==
    /\ r.status = "Running"
    /\ s.failed >= r.failed /\ s.closed >= r.closed
    /\ s.open + s.failed + s.closed = r.open + r.failed + r.closed

\* A verdict fits the goals; only a running mission is cancelled; none is paused.
StatusMoves(r, s) ==
    /\ CanTransition(r.status, s.status) /\ s.status # "Paused"
    /\ s.status = "Completed" => s.open = 0 /\ s.failed = 0
    /\ s.status = "Failed" => r.status = "Planning" \/ s.failed > 0
    /\ s.status = "Cancelled" => r.status = "Running"

RowStep(r, s) ==
    /\ GoalsRest(r, s) \/ GoalsArrive(r, s) \/ GoalsSettle(r, s)
    /\ s.status = r.status \/ StatusMoves(r, s)

Init == row = NewRow
Next == RowStep(row, row')
Spec == Init /\ [][Next]_row

=============================================================================
