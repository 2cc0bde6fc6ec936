----------------------------- MODULE ForgeDomain -----------------------------
(***************************************************************************)
(* The vocabulary of crates/forge-domain: the status enumerations of       *)
(* missions, goals and tasks, the mission transition table, and the        *)
(* decisions a policy rule can take.  Every other module of the project    *)
(* draws its statuses from here.                                           *)
(***************************************************************************)

MissionStatuses == {"Draft", "Planning", "Ready", "Running", "Paused",
                    "Completed", "Failed", "Cancelled"}

\* MissionStatus::is_terminal
MissionTerminal == {"Completed", "Failed", "Cancelled"}

\* MissionStatus::can_transition, as the relation it tabulates.
MissionTransitions ==
    { <<"Draft", "Planning">>,
      <<"Planning", "Ready">>, <<"Planning", "Failed">>, <<"Planning", "Cancelled">>,
      <<"Ready", "Running">>, <<"Ready", "Cancelled">>,
      <<"Running", "Paused">>, <<"Running", "Completed">>,
      <<"Running", "Failed">>, <<"Running", "Cancelled">>,
      <<"Paused", "Running">>, <<"Paused", "Cancelled">> }
    \cup (MissionTerminal \X {"Draft"})

CanTransition(from, to) == <<from, to>> \in MissionTransitions

GoalStatuses == {"Pending", "Ready", "Running", "Completed", "Failed", "Skipped"}

\* GoalStatus::is_terminal
GoalTerminal == {"Completed", "Failed", "Skipped"}

TaskStatuses == {"Pending", "PendingApproval", "Running", "Completed",
                 "Failed", "Cancelled", "Denied"}

PolicyDecisions == {"Allow", "RequireApproval", "Deny"}

=============================================================================
