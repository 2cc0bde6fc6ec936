----------------------------- MODULE MissionQueue -----------------------------
(***************************************************************************)
(* The persisted mission queue: table mission_queue and the repository     *)
(* over it (crates/forge-persistence/src/sqlite.rs).                       *)
(*                                                                         *)
(* Rows are numbered in order of insertion and never deleted.  Each        *)
(* operation is one SQL statement or one transaction, hence one step, with *)
(* one exception: enqueue looks for an active row and inserts one in two   *)
(* statements, and other callers may act in between.  Of heartbeat_at only *)
(* its age matters: "fresh", or "old" once it is past the stale threshold. *)
(***************************************************************************)
EXTENDS Naturals, FiniteSets

CONSTANTS
    Missions,
    Callers,        \* concurrent callers of enqueue
    MaxRows         \* bound: rows ever inserted

NoMission == "none"

ASSUME QueueAssumption ==
    /\ MaxRows \in Nat \ {0}
    /\ IsFiniteSet(Callers)
    /\ NoMission \notin Missions

VARIABLES
    count,          \* rows inserted so far
    of,             \* mission_id of a row
    status,         \* status of a row
    age,            \* heartbeat_at of a row
    want,           \* the mission a caller is about to insert a row for
    crowd           \* history: the most callers that have been about to insert
                    \* a row for a mission at once

queueVars == <<count, of, status, age, want, crowd>>

RowIds == 1 .. MaxRows
Present == 1 .. count

QueueStatuses == {"queued", "claimed", "done", "failed"}
Ages == {"null", "fresh", "old"}

Init ==
    /\ count = 0
    /\ of = [i \in RowIds |-> NoMission]
    /\ status = [i \in RowIds |-> "queued"]
    /\ age = [i \in RowIds |-> "null"]
    /\ want = [c \in Callers |-> NoMission]
    /\ crowd = [m \in Missions |-> 0]

IsActive(i) == i \in Present /\ status[i] \in {"queued", "claimed"}

ActiveRows(m) == {i \in Present : of[i] = m /\ IsActive(i)}

-----------------------------------------------------------------------------
(* enqueue *)

Seekers(m) == {c \in Callers : want[c] = m}

\* A caller goes on to insert a row.
Seek(c, m) ==
    /\ want' = [want EXCEPT ![c] = m]
    /\ LET n == Cardinality(Seekers(m)) + 1
       IN  crowd' = [crowd EXCEPT ![m] = IF @ < n THEN n ELSE @]
    /\ UNCHANGED <<count, of, status, age>>

\* Mutant: the row is not looked for.
LookUpNothing(c, m) ==
    /\ want[c] = NoMission
    /\ Seek(c, m)

\* The SELECT: an active row is reused, else the caller goes on to insert one.
LookUp(c, m) ==
    /\ want[c] = NoMission
    /\ ActiveRows(m) = {}
    /\ Seek(c, m)

\* The INSERT.
Insert(c) ==
    /\ want[c] # NoMission
    /\ count < MaxRows
    /\ count' = count + 1
    /\ of' = [of EXCEPT ![count'] = want[c]]
    /\ status' = [status EXCEPT ![count'] = "queued"]
    /\ age' = [age EXCEPT ![count'] = "null"]
    /\ want' = [want EXCEPT ![c] = NoMission]
    /\ UNCHANGED crowd

-----------------------------------------------------------------------------
(* The other operations *)

\* claim_next: the oldest queued row, in a transaction that fails if another
\* connection has written since its snapshot.
Claim(i) ==
    /\ i \in Present /\ status[i] = "queued"
    /\ \A j \in Present : status[j] = "queued" => i <= j
    /\ status' = [status EXCEPT ![i] = "claimed"]
    /\ age' = [age EXCEPT ![i] = "fresh"]
    /\ UNCHANGED <<count, of, want, crowd>>

\* heartbeat: of whichever task, as long as the row is claimed by anybody.
Heartbeat(i) ==
    /\ age' = IF status[i] = "claimed" THEN [age EXCEPT ![i] = "fresh"] ELSE age
    /\ UNCHANGED <<count, of, status, want, crowd>>

\* finish: whatever the row's status has become.
Finish(i, success) ==
    /\ status' = [status EXCEPT ![i] = IF success THEN "done" ELSE "failed"]
    /\ UNCHANGED <<count, of, age, want, crowd>>

Stale == {i \in Present : status[i] = "claimed" /\ age[i] # "fresh"}

\* requeue_stale, at boot and from the janitor.
RequeueStale ==
    /\ Stale # {}
    /\ status' = [i \in RowIds |-> IF i \in Stale THEN "queued" ELSE status[i]]
    /\ age' = [i \in RowIds |-> IF i \in Stale THEN "null" ELSE age[i]]
    /\ UNCHANGED <<count, of, want, crowd>>

\* The threshold passes with no heartbeat on row i; only of a claimed row does
\* anybody look at the age.
GrowOld(i) ==
    /\ i \in Present /\ status[i] = "claimed" /\ age[i] = "fresh"
    /\ age' = [age EXCEPT ![i] = "old"]
    /\ UNCHANGED <<count, of, status, want, crowd>>

-----------------------------------------------------------------------------

QueueTypeOK ==
    /\ count \in 0 .. MaxRows
    /\ of \in [RowIds -> Missions \cup {NoMission}]
    /\ status \in [RowIds -> QueueStatuses]
    /\ age \in [RowIds -> Ages]
    /\ want \in [Callers -> Missions \cup {NoMission}]
    /\ crowd \in [Missions -> Nat]

\* A mission has no more active rows than callers have been about to insert one
\* at once: one, where enqueues of it have not overlapped.
RowsFollowCalls == \A m \in Missions : Cardinality(ActiveRows(m)) <= crowd[m]

\* A row that has reached done or failed is not run again.
FinishedRowsRest ==
    [][\A i \in Present : ~IsActive(i) => ~IsActive(i)']_queueVars

-----------------------------------------------------------------------------
(* What the documentation says, and the code does not do *)

\* "At any time only ONE row per mission_id should be in Queued or Claimed
\* state - enforced by enqueue": not with two callers that look before either
\* inserts.
OneActiveRow ==
    \A i, j \in Present : IsActive(i) /\ IsActive(j) /\ of[i] = of[j] => i = j

=============================================================================
