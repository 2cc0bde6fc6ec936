------------------------------ MODULE PoolProofs ------------------------------
(***************************************************************************)
(* Theorems about WorkerPool and the MissionQueue under it, for any number *)
(* of missions, workers, rows, faults and restarts.                        *)
(***************************************************************************)
EXTENDS WorkerPool, FiniteSetTheorems, TLAPS

USE QueueAssumption, PoolAssumption DEF NoMission, NoRow

-----------------------------------------------------------------------------
(* Type correctness *)

\* A caller that is about to insert a row counts, with those that are already.
LEMMA SeekCounts ==
    ASSUME QueueTypeOK, NEW c \in Callers, NEW m \in Missions, LookUp(c, m)
    PROVE  /\ crowd' \in [Missions -> Nat]
           /\ IsFiniteSet(Seekers(m)) /\ Cardinality(Seekers(m)) + 1 <= crowd'[m]
           /\ \A k \in Missions : crowd[k] <= crowd'[k]
           /\ \A k \in Missions \ {m} : crowd'[k] = crowd[k]
<1>1. IsFiniteSet(Seekers(m)) /\ Cardinality(Seekers(m)) \in Nat
  BY FS_Subset, FS_CardinalityType DEF Seekers
<1> DEFINE n == Cardinality(Seekers(m)) + 1
<1>2. n \in Nat /\ crowd \in [Missions -> Nat]
  BY <1>1 DEF QueueTypeOK
<1>3. crowd' = [crowd EXCEPT ![m] = IF crowd[m] < n THEN n ELSE crowd[m]]
  BY <1>2 DEF LookUp, Seek
<1> HIDE DEF n
<1>4. CASE crowd[m] < n
  BY <1>1, <1>2, <1>3, <1>4 DEF n
<1>5. CASE ~ (crowd[m] < n)
  BY <1>1, <1>2, <1>3, <1>5 DEF n
<1> QED BY <1>4, <1>5

\* Every step of the pool preserves the types.
LEMMA NextType == TypeOK /\ [Next]_vars => TypeOK'
<1> USE DEF TypeOK, QueueTypeOK, RowIds, Present, QueueStatuses, Ages,
            WorkerPC, Executing, MissionStatuses, MissionTerminal
<1> SUFFICES ASSUME TypeOK, [Next]_vars PROVE TypeOK'
  OBVIOUS
<1>1. ASSUME NEW w \in Workers, Take(w) PROVE TypeOK'
  BY <1>1 DEF Take, Claim
<1>2. ASSUME NEW w \in Workers, CheckMission(w) PROVE TypeOK'
  BY <1>2, ZenonT(60) DEF CheckMission, GoTo, queueVars
<1>3. ASSUME NEW w \in Workers, MarkPlanning(w) PROVE TypeOK'
  BY <1>3, ZenonT(60) DEF MarkPlanning, GoTo, queueVars
<1>4. ASSUME NEW w \in Workers, PlanMission(w) PROVE TypeOK'
  BY <1>4, ZenonT(60) DEF PlanMission, GoTo, queueVars
<1>5. ASSUME NEW w \in Workers, RunMission(w) PROVE TypeOK'
  <2>1. mission' \in [Missions -> MissionStatuses]
    BY <1>5 DEF RunMission
  <2> QED BY <1>5, <2>1 DEF RunMission, GoTo, queueVars
<1>6. ASSUME NEW w \in Workers, Report(w) PROVE TypeOK'
  BY <1>6 DEF Report, Return, Finish, GoTo
<1>7. ASSUME NEW w \in Workers, StrandMission(w) \/ ReportLost(w) \/ Panic(w) PROVE TypeOK'
  <2>1. CASE StrandMission(w)
    BY <2>1 DEF StrandMission, GoTo, queueVars
  <2>2. CASE ReportLost(w)
    BY <2>2 DEF ReportLost, Return, GoTo, queueVars
  <2>3. CASE Panic(w)
    BY <2>3 DEF Panic, GoTo, queueVars
  <2> QED BY <1>7, <2>1, <2>2, <2>3
<1>8. ASSUME NEW w \in Workers, Beat(w) \/ LoseBeat(w) PROVE TypeOK'
  <2>1. CASE Beat(w)
    BY <2>1 DEF Beat, Heartbeat, workVars
  <2>2. CASE LoseBeat(w)
    BY <2>2 DEF LoseBeat, queueVars
  <2> QED BY <1>8, <2>1, <2>2
<1>9. ASSUME NEW i \in RowIds, Age(i) PROVE TypeOK'
  BY <1>9 DEF Age, GrowOld, workVars
<1>10. ASSUME NEW c \in Callers, Enqueue(c) PROVE TypeOK'
  <2>1. ASSUME NEW m \in Missions, LookUp(c, m) PROVE TypeOK'
    <3>1. want' = [want EXCEPT ![c] = m] /\ UNCHANGED <<count, of, status, age, workVars, faults, restarts>>
      BY <1>10, <2>1 DEF Enqueue, LookUp, Seek
    <3>2. crowd' \in [Missions -> Nat]
      BY <2>1, SeekCounts
    <3> QED BY <3>1, <3>2 DEF workVars
  <2>2. CASE Insert(c)
    BY <1>10, <2>2 DEF Enqueue, Insert, workVars
  <2> QED BY <1>10, <2>1, <2>2 DEF Enqueue
<1>11. CASE Janitor
  BY <1>11 DEF Janitor, RequeueStale, workVars
<1>12. CASE Restart
  BY <1>12 DEF Restart
<1>13. CASE UNCHANGED vars
  BY <1>13 DEF vars, queueVars, workVars
<1> QED BY <1>1, <1>2, <1>3, <1>4, <1>5, <1>6, <1>7, <1>8, <1>9, <1>10,
           <1>11, <1>12, <1>13 DEF Next, WorkerStep

\* Every variable of the pool stays in its type, and a worker that works has a
\* row that exists.
THEOREM TypeCorrect == Spec => []TypeOK
<1>1. PoolInit => TypeOK
  BY DEF PoolInit, Init, TypeOK, QueueTypeOK, RowIds, Present, QueueStatuses,
         Ages, WorkerPC, Executing, MissionStatuses, MissionTerminal
<1> QED BY <1>1, NextType, PTL DEF Spec

-----------------------------------------------------------------------------
(* The queue *)

\* Every row is of a mission.
RowsKnown == \A i \in Present : of[i] \in Missions

\* The rows callers are about to insert count as if they were there.
CrowdInv ==
    \A m \in Missions : Cardinality(ActiveRows(m)) + Cardinality(Seekers(m)) <= crowd[m]

QueueInv == TypeOK /\ RowsKnown /\ CrowdInv

\* What a step does to the rows: only enqueue adds one, no row changes its
\* mission, and no row becomes active again.
RowsFrame ==
    /\ count' = count
    /\ of' = of
    /\ \A i \in Present : IsActive(i)' => IsActive(i)

\* Every step keeps the rows there are; only an insert adds one.
LEMMA RowsStep ==
    ASSUME TypeOK, [Next]_vars
    PROVE  \/ RowsFrame /\ want' = want /\ crowd' = crowd
           \/ RowsFrame /\ want' = [c \in Callers |-> NoMission] /\ crowd' = crowd
           \/ RowsFrame /\ \E c \in Callers, m \in Missions : LookUp(c, m)
           \/ \E c \in Callers : Insert(c)
<1> USE DEF TypeOK, QueueTypeOK, RowIds, Present, RowsFrame, IsActive
<1>1. ASSUME NEW w \in Workers, Take(w) PROVE RowsFrame /\ want' = want /\ crowd' = crowd
  BY <1>1 DEF Take, Claim
<1>2. ASSUME NEW w \in Workers, \/ CheckMission(w) \/ MarkPlanning(w) \/ PlanMission(w)
                                \/ RunMission(w) \/ StrandMission(w) \/ ReportLost(w)
                                \/ Panic(w) \/ LoseBeat(w)
      PROVE RowsFrame /\ want' = want /\ crowd' = crowd
  BY <1>2 DEF CheckMission, MarkPlanning, PlanMission, RunMission, StrandMission,
              ReportLost, Panic, LoseBeat, queueVars
<1>3. ASSUME NEW w \in Workers, Report(w) PROVE RowsFrame /\ want' = want /\ crowd' = crowd
  BY <1>3 DEF Report, Return, Finish
<1>4. ASSUME NEW w \in Workers, Beat(w) PROVE RowsFrame /\ want' = want /\ crowd' = crowd
  BY <1>4 DEF Beat, Heartbeat
<1>5. ASSUME NEW i \in RowIds, Age(i) PROVE RowsFrame /\ want' = want /\ crowd' = crowd
  BY <1>5 DEF Age, GrowOld
<1>6. ASSUME NEW c \in Callers, NEW m \in Missions, LookUp(c, m) PROVE RowsFrame
  BY <1>6 DEF LookUp, Seek
<1>7. CASE Janitor
  BY <1>7 DEF Janitor, RequeueStale, Stale
<1>8. CASE Restart
  BY <1>8 DEF Restart
<1>9. CASE UNCHANGED vars
  BY <1>9 DEF vars, queueVars
<1> QED BY <1>1, <1>2, <1>3, <1>4, <1>5, <1>6, <1>7, <1>8, <1>9
        DEF Next, WorkerStep, Enqueue

\* Rows that are done or failed are never queued again, whatever workers,
\* janitors, faults and restarts do.
THEOREM FinishedRowsStay == Spec => FinishedRowsRest
<1>1. TypeOK /\ [Next]_vars => [\A i \in Present : ~IsActive(i) => ~IsActive(i)']_queueVars
  <2> SUFFICES ASSUME TypeOK, [Next]_vars, NEW i \in Present, ~IsActive(i)
               PROVE  ~IsActive(i)'
    OBVIOUS
  <2>1. ASSUME NEW c \in Callers, Insert(c) PROVE ~IsActive(i)'
    BY <2>1 DEF Insert, IsActive, Present, TypeOK, QueueTypeOK, RowIds
  <2>2. ASSUME RowsFrame PROVE ~IsActive(i)'
    BY <2>2 DEF RowsFrame
  <2> QED BY <2>1, <2>2, RowsStep
<1> QED BY <1>1, TypeCorrect, PTL DEF Spec, FinishedRowsRest

\* What there is to count is finite.
LEMMA Counted ==
    ASSUME TypeOK, NEW m
    PROVE  /\ IsFiniteSet(ActiveRows(m)) /\ Cardinality(ActiveRows(m)) \in Nat
           /\ IsFiniteSet(Seekers(m)) /\ Cardinality(Seekers(m)) \in Nat
<1>1. IsFiniteSet(1 .. count)
  BY FS_Interval DEF TypeOK, QueueTypeOK
<1>2. ActiveRows(m) \subseteq 1 .. count /\ Seekers(m) \subseteq Callers
  BY DEF ActiveRows, Present, Seekers
<1> QED BY <1>1, <1>2, FS_Subset, FS_CardinalityType

\* Every step keeps the count: a caller comes to insert a row when there is none,
\* and the row it inserts replaces it in the count.
LEMMA NextCrowd ==
    ASSUME TypeOK, CrowdInv, [Next]_vars
    PROVE  CrowdInv'
<1> SUFFICES ASSUME NEW m \in Missions
             PROVE  Cardinality(ActiveRows(m)') + Cardinality(Seekers(m)') <= crowd'[m]
  BY DEF CrowdInv
<1>0. /\ Cardinality(ActiveRows(m)) + Cardinality(Seekers(m)) <= crowd[m] /\ crowd[m] \in Nat
      /\ IsFiniteSet(ActiveRows(m)) /\ Cardinality(ActiveRows(m)) \in Nat
      /\ IsFiniteSet(Seekers(m)) /\ Cardinality(Seekers(m)) \in Nat
  BY Counted DEF CrowdInv, TypeOK, QueueTypeOK
<1>1. ASSUME RowsFrame PROVE Cardinality(ActiveRows(m)') <= Cardinality(ActiveRows(m)) /\ Cardinality(ActiveRows(m)') \in Nat
  <2>1. ActiveRows(m)' \subseteq ActiveRows(m)
    BY <1>1 DEF RowsFrame, ActiveRows, Present
  <2> QED BY <1>0, <2>1, FS_Subset, FS_CardinalityType
<1>2. CASE RowsFrame /\ want' = want /\ crowd' = crowd
  <2>1. Seekers(m)' = Seekers(m)
    BY <1>2 DEF Seekers
  <2> QED BY <1>0, <1>1, <1>2, <2>1
<1>3. CASE RowsFrame /\ want' = [c \in Callers |-> NoMission] /\ crowd' = crowd
  <2>1. Seekers(m)' = {}
    BY <1>3 DEF Seekers
  <2>2. Cardinality(Seekers(m)') = 0
    BY <2>1, FS_EmptySet
  <2> QED BY <1>0, <1>1, <1>3, <2>2
<1>4. ASSUME RowsFrame, NEW c \in Callers, NEW k \in Missions, LookUp(c, k)
      PROVE  Cardinality(ActiveRows(m)') + Cardinality(Seekers(m)') <= crowd'[m]
  <2>1. want \in [Callers -> Missions \cup {NoMission}] /\ want[c] = NoMission /\ want' = [want EXCEPT ![c] = k]
    BY <1>4 DEF LookUp, Seek, TypeOK, QueueTypeOK
  <2>2. CASE k = m
    <3>1. Cardinality(ActiveRows(m)) = 0
      BY <1>4, <2>2, FS_EmptySet DEF LookUp
    <3>2. Seekers(m)' = Seekers(m) \cup {c} /\ c \notin Seekers(m)
      BY <2>1, <2>2 DEF Seekers
    <3>3. Cardinality(Seekers(m)') = Cardinality(Seekers(m)) + 1
      BY <1>0, <3>2, FS_AddElement
    <3>4. Cardinality(Seekers(m)) + 1 <= crowd'[m] /\ crowd'[m] \in Nat
      BY <1>4, <2>2, SeekCounts DEF TypeOK
    <3> QED BY <1>0, <1>1, <1>4, <3>1, <3>3, <3>4
  <2>3. CASE k # m
    <3>1. Seekers(m)' = Seekers(m)
      BY <2>1, <2>3 DEF Seekers
    <3>2. crowd'[m] = crowd[m]
      BY <1>4, <2>3, SeekCounts DEF TypeOK
    <3> QED BY <1>0, <1>1, <1>4, <3>1, <3>2
  <2> QED BY <2>2, <2>3
<1>5. ASSUME NEW c \in Callers, Insert(c)
      PROVE  Cardinality(ActiveRows(m)') + Cardinality(Seekers(m)') <= crowd'[m]
  <2>1. /\ count \in Nat /\ count' = count + 1 /\ count + 1 \in RowIds
        /\ of \in [RowIds -> Missions \cup {NoMission}] /\ status \in [RowIds -> QueueStatuses]
        /\ want \in [Callers -> Missions \cup {NoMission}] /\ want[c] # NoMission
        /\ of' = [of EXCEPT ![count + 1] = want[c]] /\ status' = [status EXCEPT ![count + 1] = "queued"]
        /\ want' = [want EXCEPT ![c] = NoMission] /\ crowd' = crowd
    BY <1>5 DEF Insert, TypeOK, QueueTypeOK, RowIds
  <2>2. Present' = Present \cup {count + 1} /\ count + 1 \notin Present /\ Present \subseteq RowIds
    BY <2>1 DEF Present, RowIds
  <2>3. CASE want[c] = m
    <3>1. ActiveRows(m)' = ActiveRows(m) \cup {count + 1} /\ count + 1 \notin ActiveRows(m)
      BY <2>1, <2>2, <2>3 DEF ActiveRows, IsActive
    <3>2. Seekers(m)' = Seekers(m) \ {c} /\ c \in Seekers(m)
      BY <2>1, <2>3 DEF Seekers
    <3>3. Cardinality(ActiveRows(m)') = Cardinality(ActiveRows(m)) + 1
      BY <1>0, <3>1, FS_AddElement
    <3>4. Cardinality(Seekers(m)') = Cardinality(Seekers(m)) - 1
      BY <1>0, <3>2, FS_RemoveElement
    <3> QED BY <1>0, <2>1, <3>3, <3>4
  <2>4. CASE want[c] # m
    <3>1. ActiveRows(m)' = ActiveRows(m)
      BY <2>1, <2>2, <2>4 DEF ActiveRows, IsActive
    <3>2. Seekers(m)' = Seekers(m)
      BY <2>1, <2>4 DEF Seekers
    <3> QED BY <1>0, <2>1, <3>1, <3>2
  <2> QED BY <2>3, <2>4
<1> QED BY <1>2, <1>3, <1>4, <1>5, RowsStep

\* Rows of missions stay rows of missions.
LEMMA NextKnown ==
    ASSUME TypeOK, RowsKnown, [Next]_vars
    PROVE  RowsKnown'
<1>1. CASE RowsFrame
  BY <1>1 DEF RowsFrame, RowsKnown, Present
<1>2. ASSUME NEW c \in Callers, Insert(c) PROVE RowsKnown'
  BY <1>2 DEF Insert, RowsKnown, Present, TypeOK, QueueTypeOK, RowIds
<1> QED BY <1>1, <1>2, RowsStep

LEMMA QueueInvariant == Spec => []QueueInv
<1>1. PoolInit => RowsKnown /\ CrowdInv
  <2> SUFFICES ASSUME PoolInit PROVE RowsKnown /\ CrowdInv
    OBVIOUS
  <2>1. Present = {}
    BY DEF PoolInit, Init, Present
  <2>2. \A m \in Missions : ActiveRows(m) = {} /\ Seekers(m) = {} /\ crowd[m] = 0
    BY <2>1 DEF PoolInit, Init, ActiveRows, Seekers
  <2> QED BY <2>1, <2>2, FS_EmptySet DEF RowsKnown, CrowdInv
<1>2. TypeOK /\ RowsKnown /\ CrowdInv /\ [Next]_vars => RowsKnown' /\ CrowdInv'
  BY NextKnown, NextCrowd
<1> QED BY <1>1, <1>2, TypeCorrect, PTL DEF Spec, QueueInv

\* RowsFollowCalls: however many callers enqueue a mission at once, it has no more
\* active rows than the most of them that have been between their two statements at
\* once; so one, where they have not overlapped.
THEOREM RowsPerCall == Spec => []RowsFollowCalls
<1>1. QueueInv => RowsFollowCalls
  <2> SUFFICES ASSUME QueueInv, NEW m \in Missions PROVE Cardinality(ActiveRows(m)) <= crowd[m]
    BY DEF RowsFollowCalls
  <2>1. Cardinality(ActiveRows(m)) \in Nat /\ Cardinality(Seekers(m)) \in Nat /\ crowd[m] \in Nat
    BY Counted DEF QueueInv, TypeOK, QueueTypeOK
  <2>2. Cardinality(ActiveRows(m)) + Cardinality(Seekers(m)) <= crowd[m]
    BY DEF QueueInv, CrowdInv
  <2> QED BY <2>1, <2>2
<1> QED BY <1>1, QueueInvariant, PTL

-----------------------------------------------------------------------------
(* Claims *)

\* As long as nothing fails, a worker that works has its row to itself, and its
\* heartbeat keeps the janitor away from it.
ClaimInv ==
    faults = 0 =>
        /\ \A w \in Workers :
             /\ wpc[w] # "dead"
             /\ wpc[w] # "idle" => status[row[w]] = "claimed" /\ age[row[w]] = "fresh" /\ beat[w] = row[w]
        /\ \A v, w \in Workers : wpc[v] # "idle" /\ wpc[w] # "idle" /\ row[v] = row[w] => v = w

\* What a step that is no fault does to the rows workers have.
LEMMA NextClaim ==
    ASSUME Timely, TypeOK, ClaimInv, [Next]_vars
    PROVE  ClaimInv'
<1> USE DEF TypeOK, QueueTypeOK, RowIds, Present, ClaimInv, WorkerPC, Executing
<1>1. ASSUME NEW w \in Workers, Take(w) PROVE ClaimInv'
  <2>1. PICK i \in RowIds : /\ Claim(i)
                            /\ row' = [row EXCEPT ![w] = i]
                            /\ beat' = [beat EXCEPT ![w] = i]
    BY <1>1 DEF Take
  <2>2. i \in Present /\ status[i] = "queued"
        /\ status' = [status EXCEPT ![i] = "claimed"] /\ age' = [age EXCEPT ![i] = "fresh"]
    BY <2>1 DEF Claim
  <2>3. wpc' = [wpc EXCEPT ![w] = "claimed"] /\ faults' = faults
    BY <1>1 DEF Take
  <2> QED BY <2>1, <2>2, <2>3
<1>2. ASSUME NEW w \in Workers, CheckMission(w) \/ MarkPlanning(w) \/ PlanMission(w) \/ RunMission(w)
      PROVE  ClaimInv'
  <2>1. /\ UNCHANGED <<status, age, row, beat, faults>>
        /\ wpc[w] # "idle" /\ \E pc \in Executing \cup {"report"} : wpc' = [wpc EXCEPT ![w] = pc]
    BY <1>2 DEF CheckMission, MarkPlanning, PlanMission, RunMission, GoTo, queueVars
  <2> QED BY <2>1
<1>3. ASSUME NEW w \in Workers, Report(w) PROVE ClaimInv'
  <2>1. /\ wpc[w] = "report" /\ wpc' = [wpc EXCEPT ![w] = "idle"] /\ beat' = [beat EXCEPT ![w] = NoRow]
        /\ row' = [row EXCEPT ![w] = NoRow] /\ UNCHANGED <<age, faults>>
        /\ \A i \in RowIds : i # row[w] => status'[i] = status[i]
    BY <1>3 DEF Report, Return, Finish, GoTo
  <2> QED BY <2>1
<1>4. ASSUME NEW w \in Workers, StrandMission(w) \/ ReportLost(w) \/ Panic(w) \/ LoseBeat(w)
      PROVE  ClaimInv'
  BY <1>4 DEF StrandMission, ReportLost, Panic, LoseBeat
<1>5. ASSUME NEW w \in Workers, Beat(w) PROVE ClaimInv'
  BY <1>5 DEF Beat, Heartbeat, workVars
<1>6. ASSUME NEW i \in RowIds, Age(i) PROVE ClaimInv'
  <2>1. UNCHANGED <<wpc, row, beat, status, faults>> /\ \A w \in Workers : beat[w] # i
        /\ age' = [age EXCEPT ![i] = "old"]
    BY <1>6 DEF Age, GrowOld, workVars
  <2> QED BY <2>1
<1>7. ASSUME NEW c \in Callers, Enqueue(c) PROVE ClaimInv'
  <2>1. UNCHANGED workVars /\ UNCHANGED faults
    BY <1>7 DEF Enqueue
  <2>2. \A i \in Present : status'[i] = status[i] /\ age'[i] = age[i]
    BY <1>7 DEF Enqueue, LookUp, Seek, Insert
  <2> QED BY <2>1, <2>2 DEF workVars
<1>8. CASE Janitor
  <2>1. UNCHANGED workVars /\ UNCHANGED faults
    BY <1>8 DEF Janitor
  <2>2. \A i \in Present : age[i] = "fresh" => status'[i] = status[i] /\ age'[i] = age[i]
    BY <1>8 DEF Janitor, RequeueStale, Stale
  <2> QED BY <2>1, <2>2 DEF workVars
<1>9. CASE Restart
  BY <1>9 DEF Restart
<1>10. CASE UNCHANGED vars
  BY <1>10 DEF vars, queueVars, workVars
<1> QED BY <1>1, <1>2, <1>3, <1>4, <1>5, <1>6, <1>7, <1>8, <1>9, <1>10 DEF Next, WorkerStep

\* A mission whose enqueues have not overlapped has one active row at most.
LEMMA OneRow ==
    ASSUME QueueInv, NEW m \in Missions, EnqueuedAlone(m), NEW i \in ActiveRows(m), NEW j \in ActiveRows(m)
    PROVE  i = j
<1>1. /\ Cardinality(ActiveRows(m)) + Cardinality(Seekers(m)) <= crowd[m] /\ crowd[m] \in Nat
      /\ IsFiniteSet(ActiveRows(m)) /\ Cardinality(ActiveRows(m)) \in Nat /\ Cardinality(Seekers(m)) \in Nat
  BY Counted DEF QueueInv, CrowdInv, TypeOK, QueueTypeOK
<1>2. Cardinality(ActiveRows(m)) <= 1
  BY <1>1 DEF EnqueuedAlone
<1>3. IsFiniteSet(ActiveRows(m) \ {i}) /\ Cardinality(ActiveRows(m) \ {i}) = Cardinality(ActiveRows(m)) - 1
  BY <1>1, FS_RemoveElement
<1>4. Cardinality(ActiveRows(m) \ {i}) = 0
  BY <1>1, <1>2, <1>3, FS_CardinalityType
<1>5. ActiveRows(m) \ {i} = {}
  BY <1>3, <1>4, FS_EmptySet
<1> QED BY <1>5

\* A worker is alone with its mission.
LEMMA AloneWithMission ==
    ASSUME QueueInv, ClaimInv, faults = 0, NEW v \in Workers, NEW w \in Workers,
           wpc[v] # "idle", wpc[w] # "idle", MissionOf(v) = MissionOf(w), EnqueuedAlone(MissionOf(v))
    PROVE  v = w
<1>1. row[v] \in Present /\ row[w] \in Present /\ MissionOf(v) \in Missions
  BY DEF QueueInv, TypeOK, RowsKnown, MissionOf
<1>2. IsActive(row[v]) /\ IsActive(row[w])
  BY <1>1 DEF ClaimInv, IsActive
<1>3. row[v] \in ActiveRows(MissionOf(v)) /\ row[w] \in ActiveRows(MissionOf(v))
  BY <1>1, <1>2 DEF ActiveRows, MissionOf
<1>4. row[v] = row[w]
  BY <1>1, <1>3, OneRow
<1> QED BY <1>4 DEF ClaimInv

\* OneWorkerPerMission: a mission is planned and executed by one worker at a time,
\* across restarts, where enqueues of it have not overlapped and the heartbeats are
\* faster than the stale threshold; until the first fault.
THEOREM WorkersStayApart ==
    ASSUME Timely
    PROVE  Spec => []OneWorkerPerMission
<1>1. PoolInit => ClaimInv
  BY DEF PoolInit, ClaimInv
<1>2. TypeOK /\ ClaimInv /\ [Next]_vars => ClaimInv'
  BY NextClaim
<1>3. QueueInv /\ ClaimInv => OneWorkerPerMission
  BY AloneWithMission DEF OneWorkerPerMission
<1> QED BY <1>1, <1>2, <1>3, TypeCorrect, QueueInvariant, PTL DEF Spec

-----------------------------------------------------------------------------
(* The end of a mission *)

\* The status a mission has while a worker works on it.
StatusAt(pc, s) ==
    /\ pc = "draft" => s = "Draft"
    /\ pc = "planning" => s = "Planning"
    /\ pc = "running" => s = "Running"
    /\ pc = "report" => s \in MissionTerminal

\* As long as nothing goes wrong, a mission that has begun and not ended is in the
\* hands of a worker, and one that a worker reports has ended; if enqueues of it
\* have not overlapped.
EndInv ==
    Undisturbed =>
        /\ \A w \in Workers : EnqueuedAlone(MissionOf(w)) => StatusAt(wpc[w], mission[MissionOf(w)])
        /\ \A m \in Missions : EnqueuedAlone(m) =>
             \/ mission[m] \in {"Draft"} \cup MissionTerminal
             \/ \E w \in Workers : wpc[w] \in {"planning", "running"} /\ MissionOf(w) = m
        /\ FinishedMeansEnded

\* A worker takes a step, and leaves its mission with the status it should have.
LEMMA WorkerWorks ==
    ASSUME QueueInv, ClaimInv, EndInv, Undisturbed,
           NEW w \in Workers, wpc[w] \in Executing, NEW m, m = MissionOf(w),
           NEW pc \in Executing \cup {"report"}, NEW s,
           UNCHANGED <<count, of, status, crowd, row>>,
           wpc' = [wpc EXCEPT ![w] = pc], mission' = [mission EXCEPT ![m] = s],
           EnqueuedAlone(m) =>
             /\ StatusAt(pc, s)
             /\ s \in {"Draft"} \cup MissionTerminal \/ pc \in {"planning", "running"}
             /\ mission[m] \in MissionTerminal => s \in MissionTerminal
    PROVE  EndInv'
<1>0. TypeOK /\ RowsKnown /\ faults = 0 /\ wpc[w] # "idle" /\ m \in Missions
  BY DEF QueueInv, Undisturbed, TypeOK, QueueTypeOK, Executing, RowsKnown, MissionOf
<1>a. \A k : EnqueuedAlone(k)' <=> EnqueuedAlone(k)
  BY DEF EnqueuedAlone
<1>1. mission'[m] = s /\ \A k \in Missions \ {m} : mission'[k] = mission[k]
  BY <1>0 DEF TypeOK
<1>2. wpc'[w] = pc /\ \A v \in Workers \ {w} : wpc'[v] = wpc[v]
  BY <1>0 DEF TypeOK
<1>3. \A v \in Workers : wpc[v] # "idle" => row[v] \in Present /\ of[row[v]] \in Missions
  BY <1>0 DEF TypeOK, RowsKnown
<1>4. \A v \in Workers \ {w} : wpc[v] # "idle" /\ EnqueuedAlone(MissionOf(v)) => MissionOf(v) # m
  BY <1>0, AloneWithMission
<1>5. \A v \in Workers : MissionOf(v)' = MissionOf(v)
  BY DEF MissionOf
<1>6. ASSUME NEW v \in Workers, EnqueuedAlone(MissionOf(v)) PROVE StatusAt(wpc'[v], mission'[MissionOf(v)])
  <2>1. CASE v = w
    BY <1>1, <1>2, <1>6, <2>1
  <2>2. CASE v # w /\ wpc[v] # "idle"
    <3>1. MissionOf(v) \in Missions \ {m}
      BY <1>3, <1>4, <1>6, <2>2 DEF MissionOf
    <3>2. StatusAt(wpc[v], mission[MissionOf(v)])
      BY <1>6 DEF EndInv
    <3> QED BY <1>1, <1>2, <2>2, <3>1, <3>2
  <2>3. CASE v # w /\ wpc[v] = "idle"
    BY <1>2, <2>3 DEF StatusAt
  <2> QED BY <2>1, <2>2, <2>3
<1>7. ASSUME NEW k \in Missions, EnqueuedAlone(k)
      PROVE  \/ mission'[k] \in {"Draft"} \cup MissionTerminal
             \/ \E v \in Workers : wpc'[v] \in {"planning", "running"} /\ MissionOf(v) = k
  <2>1. CASE k = m
    BY <1>1, <1>2, <1>7, <2>1
  <2>2. CASE k # m
    <3>1. \/ mission[k] \in {"Draft"} \cup MissionTerminal
          \/ \E v \in Workers : wpc[v] \in {"planning", "running"} /\ MissionOf(v) = k
      BY <1>7 DEF EndInv
    <3> QED BY <1>1, <1>2, <2>2, <3>1
  <2> QED BY <2>1, <2>2
<1>8. ASSUME NEW i \in Present, ~IsActive(i), EnqueuedAlone(of[i]) PROVE mission'[of[i]] \in MissionTerminal
  <2>1. mission[of[i]] \in MissionTerminal /\ of[i] \in Missions
    BY <1>0, <1>8 DEF EndInv, FinishedMeansEnded, RowsKnown
  <2>2. of[i] = m => EnqueuedAlone(m)
    BY <1>8
  <2> QED BY <1>1, <2>1, <2>2
<1>9. Present' = Present /\ \A i : IsActive(i)' <=> IsActive(i)
  BY DEF Present, IsActive
<1>10. FinishedMeansEnded'
  <2>1. \A i : EnqueuedAlone(of[i])' <=> EnqueuedAlone(of[i])
    BY DEF EnqueuedAlone
  <2> QED BY <1>8, <1>9, <2>1 DEF FinishedMeansEnded
<1>11. /\ \A v \in Workers : (EnqueuedAlone(MissionOf(v)) => StatusAt(wpc[v], mission[MissionOf(v)]))'
       /\ \A k \in Missions : EnqueuedAlone(k)' =>
            \/ mission'[k] \in {"Draft"} \cup MissionTerminal
            \/ \E v \in Workers : wpc'[v] \in {"planning", "running"} /\ MissionOf(v)' = k
  BY <1>a, <1>5, <1>6, <1>7 DEF StatusAt, EnqueuedAlone
<1> QED BY <1>10, <1>11 DEF EndInv

\* A step that leaves missions and workers alone, and finishes no row.
LEMMA RowsWait ==
    ASSUME EndInv, Undisturbed, TypeOK, RowsKnown, UNCHANGED <<mission, wpc, row>>,
           \A m \in Missions : EnqueuedAlone(m)' => EnqueuedAlone(m),
           \A i \in Present : of'[i] = of[i] /\ (IsActive(i) => IsActive(i)'),
           \A i \in Present' : i \notin Present => IsActive(i)'
    PROVE  EndInv'
<1>1. \A w \in Workers : wpc[w] # "idle" => MissionOf(w)' = MissionOf(w) /\ MissionOf(w) \in Missions
  BY DEF TypeOK, MissionOf, RowsKnown
<1>2. FinishedMeansEnded'
  <2> SUFFICES ASSUME NEW i \in Present', ~IsActive(i)', EnqueuedAlone(of[i])'
               PROVE  mission'[of'[i]] \in MissionTerminal
    BY DEF FinishedMeansEnded
  <2>1. i \in Present /\ ~IsActive(i) /\ of'[i] = of[i] /\ of[i] \in Missions
    BY DEF RowsKnown
  <2>2. EnqueuedAlone(of[i])
    BY <2>1 DEF EnqueuedAlone
  <2> QED BY <2>1, <2>2 DEF EndInv, FinishedMeansEnded
<1>3. ASSUME NEW w \in Workers, EnqueuedAlone(MissionOf(w))' PROVE StatusAt(wpc[w], mission[MissionOf(w)])'
  <2>1. CASE wpc[w] = "idle"
    BY <2>1 DEF StatusAt
  <2>2. CASE wpc[w] # "idle"
    <3>1. EnqueuedAlone(MissionOf(w))
      BY <1>1, <1>3, <2>2 DEF EnqueuedAlone
    <3> QED BY <1>1, <2>2, <3>1 DEF EndInv, StatusAt
  <2> QED BY <2>1, <2>2
<1>4. \A m \in Missions : EnqueuedAlone(m)' =>
         \/ mission'[m] \in {"Draft"} \cup MissionTerminal
         \/ \E w \in Workers : wpc'[w] \in {"planning", "running"} /\ MissionOf(w)' = m
  BY <1>1 DEF EndInv
<1> QED BY <1>2, <1>3, <1>4 DEF EndInv

\* Every step preserves it, faults and restarts by not being without fault.
LEMMA NextEnd ==
    ASSUME QueueInv, ClaimInv, EndInv, [Next]_vars
    PROVE  EndInv'
<1>0. TypeOK /\ RowsKnown
  BY DEF QueueInv
<1>2. CASE ~Undisturbed'
  BY <1>2 DEF EndInv
<1>3. CASE Undisturbed' /\ ~Undisturbed
  <2>1. faults' = 0 /\ restarts' = 0 /\ (faults # 0 \/ restarts # 0) /\ faults \in Nat /\ restarts \in Nat
    BY <1>0, <1>3 DEF Undisturbed, TypeOK
  <2> QED BY <2>1 DEF Next, WorkerStep, Take, CheckMission, MarkPlanning, PlanMission, RunMission, Report,
                      StrandMission, ReportLost, Panic, Beat, LoseBeat, Age, Enqueue, Janitor, Restart, vars
<1>4. ASSUME Undisturbed, Undisturbed' PROVE EndInv'
  <2>a. faults = 0 /\ faults' = 0 /\ restarts' = 0 /\ restarts = 0
    BY <1>4 DEF Undisturbed
  <2>b. \A v, w \in Workers : /\ wpc[v] # "idle" /\ wpc[w] # "idle"
                             /\ MissionOf(v) = MissionOf(w) /\ EnqueuedAlone(MissionOf(v)) => v = w
    BY <2>a, AloneWithMission
  <2>c. \A w \in Workers : wpc[w] # "idle" => MissionOf(w) \in Missions
    BY <1>0 DEF TypeOK, RowsKnown, MissionOf
  <2>1. ASSUME NEW w \in Workers, CheckMission(w) PROVE EndInv'
    <3>m. PICK m, s : m = MissionOf(w) /\ s = mission[m]
      OBVIOUS
    <3>1. wpc[w] = "claimed" /\ m \in Missions /\ UNCHANGED <<count, of, status, crowd, row, mission>>
      BY <2>1, <2>c, <3>m DEF CheckMission, queueVars
    <3>2. mission' = [mission EXCEPT ![m] = s]
      BY <1>0, <3>m, <3>1 DEF TypeOK
    <3>3. EnqueuedAlone(m) => s \in {"Draft"} \cup MissionTerminal
      BY <1>4, <2>b, <3>m, <3>1 DEF EndInv
    <3>4. CanTransition(s, "Planning") <=> s = "Draft"
      BY DEF CanTransition, MissionTransitions, MissionTerminal
    <3>5. PICK pc \in {"draft", "report"} : wpc' = [wpc EXCEPT ![w] = pc] /\ (EnqueuedAlone(m) => StatusAt(pc, s))
      BY <2>1, <3>m, <3>3, <3>4 DEF CheckMission, GoTo, StatusAt
    <3>6. pc \in Executing \cup {"report"} /\ wpc[w] \in Executing
      BY <3>1 DEF Executing
    <3>7. EnqueuedAlone(m) => /\ StatusAt(pc, s)
                              /\ s \in {"Draft"} \cup MissionTerminal \/ pc \in {"planning", "running"}
                              /\ mission[m] \in MissionTerminal => s \in MissionTerminal
      BY <3>m, <3>3, <3>5
    <3>8. wpc' = [wpc EXCEPT ![w] = pc] /\ UNCHANGED <<count, of, status, crowd, row>>
      BY <3>1, <3>5
    <3> QED BY <1>4, <3>m, <3>2, <3>6, <3>7, <3>8, WorkerWorks
  <2>2. ASSUME NEW w \in Workers, MarkPlanning(w) PROVE EndInv'
    <3>m. PICK m : m = MissionOf(w)
      OBVIOUS
    <3>1. /\ wpc[w] = "draft" /\ UNCHANGED <<count, of, status, crowd, row>>
          /\ mission' = [mission EXCEPT ![m] = "Planning"] /\ wpc' = [wpc EXCEPT ![w] = "planning"]
      BY <2>2, <3>m DEF MarkPlanning, GoTo, queueVars
    <3>2. EnqueuedAlone(m) => mission[m] = "Draft"
      BY <1>4, <3>m, <3>1 DEF EndInv, StatusAt
    <3>3. StatusAt("planning", "Planning") /\ (EnqueuedAlone(m) => mission[m] \notin MissionTerminal)
      BY <3>2 DEF StatusAt, MissionTerminal
    <3> QED BY <1>4, <3>m, <3>1, <3>3, WorkerWorks DEF Executing
  <2>3. ASSUME NEW w \in Workers, PlanMission(w) PROVE EndInv'
    <3>m. PICK m : m = MissionOf(w)
      OBVIOUS
    <3>1. wpc[w] = "planning" /\ UNCHANGED <<count, of, status, crowd, row>>
      BY <2>3 DEF PlanMission, queueVars
    <3>2. EnqueuedAlone(m) => mission[m] = "Planning"
      BY <1>4, <3>m, <3>1 DEF EndInv, StatusAt
    <3>3. \/ mission' = [mission EXCEPT ![m] = "Running"] /\ wpc' = [wpc EXCEPT ![w] = "running"]
          \/ mission' = [mission EXCEPT ![m] = "Failed"] /\ wpc' = [wpc EXCEPT ![w] = "report"]
      BY <2>3, <3>m DEF PlanMission, GoTo
    <3>4. StatusAt("running", "Running") /\ StatusAt("report", "Failed") /\ (EnqueuedAlone(m) => mission[m] \notin MissionTerminal)
          /\ "Failed" \in MissionTerminal
      BY <3>2 DEF StatusAt, MissionTerminal
    <3> QED BY <1>4, <3>m, <3>1, <3>3, <3>4, WorkerWorks DEF Executing
  <2>4. ASSUME NEW w \in Workers, RunMission(w) PROVE EndInv'
    <3>m. PICK m : m = MissionOf(w)
      OBVIOUS
    <3>1. wpc[w] = "running" /\ UNCHANGED <<count, of, status, crowd, row>> /\ wpc' = [wpc EXCEPT ![w] = "report"]
      BY <2>4 DEF RunMission, GoTo, queueVars
    <3>2. (EnqueuedAlone(m) => mission[m] = "Running") /\ m \in Missions
      BY <1>4, <2>c, <3>m, <3>1 DEF EndInv, StatusAt
    <3>3. \A verdict \in MissionTerminal : CanTransition("Running", verdict)
      BY DEF CanTransition, MissionTransitions, MissionTerminal
    <3>4. PICK verdict \in MissionTerminal :
            mission' = [mission EXCEPT ![m] = IF CanTransition(@, verdict) THEN verdict ELSE @]
      BY <2>4, <3>m DEF RunMission
    <3>5. PICK s : s = IF CanTransition(mission[m], verdict) THEN verdict ELSE mission[m]
      OBVIOUS
    <3>6. mission' = [mission EXCEPT ![m] = s] /\ (EnqueuedAlone(m) => s = verdict)
      BY <3>2, <3>3, <3>4, <3>5
    <3>7. StatusAt("report", verdict)
      BY DEF StatusAt
    <3> QED BY <1>4, <3>m, <3>1, <3>6, <3>7, WorkerWorks DEF Executing
  <2>5. ASSUME NEW w \in Workers, Report(w) PROVE EndInv'
    <3>1. /\ wpc[w] = "report" /\ UNCHANGED <<mission, count, of, crowd>>
          /\ wpc' = [wpc EXCEPT ![w] = "idle"] /\ row' = [row EXCEPT ![w] = NoRow]
          /\ \A i \in RowIds : i # row[w] => status'[i] = status[i]
      BY <2>5 DEF Report, Return, Finish, GoTo
    <3>2. wpc'[w] = "idle" /\ \A v \in Workers \ {w} : wpc'[v] = wpc[v]
      BY <1>0, <3>1 DEF TypeOK
    <3>3. EnqueuedAlone(of[row[w]]) => mission[of[row[w]]] \in MissionTerminal
      BY <1>4, <3>1 DEF EndInv, StatusAt, MissionOf
    <3>4. \A v \in Workers \ {w} : MissionOf(v)' = MissionOf(v)
      BY <1>0, <3>1 DEF MissionOf, TypeOK
    <3>5. FinishedMeansEnded'
      BY <1>0, <1>4, <3>1, <3>3 DEF FinishedMeansEnded, EndInv, EnqueuedAlone, IsActive, Present, RowIds, TypeOK, QueueTypeOK
    <3>6. \A v \in Workers : (EnqueuedAlone(MissionOf(v)) => StatusAt(wpc[v], mission[MissionOf(v)]))'
      BY <1>4, <3>1, <3>2, <3>4 DEF EndInv, EnqueuedAlone, StatusAt
    <3>7. \A m \in Missions : EnqueuedAlone(m)' =>
                            \/ mission'[m] \in {"Draft"} \cup MissionTerminal
                            \/ \E v \in Workers : wpc'[v] \in {"planning", "running"} /\ MissionOf(v)' = m
      BY <1>4, <3>1, <3>2, <3>4 DEF EndInv, EnqueuedAlone
    <3> QED BY <3>5, <3>6, <3>7 DEF EndInv
  <2>6. ASSUME NEW w \in Workers, Take(w) PROVE EndInv'
    <3>1. PICK i \in RowIds : Claim(i) /\ row' = [row EXCEPT ![w] = i]
      BY <2>6 DEF Take
    <3>2. /\ wpc[w] = "idle" /\ UNCHANGED <<mission, count, of, crowd>> /\ wpc' = [wpc EXCEPT ![w] = "claimed"]
          /\ status' = [status EXCEPT ![i] = "claimed"] /\ status[i] = "queued"
      BY <2>6, <3>1 DEF Take, Claim
    <3>3. wpc'[w] = "claimed" /\ \A v \in Workers \ {w} : wpc'[v] = wpc[v] /\ MissionOf(v)' = MissionOf(v)
      BY <1>0, <3>1, <3>2 DEF TypeOK, MissionOf
    <3>5. FinishedMeansEnded'
      <4>1. \A j \in Present : IsActive(j) => IsActive(j)'
        BY <1>0, <3>2 DEF IsActive, Present, RowIds, TypeOK, QueueTypeOK
      <4>2. \A j : EnqueuedAlone(of[j])' <=> EnqueuedAlone(of[j])
        BY <3>2 DEF EnqueuedAlone
      <4> QED BY <1>4, <3>2, <4>1, <4>2 DEF FinishedMeansEnded, EndInv, Present
    <3>6. \A v \in Workers : (EnqueuedAlone(MissionOf(v)) => StatusAt(wpc[v], mission[MissionOf(v)]))'
      BY <1>4, <3>2, <3>3 DEF EndInv, EnqueuedAlone, StatusAt
    <3>7. \A m \in Missions : EnqueuedAlone(m)' =>
                            \/ mission'[m] \in {"Draft"} \cup MissionTerminal
                            \/ \E v \in Workers : wpc'[v] \in {"planning", "running"} /\ MissionOf(v)' = m
      BY <1>4, <3>2, <3>3 DEF EndInv, EnqueuedAlone
    <3> QED BY <3>5, <3>6, <3>7 DEF EndInv
  <2>7. CASE \/ \E w \in Workers : Beat(w)
             \/ \E i \in RowIds : Age(i)
             \/ \E c \in Callers, m \in Missions : LookUp(c, m) /\ UNCHANGED workVars
             \/ UNCHANGED vars
    <3>1. UNCHANGED <<mission, wpc, row, count, of, status>>
      BY <2>7 DEF Beat, Heartbeat, Age, GrowOld, LookUp, Seek, vars, queueVars, workVars
    <3>e. \A m \in Missions : EnqueuedAlone(m)' => EnqueuedAlone(m)
      <4>1. CASE crowd' = crowd
        BY <4>1 DEF EnqueuedAlone
      <4>2. ASSUME NEW c \in Callers, NEW k \in Missions, LookUp(c, k) PROVE \A m \in Missions : EnqueuedAlone(m)' => EnqueuedAlone(m)
        <5>1. \A m \in Missions : crowd[m] <= crowd'[m] /\ crowd[m] \in Nat /\ crowd'[m] \in Nat
          BY <1>0, <4>2, SeekCounts DEF TypeOK, QueueTypeOK
        <5> QED BY <5>1 DEF EnqueuedAlone
      <4> QED BY <2>7, <4>1, <4>2 DEF Beat, Heartbeat, Age, GrowOld, vars, queueVars
    <3>2. \A i \in Present : of'[i] = of[i] /\ (IsActive(i) => IsActive(i)')
      BY <3>1 DEF IsActive, Present
    <3>3. \A i \in Present' : i \notin Present => IsActive(i)'
      BY <3>1 DEF Present
    <3>4. UNCHANGED <<mission, wpc, row>>
      BY <3>1
    <3> QED BY <1>0, <1>4, <3>2, <3>3, <3>4, <3>e, RowsWait
  <2>8. CASE Janitor
    <3>e. \A m \in Missions : EnqueuedAlone(m)' => EnqueuedAlone(m)
      BY <2>8 DEF Janitor, RequeueStale, EnqueuedAlone
    <3>1. UNCHANGED <<mission, wpc, row, count, of>>
      BY <2>8 DEF Janitor, RequeueStale, workVars
    <3>2. \A i \in Present : of'[i] = of[i] /\ (IsActive(i) => IsActive(i)')
      BY <1>0, <2>8 DEF Janitor, RequeueStale, IsActive, Present, RowIds, TypeOK, QueueTypeOK
    <3>3. \A i \in Present' : i \notin Present => IsActive(i)'
      BY <3>1 DEF Present
    <3>4. UNCHANGED <<mission, wpc, row>>
      BY <3>1
    <3> QED BY <1>0, <1>4, <3>2, <3>3, <3>4, <3>e, RowsWait
  <2>9. ASSUME NEW c \in Callers, Insert(c), UNCHANGED workVars PROVE EndInv'
    <3>1. \A i \in Present : of'[i] = of[i] /\ (IsActive(i) => IsActive(i)')
      BY <1>0, <2>9 DEF Insert, IsActive, Present, RowIds, TypeOK, QueueTypeOK
    <3>2. \A i \in Present' : i \notin Present => IsActive(i)'
      BY <1>0, <2>9 DEF Insert, IsActive, Present, RowIds, TypeOK, QueueTypeOK
    <3>3. UNCHANGED <<mission, wpc, row>>
      BY <2>9 DEF workVars
    <3>e. \A m \in Missions : EnqueuedAlone(m)' => EnqueuedAlone(m)
      BY <2>9 DEF Insert, EnqueuedAlone
    <3> QED BY <1>0, <1>4, <3>1, <3>2, <3>3, <3>e, RowsWait
  <2>10. ASSUME Restart \/ \E w \in Workers : StrandMission(w) \/ ReportLost(w) \/ Panic(w) \/ LoseBeat(w)
         PROVE  FALSE
    BY <2>a, <2>10 DEF Restart, StrandMission, ReportLost, Panic, LoseBeat
  <2>11. ASSUME NEW c \in Callers, Enqueue(c) PROVE EndInv'
    BY <2>7, <2>9, <2>11 DEF Enqueue
  <2>12. ASSUME NEW w \in Workers, WorkerStep(w) PROVE EndInv'
    BY <2>1, <2>2, <2>3, <2>4, <2>5, <2>6, <2>12 DEF WorkerStep
  <2> QED BY <2>7, <2>8, <2>10, <2>11, <2>12 DEF Next
<1> QED BY <1>2, <1>3, <1>4

\* FinishedMeansEnded: a row that is finished is of a mission that has ended,
\* where enqueues of it have not overlapped and the heartbeats are faster than the
\* stale threshold; until the first fault or restart.
THEOREM FinishedRowsHaveEnded ==
    ASSUME Timely
    PROVE  Spec => []FinishedMeansEnded
<1>1. PoolInit => ClaimInv /\ EndInv
  BY DEF PoolInit, Init, ClaimInv, Present, EndInv, StatusAt, FinishedMeansEnded
<1>2. QueueInv /\ ClaimInv /\ EndInv /\ [Next]_vars => ClaimInv' /\ EndInv'
  BY NextClaim, NextEnd DEF QueueInv
<1>3. EndInv => FinishedMeansEnded
  BY DEF EndInv, FinishedMeansEnded
<1> QED BY <1>1, <1>2, <1>3, QueueInvariant, PTL DEF Spec

=============================================================================
