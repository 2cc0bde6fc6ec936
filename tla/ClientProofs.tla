----------------------------- MODULE ClientProofs -----------------------------
(***************************************************************************)
(* Theorems about the HTTP server (ApiServer) and the programs that use it *)
(* (Clients), for any number of callers, missions, goals, extensions,      *)
(* faults and restarts.                                                    *)
(***************************************************************************)
EXTENDS Clients, FiniteSetTheorems, TLAPS

USE ServerAssumption, CallerAssumption, ClientAssumption DEF Missions, NoMission

-----------------------------------------------------------------------------
(* Type correctness *)

Steps == {"away", "inserting", "announcing", "planning", "polling", "reading",
          "checking", "redrafting", "cancelling"}

Statuses == MissionStatuses \cup {"none"}

Handlers == [at : Steps, op : Operations \cup {"none"}, mission : Missions \cup {NoMission}, late : BOOLEAN,
             status : Statuses, open : 0 .. MaxGoals, crossed : BOOLEAN]

Words == Operations \cup {"none", "refused", "told", "not found", "failed", "length", "accepted", "gone"}

Replies == [word : Words, mission : Missions \cup {NoMission}, status : Statuses, open : 0 .. MaxGoals,
            crossed : BOOLEAN]

\* Where a handler has a mission in hand.
InHand == Steps \ {"away", "inserting"}

TableType ==
    /\ rows \in [Missions -> Rows \cup {NoRow}]
    /\ token \subseteq Missions /\ announced \subseteq Missions /\ stranded \subseteq announced
    /\ extensions \in Nat /\ faults \in 0 .. MaxFaults

HandlerType ==
    /\ handler \in [Callers -> Handlers] /\ reply \in [Callers -> Replies]
    /\ \A c \in Callers : At(c) \in InHand => MissionOf(c) \in Missions
    /\ \A c \in Callers : reply[c].word = "create" => reply[c].mission \in Missions

\* A caller that drives a mission is in the handler of the request that plans it,
\* and what it drives has been announced.
DriverType ==
    /\ driver \in [Missions -> Callers \cup {Nobody, Task}]
    /\ \A m \in Missions : driver[m] \in Callers => MissionOf(driver[m]) = m /\ At(driver[m]) = "planning"
    /\ \A m \in Missions : driver[m] # Nobody => m \in announced

ClientType ==
    /\ watching \in [Shells -> Missions \cup {NoMission}] /\ overdue \in [Shells -> BOOLEAN]
    /\ message \in [Messages -> {"new", "refused", "ignored", "taken", "asked", "replied", "unsent", "lost"}]
    /\ acked \subseteq Messages /\ restarts \in 0 .. MaxRestarts

TypeInv == TableType /\ HandlerType /\ DriverType /\ ClientType

LEMMA Zero == 0 \in 0 .. MaxGoals /\ NoMission \in Missions \cup {NoMission}
OBVIOUS

\* A word is a reply, and nobody's handler is a handler.
LEMMA WordType == ASSUME NEW w \in Words PROVE Word(w) \in Replies /\ Word(w).word = w
BY Zero, Zenon DEF Word, Replies, Statuses

LEMMA AwayType == Away \in Handlers /\ Away.at = "away"
BY Zero, Zenon DEF Handlers, Away, Steps, Statuses

\* How the steps of a handler change it.
LEMMA GoToType ==
    ASSUME NEW h \in Handlers, NEW s \in Steps
    PROVE  /\ [h EXCEPT !.at = s] \in Handlers
           /\ [h EXCEPT !.at = s].at = s /\ [h EXCEPT !.at = s].mission = h.mission
BY DEF Handlers

LEMMA LookAgainType ==
    ASSUME NEW h \in Handlers
    PROVE  /\ [h EXCEPT !.at = "polling", !.status = "none", !.open = 0, !.crossed = FALSE] \in Handlers
           /\ [h EXCEPT !.at = "polling", !.status = "none", !.open = 0, !.crossed = FALSE].at = "polling"
BY Zero DEF Handlers, Steps, Statuses

LEMMA LateType ==
    ASSUME NEW h \in Handlers
    PROVE  [h EXCEPT !.late = TRUE] \in Handlers
BY DEF Handlers

LEMMA CrossedType ==
    ASSUME NEW h \in Handlers, NEW b \in BOOLEAN
    PROVE  /\ [h EXCEPT !.crossed = @ \/ b] \in Handlers
           /\ [h EXCEPT !.crossed = @ \/ b].at = h.at /\ [h EXCEPT !.crossed = @ \/ b].mission = h.mission
           /\ [h EXCEPT !.crossed = @ \/ b].status = h.status
BY Zenon DEF Handlers

LEMMA ToldType == ASSUME NEW h \in Handlers PROVE Told(h) \in Replies /\ Told(h).word = "told"
BY Zenon DEF Handlers, Told, Replies, Words

\* A request that comes in.
LEMMA AskType ==
    ASSUME NEW c \in Callers, NEW op \in Operations, NEW m \in Missions \cup {NoMission}, NEW role,
           handler \in [Callers -> Handlers], reply \in [Callers -> Replies], Ask(c, op, m, role)
    PROVE  /\ handler' \in [Callers -> Handlers] /\ reply' \in [Callers -> Replies]
           /\ \A d \in Callers \ {c} : handler'[d] = handler[d] /\ reply'[d] = reply[d]
           /\ handler[c].at = "away"
           /\ handler'[c].at \in {"away", "inserting", "checking", "cancelling", "polling"}
           /\ handler'[c].at = "checking" => op = "extend"
           /\ op \notin Creating => handler'[c].mission = m \/ handler'[c].at = "away"
           /\ op \in Creating => handler'[c].at \in {"away", "inserting"}
           /\ reply'[c].word # "create" /\ reply'[c].status = "none"
<1>1. CASE Allowed(op, role)
  <2> DEFINE h == [Away EXCEPT !.at = FirstStep(op), !.op = op, !.mission = m]
  <2>1. FirstStep(op) \in {"inserting", "checking", "cancelling", "polling"}
    BY DEF FirstStep
  <2>2. (FirstStep(op) = "checking" => op = "extend") /\ (op \in Creating => FirstStep(op) = "inserting")
    BY DEF FirstStep
  <2>3. h \in Handlers /\ h.at = FirstStep(op) /\ h.mission = m
    BY <2>1, AwayType DEF Handlers, Steps
  <2>4. Silence \in Replies /\ Silence.word # "create" /\ Silence.status = "none"
    BY WordType DEF Silence, Words, Word
  <2>5. handler' = [handler EXCEPT ![c] = h] /\ reply' = [reply EXCEPT ![c] = Silence] /\ At(c) = "away"
    BY <1>1 DEF Ask
  <2> HIDE DEF h
  <2> QED BY <2>1, <2>2, <2>3, <2>4, <2>5 DEF At
<1>2. CASE ~ Allowed(op, role)
  <2>1. Word("refused") \in Replies /\ Word("refused").word = "refused" /\ Word("refused").status = "none"
    BY WordType DEF Words, Word
  <2> QED BY <1>2, <2>1, AwayType DEF Ask, Answer, At
<1> QED BY <1>1, <1>2

LEMMA HandlerParts ==
    ASSUME NEW h \in Handlers
    PROVE  /\ h.mission \in Missions \cup {NoMission} /\ h.at \in Steps /\ h.op \in Operations \cup {"none"}
           /\ h.status \in Statuses /\ h.open \in 0 .. MaxGoals
BY DEF Handlers

LEMMA ReadType ==
    ASSUME NEW h \in Handlers, NEW r \in Rows
    PROVE  /\ [h EXCEPT !.status = r.status] \in Handlers /\ [h EXCEPT !.status = r.status].at = h.at
           /\ [h EXCEPT !.status = r.status].mission = h.mission
           /\ [h EXCEPT !.open = r.open] \in Handlers /\ [h EXCEPT !.open = r.open].at = h.at
           /\ [h EXCEPT !.open = r.open].mission = h.mission
BY DEF Handlers, Rows, Statuses

\* A step of one handler, which may tell its caller something.
HandlerMoves(c, h) ==
    /\ h \in Handlers /\ (h.at \in InHand => h.mission \in Missions)
    /\ handler' = [handler EXCEPT ![c] = h]
    /\ \/ reply' = reply
       \/ \E r \in Replies : (r.word = "create" => r.mission \in Missions) /\ reply' = [reply EXCEPT ![c] = r]

LEMMA HandlerMovesType ==
    ASSUME HandlerType, NEW c \in Callers, NEW h, HandlerMoves(c, h)
    PROVE  /\ HandlerType'
           /\ handler'[c] = h /\ \A d \in Callers \ {c} : handler'[d] = handler[d]
<1>1. handler'[c] = h /\ \A d \in Callers \ {c} : handler'[d] = handler[d]
  BY DEF HandlerMoves, HandlerType
<1>2. handler' \in [Callers -> Handlers] /\ \A d \in Callers : At(d)' \in InHand => MissionOf(d)' \in Missions
  BY <1>1 DEF HandlerMoves, HandlerType, At, MissionOf
<1>3. CASE reply' = reply
  BY <1>1, <1>2, <1>3 DEF HandlerType
<1>4. ASSUME NEW r \in Replies, r.word = "create" => r.mission \in Missions, reply' = [reply EXCEPT ![c] = r]
      PROVE  HandlerType'
  <2>1. reply' \in [Callers -> Replies] /\ reply'[c] = r /\ \A d \in Callers \ {c} : reply'[d] = reply[d]
    BY <1>4 DEF HandlerType
  <2> QED BY <1>2, <1>4, <2>1 DEF HandlerType
<1> QED BY <1>1, <1>3, <1>4 DEF HandlerMoves

\* Who drives what is not changed by a handler that drives nothing.
LEMMA DriversRest ==
    ASSUME DriverType, driver' = driver, announced \subseteq announced', NEW c, At(c) # "planning",
           \A d \in Callers \ {c} : handler'[d] = handler[d]
    PROVE  DriverType'
BY DEF DriverType, At, MissionOf

\* A handler that answers with a word is away.
LEMMA AnswerMoves ==
    ASSUME NEW c \in Callers, NEW r \in Replies, r.word # "create", Answer(c, r)
    PROVE  HandlerMoves(c, Away)
BY AwayType DEF Answer, HandlerMoves, InHand

\* The words a handler answers with.
LEMMA AnswerWords ==
    \A w \in {"refused", "not found", "failed", "length", "accepted", "gone"} :
        Word(w) \in Replies /\ Word(w).word # "create"
BY WordType DEF Words

LEMMA LookAgainMoves ==
    ASSUME HandlerType, NEW c \in Callers, At(c) \in InHand, LookAgain(c)
    PROVE  HandlerMoves(c, [handler[c] EXCEPT !.at = "polling", !.status = "none", !.open = 0, !.crossed = FALSE])
<1> DEFINE h == [handler[c] EXCEPT !.at = "polling", !.status = "none", !.open = 0, !.crossed = FALSE]
<1>1. h \in Handlers /\ h.mission \in Missions
  <2>1. handler[c] \in Handlers /\ handler[c].mission \in Missions
    BY DEF HandlerType, MissionOf
  <2> QED BY <2>1, LookAgainType DEF Handlers
<1>2. handler' = [handler EXCEPT ![c] = h] /\ reply' = reply
  BY DEF LookAgain, HandlerType
<1> QED BY <1>1, <1>2 DEF HandlerMoves

LEMMA GoToMoves ==
    ASSUME HandlerType, NEW c \in Callers, At(c) \in InHand, NEW s \in Steps, GoTo(c, s), reply' = reply
    PROVE  /\ HandlerMoves(c, [handler[c] EXCEPT !.at = s])
           /\ handler'[c].at = s /\ handler'[c].mission = MissionOf(c)
BY GoToType DEF HandlerMoves, HandlerType, GoTo, MissionOf

\* A step of a handler that drives nothing and leaves the tables alone.
LEMMA HandlerOnly ==
    ASSUME TypeInv, NEW c \in Callers, NEW h, HandlerMoves(c, h), At(c) # "planning",
           UNCHANGED <<rows, driver, announced, stranded, extensions>>, UNCHANGED clientVars,
           token' \subseteq Missions, faults' \in 0 .. MaxFaults
    PROVE  TypeInv'
<1>1. HandlerType' /\ DriverType'
  BY HandlerMovesType, DriversRest DEF TypeInv
<1> QED BY <1>1 DEF TypeInv, TableType, ClientType, clientVars

\* Every step of a handler keeps the types.
LEMMA HandlerStepType ==
    ASSUME TypeInv, NEW c \in Callers, HandlerStep(c) \/ TimeIsUp(c) \/ ReadFails(c), UNCHANGED clientVars
    PROVE  TypeInv'
<1> USE DEF TypeInv
<1>0. /\ handler[c] \in Handlers /\ MissionOf(c) \in Missions \cup {NoMission}
      /\ At(c) \in InHand => MissionOf(c) \in Missions
  BY HandlerParts DEF HandlerType, MissionOf
<1>1. CASE Insert(c)
  <2>1. PICK m \in Missions :
          /\ rows' = [rows EXCEPT ![m] = Service(m)!NewRow]
          /\ handler' = [handler EXCEPT ![c].at = "announcing", ![c].mission = m]
    BY <1>1 DEF Insert
  <2>2. Service(m)!NewRow \in Rows
    BY DEF Service!NewRow, Rows, MissionStatuses
  <2> DEFINE h == [handler[c] EXCEPT !.at = "announcing", !.mission = m]
  <2>3. h \in Handlers /\ h.mission = m
    BY <1>0 DEF Handlers, Steps
  <2>4. handler' = [handler EXCEPT ![c] = h]
    BY <2>1
  <2>5. HandlerMoves(c, h)
    BY <1>1, <2>3, <2>4 DEF HandlerMoves, Insert
  <2> HIDE DEF h
  <2>6. HandlerType' /\ DriverType'
    BY <1>1, <2>5, HandlerMovesType, DriversRest DEF Insert
  <2>7. TableType'
    BY <1>1, <2>1, <2>2 DEF TableType, Insert
  <2> QED BY <2>6, <2>7 DEF ClientType, clientVars
<1>2. CASE Announce(c)
  <2>1. MissionOf(c) \in Missions /\ At(c) # "planning" /\ At(c) \in InHand
    BY <1>0, <1>2 DEF Announce, InHand, Steps
  <2>2. \E h : HandlerMoves(c, h)
    <3>1. CASE handler[c].op \in Chats
      BY <1>2, <2>1, <3>1, GoToMoves DEF Announce, Steps
    <3>2. CASE handler[c].op \notin Chats
      <4>1. Word(handler[c].op) \in Replies
        BY <1>0, WordType, HandlerParts DEF Words
      <4>2. Created(c) \in Replies /\ Created(c).mission = MissionOf(c)
        BY <2>1, <4>1 DEF Created, Replies
      <4>3. Answer(c, Created(c))
        BY <1>2, <3>2 DEF Announce
      <4> QED BY <2>1, <4>2, <4>3, AwayType DEF HandlerMoves, Answer, InHand
    <3> QED BY <3>1, <3>2
  <2>3. HandlerType' /\ \A d \in Callers \ {c} : handler'[d] = handler[d]
    BY <2>2, HandlerMovesType
  <2>4. DriverType' /\ TableType'
    <3>1. CASE handler[c].op = "draft"
      BY <1>2, <2>1, <2>3, <3>1, DriversRest DEF Announce, TableType
    <3>2. CASE handler[c].op # "draft"
      <4>1. driver' = [driver EXCEPT ![MissionOf(c)] = Task] /\ announced' = announced \cup {MissionOf(c)}
        BY <1>2, <3>2 DEF Announce
      <4>2. DriverType'
        BY <2>1, <2>3, <4>1 DEF DriverType, At, MissionOf
      <4>3. TableType'
        BY <1>2, <2>1, <4>1 DEF TableType, Announce
      <4> QED BY <4>2, <4>3
    <3> QED BY <3>1, <3>2
  <2> QED BY <2>3, <2>4 DEF ClientType, clientVars
<1>3. CASE ReadFirst(c)
  <2>1. At(c) # "planning" /\ MissionOf(c) \in Missions
    BY <1>0, <1>3 DEF ReadFirst, InHand, Steps
  <2>2. CASE rows[MissionOf(c)] = NoRow
    <3>1. HandlerMoves(c, Away)
      BY <1>3, <2>2, AnswerMoves, AnswerWords DEF ReadFirst
    <3> QED BY <1>3, <2>1, <3>1, HandlerOnly DEF ReadFirst, TableType
  <2>3. CASE rows[MissionOf(c)] # NoRow
    <3> DEFINE g == [handler[c] EXCEPT !.at = "reading"]
    <3> DEFINE h == [g EXCEPT !.status = rows[MissionOf(c)].status]
    <3>1. g \in Handlers /\ g.mission = MissionOf(c)
      BY <1>0, GoToType DEF Steps, MissionOf
    <3>2. rows[MissionOf(c)] \in Rows
      BY <2>1, <2>3 DEF TableType
    <3>3. h \in Handlers /\ h.mission = MissionOf(c)
      BY <3>1, <3>2, ReadType
    <3>4. handler' = [handler EXCEPT ![c] = h] /\ reply' = reply
      BY <1>3, <2>3 DEF ReadFirst, Read, DetailReads, HandlerType
    <3> HIDE DEF g, h
    <3>5. HandlerMoves(c, h)
      BY <2>1, <3>3, <3>4 DEF HandlerMoves
    <3> QED BY <1>3, <2>1, <3>5, HandlerOnly DEF ReadFirst, TableType
  <2> QED BY <2>2, <2>3
<1>4. CASE ReadSecond(c)
  <2>1. At(c) # "planning" /\ At(c) \in InHand /\ MissionOf(c) \in Missions
    BY <1>0, <1>4 DEF ReadSecond, InHand, Steps
  <2> DEFINE h == Read(DetailReads[2], handler[c], rows[MissionOf(c)])
  <2>2. h \in Handlers
    <3>1. h = [handler[c] EXCEPT !.open = rows[MissionOf(c)].open]
      BY DEF Read, DetailReads
    <3>2. rows[MissionOf(c)].open \in 0 .. MaxGoals
      BY <2>1, Zero DEF TableType, Rows, NoRow
    <3> QED BY <1>0, <3>1, <3>2 DEF Handlers
  <2>3. Answer(c, Told(h)) \/ Answer(c, Word("length")) \/ LookAgain(c)
    BY <1>4 DEF ReadSecond
  <2> HIDE DEF h
  <2>4. \E k : HandlerMoves(c, k)
    BY <2>1, <2>2, <2>3, ToldType, AnswerMoves, AnswerWords, LookAgainMoves
  <2> QED BY <1>4, <2>1, <2>4, HandlerOnly DEF ReadSecond, TableType
<1>5. CASE CheckEnded(c)
  <2>1. At(c) # "planning" /\ At(c) \in InHand
    BY <1>5 DEF CheckEnded, InHand, Steps
  <2>2. \E k : HandlerMoves(c, k)
    <3>1. CASE rows[MissionOf(c)].status \in MissionTerminal
      BY <1>5, <2>1, <3>1, GoToMoves DEF CheckEnded, Steps
    <3>2. CASE rows[MissionOf(c)].status \notin MissionTerminal
      BY <1>5, <3>2, AnswerMoves, AnswerWords DEF CheckEnded
    <3> QED BY <3>1, <3>2
  <2>3. HandlerType' /\ DriverType'
    BY <1>5, <2>1, <2>2, HandlerMovesType, DriversRest DEF CheckEnded
  <2>4. TableType'
    BY <1>5 DEF CheckEnded, TableType
  <2> QED BY <2>3, <2>4 DEF ClientType, clientVars
<1>6. CASE Cancel(c)
  <2>1. HandlerMoves(c, Away) /\ At(c) # "planning"
    BY <1>6, AnswerMoves, AnswerWords DEF Cancel
  <2>2. token' \subseteq Missions
    BY <1>0, <1>6 DEF Cancel, TableType, InHand, Steps
  <2> QED BY <1>6, <2>1, <2>2, HandlerOnly DEF Cancel, TableType
<1>7. CASE TimeIsUp(c)
  <2>1. HandlerMoves(c, [handler[c] EXCEPT !.late = TRUE])
    <3> DEFINE h == [handler[c] EXCEPT !.late = TRUE]
    <3>1. h \in Handlers
      BY <1>0, LateType
    <3>2. h.at = At(c) /\ h.mission = MissionOf(c)
      BY <1>0 DEF Handlers, At, MissionOf
    <3>3. handler' = [handler EXCEPT ![c] = h] /\ reply' = reply
      BY <1>7 DEF TimeIsUp
    <3>4. HandlerMoves(c, h)
      <4> HIDE DEF h
      <4> QED BY <1>0, <3>1, <3>2, <3>3 DEF HandlerMoves
    <3> QED BY <3>4
  <2> QED BY <1>7, <2>1, HandlerOnly DEF TimeIsUp, TableType
<1>8. CASE ReadFails(c)
  <2>1. At(c) # "planning" /\ At(c) \in InHand
    BY <1>8 DEF ReadFails, InHand, Steps
  <2>2. Answer(c, Word("failed")) \/ Answer(c, Word("length")) \/ LookAgain(c)
    BY <1>8 DEF ReadFails
  <2>3. \E k : HandlerMoves(c, k)
    BY <2>1, <2>2, AnswerMoves, AnswerWords, LookAgainMoves
  <2>4. faults' \in 0 .. MaxFaults
    BY <1>8 DEF ReadFails, TableType
  <2> QED BY <1>8, <2>1, <2>3, <2>4, HandlerOnly DEF ReadFails, TableType
<1>9. CASE Redraft(c)
  <2>1. /\ driver' = [driver EXCEPT ![MissionOf(c)] = c] /\ announced' = announced \cup {MissionOf(c)}
        /\ MissionOf(c) \in Missions /\ At(c) = "redrafting"
    BY <1>0, <1>9 DEF Redraft, InHand, Steps
  <2>2. rows' \in [Missions -> Rows \cup {NoRow}]
    <3>1. rows' = [rows EXCEPT ![MissionOf(c)] = [rows[MissionOf(c)] EXCEPT !.status = "Draft"]]
      BY <1>9 DEF Redraft
    <3>2. [rows[MissionOf(c)] EXCEPT !.status = "Draft"] \in Rows
      <4>1. CASE rows[MissionOf(c)] \in Rows
        BY <4>1 DEF Rows, MissionStatuses
      <4>2. CASE rows[MissionOf(c)] = NoRow
        <5>1. [rows[MissionOf(c)] EXCEPT !.status = "Draft"] = Service(MissionOf(c))!NewRow
          BY <4>2 DEF NoRow, Service!NewRow
        <5>2. Service(MissionOf(c))!NewRow \in Rows
          BY DEF Service!NewRow, Rows, MissionStatuses
        <5> QED BY <5>1, <5>2
      <4> QED BY <2>1, <4>1, <4>2 DEF TableType
    <3> QED BY <2>1, <3>1, <3>2 DEF TableType
  <2>3. /\ handler' \in [Callers -> Handlers]
        /\ \A d \in Callers : handler'[d].mission = handler[d].mission
        /\ \A d \in Callers : handler'[d].at = IF d = c THEN "planning" ELSE handler[d].at
    <3>1. [handler[c] EXCEPT !.at = "planning"] \in Handlers /\ [handler[c] EXCEPT !.at = "planning"].at = "planning"
          /\ [handler[c] EXCEPT !.at = "planning"].mission = handler[c].mission
      BY <1>0, GoToType DEF Steps
    <3>2. ASSUME NEW d \in Callers
          PROVE  /\ [handler[d] EXCEPT !.crossed = @ \/ (At(d) = "reading" /\ MissionOf(d) = MissionOf(c))] \in Handlers
                 /\ [handler[d] EXCEPT !.crossed = @ \/ (At(d) = "reading" /\ MissionOf(d) = MissionOf(c))].at = handler[d].at
                 /\ [handler[d] EXCEPT !.crossed = @ \/ (At(d) = "reading" /\ MissionOf(d) = MissionOf(c))].mission = handler[d].mission
      <4>1. handler[d] \in Handlers
        BY DEF HandlerType
      <4>2. (At(d) = "reading" /\ MissionOf(d) = MissionOf(c)) \in BOOLEAN
        OBVIOUS
      <4> QED BY <4>1, <4>2, CrossedType, Zenon
    <3>3. handler' = [d \in Callers |->
          IF d = c THEN [handler[c] EXCEPT !.at = "planning"]
          ELSE [handler[d] EXCEPT !.crossed = @ \/ (At(d) = "reading" /\ MissionOf(d) = MissionOf(c))]]
      BY <1>9 DEF Redraft
    <3> QED BY <3>1, <3>2, <3>3, Zenon
  <2>4. HandlerType'
    BY <1>9, <2>1, <2>3 DEF HandlerType, Redraft, At, MissionOf, InHand
  <2>5. DriverType'
    BY <2>1, <2>3 DEF DriverType, At, MissionOf
  <2> QED BY <1>9, <2>1, <2>2, <2>4, <2>5 DEF TableType, Redraft, ClientType, clientVars
<1> QED BY <1>1, <1>2, <1>3, <1>4, <1>5, <1>6, <1>7, <1>8, <1>9 DEF HandlerStep

\* A step of the service keeps the types.
LEMMA WorkType ==
    ASSUME TypeInv, NEW m \in Missions, Work(m) \/ WorkFails(m), UNCHANGED clientVars
    PROVE  TypeInv'
<1> USE DEF TypeInv
<1>1. CASE Work(m)
  <2>1. PICK s \in Rows :
          /\ rows' = [rows EXCEPT ![m] = s]
          /\ driver' = [driver EXCEPT ![m] = IF s.status \in MissionTerminal THEN Nobody
                                             ELSE IF s.status = "Running" THEN Task ELSE @]
          /\ token' = IF s.status \in MissionTerminal THEN token \ {m} ELSE token
          /\ IF driver[m] \in Callers /\ s.status \in {"Running"} \cup MissionTerminal
             THEN Answer(driver[m], Word(IF s.status = "Running" THEN "accepted" ELSE "failed"))
             ELSE UNCHANGED <<handler, reply>>
    BY <1>1 DEF Work
  <2>2. TableType'
    BY <1>1, <2>1 DEF TableType, Work
  <2>3. m \in announced /\ announced' = announced
    BY <1>1 DEF Work, DriverType
  <2>4. CASE driver[m] \in Callers /\ s.status \in {"Running"} \cup MissionTerminal
    <3> DEFINE c == driver[m]
    <3>1. HandlerMoves(c, Away)
      BY <2>1, <2>4, AnswerMoves, AnswerWords
    <3>2. HandlerType' /\ \A d \in Callers \ {c} : handler'[d] = handler[d]
      BY <2>4, <3>1, HandlerMovesType
    <3>3. DriverType'
      <4>1. driver'[m] \in {Nobody, Task} /\ \A k \in Missions \ {m} : driver'[k] = driver[k]
        BY <2>1, <2>4 DEF DriverType
      <4>2. \A k \in Missions \ {m} : driver[k] # c
        BY <2>4 DEF DriverType
      <4>3. driver' \in [Missions -> Callers \cup {Nobody, Task}]
        BY <2>1, <4>1 DEF DriverType
      <4> QED BY <2>3, <3>2, <4>1, <4>2, <4>3 DEF DriverType, At, MissionOf
    <3> QED BY <2>2, <3>2, <3>3 DEF ClientType, clientVars
  <2>5. CASE ~ (driver[m] \in Callers /\ s.status \in {"Running"} \cup MissionTerminal)
    <3>1. HandlerType'
      BY <2>1, <2>5 DEF HandlerType, At, MissionOf
    <3>2. DriverType'
      BY <2>1, <2>3, <2>5 DEF DriverType, At, MissionOf
    <3> QED BY <2>2, <3>1, <3>2 DEF ClientType, clientVars
  <2> QED BY <2>4, <2>5
<1>2. CASE WorkFails(m)
  <2>1. TableType'
    BY <1>2 DEF TableType, WorkFails
  <2>2. driver' = [driver EXCEPT ![m] = Nobody] /\ announced' = announced
    BY <1>2 DEF WorkFails
  <2>3. CASE driver[m] \in Callers
    <3> DEFINE c == driver[m]
    <3>1. HandlerMoves(c, Away)
      BY <1>2, <2>3, AnswerMoves, AnswerWords DEF WorkFails
    <3>2. HandlerType' /\ \A d \in Callers \ {c} : handler'[d] = handler[d]
      BY <2>3, <3>1, HandlerMovesType
    <3>3. \A k \in Missions \ {m} : driver[k] # c
      BY <2>3 DEF DriverType
    <3>4. DriverType'
      BY <2>2, <3>2, <3>3 DEF DriverType, At, MissionOf
    <3> QED BY <2>1, <3>2, <3>4 DEF ClientType, clientVars
  <2>4. CASE driver[m] \notin Callers
    <3>1. HandlerType' /\ DriverType'
      BY <1>2, <2>2, <2>4 DEF HandlerType, DriverType, At, MissionOf, WorkFails
    <3> QED BY <2>1, <3>1 DEF ClientType, clientVars
  <2> QED BY <2>3, <2>4
<1> QED BY <1>1, <1>2

\* Handlers that are dropped take with them whatever they drove.
LEMMA DroppedType ==
    ASSUME HandlerType, DriverType, NEW D \in SUBSET Callers,
           handler' = [c \in Callers |-> IF c \in D THEN Away ELSE handler[c]],
           driver' \in [Missions -> Callers \cup {Nobody, Task}],
           \A m \in Missions : driver'[m] = Nobody \/ (driver'[m] = driver[m] /\ driver[m] \notin D),
           announced' = announced,
           reply' \in [Callers -> Replies],
           \A c \in Callers : reply'[c] = reply[c] \/ reply'[c].word = "gone"
    PROVE  HandlerType' /\ DriverType'
<1>1. handler' \in [Callers -> Handlers]
  BY AwayType DEF HandlerType
<1>2. \A c \in Callers : At(c)' \in InHand => MissionOf(c)' \in Missions
  BY AwayType DEF HandlerType, At, MissionOf, InHand
<1>3. \A c \in Callers : reply'[c].word = "create" => reply'[c].mission \in Missions
  BY DEF HandlerType
<1>4. \A m \in Missions : driver'[m] \in Callers => handler'[driver'[m]].mission = m /\ handler'[driver'[m]].at = "planning"
  BY DEF DriverType, At, MissionOf
<1>5. \A m \in Missions : driver'[m] # Nobody => m \in announced'
  BY DEF DriverType
<1> QED BY <1>1, <1>2, <1>3, <1>4, <1>5 DEF HandlerType, DriverType, At, MissionOf

LEMMA LeaveCrashType ==
    ASSUME TypeInv, Crash \/ \E c \in Callers : Leave(c), UNCHANGED clientVars
    PROVE  TypeInv'
<1> USE DEF TypeInv
<1>0. Word("gone") \in Replies /\ Word("gone").word = "gone"
  BY WordType DEF Words
<1>1. CASE Crash
  <2>1. TableType'
    BY <1>1 DEF Crash, TableType
  <2>2. /\ handler' = [c \in Callers |-> IF c \in Callers THEN Away ELSE handler[c]]
        /\ driver' \in [Missions -> Callers \cup {Nobody, Task}]
        /\ \A m \in Missions : driver'[m] = Nobody
    BY <1>1 DEF Crash
  <2>3. /\ reply' \in [Callers -> Replies]
        /\ \A c \in Callers : reply'[c] = reply[c] \/ reply'[c].word = "gone"
    BY <1>0, <1>1 DEF Crash, HandlerType
  <2>4. HandlerType' /\ DriverType'
    BY <1>1, <2>2, <2>3, DroppedType, SMTT(30) DEF Crash
  <2> QED BY <2>1, <2>4 DEF ClientType, clientVars
<1>2. ASSUME NEW c \in Callers, Leave(c) PROVE TypeInv'
  <2> DEFINE D == {c}
  <2>1. handler' = [d \in Callers |-> IF d \in D THEN Away ELSE handler[d]]
    BY <1>2 DEF Leave, Answer, HandlerType
  <2>2. /\ driver' \in [Missions -> Callers \cup {Nobody, Task}]
        /\ \A m \in Missions : driver'[m] = Nobody \/ (driver'[m] = driver[m] /\ driver[m] \notin D)
    BY <1>2 DEF Leave, DriverType
  <2>3. /\ reply' \in [Callers -> Replies]
        /\ \A d \in Callers : reply'[d] = reply[d] \/ reply'[d].word = "gone"
    BY <1>0, <1>2 DEF Leave, Answer, HandlerType
  <2>4. HandlerType' /\ DriverType'
    <3>1. D \in SUBSET Callers /\ announced' = announced
      BY <1>2 DEF Leave
    <3> HIDE DEF D
    <3> QED BY <2>1, <2>2, <2>3, <3>1, DroppedType
  <2>5. stranded' \subseteq announced
    BY <1>2 DEF Leave, TableType, DriverType
  <2>6. TableType'
    BY <1>2, <2>5 DEF Leave, TableType
  <2> QED BY <2>4, <2>6 DEF ClientType, clientVars
<1> QED BY <1>1, <1>2

\* A request that comes in keeps the types.
LEMMA AskKeeps ==
    ASSUME TypeInv, NEW c \in Callers, NEW op \in Operations, NEW m \in Missions \cup {NoMission}, NEW role,
           op \in Creating \/ m \in Missions, Ask(c, op, m, role)
    PROVE  /\ TableType' /\ HandlerType' /\ DriverType'
           /\ rows' = rows
<1>1. /\ handler' \in [Callers -> Handlers] /\ reply' \in [Callers -> Replies]
      /\ \A d \in Callers \ {c} : handler'[d] = handler[d] /\ reply'[d] = reply[d]
      /\ At(c) = "away"
      /\ handler'[c].at \in InHand => handler'[c].mission \in Missions
      /\ reply'[c].word # "create"
  BY AskType DEF TypeInv, HandlerType, At, InHand
<1>2. UNCHANGED <<rows, driver, token, announced, stranded, extensions, faults>>
  BY DEF Ask
<1>3. HandlerType'
  BY <1>1 DEF TypeInv, HandlerType, At, MissionOf
<1>4. DriverType'
  BY <1>1, <1>2, DriversRest DEF TypeInv
<1> QED BY <1>2, <1>3, <1>4 DEF TypeInv, TableType

\* A step of a client is a request, or leaves the server as it is but for the
\* answer it takes away and for the handlers a restart of the gateway drops.
LEMMA ClientSteps ==
    ASSUME TypeInv, ClientStep
    PROVE  \/ \E c \in Callers, op \in Operations, m \in Missions \cup {NoMission}, role \in Roles :
                  (op \in Creating \/ m \in Missions) /\ Ask(c, op, m, role) /\ (op = "extend" => MayExtend)
           \/ UNCHANGED serverVars
           \/ \E s \in Shells : StartWatching(s)
           \/ GatewayRestart
<1> USE DEF serverVars
<1>1. ASSUME NEW s \in Shells, Command(s)
      PROVE  \E c \in Callers, op \in Operations, m \in Missions \cup {NoMission}, role \in Roles :
                  (op \in Creating \/ m \in Missions) /\ Ask(c, op, m, role) /\ (op = "extend" => MayExtend)
  BY <1>1 DEF Command, CreateMission, Chat, Show, CancelMission, ExtendMission, RunMissionPrompt,
              RunSelectionAsChat, Request, Operations, Changing, Creating, Chats
<1>2. ASSUME NEW s \in Shells, Watch(s)
      PROVE  \/ UNCHANGED serverVars
             \/ \E c \in Callers, op \in Operations, m \in Missions \cup {NoMission}, role \in Roles :
                  (op \in Creating \/ m \in Missions) /\ Ask(c, op, m, role) /\ (op = "extend" => MayExtend)
  BY <1>2 DEF Watch, Operations, Roles, TypeInv, ClientType
<1>3. ASSUME NEW g \in Messages, CallForge(g)
      PROVE  \E c \in Callers, op \in Operations, m \in Missions \cup {NoMission}, role \in Roles :
                  (op \in Creating \/ m \in Missions) /\ Ask(c, op, m, role) /\ (op = "extend" => MayExtend)
  BY <1>3 DEF CallForge, Operations, Changing, Creating
<1>4. ASSUME NEW s \in Shells, TenMinutes(s) PROVE UNCHANGED serverVars
  BY <1>4 DEF TenMinutes
<1>5. ASSUME NEW g \in Messages, Receive(g) \/ Reply(g) PROVE UNCHANGED serverVars
  BY <1>5 DEF Receive, Reply
<1> QED BY <1>1, <1>2, <1>3, <1>4, <1>5 DEF ClientStep

LEMMA ClientStepType == TypeInv /\ ClientStep => TypeInv'
<1> SUFFICES ASSUME TypeInv, ClientStep PROVE TypeInv'
  OBVIOUS
<1>1. ClientType'
  <2> USE DEF TypeInv, ClientType, clientVars
  <2>1. ASSUME NEW s \in Shells, Command(s) \/ TenMinutes(s) \/ Watch(s) PROVE ClientType'
    BY <2>1 DEF Command, TenMinutes, Watch
  <2>2. ASSUME NEW s \in Shells, StartWatching(s) PROVE ClientType'
    BY <2>2 DEF StartWatching, HandlerType
  <2>3. ASSUME NEW g \in Messages, Receive(g) \/ CallForge(g) \/ Reply(g) PROVE ClientType'
    BY <2>3 DEF Receive, GenericWebhook, SlackSlash, DiscordInteraction, TelegramWebhook, Refuse, Forget,
                Acknowledge, CallForge, Reply
  <2>4. CASE GatewayRestart
    BY <2>4 DEF GatewayRestart
  <2> QED BY <2>1, <2>2, <2>3, <2>4 DEF ClientStep
<1>2. TableType' /\ HandlerType' /\ DriverType'
  <2>1. ASSUME NEW c \in Callers, NEW op \in Operations, NEW m \in Missions \cup {NoMission}, NEW role \in Roles,
               op \in Creating \/ m \in Missions, Ask(c, op, m, role)
        PROVE  TableType' /\ HandlerType' /\ DriverType'
    BY <2>1, AskKeeps
  <2>2. CASE UNCHANGED serverVars
    BY <2>2 DEF TypeInv, TableType, HandlerType, DriverType, serverVars, At, MissionOf
  <2>3. ASSUME NEW s \in Shells, StartWatching(s) PROVE TableType' /\ HandlerType' /\ DriverType'
    <3>1. Silence \in Replies /\ Silence.word = "none"
      BY WordType DEF Silence, Words
    <3> QED BY <2>3, <3>1 DEF StartWatching, TypeInv, TableType, HandlerType, DriverType, At, MissionOf
  <2>4. CASE GatewayRestart
    <3>1. TableType'
      BY <2>4 DEF GatewayRestart, TypeInv, TableType
    <3>2. HandlerType' /\ DriverType'
      <4>1. /\ Messages \in SUBSET Callers /\ HandlerType /\ DriverType
            /\ handler' = [c \in Callers |-> IF c \in Messages THEN Away ELSE handler[c]]
            /\ driver' \in [Missions -> Callers \cup {Nobody, Task}]
            /\ \A m \in Missions : driver'[m] = Nobody \/ (driver'[m] = driver[m] /\ driver[m] \notin Messages)
            /\ announced' = announced /\ reply' = reply /\ reply \in [Callers -> Replies]
        BY <2>4 DEF GatewayRestart, TypeInv, DriverType, HandlerType
      <4> QED BY <4>1, DroppedType
    <3> QED BY <3>1, <3>2
  <2> QED BY <2>1, <2>2, <2>3, <2>4, ClientSteps
<1> QED BY <1>1, <1>2 DEF TypeInv

\* Every step keeps the types.
LEMMA NextType == TypeInv /\ [Next]_vars => TypeInv'
<1> SUFFICES ASSUME TypeInv, [Next]_vars PROVE TypeInv'
  OBVIOUS
<1>1. CASE Server /\ UNCHANGED clientVars
  BY <1>1, HandlerStepType, WorkType, LeaveCrashType DEF Server
<1>2. CASE \E c \in Callers : Leave(c) /\ UNCHANGED clientVars
  BY <1>2, LeaveCrashType
<1>3. CASE ClientStep
  BY <1>3, ClientStepType
<1>4. CASE UNCHANGED vars
  BY <1>4 DEF vars, serverVars, clientVars, TypeInv, TableType, HandlerType, DriverType, ClientType, At, MissionOf
<1> QED BY <1>1, <1>2, <1>3, <1>4 DEF Next

LEMMA InitType == Init => TypeInv
<1> SUFFICES ASSUME Init PROVE TypeInv
  OBVIOUS
<1>1. Silence \in Replies /\ Silence.word = "none"
  BY WordType DEF Silence, Words
<1>2. TableType /\ DriverType /\ ClientType
  BY DEF Init, ServerInit, TableType, DriverType, ClientType
<1>3. HandlerType
  BY <1>1, AwayType DEF Init, ServerInit, HandlerType, At, MissionOf, InHand
<1> QED BY <1>2, <1>3 DEF TypeInv

LEMMA TypeInvariant == Spec => []TypeInv
BY InitType, NextType, PTL DEF Spec

-----------------------------------------------------------------------------
(* The bound on extensions, and type correctness *)

Checking == {c \in Callers : At(c) = "checking"}

\* What has been begun, and what may be about to begin, keep to the bound.
ExtensionInv == extensions + Cardinality(Checking) <= MaxExtensions

\* A step lets a request in that may extend, begins an extension, or does neither.
LEMMA CheckingStep ==
    ASSUME TypeInv, [Next]_vars
    PROVE  \/ Checking' \subseteq Checking /\ extensions' = extensions
           \/ \E c \in Callers : Checking' \subseteq Checking \cup {c} /\ extensions' = extensions /\ MayExtend
           \/ \E c \in Checking : Checking' \subseteq Checking \ {c} /\ extensions' \in {extensions, extensions + 1}
<1> DEFINE Same == Checking' \subseteq Checking /\ extensions' = extensions
<1>0. /\ handler \in [Callers -> Handlers]
      /\ \A d \in Callers : handler'[d] = handler[d] \/ handler'[d].at # "checking"
                             => (d \in Checking' => d \in Checking)
  BY DEF TypeInv, HandlerType, Checking, At
<1>1. ASSUME NEW c \in Callers, Insert(c) \/ Announce(c) \/ Cancel(c) \/ ReadFirst(c) \/ ReadSecond(c) \/ ReadFails(c)
      PROVE  Same
  <2>1. \/ \E h \in Handlers : handler' = [handler EXCEPT ![c] = h] /\ h.at # "checking"
        \/ handler' = handler
    <3>1. CASE Insert(c)
      <4>1. PICK m \in Missions : handler' = [handler EXCEPT ![c].at = "announcing", ![c].mission = m]
        BY <3>1 DEF Insert
      <4> DEFINE h == [handler[c] EXCEPT !.at = "announcing", !.mission = m]
      <4>2. h \in Handlers /\ h.at # "checking"
        BY <1>0, ZenonT(30) DEF Handlers, Steps
      <4>3. handler' = [handler EXCEPT ![c] = h]
        BY <4>1
      <4> HIDE DEF h
      <4> QED BY <4>2, <4>3
    <3>2. CASE Answer(c, Created(c)) \/ \E r : Answer(c, r)
      BY <3>2, AwayType DEF Answer
    <3>3. CASE GoTo(c, "polling")
      BY <1>0, <3>3, GoToType DEF GoTo, Steps
    <3>4. CASE LookAgain(c)
      <4> DEFINE h == [handler[c] EXCEPT !.at = "polling", !.status = "none", !.open = 0, !.crossed = FALSE]
      <4>1. h \in Handlers /\ h.at = "polling"
        BY <1>0, LookAgainType
      <4>2. handler' = [handler EXCEPT ![c] = h]
        BY <3>4 DEF LookAgain
      <4> HIDE DEF h
      <4> QED BY <4>1, <4>2
    <3>5. CASE ReadFirst(c)
      <4>1. (\E r : Answer(c, r)) \/ handler' = [handler EXCEPT ![c] = Read(DetailReads[1], [handler[c] EXCEPT !.at = "reading"], rows[MissionOf(c)])]
        BY <1>0, <3>5 DEF ReadFirst
      <4>2. MissionOf(c) \in Missions /\ rows[MissionOf(c)] \in Rows \cup {NoRow}
        BY <3>5 DEF ReadFirst, TypeInv, HandlerType, TableType, InHand, Steps
      <4> DEFINE g == [handler[c] EXCEPT !.at = "reading"]
      <4> DEFINE h == [g EXCEPT !.status = rows[MissionOf(c)].status]
      <4>3. g \in Handlers /\ g.at = "reading"
        BY <1>0, GoToType DEF Steps
      <4>4. h \in Handlers /\ h.at = "reading"
        <5>1. rows[MissionOf(c)].status \in Statuses
          BY <4>2 DEF Rows, NoRow, Statuses
        <5> QED BY <4>3, <5>1 DEF Handlers
      <4>5. Read(DetailReads[1], g, rows[MissionOf(c)]) = h
        BY DEF Read, DetailReads
      <4> QED BY <3>2, <4>1, <4>4, <4>5
    <3> QED BY <1>1, <3>1, <3>2, <3>3, <3>4, <3>5 DEF Announce, Cancel, ReadSecond, ReadFails
  <2>2. \A d \in Callers : handler'[d] = handler[d] \/ handler'[d].at # "checking"
    BY <1>0, <2>1
  <2> QED BY <1>0, <1>1, <2>2 DEF Insert, Announce, Cancel, ReadFirst, ReadSecond, ReadFails, Checking
<1>2. ASSUME NEW c \in Callers, TimeIsUp(c) \/ Leave(c) PROVE Same
  <2>1. CASE TimeIsUp(c)
    <3>1. handler' = [handler EXCEPT ![c] = [handler[c] EXCEPT !.late = TRUE]]
      BY <2>1 DEF TimeIsUp
    <3>2. [handler[c] EXCEPT !.late = TRUE].at = handler[c].at
      BY <1>0 DEF Handlers
    <3> QED BY <1>0, <2>1, <3>1, <3>2 DEF TimeIsUp, Checking, At
  <2>2. CASE Leave(c)
    BY <1>0, <2>2, AwayType DEF Leave, Answer, Checking
  <2> QED BY <1>2, <2>1, <2>2
<1>3. ASSUME NEW c \in Callers, CheckEnded(c)
      PROVE  c \in Checking /\ Checking' \subseteq Checking \ {c} /\ extensions' \in {extensions, extensions + 1}
  <2>1. handler' = [handler EXCEPT ![c] = Away] \/ handler' = [handler EXCEPT ![c] = [handler[c] EXCEPT !.at = "redrafting"]]
    BY <1>3 DEF CheckEnded, Answer, GoTo
  <2>2. handler'[c].at # "checking" /\ \A d \in Callers \ {c} : handler'[d] = handler[d]
    BY <1>0, <2>1, AwayType, GoToType DEF Steps
  <2> QED BY <1>0, <1>3, <2>2 DEF CheckEnded, Checking, At
<1>4. ASSUME NEW c \in Callers, Redraft(c) PROVE Same
  <2>1. \A d \in Callers : handler'[d].at = IF d = c THEN "planning" ELSE handler[d].at
    <3>1. /\ \A h \in Handlers : [h EXCEPT !.at = "planning"].at = "planning"
          /\ \A h \in Handlers, b \in BOOLEAN : [h EXCEPT !.crossed = @ \/ b].at = h.at
      BY GoToType, CrossedType DEF Steps
    <3>2. handler' = [d \in Callers |->
            IF d = c THEN [handler[c] EXCEPT !.at = "planning"]
            ELSE [handler[d] EXCEPT !.crossed = @ \/ (At(d) = "reading" /\ MissionOf(d) = MissionOf(c))]]
      BY <1>4 DEF Redraft
    <3> QED BY <1>0, <3>1, <3>2, ZenonT(30)
  <2> QED BY <1>4, <2>1 DEF Redraft, Checking, At
<1>5. ASSUME NEW m \in Missions, Work(m) \/ WorkFails(m) PROVE Same
  <2>1. (handler' = handler \/ \E w : Answer(driver[m], Word(w))) /\ extensions' = extensions
    BY <1>5 DEF Work, WorkFails
  <2> QED BY <1>0, <2>1, AwayType DEF Answer, Checking
<1>6. CASE Crash
  BY <1>0, <1>6, AwayType DEF Crash, Checking
<1>7. CASE ClientStep
  <2>1. ASSUME NEW c \in Callers, NEW op \in Operations, NEW m \in Missions \cup {NoMission}, NEW role \in Roles,
               Ask(c, op, m, role), op = "extend" => MayExtend
        PROVE  Same \/ (Checking' \subseteq Checking \cup {c} /\ extensions' = extensions /\ MayExtend)
    <3>1. (\A d \in Callers \ {c} : handler'[d] = handler[d]) /\ (handler'[c].at = "checking" => op = "extend")
          /\ extensions' = extensions
      <4>1. handler \in [Callers -> Handlers] /\ reply \in [Callers -> Replies] /\ extensions' = extensions
        BY <2>1 DEF Ask, TypeInv, HandlerType
      <4> QED BY <2>1, <4>1, AskType
    <3> QED BY <1>0, <2>1, <3>1 DEF Checking, At
  <2>2. CASE UNCHANGED serverVars \/ GatewayRestart \/ \E s \in Shells : StartWatching(s)
    BY <1>0, <2>2, AwayType DEF serverVars, GatewayRestart, StartWatching, Checking
  <2> QED BY <1>7, <2>1, <2>2, ClientSteps
<1>8. CASE UNCHANGED vars
  BY <1>8 DEF vars, serverVars, Checking, At
<1> QED BY <1>1, <1>2, <1>3, <1>4, <1>5, <1>6, <1>7, <1>8 DEF Next, Server, HandlerStep

LEMMA NextExtension == IsFiniteSet(Callers) /\ TypeInv /\ ExtensionInv /\ [Next]_vars => ExtensionInv'
<1> SUFFICES ASSUME IsFiniteSet(Callers), TypeInv, ExtensionInv, [Next]_vars PROVE ExtensionInv'
  OBVIOUS
<1>1. IsFiniteSet(Checking) /\ Cardinality(Checking) \in Nat /\ extensions \in Nat
  BY FS_Subset, FS_CardinalityType DEF Checking, TypeInv, TableType
<1>2. CASE Checking' \subseteq Checking /\ extensions' = extensions
  <2>1. IsFiniteSet(Checking') /\ Cardinality(Checking') <= Cardinality(Checking)
    BY <1>1, <1>2, FS_Subset
  <2>2. Cardinality(Checking') \in Nat
    BY <2>1, FS_CardinalityType
  <2> QED BY <1>1, <1>2, <2>1, <2>2 DEF ExtensionInv
<1>3. ASSUME NEW c \in Callers, Checking' \subseteq Checking \cup {c}, extensions' = extensions, MayExtend
      PROVE  ExtensionInv'
  <2>1. IsFiniteSet(Checking \cup {c}) /\ Cardinality(Checking \cup {c}) <= Cardinality(Checking) + 1
    <3>1. IsFiniteSet(Checking \cup {c})
      BY <1>1, FS_AddElement
    <3>2. Cardinality(Checking \cup {c}) \in {Cardinality(Checking), Cardinality(Checking) + 1}
      BY <1>1, FS_AddElement
    <3>3. \A n \in Nat : n <= n + 1 /\ n + 1 <= n + 1
      OBVIOUS
    <3> QED BY <1>1, <3>1, <3>2, <3>3
  <2>2. IsFiniteSet(Checking') /\ Cardinality(Checking') <= Cardinality(Checking \cup {c})
    BY <1>3, <2>1, FS_Subset
  <2>3. Cardinality(Checking') \in Nat /\ Cardinality(Checking \cup {c}) \in Nat
    BY <2>1, <2>2, FS_CardinalityType
  <2>4. extensions + Cardinality(Checking) < MaxExtensions
    BY <1>3 DEF MayExtend, Checking
  <2> QED BY <1>1, <1>3, <2>1, <2>2, <2>3, <2>4 DEF ExtensionInv
<1>4. ASSUME NEW c \in Checking, Checking' \subseteq Checking \ {c}, extensions' \in {extensions, extensions + 1}
      PROVE  ExtensionInv'
  <2>1. IsFiniteSet(Checking \ {c}) /\ Cardinality(Checking \ {c}) = Cardinality(Checking) - 1
    BY <1>1, FS_RemoveElement
  <2>2. IsFiniteSet(Checking') /\ Cardinality(Checking') <= Cardinality(Checking \ {c})
    BY <1>4, <2>1, FS_Subset
  <2>3. Cardinality(Checking') \in Nat
    BY <2>2, FS_CardinalityType
  <2> QED BY <1>1, <1>4, <2>1, <2>2, <2>3 DEF ExtensionInv
<1> QED BY <1>2, <1>3, <1>4, CheckingStep

\* Every variable of the server and of its clients stays in its type, for any
\* finite number of callers: in particular no more extensions are begun than the
\* bound allows, though several handlers may be about to begin one.
THEOREM TypeCorrect == IsFiniteSet(Callers) /\ Spec => []TypeOK
<1> SUFFICES ASSUME IsFiniteSet(Callers) PROVE Spec => []TypeOK
  OBVIOUS
<1>1. Init => ExtensionInv
  <2> SUFFICES ASSUME Init PROVE ExtensionInv
    OBVIOUS
  <2>1. Checking = {}
    BY DEF Init, ServerInit, Checking, At, Away
  <2> QED BY <2>1, FS_EmptySet DEF ExtensionInv, Init, ServerInit
<1>2. TypeInv /\ ExtensionInv => TypeOK
  <2> SUFFICES ASSUME TypeInv, ExtensionInv PROVE TypeOK
    OBVIOUS
  <2>1. IsFiniteSet(Checking)
    BY FS_Subset DEF Checking
  <2>2. Cardinality(Checking) \in Nat
    BY <2>1, FS_CardinalityType
  <2>3. extensions \in 0 .. MaxExtensions
    BY <2>2 DEF ExtensionInv, TypeInv, TableType
  <2>4. \A c \in Callers : handler[c].mission \in Missions \cup {NoMission}
    BY HandlerParts DEF TypeInv, HandlerType
  <2> QED BY <2>3, <2>4 DEF TypeOK, ServerTypeOK, TypeInv, TableType, HandlerType, DriverType, ClientType
<1> QED BY <1>1, <1>2, NextExtension, TypeInvariant, PTL DEF Spec

-----------------------------------------------------------------------------
(* What a reader may rely on *)

\* The row of a mission is well typed, and a Completed mission has no open goal.
RowOK(r) ==
    /\ r \in Rows \cup {NoRow}
    /\ r.status = "Completed" => r.open = 0

\* A handler that has read that its mission is Completed, and not its goals yet.
HasReadCompleted(c) == At(c) = "reading" /\ handler[c].status = "Completed"

\* The mission it has read is Completed still, unless somebody extended it.
SettledInv ==
    /\ \A m \in Missions : RowOK(rows[m])
    /\ \A c \in Callers : HasReadCompleted(c) =>
           handler[c].crossed \/ rows[MissionOf(c)].status = "Completed"
    /\ SummaryIsSettled

\* A step of the service keeps a row in order, and takes no row out of Completed.
LEMMA WorkOnRow ==
    ASSUME NEW m \in Missions, RowOK(rows[m]), rows \in [Missions -> Rows \cup {NoRow}], Work(m)
    PROVE  /\ RowOK(rows'[m]) /\ rows' \in [Missions -> Rows \cup {NoRow}]
           /\ rows[m].status # "Completed"
           /\ \A k \in Missions \ {m} : rows'[k] = rows[k]
<1>1. PICK s \in Rows :
        /\ s # rows[m] /\ s.status \notin {"Draft"} \ {rows[m].status}
        /\ Service(m)!RowStep(rows[m], s)
        /\ rows' = [rows EXCEPT ![m] = s]
  BY DEF Work
<1>2. /\ Service(m)!GoalsRest(rows[m], s) \/ Service(m)!GoalsArrive(rows[m], s) \/ Service(m)!GoalsSettle(rows[m], s)
      /\ s.status = rows[m].status \/ Service(m)!StatusMoves(rows[m], s)
  BY <1>1 DEF Service!RowStep
<1>3. rows'[m] = s /\ rows[m] \in Rows \cup {NoRow}
  BY <1>1
<1>4. s.status = "Completed" => s.open = 0
  <2>1. CASE s.status = rows[m].status
    <3>1. s.status = "Completed" => Service(m)!GoalsRest(rows[m], s)
      BY <1>2, <2>1 DEF Service!GoalsArrive, Service!GoalsSettle
    <3> QED BY <2>1, <3>1 DEF RowOK, Service!GoalsRest
  <2>2. CASE Service(m)!StatusMoves(rows[m], s)
    BY <2>2 DEF Service!StatusMoves
  <2> QED BY <1>2, <2>1, <2>2
<1>5. rows[m].status # "Completed"
  <2> SUFFICES ASSUME rows[m].status = "Completed" PROVE FALSE
    OBVIOUS
  <2>1. s.status = "Completed"
    BY <1>1, <1>2 DEF Service!StatusMoves, Service!CanTransition, Service!MissionTransitions,
                      Service!MissionTerminal
  <2>2. Service(m)!GoalsRest(rows[m], s)
    BY <1>2 DEF Service!GoalsArrive, Service!GoalsSettle
  <2>3. s = rows[m]
    <3>1. rows[m] \in Rows
      BY <1>3 DEF NoRow
    <3>2. \A q, r \in Rows : q.status = r.status /\ q.open = r.open /\ q.failed = r.failed /\ q.closed = r.closed
                              => q = r
      BY SMTT(30) DEF Rows
    <3> QED BY <2>1, <2>2, <3>1, <3>2 DEF Service!GoalsRest
  <2> QED BY <1>1, <2>3
<1> QED BY <1>1, <1>3, <1>4, <1>5 DEF RowOK

\* What a step does to the row of a mission.
LEMMA RowsStep ==
    ASSUME TypeInv, SettledInv, [Next]_vars, NEW m \in Missions
    PROVE  /\ RowOK(rows'[m])
           /\ rows[m].status = "Completed" =>
                rows'[m] = rows[m] \/ \E c \in Callers : Redraft(c) /\ MissionOf(c) = m
<1> USE DEF TypeInv, TableType, SettledInv
<1>1. CASE rows' = rows
  BY <1>1
<1>2. ASSUME NEW c \in Callers, Insert(c) PROVE RowOK(rows'[m]) /\ (rows[m].status = "Completed" => rows'[m] = rows[m])
  <2>1. PICK k \in Missions : rows[k] = NoRow /\ rows' = [rows EXCEPT ![k] = Service(k)!NewRow]
    BY <1>2 DEF Insert
  <2>2. RowOK(Service(k)!NewRow)
    BY DEF RowOK, Service!NewRow, Rows, MissionStatuses
  <2> QED BY <2>1, <2>2 DEF NoRow
<1>3. ASSUME NEW c \in Callers, Redraft(c)
      PROVE  RowOK(rows'[m]) /\ (rows'[m] = rows[m] \/ MissionOf(c) = m)
  <2>1. rows' = [rows EXCEPT ![MissionOf(c)] = [rows[MissionOf(c)] EXCEPT !.status = "Draft"]]
    BY <1>3 DEF Redraft
  <2>2. CASE MissionOf(c) # m
    BY <2>1, <2>2
  <2>3. CASE MissionOf(c) = m
    <3>1. rows'[m] = [rows[m] EXCEPT !.status = "Draft"] /\ rows'[m] \in Rows \cup {NoRow}
      BY <2>1, <2>3, NextType
    <3>2. rows'[m].status = "Draft"
      BY <3>1 DEF Rows, NoRow
    <3> QED BY <2>3, <3>1, <3>2 DEF RowOK
  <2> QED BY <2>2, <2>3
<1>4. ASSUME NEW k \in Missions, Work(k) PROVE RowOK(rows'[m]) /\ (rows[m].status = "Completed" => rows'[m] = rows[m])
  BY <1>4, WorkOnRow
<1>5. rows' = rows \/ (\E c \in Callers : Insert(c) \/ Redraft(c)) \/ \E k \in Missions : Work(k)
  <2>1. ASSUME NEW c \in Callers, HandlerStep(c) \/ TimeIsUp(c) \/ ReadFails(c) \/ Leave(c)
        PROVE  rows' = rows \/ Insert(c) \/ Redraft(c)
    BY <2>1 DEF HandlerStep, Announce, ReadFirst, ReadSecond, CheckEnded, Cancel, TimeIsUp, ReadFails, Leave
  <2>2. ClientStep => rows' = rows
    BY ClientSteps DEF Ask, serverVars, StartWatching, GatewayRestart
  <2>3. Crash \/ (\E k \in Missions : WorkFails(k)) \/ UNCHANGED vars => rows' = rows
    BY DEF Crash, WorkFails, vars, serverVars
  <2> QED BY <2>1, <2>2, <2>3 DEF Next, Server
<1> QED BY <1>1, <1>2, <1>3, <1>4, <1>5

\* A handler is where it was with what it had read, or has just read the row, or
\* has read nothing.
HandlerKeeps(c) ==
    /\ handler'[c].at = handler[c].at /\ handler'[c].status = handler[c].status
    /\ handler'[c].mission = handler[c].mission /\ (handler[c].crossed => handler'[c].crossed)

ReadsNothing(c) == ~ (handler'[c].at = "reading" /\ handler'[c].status = "Completed")

\* A reply is what it was, or the answer of a handler that has read it all, or says
\* nothing of a mission.
ReplyKeeps(c) == reply'[c] = reply[c] \/ reply'[c].status = "none"

\* The words say nothing of a mission.
LEMMA WordStatus == \A w : Word(w).status = "none" /\ Created(w).status = "none"
BY DEF Word, Created

LEMMA AwayStatus == Away.at = "away" /\ Away.status = "none"
BY DEF Away

\* What a step of the server does to a handler, and to what its caller was told.
LEMMA HandlersStep ==
    ASSUME TypeInv, [Next]_vars, NEW c \in Callers
    PROVE  /\ HandlerKeeps(c) \/ ReadsNothing(c) \/ ReadFirst(c)
           /\ ReplyKeeps(c) \/ ReadSecond(c)
<1> USE DEF TypeInv, HandlerType, HandlerKeeps, ReadsNothing, ReplyKeeps
<1> DEFINE Goal(d) == (HandlerKeeps(d) \/ ReadsNothing(d)) /\ ReplyKeeps(d)
<1>0. handler[c] \in Handlers /\ (\A d \in Callers : handler'[d] = handler[d] /\ reply'[d] = reply[d] => Goal(d))
  OBVIOUS
<1>1. ASSUME NEW d \in Callers, Insert(d) \/ Announce(d) \/ CheckEnded(d) \/ Cancel(d) \/ ReadFails(d) \/ TimeIsUp(d)
      PROVE  Goal(c)
  <2>1. CASE c # d
    BY <1>0, <1>1, <2>1 DEF Insert, Announce, CheckEnded, Cancel, ReadFails, TimeIsUp, GoTo, Answer, LookAgain
  <2>2. CASE c = d
    <3> USE <2>2
    <3>1. CASE Insert(d)
      BY <1>0, <3>1 DEF Insert, Handlers
    <3>2. CASE Announce(d)
      BY <1>0, <3>2, AwayStatus, WordStatus DEF Announce, GoTo, Answer, Handlers
    <3>3. CASE CheckEnded(d) \/ Cancel(d)
      BY <1>0, <3>3, AwayStatus, WordStatus DEF CheckEnded, Cancel, GoTo, Answer, Handlers
    <3>4. CASE ReadFails(d)
      BY <1>0, <3>4, AwayStatus, WordStatus DEF ReadFails, LookAgain, Answer, Handlers
    <3>5. CASE TimeIsUp(d)
      <4>1. handler'[d] = [handler[d] EXCEPT !.late = TRUE] /\ reply' = reply
        BY <3>5 DEF TimeIsUp
      <4>2. HandlerKeeps(d)
        BY <1>0, <4>1 DEF Handlers
      <4> QED BY <4>1, <4>2
    <3> QED BY <1>1, <3>1, <3>2, <3>3, <3>4, <3>5
  <2> QED BY <2>1, <2>2
<1>2. ASSUME NEW d \in Callers, ReadFirst(d) PROVE Goal(c) \/ (ReadFirst(c) /\ ReplyKeeps(c))
  <2>1. CASE c # d
    BY <1>0, <1>2, <2>1 DEF ReadFirst, Answer
  <2>2. CASE c = d
    <3>1. reply' = reply \/ Answer(c, Word("not found"))
      BY <1>2, <2>2 DEF ReadFirst
    <3> QED BY <1>2, <2>2, <3>1, WordStatus DEF Answer
  <2> QED BY <2>1, <2>2
<1>3. ASSUME NEW d \in Callers, ReadSecond(d) PROVE Goal(c) \/ (ReadSecond(c) /\ ReadsNothing(c))
  <2>1. CASE c # d
    BY <1>0, <1>3, <2>1 DEF ReadSecond, Answer, LookAgain
  <2>2. CASE c = d
    <3>1. LookAgain(c) \/ \E r : Answer(c, r)
      BY <1>3, <2>2 DEF ReadSecond
    <3>2. handler'[c].at \in {"polling", "away"}
      BY <1>0, <3>1, AwayStatus, LookAgainType DEF LookAgain, Answer
    <3> QED BY <1>3, <2>2, <3>2
  <2> QED BY <2>1, <2>2
<1>4. ASSUME NEW d \in Callers, Redraft(d) PROVE Goal(c)
  <2>1. /\ handler' = [e \in Callers |->
              IF e = d THEN [handler[d] EXCEPT !.at = "planning"]
              ELSE [handler[e] EXCEPT !.crossed = @ \/ (At(e) = "reading" /\ MissionOf(e) = MissionOf(d))]]
        /\ reply' = reply
    BY <1>4 DEF Redraft
  <2>2. CASE c = d
    <3>1. handler'[c] = [handler[c] EXCEPT !.at = "planning"]
      BY <2>1, <2>2
    <3> QED BY <1>0, <2>1, <3>1, GoToType DEF Steps
  <2>3. CASE c # d
    <3> DEFINE b == At(c) = "reading" /\ MissionOf(c) = MissionOf(d)
    <3>1. handler'[c] = [handler[c] EXCEPT !.crossed = @ \/ b] /\ b \in BOOLEAN
      BY <2>1, <2>3, Zenon
    <3> HIDE DEF b
    <3>2. HandlerKeeps(c)
      <4> DEFINE k == [handler[c] EXCEPT !.crossed = @ \/ b]
      <4>1. k.at = handler[c].at /\ k.mission = handler[c].mission /\ k.status = handler[c].status
            /\ (handler[c].crossed => k.crossed)
        <5> DEFINE h == handler[c]
        <5>1. h \in Handlers /\ b \in BOOLEAN
          BY <1>0, <3>1
        <5> HIDE DEF h
        <5> QED BY <5>1, Zenon DEF Handlers
      <4>2. handler'[c] = k
        BY <3>1
      <4> HIDE DEF k
      <4> QED BY <4>1, <4>2, Zenon DEF HandlerKeeps
    <3> QED BY <2>1, <3>2
  <2> QED BY <2>2, <2>3
<1>9. ASSUME NEW d, NEW w, Answer(d, Word(w)) PROVE Goal(c)
  BY <1>0, <1>9, AwayStatus, WordStatus DEF Answer
<1>5. ASSUME NEW m \in Missions, Work(m) \/ WorkFails(m) PROVE Goal(c)
  <2>1. UNCHANGED <<handler, reply>> \/ \E w : Answer(driver[m], Word(w))
    BY <1>5 DEF Work, WorkFails
  <2> QED BY <1>0, <1>9, <2>1
<1>6. CASE Crash \/ \E d \in Callers : Leave(d)
  <2>1. CASE Crash
    <3>1. handler'[c] = Away /\ (reply'[c] = reply[c] \/ reply'[c] = Word("gone"))
      BY <2>1 DEF Crash
    <3> QED BY <3>1, AwayStatus, WordStatus
  <2>2. ASSUME NEW d \in Callers, Leave(d) PROVE Goal(c)
    BY <1>9, <2>2 DEF Leave
  <2> QED BY <1>6, <2>1, <2>2
<1>7. CASE ClientStep
  <2>1. ASSUME NEW d \in Callers, NEW op \in Operations, NEW m \in Missions \cup {NoMission}, NEW role \in Roles,
               Ask(d, op, m, role)
        PROVE  Goal(c)
    BY <1>0, <2>1, AskType
  <2>2. ASSUME NEW s \in Shells, StartWatching(s) PROVE Goal(c)
    BY <1>0, <2>2, WordStatus DEF StartWatching, Silence
  <2>3. CASE UNCHANGED serverVars \/ GatewayRestart
    BY <1>0, <2>3, AwayStatus DEF serverVars, GatewayRestart
  <2> QED BY <1>7, <2>1, <2>2, <2>3, ClientSteps
<1>8. CASE UNCHANGED vars
  BY <1>0, <1>8 DEF vars, serverVars
<1> QED BY <1>1, <1>2, <1>3, <1>4, <1>5, <1>6, <1>7, <1>8 DEF Next, Server, HandlerStep

LEMMA NextSettled == TypeInv /\ SettledInv /\ [Next]_vars => SettledInv'
<1> SUFFICES ASSUME TypeInv, SettledInv, [Next]_vars PROVE SettledInv'
  OBVIOUS
<1>1. \A m \in Missions : RowOK(rows'[m])
  BY RowsStep
<1>2. ASSUME NEW c \in Callers, HasReadCompleted(c)'
      PROVE  handler'[c].crossed \/ rows'[MissionOf(c)'].status = "Completed"
  <2>1. CASE ReadFirst(c)
    <3>1. rows' = rows /\ rows[MissionOf(c)] # NoRow
      BY <1>2, <2>1, AwayStatus DEF ReadFirst, Answer, HasReadCompleted, At, TypeInv, HandlerType
    <3> DEFINE g == [handler[c] EXCEPT !.at = "reading"]
    <3>2. handler'[c] = [g EXCEPT !.status = rows[MissionOf(c)].status] /\ handler[c] \in Handlers
      BY <2>1, <3>1 DEF ReadFirst, Read, DetailReads, TypeInv, HandlerType
    <3>3. handler'[c].status = rows[MissionOf(c)].status /\ handler'[c].mission = MissionOf(c)
      BY <3>2 DEF Handlers, MissionOf
    <3> QED BY <1>2, <3>1, <3>3 DEF HasReadCompleted, MissionOf
  <2>2. CASE HandlerKeeps(c)
    <3> DEFINE m == MissionOf(c)
    <3>1. HasReadCompleted(c) /\ m \in Missions /\ MissionOf(c)' = m /\ (handler[c].crossed => handler'[c].crossed)
      BY <1>2, <2>2 DEF HandlerKeeps, HasReadCompleted, At, MissionOf, TypeInv, HandlerType, InHand, Steps
    <3>2. CASE handler[c].crossed
      BY <3>1, <3>2
    <3>3. CASE rows[m].status = "Completed" /\ rows'[m] = rows[m]
      BY <3>1, <3>3
    <3>4. ASSUME NEW d \in Callers, Redraft(d), MissionOf(d) = m
          PROVE  handler'[c].crossed
      <4>1. c # d /\ At(c) = "reading"
        BY <3>1, <3>4 DEF Redraft, HasReadCompleted
      <4>2. handler'[c] = [handler[c] EXCEPT !.crossed = @ \/ (At(c) = "reading" /\ MissionOf(c) = MissionOf(d))]
        BY <3>4, <4>1 DEF Redraft
      <4>3. handler'[c] = [handler[c] EXCEPT !.crossed = TRUE]
        BY <3>4, <4>1, <4>2, Zenon
      <4>4. handler[c] \in Handlers
        BY DEF TypeInv, HandlerType
      <4> QED BY <4>3, <4>4 DEF Handlers
    <3> QED BY <3>1, <3>2, <3>3, <3>4, RowsStep DEF SettledInv
  <2> QED BY <1>2, <2>1, <2>2, HandlersStep DEF ReadsNothing, HasReadCompleted, At
<1>3. ASSUME NEW c \in Callers, reply'[c].status = "Completed"
      PROVE  reply'[c].open = 0 \/ reply'[c].crossed
  <2>1. CASE ReplyKeeps(c)
    BY <1>3, <2>1 DEF ReplyKeeps, SettledInv, SummaryIsSettled
  <2>2. CASE ReadSecond(c)
    <3> DEFINE h == Read(DetailReads[2], handler[c], rows[MissionOf(c)])
    <3>1. h = [handler[c] EXCEPT !.open = rows[MissionOf(c)].open] /\ handler[c] \in Handlers
      BY DEF Read, DetailReads, TypeInv, HandlerType
    <3>2. h.status = handler[c].status /\ h.open = rows[MissionOf(c)].open /\ h.crossed = handler[c].crossed
      BY <3>1 DEF Handlers
    <3>3. MissionOf(c) \in Missions /\ At(c) = "reading"
      BY <2>2 DEF ReadSecond, TypeInv, HandlerType, InHand, Steps
    <3>4. Told(h).status = h.status /\ Told(h).open = h.open /\ Told(h).crossed = h.crossed
      BY DEF Told
    <3>5. Answer(c, Told(h)) \/ ReplyKeeps(c)
      BY <2>2, WordStatus DEF ReadSecond, ReplyKeeps, Answer, LookAgain, TypeInv, HandlerType
    <3>6. CASE Answer(c, Told(h))
      <4>1. reply'[c] = Told(h)
        BY <3>6 DEF Answer, TypeInv, HandlerType
      <4>2. HasReadCompleted(c)
        BY <1>3, <3>2, <3>3, <3>4, <4>1 DEF HasReadCompleted
      <4>3. handler[c].crossed \/ rows[MissionOf(c)].open = 0
        BY <3>3, <4>2 DEF SettledInv, RowOK
      <4> QED BY <3>2, <3>4, <4>1, <4>3
    <3> QED BY <2>1, <3>5, <3>6
  <2> QED BY <2>1, <2>2, HandlersStep
<1> QED BY <1>1, <1>2, <1>3 DEF SettledInv, SummaryIsSettled

\* Whoever is told that a mission is Completed is shown no open goal, although the
\* mission and its goals are read one after the other while both change, unless the
\* mission was extended between the two reads; whatever fails, however many callers
\* ask, leave or extend, and however often server and gateway are restarted.
THEOREM SummarySettled == Spec => []SummaryIsSettled
<1>1. Init => SettledInv
  BY DEF Init, ServerInit, SettledInv, RowOK, NoRow, HasReadCompleted, At, Away, SummaryIsSettled, Silence, Word
<1>2. SettledInv => SummaryIsSettled
  BY DEF SettledInv
<1> QED BY <1>1, <1>2, NextSettled, TypeInvariant, PTL DEF Spec

-----------------------------------------------------------------------------
(* Who drives a mission, and what becomes of its row *)

\* A handler is gone, or goes on with the same request, to a read or where it was.
GoesOn(c) ==
    \/ handler'[c].at = "away"
    \/ /\ handler'[c].op = handler[c].op /\ handler'[c].mission = handler[c].mission
       /\ handler'[c].at = handler[c].at \/ (At(c) # "away" /\ handler'[c].at \in {"polling", "reading"})

\* A request comes in for c; the gateway's are chats.
IsAsked(c) ==
    \E op \in Operations, m \in Missions \cup {NoMission}, role \in Roles :
        Ask(c, op, m, role) /\ (c \in Messages => op = "chat")

LEMMA GoesOnParts ==
    ASSUME NEW h \in Handlers, NEW b \in BOOLEAN
    PROVE  /\ \A s \in Steps : [h EXCEPT !.at = s].op = h.op
           /\ [h EXCEPT !.late = TRUE].op = h.op /\ [h EXCEPT !.late = TRUE].at = h.at
           /\ [h EXCEPT !.late = TRUE].mission = h.mission
           /\ [h EXCEPT !.crossed = @ \/ b].op = h.op
           /\ [h EXCEPT !.status = b].op = h.op /\ [h EXCEPT !.status = b].at = h.at
           /\ [h EXCEPT !.status = b].mission = h.mission
BY Zenon DEF Handlers

\* How a handler that looks again stands.
LEMMA LookAgainGoesOn ==
    ASSUME HandlerType, NEW c \in Callers, At(c) # "away", LookAgain(c)
    PROVE  GoesOn(c)
<1> DEFINE h == [handler[c] EXCEPT !.at = "polling", !.status = "none", !.open = 0, !.crossed = FALSE]
<1>1. handler[c] \in Handlers
  BY DEF HandlerType
<1>2. h.at = "polling" /\ h.op = handler[c].op /\ h.mission = handler[c].mission
  BY <1>1, Zenon DEF Handlers
<1>3. handler'[c] = h
  BY DEF LookAgain, HandlerType
<1> HIDE DEF h
<1> QED BY <1>2, <1>3 DEF GoesOn

LEMMA AnswerGoesOn ==
    ASSUME HandlerType, NEW c \in Callers, NEW d, NEW r, Answer(d, r)
    PROVE  GoesOn(c)
<1>1. handler'[c] = Away \/ handler'[c] = handler[c]
  BY DEF Answer, HandlerType
<1> QED BY <1>1, AwayType DEF GoesOn

LEMMA GoToGoesOn ==
    ASSUME HandlerType, NEW c \in Callers, NEW s \in Steps, GoTo(c, s)
    PROVE  /\ handler'[c].at = s /\ handler'[c].op = handler[c].op /\ handler'[c].mission = handler[c].mission
           /\ \A d \in Callers \ {c} : handler'[d] = handler[d]
BY GoToType, GoesOnParts DEF HandlerType, GoTo

\* What a step does to a handler.
LEMMA MotionStep ==
    ASSUME TypeInv, [Next]_vars, NEW c \in Callers
    PROVE  GoesOn(c) \/ Insert(c) \/ CheckEnded(c) \/ Redraft(c) \/ IsAsked(c)
<1> USE DEF TypeInv
<1>0. /\ handler \in [Callers -> Handlers] /\ handler[c] \in Handlers
      /\ handler'[c] = handler[c] => GoesOn(c)
  BY DEF HandlerType, GoesOn
<1>1. ASSUME NEW d \in Callers, Insert(d) \/ CheckEnded(d) \/ Cancel(d) PROVE d = c \/ GoesOn(c)
  <2>1. CASE Insert(d)
    BY <1>0, <2>1 DEF Insert
  <2>2. CASE \E r : Answer(d, r)
    BY <2>2, AnswerGoesOn
  <2>3. CASE GoTo(d, "redrafting")
    BY <1>0, <2>3, GoToGoesOn DEF Steps
  <2> QED BY <1>1, <2>1, <2>2, <2>3 DEF CheckEnded, Cancel
<1>2. ASSUME NEW d \in Callers, Announce(d) \/ ReadSecond(d) \/ ReadFails(d) \/ Cancel(d) PROVE GoesOn(c)
  <2>1. CASE \E r : Answer(d, r)
    BY <2>1, AnswerGoesOn
  <2>2. CASE LookAgain(d)
    <3>1. CASE c = d
      BY <1>2, <2>2, <3>1, LookAgainGoesOn DEF ReadSecond, ReadFails, Announce, Cancel
    <3>2. CASE c # d
      BY <1>0, <2>2, <3>2 DEF LookAgain
    <3> QED BY <3>1, <3>2
  <2>3. CASE GoTo(d, "polling")
    <3>1. CASE c = d
      BY <1>2, <2>3, <3>1, GoToGoesOn DEF Steps, GoesOn, Announce, ReadSecond, ReadFails, Cancel
    <3>2. CASE c # d
      BY <1>0, <2>3, <3>2 DEF GoTo
    <3> QED BY <3>1, <3>2
  <2> QED BY <1>2, <2>1, <2>2, <2>3 DEF Announce, ReadSecond, ReadFails, Cancel
<1>3. ASSUME NEW d \in Callers, ReadFirst(d) PROVE GoesOn(c)
  <2>1. CASE \E r : Answer(d, r)
    BY <2>1, AnswerGoesOn
  <2>2. CASE c # d
    BY <1>0, <1>3, <2>1, <2>2 DEF ReadFirst
  <2>3. CASE c = d /\ ~ \E r : Answer(d, r)
    <3> DEFINE g == [handler[c] EXCEPT !.at = "reading"]
    <3> DEFINE h == [g EXCEPT !.status = rows[MissionOf(c)].status]
    <3>1. handler'[c] = h
      BY <1>0, <1>3, <2>3 DEF ReadFirst, Read, DetailReads, HandlerType
    <3>2. g \in Handlers /\ g.at = "reading" /\ g.mission = handler[c].mission /\ g.op = handler[c].op
      BY <1>0, GoToType, GoesOnParts DEF Steps
    <3> HIDE DEF g
    <3>3. h.at = "reading" /\ h.mission = handler[c].mission /\ h.op = handler[c].op
      BY <3>2, Zenon DEF Handlers
    <3> HIDE DEF h
    <3> QED BY <1>3, <2>3, <3>1, <3>3 DEF GoesOn, ReadFirst
  <2> QED BY <2>1, <2>2, <2>3
<1>4. ASSUME NEW d \in Callers, TimeIsUp(d) PROVE GoesOn(c)
  <2>1. handler'[c] = [handler[c] EXCEPT !.late = TRUE] \/ handler'[c] = handler[c]
    BY <1>0, <1>4 DEF TimeIsUp
  <2> QED BY <1>0, <2>1, GoesOnParts DEF GoesOn
<1>5. ASSUME NEW d \in Callers, Redraft(d) PROVE c = d \/ GoesOn(c)
  <2> SUFFICES ASSUME c # d PROVE GoesOn(c)
    OBVIOUS
  <2> DEFINE b == At(c) = "reading" /\ MissionOf(c) = MissionOf(d)
  <2>1. handler'[c] = [handler[c] EXCEPT !.crossed = @ \/ b] /\ b \in BOOLEAN
    BY <1>5, Zenon DEF Redraft
  <2> DEFINE h == [handler[c] EXCEPT !.crossed = @ \/ b]
  <2> HIDE DEF b
  <2>2. h.at = handler[c].at /\ h.mission = handler[c].mission /\ h.op = handler[c].op
    <3>1. h.at = handler[c].at /\ h.mission = handler[c].mission
      BY <1>0, <2>1, CrossedType
    <3>2. h.op = handler[c].op
      BY <1>0, <2>1, GoesOnParts
    <3> QED BY <3>1, <3>2
  <2>3. handler'[c] = h
    BY <2>1
  <2> HIDE DEF h
  <2> QED BY <2>2, <2>3 DEF GoesOn
<1>6. ASSUME NEW m \in Missions, Work(m) \/ WorkFails(m) PROVE GoesOn(c)
  <2>1. handler' = handler \/ \E r : Answer(driver[m], r)
    BY <1>6 DEF Work, WorkFails
  <2> QED BY <1>0, <2>1, AnswerGoesOn
<1>7. CASE Crash \/ \E d \in Callers : Leave(d)
  BY <1>7, AnswerGoesOn, AwayType DEF Crash, Leave, GoesOn
<1>8. CASE ClientStep
  <2>1. ASSUME NEW d \in Callers, NEW op \in Operations, NEW m \in Missions \cup {NoMission}, NEW role \in Roles,
               Ask(d, op, m, role)
        PROVE  d = c \/ GoesOn(c)
    BY <1>0, <2>1, AskType DEF HandlerType
  <2>2. ASSUME GatewayRestart \/ UNCHANGED serverVars \/ \E s \in Shells : StartWatching(s)
        PROVE  GoesOn(c)
    BY <1>0, <2>2, AwayType DEF GatewayRestart, StartWatching, serverVars, GoesOn
  <2>3. CASE c \notin Messages
    BY <1>8, <2>1, <2>2, <2>3, ClientSteps DEF IsAsked
  <2>4. CASE c \in Messages
    <3>1. ASSUME NEW g \in Messages, CallForge(g) PROVE GoesOn(c) \/ IsAsked(c)
      <4>1. PICK role \in Roles : Ask(g, "chat", NoMission, role)
        BY <3>1 DEF CallForge
      <4>2. "chat" \in Operations
        BY DEF Operations, Changing, Creating
      <4> QED BY <2>1, <4>1, <4>2 DEF IsAsked
    <3>2. ASSUME NEW s \in Shells, Command(s) \/ Watch(s) PROVE GoesOn(c)
      <4>1. s \in Callers /\ s # c
        BY <2>4
      <4>2. \/ UNCHANGED serverVars
            \/ \E op \in Operations, m \in Missions \cup {NoMission}, role \in Roles : Ask(s, op, m, role)
        BY <3>2 DEF Command, CreateMission, Chat, Show, CancelMission, ExtendMission, RunMissionPrompt,
                    RunSelectionAsChat, Request, Operations, Changing, Creating, Chats, Watch, Roles, ClientType
      <4>3. ASSUME NEW op \in Operations, NEW m \in Missions \cup {NoMission}, NEW role \in Roles, Ask(s, op, m, role)
            PROVE  GoesOn(c)
        BY <2>1, <4>1, <4>3
      <4> QED BY <2>2, <4>2, <4>3
    <3>3. ASSUME NEW s \in Shells, TenMinutes(s) PROVE UNCHANGED serverVars
      BY <3>3 DEF TenMinutes
    <3>4. ASSUME NEW g \in Messages, Receive(g) \/ Reply(g) PROVE UNCHANGED serverVars
      BY <3>4 DEF Receive, Reply
    <3> QED BY <1>8, <2>2, <3>1, <3>2, <3>3, <3>4 DEF ClientStep
  <2> QED BY <2>3, <2>4
<1>9. CASE UNCHANGED vars
  BY <1>0, <1>9 DEF vars, serverVars
<1> QED BY <1>1, <1>2, <1>3, <1>4, <1>5, <1>6, <1>7, <1>8, <1>9 DEF Next, Server, HandlerStep

\* A step of the service is one of MissionRows, and of a mission that has not ended.
LEMMA WorkIsPromised ==
    ASSUME TypeInv, NEW m \in Missions, Work(m)
    PROVE  /\ rows[m] \in Rows /\ rows[m].status \notin MissionTerminal
           /\ rows'[m] \in Rows /\ Service(m)!RowStep(rows[m], rows'[m])
           /\ \A k \in Missions \ {m} : rows'[k] = rows[k]
<1>1. PICK s \in Rows :
        /\ s # rows[m] /\ s.status \notin {"Draft"} \ {rows[m].status}
        /\ Service(m)!RowStep(rows[m], s)
        /\ rows' = [rows EXCEPT ![m] = s]
  BY DEF Work
<1>2. /\ Service(m)!GoalsRest(rows[m], s) \/ Service(m)!GoalsArrive(rows[m], s) \/ Service(m)!GoalsSettle(rows[m], s)
      /\ s.status = rows[m].status \/ Service(m)!StatusMoves(rows[m], s)
  BY <1>1 DEF Service!RowStep
<1>3. /\ rows'[m] = s /\ rows[m] \in Rows \cup {NoRow}
      /\ \A k \in Missions \ {m} : rows'[k] = rows[k]
  BY <1>1 DEF TypeInv, TableType
<1>4. s.status \in MissionStatuses
  BY DEF Rows
<1>5. rows[m] # NoRow
  <2>1. NoRow.status = "none"
    BY DEF NoRow
  <2> QED BY <1>2, <1>4, <2>1 DEF Service!StatusMoves, Service!CanTransition, Service!MissionTransitions,
                      Service!MissionTerminal, MissionStatuses
<1>6. rows[m].status \notin MissionTerminal
  <2> SUFFICES ASSUME rows[m].status \in MissionTerminal PROVE FALSE
    OBVIOUS
  <2>1. s.status = rows[m].status
    BY <1>1, <1>2 DEF Service!StatusMoves, Service!CanTransition, Service!MissionTransitions,
                      Service!MissionTerminal, MissionTerminal
  <2>2. Service(m)!GoalsRest(rows[m], s)
    BY <1>2 DEF Service!GoalsArrive, Service!GoalsSettle, MissionTerminal
  <2>3. \A q, r \in Rows : q.status = r.status /\ q.open = r.open /\ q.failed = r.failed /\ q.closed = r.closed
                            => q = r
    BY SMTT(30) DEF Rows
  <2>4. s = rows[m]
    BY <1>3, <1>5, <2>1, <2>2, <2>3 DEF Service!GoalsRest
  <2> QED BY <1>1, <2>4
<1> QED BY <1>1, <1>3, <1>5, <1>6

\* Who changes rows.
LEMMA RowWriters ==
    ASSUME TypeInv, [Next]_vars
    PROVE  rows' = rows \/ (\E c \in Callers : Insert(c) \/ Redraft(c)) \/ \E m \in Missions : Work(m)
<1>1. ASSUME NEW d \in Callers, HandlerStep(d) \/ TimeIsUp(d) \/ ReadFails(d) \/ Leave(d)
      PROVE  rows' = rows \/ Insert(d) \/ Redraft(d)
  BY <1>1 DEF HandlerStep, Announce, ReadFirst, ReadSecond, CheckEnded, Cancel, TimeIsUp, ReadFails, Leave
<1>2. ClientStep => rows' = rows
  BY ClientSteps DEF Ask, serverVars, StartWatching, GatewayRestart
<1>3. Crash \/ (\E m \in Missions : WorkFails(m)) \/ UNCHANGED vars => rows' = rows
  BY DEF Crash, WorkFails, vars, serverVars
<1> QED BY <1>1, <1>2, <1>3 DEF Next, Server

\* What Redraft writes.
LEMMA RedraftWrites ==
    ASSUME TypeInv, NEW c \in Callers, Redraft(c)
    PROVE  /\ MissionOf(c) \in Missions
           /\ rows'[MissionOf(c)] = [rows[MissionOf(c)] EXCEPT !.status = "Draft"]
           /\ \A k \in Missions \ {MissionOf(c)} : rows'[k] = rows[k]
BY DEF Redraft, TypeInv, TableType, HandlerType, InHand, Steps

LEMMA RowsExist == ASSUME NEW r \in Rows PROVE r # NoRow /\ [r EXCEPT !.status = "Draft"] # NoRow
<1>1. [r EXCEPT !.status = "Draft"].status = "Draft" /\ r.status \in MissionStatuses
  BY DEF Rows
<1>2. NoRow.status = "none"
  BY DEF NoRow
<1> QED BY <1>1, <1>2 DEF MissionStatuses

\* A row that is there stays.
LEMMA RowsStay ==
    ASSUME TypeInv, [Next]_vars, NEW m \in Missions, rows[m] # NoRow
    PROVE  rows'[m] # NoRow
<1>0. rows[m] \in Rows
  BY DEF TypeInv, TableType
<1>1. ASSUME NEW c \in Callers, Insert(c) PROVE rows'[m] = rows[m]
  BY <1>1 DEF Insert, TypeInv, TableType
<1>2. ASSUME NEW c \in Callers, Redraft(c) PROVE rows'[m] # NoRow
  BY <1>0, <1>2, RedraftWrites, RowsExist
<1>3. ASSUME NEW k \in Missions, Work(k) PROVE rows'[m] # NoRow
  BY <1>0, <1>3, WorkIsPromised, RowsExist
<1> QED BY <1>1, <1>2, <1>3, RowWriters

\* What a handler has in hand when it has got so far: the mission it has created
\* or is about to run exists; only an extension is planned by its handler, and
\* the gateway's requests are chats.
HandInv ==
    /\ \A c \in Callers : At(c) \in {"announcing", "redrafting", "planning"} => rows[MissionOf(c)] # NoRow
    /\ \A c \in Callers : At(c) \in {"checking", "redrafting", "planning"} => handler[c].op = "extend"
    /\ \A g \in Messages : At(g) = "away" \/ handler[g].op = "chat"
    /\ \A m \in announced : rows[m] # NoRow

LEMMA AskOp ==
    ASSUME HandlerType, NEW c \in Callers, NEW op \in Operations, NEW m \in Missions \cup {NoMission}, NEW role,
           Ask(c, op, m, role)
    PROVE  \/ handler'[c].at = "away"
           \/ handler'[c].op = op /\ handler'[c].at \in {"inserting", "checking", "cancelling", "polling"}
              /\ (handler'[c].at = "checking" => op = "extend")
<1> DEFINE h == [Away EXCEPT !.at = FirstStep(op), !.op = op, !.mission = m]
<1>1. CASE Allowed(op, role)
  <2>1. handler'[c] = h
    BY <1>1 DEF Ask, HandlerType
  <2>2. h.at = FirstStep(op) /\ h.op = op
    BY AwayType DEF Handlers
  <2>3. FirstStep(op) \in {"inserting", "checking", "cancelling", "polling"}
        /\ (FirstStep(op) = "checking" => op = "extend")
    BY DEF FirstStep
  <2> HIDE DEF h
  <2> QED BY <2>1, <2>2, <2>3
<1>2. CASE ~ Allowed(op, role)
  BY <1>2, AwayType DEF Ask, Answer, HandlerType
<1> QED BY <1>1, <1>2

\* What the steps that MotionStep names do to their handler.
LEMMA MotionFacts ==
    ASSUME TypeInv, NEW c \in Callers
    PROVE  /\ Insert(c) => /\ At(c) = "inserting" /\ handler'[c].at = "announcing" /\ handler'[c].op = handler[c].op
                           /\ handler'[c].mission \in Missions /\ rows[handler'[c].mission] = NoRow
                           /\ rows' = [rows EXCEPT ![handler'[c].mission] = Service(handler'[c].mission)!NewRow]
           /\ CheckEnded(c) =>
                \/ handler'[c].at = "away"
                \/ /\ At(c) = "checking" /\ handler'[c].at = "redrafting" /\ handler'[c].op = handler[c].op
                   /\ handler'[c].mission = MissionOf(c) /\ rows[MissionOf(c)].status \in MissionTerminal
           /\ Redraft(c) => /\ At(c) = "redrafting" /\ handler'[c].at = "planning" /\ handler'[c].op = handler[c].op
                            /\ handler'[c].mission = MissionOf(c)
<1>0. handler \in [Callers -> Handlers] /\ handler[c] \in Handlers
  BY DEF TypeInv, HandlerType
<1>1. ASSUME Insert(c)
      PROVE  /\ At(c) = "inserting" /\ handler'[c].at = "announcing" /\ handler'[c].op = handler[c].op
             /\ handler'[c].mission \in Missions /\ rows[handler'[c].mission] = NoRow
             /\ rows' = [rows EXCEPT ![handler'[c].mission] = Service(handler'[c].mission)!NewRow]
  <2>1. PICK m \in Missions :
          /\ rows[m] = NoRow /\ rows' = [rows EXCEPT ![m] = Service(m)!NewRow]
          /\ handler' = [handler EXCEPT ![c].at = "announcing", ![c].mission = m]
    BY <1>1 DEF Insert
  <2> DEFINE h == [handler[c] EXCEPT !.at = "announcing", !.mission = m]
  <2>2. handler'[c] = h
    BY <1>0, <2>1
  <2>3. h.at = "announcing" /\ h.op = handler[c].op /\ h.mission = m
    BY <1>0, Zenon DEF Handlers
  <2> HIDE DEF h
  <2> QED BY <1>1, <2>1, <2>2, <2>3 DEF Insert
<1>2. ASSUME CheckEnded(c)
      PROVE  \/ handler'[c].at = "away"
             \/ /\ At(c) = "checking" /\ handler'[c].at = "redrafting" /\ handler'[c].op = handler[c].op
                /\ handler'[c].mission = MissionOf(c) /\ rows[MissionOf(c)].status \in MissionTerminal
  <2>1. CASE rows[MissionOf(c)].status \in MissionTerminal
    BY <1>2, <2>1, GoToGoesOn DEF CheckEnded, TypeInv, Steps, MissionOf
  <2>2. CASE rows[MissionOf(c)].status \notin MissionTerminal
    BY <1>0, <1>2, <2>2, AwayType DEF CheckEnded, Answer
  <2> QED BY <2>1, <2>2
<1>3. ASSUME Redraft(c)
      PROVE  /\ At(c) = "redrafting" /\ handler'[c].at = "planning" /\ handler'[c].op = handler[c].op
             /\ handler'[c].mission = MissionOf(c)
  <2>1. handler'[c] = [handler[c] EXCEPT !.at = "planning"]
    BY <1>3, Zenon DEF Redraft
  <2> QED BY <1>0, <1>3, <2>1, GoToType, GoesOnParts DEF Redraft, Steps, MissionOf
<1> QED BY <1>1, <1>2, <1>3

\* What is announced: what it was, or what a handler creates or extends.
LEMMA AnnouncedStep ==
    ASSUME TypeInv, [Next]_vars
    PROVE  \/ announced' = announced
           \/ \E c \in Callers : /\ Announce(c) \/ Redraft(c)
                                 /\ announced' = announced \cup {MissionOf(c)}
<1>1. ASSUME NEW d \in Callers, HandlerStep(d) \/ TimeIsUp(d) \/ ReadFails(d) \/ Leave(d)
      PROVE  \/ announced' = announced
             \/ (Announce(d) \/ Redraft(d)) /\ announced' = announced \cup {MissionOf(d)}
  BY <1>1 DEF HandlerStep, Insert, Announce, ReadFirst, ReadSecond, CheckEnded, Redraft, Cancel, TimeIsUp,
              ReadFails, Leave
<1>2. ClientStep => announced' = announced
  BY ClientSteps DEF Ask, serverVars, StartWatching, GatewayRestart
<1>3. Crash \/ (\E m \in Missions : Work(m) \/ WorkFails(m)) \/ UNCHANGED vars => announced' = announced
  BY DEF Crash, Work, WorkFails, vars, serverVars
<1> QED BY <1>1, <1>2, <1>3 DEF Next, Server

LEMMA NextHand == TypeInv /\ HandInv /\ [Next]_vars => HandInv'
<1> SUFFICES ASSUME TypeInv, HandInv, [Next]_vars PROVE HandInv'
  OBVIOUS
<1>0. TypeInv' /\ HandlerType
  BY NextType DEF TypeInv
<1>1. ASSUME NEW c \in Callers
      PROVE  /\ handler'[c].at \in {"announcing", "redrafting", "planning"} => rows'[handler'[c].mission] # NoRow
             /\ handler'[c].at \in {"checking", "redrafting", "planning"} => handler'[c].op = "extend"
             /\ c \in Messages => handler'[c].at = "away" \/ handler'[c].op = "chat"
  <2>1. CASE GoesOn(c)
    <3>1. handler'[c].at \in {"announcing", "redrafting", "planning"} => MissionOf(c) \in Missions
      BY <2>1 DEF GoesOn, At, HandlerType, TypeInv, InHand, Steps
    <3> QED BY <2>1, <3>1, RowsStay DEF GoesOn, HandInv, At, MissionOf
  <2>2. CASE Insert(c)
    <3>1. Service(handler'[c].mission)!NewRow # NoRow
      BY DEF Service!NewRow, NoRow
    <3> QED BY <2>2, <3>1, MotionFacts DEF HandInv, At, TypeInv, TableType
  <2>3. CASE CheckEnded(c)
    <3>1. At(c) = "checking" => MissionOf(c) \in Missions
      BY <1>0 DEF HandlerType, InHand, Steps
    <3>2. rows[MissionOf(c)].status \in MissionTerminal => rows[MissionOf(c)] # NoRow
      BY DEF MissionTerminal, NoRow
    <3> QED BY <2>3, <3>1, <3>2, MotionFacts, RowsStay DEF HandInv, At
  <2>4. CASE Redraft(c)
    <3>1. MissionOf(c) \in Missions
      BY <2>4, RedraftWrites
    <3> QED BY <2>4, <3>1, MotionFacts, RowsStay DEF HandInv, At
  <2>5. CASE IsAsked(c)
    BY <1>0, <2>5, AskOp DEF IsAsked
  <2> QED BY <2>1, <2>2, <2>3, <2>4, <2>5, MotionStep
<1>2. ASSUME NEW m \in announced' PROVE rows'[m] # NoRow
  <2>1. m \in Missions
    BY <1>0 DEF TypeInv, TableType
  <2>2. rows[m] # NoRow
    <3>1. CASE m \in announced
      BY <3>1 DEF HandInv
    <3>2. ASSUME NEW c \in Callers, Announce(c) \/ Redraft(c), m = MissionOf(c) PROVE rows[m] # NoRow
      BY <3>2 DEF Announce, Redraft, HandInv
    <3> QED BY <3>1, <3>2, AnnouncedStep
  <2> QED BY <2>1, <2>2, RowsStay
<1> QED BY <1>1, <1>2 DEF HandInv, At, MissionOf

DrivenInv == HandInv /\ AnnouncedAreDriven

\* The step leaves the mission, and who drives it, as they are.
LeavesAlone(m) ==
    /\ driver'[m] = driver[m] /\ rows'[m] = rows[m] /\ (m \in announced' => m \in announced)
    /\ stranded \subseteq stranded' /\ (faults > 0 => faults' > 0)

\* What AnnouncedAreDriven says of a mission, after the step.
DrivenNext(m) ==
    m \in announced' /\ rows'[m].status \in InPlanning
        => driver'[m] # Nobody \/ m \in stranded' \/ faults' > 0

LEMMA LeftAlone ==
    ASSUME TypeInv, DrivenInv, NEW m \in Missions, LeavesAlone(m)
    PROVE  DrivenNext(m)
BY DEF LeavesAlone, DrivenNext, DrivenInv, AnnouncedAreDriven

\* Each step keeps whoever drives the mission, puts somebody there, or leaves a trace.
LEMMA DrivenStep ==
    ASSUME TypeInv, DrivenInv, [Next]_vars, NEW m \in Missions
    PROVE  DrivenNext(m)
<1> USE DEF DrivenNext
<1>0. /\ faults \in Nat /\ Nobody \notin Callers /\ Task # Nobody
      /\ rows \in [Missions -> Rows \cup {NoRow}] /\ driver \in [Missions -> Callers \cup {Nobody, Task}]
      /\ announced \subseteq Missions
  BY DEF TypeInv, TableType, DriverType, Nobody, Task
<1>1. ASSUME UNCHANGED <<rows, driver, announced, stranded, faults>> PROVE DrivenNext(m)
  BY <1>0, <1>1, LeftAlone DEF LeavesAlone
<1>2. ASSUME NEW c \in Callers, HandlerStep(c) \/ TimeIsUp(c) \/ ReadFails(c) PROVE DrivenNext(m)
  <2>1. CASE Insert(c)
    <3>1. PICK k \in Missions : rows[k] = NoRow /\ rows' = [rows EXCEPT ![k] = Service(k)!NewRow]
      BY <2>1 DEF Insert
    <3>2. k \notin announced
      BY <3>1 DEF DrivenInv, HandInv
    <3>3. UNCHANGED <<driver, announced, stranded, faults>>
      BY <2>1 DEF Insert
    <3>4. CASE m = k
      BY <3>2, <3>3, <3>4
    <3>5. CASE m # k
      <4>1. LeavesAlone(m)
        BY <1>0, <3>1, <3>3, <3>5 DEF LeavesAlone
      <4> QED BY <4>1, LeftAlone
    <3> QED BY <3>4, <3>5
  <2>2. CASE Announce(c)
    <3>1. MissionOf(c) \in Missions
      BY <2>2 DEF Announce, TypeInv, HandlerType, InHand, Steps
    <3>2. \/ UNCHANGED <<driver, announced>>
          \/ driver' = [driver EXCEPT ![MissionOf(c)] = Task] /\ announced' = announced \cup {MissionOf(c)}
      BY <2>2 DEF Announce
    <3>3. UNCHANGED <<rows, stranded, faults>>
      BY <2>2 DEF Announce
    <3>4. driver'[m] # Nobody \/ LeavesAlone(m)
      BY <1>0, <3>1, <3>2, <3>3 DEF LeavesAlone
    <3> QED BY <3>4, LeftAlone
  <2>3. CASE Redraft(c)
    <3>1. /\ driver' = [driver EXCEPT ![MissionOf(c)] = c] /\ announced' = announced \cup {MissionOf(c)}
          /\ UNCHANGED <<stranded, faults>> /\ MissionOf(c) \in Missions
          /\ \A k \in Missions \ {MissionOf(c)} : rows'[k] = rows[k]
      BY <2>3, RedraftWrites DEF Redraft
    <3>2. CASE m = MissionOf(c)
      BY <1>0, <3>1, <3>2
    <3>3. CASE m # MissionOf(c)
      <4>1. LeavesAlone(m)
        BY <1>0, <3>1, <3>3 DEF LeavesAlone
      <4> QED BY <4>1, LeftAlone
    <3> QED BY <3>2, <3>3
  <2>4. CASE ReadFirst(c) \/ ReadSecond(c) \/ CheckEnded(c) \/ Cancel(c) \/ TimeIsUp(c)
    BY <1>1, <2>4 DEF ReadFirst, ReadSecond, CheckEnded, Cancel, TimeIsUp
  <2>5. CASE ReadFails(c)
    BY <1>0, <2>5 DEF ReadFails
  <2> QED BY <1>2, <2>1, <2>2, <2>3, <2>4, <2>5 DEF HandlerStep
<1>3. ASSUME NEW k \in Missions, Work(k) PROVE DrivenNext(m)
  <2>1. UNCHANGED <<announced, stranded, faults>> /\ driver[k] # Nobody
    BY <1>3 DEF Work
  <2>2. PICK s \in Rows :
          /\ rows' = [rows EXCEPT ![k] = s]
          /\ driver' = [driver EXCEPT ![k] = IF s.status \in MissionTerminal THEN Nobody
                                             ELSE IF s.status = "Running" THEN Task ELSE @]
    BY <1>3 DEF Work
  <2>3. CASE m = k
    <3>1. rows'[m] = s /\ (s.status \notin MissionTerminal => driver'[m] # Nobody)
      BY <1>0, <2>1, <2>2, <2>3
    <3>2. s.status \in InPlanning => s.status \notin MissionTerminal
      BY DEF InPlanning, MissionTerminal
    <3> QED BY <3>1, <3>2
  <2>4. CASE m # k
    <3>1. LeavesAlone(m)
      BY <1>0, <2>1, <2>2, <2>4 DEF LeavesAlone
    <3> QED BY <3>1, LeftAlone
  <2> QED BY <2>3, <2>4
<1>4. CASE Crash \/ \E k \in Missions : WorkFails(k)
  BY <1>0, <1>4 DEF Crash, WorkFails
<1>5. ASSUME NEW c \in Callers, Leave(c) PROVE DrivenNext(m)
  <2>1. /\ driver' = [k \in Missions |-> IF driver[k] = c THEN Nobody ELSE driver[k]]
        /\ stranded' = stranded \cup {k \in Missions : driver[k] = c /\ handler[c].op = "extend"}
        /\ UNCHANGED <<rows, announced, faults>>
    BY <1>5 DEF Leave
  <2>2. CASE driver[m] = c
    <3>1. handler[c].op = "extend"
      BY <2>2 DEF TypeInv, DriverType, DrivenInv, HandInv
    <3> QED BY <2>1, <2>2, <3>1
  <2>3. CASE driver[m] # c
    <3>1. LeavesAlone(m)
      BY <1>0, <2>1, <2>3 DEF LeavesAlone
    <3> QED BY <3>1, LeftAlone
  <2> QED BY <2>2, <2>3
<1>6. CASE ClientStep
  <2>1. CASE GatewayRestart
    <3>1. driver[m] \notin Messages
      <4> SUFFICES ASSUME driver[m] \in Messages PROVE FALSE
        OBVIOUS
      <4>1. At(driver[m]) = "planning" /\ driver[m] \in Callers
        BY DEF TypeInv, DriverType
      <4> QED BY <4>1 DEF DrivenInv, HandInv
    <3>2. LeavesAlone(m)
      BY <1>0, <2>1, <3>1 DEF GatewayRestart, LeavesAlone
    <3> QED BY <3>2, LeftAlone
  <2>2. ~ GatewayRestart => UNCHANGED <<rows, driver, announced, stranded, faults>>
    BY <1>6, ClientSteps DEF Ask, serverVars, StartWatching
  <2> QED BY <1>1, <2>1, <2>2
<1>7. CASE UNCHANGED vars
  BY <1>1, <1>7 DEF vars, serverVars
<1> QED BY <1>2, <1>3, <1>4, <1>5, <1>6, <1>7 DEF Next, Server

LEMMA NextDriven == TypeInv /\ DrivenInv /\ [Next]_vars => DrivenInv'
<1> SUFFICES ASSUME TypeInv, DrivenInv, [Next]_vars PROVE DrivenInv'
  OBVIOUS
<1>1. HandInv'
  BY NextHand DEF DrivenInv
<1>2. announced' \subseteq Missions
  BY NextType DEF TypeInv, TableType
<1>3. AnnouncedAreDriven'
  BY <1>2, DrivenStep DEF DrivenNext, AnnouncedAreDriven
<1> QED BY <1>1, <1>3 DEF DrivenInv

LEMMA InitDriven == Init => DrivenInv
BY DEF Init, ServerInit, DrivenInv, HandInv, AnnouncedAreDriven, At, Away

\* What AnnouncedAreRun rests on, for any number of callers, extensions and
\* restarts of the gateway: nobody who asks and goes away leaves a mission
\* planned half-way, except whoever extends one.
THEOREM AnnouncedHaveDrivers == Spec => []AnnouncedAreDriven
<1>1. DrivenInv => AnnouncedAreDriven
  BY DEF DrivenInv
<1> QED BY <1>1, InitDriven, NextDriven, TypeInvariant, PTL DEF Spec

=============================================================================
