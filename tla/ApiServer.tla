------------------------------- MODULE ApiServer -------------------------------
(***************************************************************************)
(* The HTTP server (crates/forge-server) over the mission service, of       *)
(* which it is known here what MissionRows promises and who drives it: a   *)
(* task of its own, or the handler of a request.  A handler is dropped     *)
(* where it stands when its caller goes away; a task is not.               *)
(*                                                                         *)
(* A request names an operation; its handler is a sequence of steps between *)
(* awaits.  Texts, token estimates and the deltas of a stream are left out; *)
(* so are extensions that overlap each other or the tail of an earlier run *)
(* (MissionService!ExtensionStartsAlone).                                  *)
(***************************************************************************)
EXTENDS Naturals, ForgeDomain

CONSTANTS
    Callers,        \* programs that send requests, one at a time each
    MaxMissions,    \* bound: missions created
    MaxGoals,       \* bound: goals of a mission
    MaxExtensions,  \* bound: extensions begun
    MaxFaults       \* bound: failed reads and writes, and crashes

ASSUME ServerAssumption ==
    /\ MaxMissions \in Nat /\ MaxGoals \in Nat
    /\ MaxExtensions \in Nat /\ MaxFaults \in Nat

Missions == 1 .. MaxMissions
NoMission == 0
Nobody == "nobody"
Task == "task"

ASSUME CallerAssumption == Callers \cap {Nobody, Task} = {}

VARIABLES
    rows,           \* a mission's row and goals, NoRow before it is created
    driver,         \* who plans or runs a mission: Nobody, Task or a caller's handler
    token,          \* missions whose registered token has been flipped
    handler,        \* where the handler of a caller's request is
    reply,          \* what a caller was last told
    announced,      \* history: missions a caller asked to be run
    stranded,       \* history: missions whose extension was dropped with its caller
    extensions, faults

serverVars == <<rows, driver, token, handler, reply, announced, stranded, extensions, faults>>

Service(m) == INSTANCE MissionRows WITH row <- rows[m]

NoRow == [status |-> "none", open |-> 0, failed |-> 0, closed |-> 0]
Rows == {r \in [status : MissionStatuses, open : 0 .. MaxGoals, failed : 0 .. MaxGoals, closed : 0 .. MaxGoals] :
             r.open + r.failed + r.closed <= MaxGoals}

\* late: the 300 seconds a chat is waited for are over; status, open: what detail
\* has read so far; crossed: history, the mission was extended since.
Away == [at |-> "away", op |-> "none", mission |-> NoMission, late |-> FALSE,
         status |-> "none", open |-> 0, crossed |-> FALSE]

\* What a caller is told: nothing yet, a word, or what became of a mission.
Word(w) == [word |-> w, mission |-> NoMission, status |-> "none", open |-> 0, crossed |-> FALSE]
Silence == Word("none")

ServerInit ==
    /\ rows = [m \in Missions |-> NoRow]
    /\ driver = [m \in Missions |-> Nobody]
    /\ token = {} /\ announced = {} /\ stranded = {}
    /\ handler = [c \in Callers |-> Away]
    /\ reply = [c \in Callers |-> Silence]
    /\ extensions = 0 /\ faults = 0

Creating == {"create", "draft", "chat", "stream"}     \* draft: plan_only is set
Chats == {"chat", "stream"}
Changing == Creating \cup {"extend", "cancel"}
Operations == Changing \cup {"get"}

At(c) == handler[c].at
MissionOf(c) == handler[c].mission

GoTo(c, next) == handler' = [handler EXCEPT ![c].at = next]

LookAgain(c) ==
    /\ handler' = [handler EXCEPT ![c].at = "polling", ![c].status = "none", ![c].open = 0,
                                ![c].crossed = FALSE]
    /\ UNCHANGED reply

\* The handler returns.
Answer(c, r) ==
    /\ handler' = [handler EXCEPT ![c] = Away]
    /\ reply' = [reply EXCEPT ![c] = r]

-----------------------------------------------------------------------------
(* A request comes in *)

\* check_auth and require_full; an ill-formed request is refused just so.
Roles == {"Full", "ReadOnly", "Unauthorized"}
Allowed(op, role) == role = "Full" \/ (role = "ReadOnly" /\ op \notin Changing)

FirstStep(op) == IF op \in Creating THEN "inserting"
                 ELSE IF op = "extend" THEN "checking"
                 ELSE IF op = "cancel" THEN "cancelling" ELSE "polling"

Ask(c, op, m, role) ==
    /\ At(c) = "away"
    /\ IF Allowed(op, role)
       THEN /\ handler' = [handler EXCEPT ![c] = [Away EXCEPT !.at = FirstStep(op), !.op = op, !.mission = m]]
            /\ reply' = [reply EXCEPT ![c] = Silence]
       ELSE Answer(c, Word("refused"))
    /\ UNCHANGED <<rows, driver, token, announced, stranded, extensions, faults>>

-----------------------------------------------------------------------------
(* create_mission and chat_completions *)

\* MissionService::create, up to the row.
Insert(c) ==
    /\ At(c) = "inserting"
    /\ \E m \in Missions :
        /\ rows[m] = NoRow /\ \A k \in 1 .. m - 1 : rows[k] # NoRow
        /\ rows' = [rows EXCEPT ![m] = Service(m)!NewRow]
        /\ handler' = [handler EXCEPT ![c].at = "announcing", ![c].mission = m]
    /\ UNCHANGED <<driver, token, reply, announced, stranded, extensions, faults>>

Created(c) == [Word(handler[c].op) EXCEPT !.mission = MissionOf(c)]

\* Mutant: the handler plans the mission itself before it answers.
AnnounceAndPlan(c) ==
    /\ At(c) = "announcing"
    /\ IF handler[c].op = "draft"
       THEN UNCHANGED <<driver, announced>>
       ELSE /\ driver' = [driver EXCEPT ![MissionOf(c)] = c]
            /\ announced' = announced \cup {MissionOf(c)}
    /\ IF handler[c].op = "draft" THEN Answer(c, Created(c))
       ELSE GoTo(c, "planning") /\ UNCHANGED reply
    /\ UNCHANGED <<rows, token, stranded, extensions, faults>>

\* The event is out; the mission is run by a task, unless it was only to be
\* created.  A chat goes on to wait for its end.
Announce(c) ==
    /\ At(c) = "announcing"
    /\ IF handler[c].op = "draft"
       THEN UNCHANGED <<driver, announced>>
       ELSE /\ driver' = [driver EXCEPT ![MissionOf(c)] = Task]
            /\ announced' = announced \cup {MissionOf(c)}
    /\ IF handler[c].op \in Chats THEN GoTo(c, "polling") /\ UNCHANGED reply
       ELSE Answer(c, Created(c))
    /\ UNCHANGED <<rows, token, stranded, extensions, faults>>

-----------------------------------------------------------------------------
(* get_mission, and the wait of a chat: MissionService::detail, again and again *)

Told(h) == [word |-> "told", mission |-> h.mission, status |-> h.status, open |-> h.open, crossed |-> h.crossed]

\* Mutant: the goals first.
GoalsFirst == <<"goals", "mission">>

\* What detail reads, in this order.
DetailReads == <<"mission", "goals">>

Read(what, h, row) == IF what = "mission" THEN [h EXCEPT !.status = row.status]
                                          ELSE [h EXCEPT !.open = row.open]

ReadFirst(c) ==
    /\ At(c) = "polling"
    /\ IF rows[MissionOf(c)] = NoRow
       THEN Answer(c, Word("not found"))
       ELSE /\ handler' = [handler EXCEPT ![c] = Read(DetailReads[1], [@ EXCEPT !.at = "reading"], rows[MissionOf(c)])]
            /\ UNCHANGED reply
    /\ UNCHANGED <<rows, driver, token, announced, stranded, extensions, faults>>

\* Mutant: the wait for the mission has no limit.
ReadSecondPatiently(c) ==
    /\ At(c) = "reading"
    /\ LET h == Read(DetailReads[2], handler[c], rows[MissionOf(c)]) IN
       IF h.op = "get" \/ h.status \in MissionTerminal THEN Answer(c, Told(h))
       ELSE LookAgain(c)
    /\ UNCHANGED <<rows, driver, token, announced, stranded, extensions, faults>>

\* A chat is answered when the mission has ended or its time is up, and looks
\* again otherwise.
ReadSecond(c) ==
    /\ At(c) = "reading"
    /\ LET h == Read(DetailReads[2], handler[c], rows[MissionOf(c)]) IN
       IF h.op = "get" \/ h.status \in MissionTerminal THEN Answer(c, Told(h))
       ELSE IF h.late THEN Answer(c, Word("length"))
       ELSE LookAgain(c)
    /\ UNCHANGED <<rows, driver, token, announced, stranded, extensions, faults>>

TimeIsUp(c) ==
    /\ handler[c].op \in Chats /\ At(c) \in {"polling", "reading"} /\ ~ handler[c].late
    /\ handler' = [handler EXCEPT ![c].late = TRUE]
    /\ UNCHANGED <<rows, driver, token, reply, announced, stranded, extensions, faults>>

\* A read fails: an error, but a stream looks at the clock and goes on.
ReadFails(c) ==
    /\ At(c) \in {"polling", "reading"} /\ faults < MaxFaults
    /\ faults' = faults + 1
    /\ IF handler[c].op # "stream" THEN Answer(c, Word("failed"))
       ELSE IF handler[c].late THEN Answer(c, Word("length"))
       ELSE LookAgain(c)
    /\ UNCHANGED <<rows, driver, token, announced, stranded, extensions>>

-----------------------------------------------------------------------------
(* extend_mission and cancel_mission *)

\* extend refuses a mission that has not ended, or does not exist.
CheckEnded(c) ==
    /\ At(c) = "checking"
    /\ IF rows[MissionOf(c)].status \in MissionTerminal
       THEN /\ extensions' = extensions + 1
            /\ GoTo(c, "redrafting") /\ UNCHANGED reply
       ELSE Answer(c, Word("failed")) /\ UNCHANGED extensions
    /\ UNCHANGED <<rows, driver, token, announced, stranded, faults>>

\* The mission is Draft again, and plan_only is run by the handler.
Redraft(c) ==
    /\ At(c) = "redrafting"
    /\ rows' = [rows EXCEPT ![MissionOf(c)].status = "Draft"]
    /\ driver' = [driver EXCEPT ![MissionOf(c)] = c]
    /\ announced' = announced \cup {MissionOf(c)}
    /\ handler' = [d \in Callers |->
          IF d = c THEN [handler[c] EXCEPT !.at = "planning"]
          ELSE [handler[d] EXCEPT !.crossed = @ \/ (At(d) = "reading" /\ MissionOf(d) = MissionOf(c))]]
    /\ UNCHANGED <<token, reply, stranded, extensions, faults>>

\* cancel: whatever the mission, the event goes out, the token, if there is one,
\* is flipped, and the request accepted.
Cancel(c) ==
    /\ At(c) = "cancelling"
    /\ token' \in IF rows[MissionOf(c)].status = "Running" THEN {token, token \cup {MissionOf(c)}} ELSE {token}
    /\ Answer(c, Word("accepted"))
    /\ UNCHANGED <<rows, driver, announced, stranded, extensions, faults>>

-----------------------------------------------------------------------------
(* The mission service at work *)

InPlanning == {"Draft", "Planning", "Ready"}

\* A step of whoever drives m, as MissionRows has it.  A handler that has taken
\* it to Running spawns the rest and answers; one that could not plan it reports
\* the error.
Work(m) ==
    /\ driver[m] # Nobody
    /\ \E s \in Rows :
        /\ s # rows[m] /\ s.status \notin {"Draft"} \ {rows[m].status}
        /\ Service(m)!RowStep(rows[m], s)
        /\ s.status = "Cancelled" => m \in token
        /\ rows' = [rows EXCEPT ![m] = s]
        /\ driver' = [driver EXCEPT ![m] = IF s.status \in MissionTerminal THEN Nobody
                                           ELSE IF s.status = "Running" THEN Task ELSE @]
        /\ token' = IF s.status \in MissionTerminal THEN token \ {m} ELSE token
        /\ IF driver[m] \in Callers /\ s.status \in {"Running"} \cup MissionTerminal
           THEN Answer(driver[m], Word(IF s.status = "Running" THEN "accepted" ELSE "failed"))
           ELSE UNCHANGED <<handler, reply>>
    /\ UNCHANGED <<announced, stranded, extensions, faults>>

\* An error ends the work on m, and m stays as it is.
WorkFails(m) ==
    /\ driver[m] # Nobody /\ faults < MaxFaults
    /\ faults' = faults + 1
    /\ driver' = [driver EXCEPT ![m] = Nobody]
    /\ IF driver[m] \in Callers THEN Answer(driver[m], Word("failed")) ELSE UNCHANGED <<handler, reply>>
    /\ UNCHANGED <<rows, token, announced, stranded, extensions>>

\* c goes away, by its own timeout or the user's will: its handler is dropped,
\* with the planning it was doing.
Leave(c) ==
    /\ At(c) # "away"
    /\ Answer(c, Word("gone"))
    /\ driver' = [m \in Missions |-> IF driver[m] = c THEN Nobody ELSE driver[m]]
    /\ stranded' = stranded \cup {m \in Missions : driver[m] = c /\ handler[c].op = "extend"}
    /\ UNCHANGED <<rows, token, announced, extensions, faults>>

\* The server's process ends, in the middle of something, and is started again.
Crash ==
    /\ faults < MaxFaults
    /\ \/ \E c \in Callers : At(c) # "away"
       \/ \E m \in Missions : driver[m] # Nobody
    /\ faults' = faults + 1
    /\ driver' = [m \in Missions |-> Nobody]
    /\ token' = {}
    /\ handler' = [c \in Callers |-> Away]
    /\ reply' = [c \in Callers |-> IF At(c) = "away" THEN reply[c] ELSE Word("gone")]
    /\ UNCHANGED <<rows, announced, stranded, extensions>>

HandlerStep(c) ==
    Insert(c) \/ Announce(c) \/ ReadFirst(c) \/ ReadSecond(c)
    \/ CheckEnded(c) \/ Redraft(c) \/ Cancel(c)

Server ==
    \/ \E c \in Callers : HandlerStep(c) \/ TimeIsUp(c) \/ ReadFails(c)
    \/ \E m \in Missions : Work(m) \/ WorkFails(m)
    \/ Crash

\* Handlers are polled, the clock runs, a plan comes or the planner gives up.
\* Nothing says that a running mission ends.
ServerFairness ==
    /\ \A c \in Callers : WF_serverVars(HandlerStep(c)) /\ WF_serverVars(TimeIsUp(c))
    /\ \A m \in Missions : WF_serverVars(rows[m].status \in InPlanning /\ Work(m))

-----------------------------------------------------------------------------
(* Properties *)

ServerTypeOK ==
    /\ rows \in [Missions -> Rows \cup {NoRow}]
    /\ driver \in [Missions -> Callers \cup {Nobody, Task}]
    /\ token \subseteq Missions /\ announced \subseteq Missions /\ stranded \subseteq announced
    /\ \A c \in Callers : handler[c].mission \in Missions \cup {NoMission}
    /\ extensions \in 0 .. MaxExtensions /\ faults \in 0 .. MaxFaults

\* detail reads the mission and its goals one after the other, while both change:
\* whoever is told that a mission is Completed is shown no open goal, unless the
\* mission was extended in between.
SummaryIsSettled ==
    \A c \in Callers : reply[c].status = "Completed" => reply[c].open = 0 \/ reply[c].crossed

\* Every request is answered, chats about missions that never end included.
RequestsEnd == \A c \in Callers : At(c) # "away" ~> At(c) = "away"

\* What was asked to be run is planned, though whoever asked goes away at any
\* time; except an extension, which goes with its caller.
AnnouncedAreRun ==
    \A m \in Missions :
        m \in announced ~> rows[m].status \notin InPlanning \/ m \in stranded \/ faults > 0

\* What AnnouncedAreRun rests on: a mission that was asked to be run and is not yet
\* running has somebody who drives it, or its extension went with its caller.
AnnouncedAreDriven ==
    \A m \in announced :
        rows[m].status \in InPlanning => driver[m] # Nobody \/ m \in stranded \/ faults > 0

-----------------------------------------------------------------------------
(* What the mission service promises one caller at a time, and the server's  *)
(* callers do not get                                                       *)

\* A mission is created once, and from then on only changes as MissionRows has it:
\* not with two extensions that are both between check and write.
RowsKeepTheirPromise ==
    [][\A m \in Missions :
         \/ rows'[m] = rows[m]
         \/ rows[m] = NoRow /\ rows'[m] = Service(m)!NewRow
         \/ rows[m] # NoRow /\ Service(m)!RowStep(rows[m], rows'[m])]_rows

=============================================================================
