----------------------------- MODULE ModelProofs -----------------------------
(***************************************************************************)
(* Theorems about ModelCalls, for every configuration of providers, every  *)
(* number of missions, callers and requests, and whatever is answered.     *)
(***************************************************************************)
EXTENDS ModelCalls, SequenceTheorems, FiniteSetTheorems, WellFoundedInduction, TLAPS

USE RouterAssumption

\* A request that begins leaves breakers and buckets alone.
LEMMA AskKeeps ==
    ASSUME NEW c, NEW req, Ask(c, req)
    PROVE  UNCHANGED breakerVars /\ UNCHANGED costVars
BY DEF Ask

\* What begins a call of the model makes a request, and nothing else the router has.
LEMMA BeginAsks ==
    ASSUME NEW m, BeginPlan(m) \/ BeginInputs(m) \/ BeginReplan(m) \/ BeginReflection(m)
    PROVE  \E c \in {Service(m), Worker(m)} : \E req : Ask(c, req)
<1>1. CASE BeginPlan(m)
  BY <1>1 DEF BeginPlan
<1>2. CASE BeginInputs(m)
  BY <1>2 DEF BeginInputs
<1>3. CASE BeginReplan(m)
  BY <1>3 DEF BeginReplan
<1>4. CASE BeginReflection(m)
  BY <1>4 DEF BeginReflection
<1> QED BY <1>1, <1>2, <1>3, <1>4

\* A caller that takes its result leaves them alone, too.
LEMMA ConsumeKeeps ==
    ASSUME NEW c, Consume(c)
    PROVE  UNCHANGED breakerVars /\ UNCHANGED costVars
BY DEF Consume

-----------------------------------------------------------------------------
(* Costs: an answer is in its mission's bucket or in a summary *)

CostInv ==
    /\ costs \in [Missions -> Nat] /\ summed \in [Missions -> Nat] /\ answers \in [Missions -> Nat]
    /\ CostsAddUp

\* An answer is counted where it belongs, whichever provider gave it.
LEMMA AnswerCounts ==
    ASSUME CostInv, NEW c \in Callers, NEW outcome, Answer(c, outcome)
    PROVE  CostInv'
<1>1. MissionOf[c] \in Missions
  OBVIOUS
<1> QED BY <1>1 DEF Answer, CostInv, CostsAddUp

\* A drain moves the bucket into the summary.
LEMMA DrainCounts ==
    ASSUME CostInv, NEW m \in Missions, Drain(m)
    PROVE  CostInv'
BY DEF Drain, CostInv, CostsAddUp

\* Of the router's own steps only an answer counts.
LEMMA RouterCounts ==
    ASSUME CostInv, RouterNext
    PROVE  CostInv'
<1>1. ASSUME NEW c \in Callers, Skip(c) \/ Send(c) PROVE CostInv'
  BY <1>1 DEF Skip, Send, costVars, CostInv, CostsAddUp
<1>2. ASSUME NEW c \in Callers, Reply(c) PROVE CostInv'
  <2> SUFFICES ASSUME NEW outcome, Refusal(c, outcome) PROVE CostInv'
    BY <1>2, AnswerCounts DEF Reply
  <2> QED BY DEF Refusal, costVars, CostInv, CostsAddUp
<1>3. ASSUME NEW n \in Names, Lapse(n) PROVE CostInv'
  BY <1>3 DEF Lapse, costVars, CostInv, CostsAddUp
<1> QED BY <1>1, <1>2, <1>3 DEF RouterNext, RouterStep

\* Neither do a mission's steps, but for its summary.
LEMMA MissionCounts ==
    ASSUME CostInv, NEW m \in Missions,
           \/ BeginPlan(m) \/ BeginInputs(m) \/ BeginReplan(m) \/ BeginReflection(m)
           \/ TaskStep(m) \/ Extend(m)
    PROVE  CostInv'
<1> USE DEF CostInv, CostsAddUp, costVars, routerVars
<1>1. CASE BeginPlan(m) \/ BeginInputs(m) \/ BeginReplan(m) \/ BeginReflection(m)
  BY <1>1, BeginAsks, AskKeeps
<1>2. CASE PlanInvalid(m) \/ PlanFails(m) \/ PlanArrives(m) \/ InputsArrive(m)
  BY <1>2 DEF PlanInvalid, PlanFails, PlanArrives, InputsArrive, Consume
<1>3. CASE WaveEnds(m) \/ ReplanStops(m) \/ ReplanAdds(m) \/ ReflectionArrives(m)
  BY <1>3 DEF WaveEnds, ReplanStops, ReplanAdds, ReflectionArrives, Consume
<1>4. CASE Summarize(m)
  BY <1>4, DrainCounts DEF Summarize
<1>5. CASE Extend(m)
  BY <1>5 DEF Extend
<1> QED BY <1>1, <1>2, <1>3, <1>4, <1>5 DEF TaskStep

\* Answers are counted once.
LEMMA CostInvariant == Spec => []CostInv
<1>1. Init => CostInv
  BY DEF Init, RouterInit, CostInv, CostsAddUp
<1>2. CostInv /\ [Next]_vars => CostInv'
  <2> SUFFICES ASSUME CostInv, [Next]_vars PROVE CostInv'
    OBVIOUS
  <2>1. CASE MemoryNext \/ UNCHANGED vars
    BY <2>1 DEF MemoryNext, vars, routerVars, costVars, CostInv, CostsAddUp
  <2>2. CASE Reboot
    BY <2>2 DEF Reboot, CostInv, CostsAddUp
  <2> QED BY <2>1, <2>2, RouterCounts, MissionCounts DEF Next
<1> QED BY <1>1, <1>2, PTL DEF Spec

\* Every answer a provider ever gave is in its mission's bucket or in a summary,
\* once, whatever requests, drains and restarts came in between.
THEOREM CostsAreCounted == Spec => []CostsAddUp
<1>1. CostInv => CostsAddUp
  BY DEF CostInv
<1> QED BY <1>1, CostInvariant, PTL

-----------------------------------------------------------------------------
(* Breakers *)

\* A request that is under way, or was answered, is at one of the providers.
RouteInv ==
    /\ at \in [Callers -> Nat] /\ phase \in [Callers -> Phases]
    /\ \A c \in Callers : phase[c] \in {"routing", "waiting", "answered"} => at[c] \in DOMAIN Providers

BreakerInv ==
    /\ failures \in [Names -> Nat] /\ open \subseteq Names
    /\ OpenMeansFailing

\* The providers are numbered from 1.
LEMMA ProviderNumbers == Len(Providers) \in Nat /\ DOMAIN Providers = 1 .. Len(Providers)
<1> DEFINE usable == {i \in DOMAIN Config : NeedsKey(Config[i].kind) => Config[i].key \in Keys}
<1>1. usable \subseteq 1 .. Len(Config) /\ Len(Config) \in Nat
  BY ConfigAssumption, LenProperties
<1>2. Cardinality(usable) \in Nat
  <2> HIDE DEF usable
  <2>1. IsFiniteSet(1 .. Len(Config))
    BY <1>1, FS_Interval
  <2>2. IsFiniteSet(usable)
    BY <1>1, <2>1, FS_Subset
  <2> QED BY <2>2, FS_CardinalityType
<1>3. Providers = Kept(Config, usable)
  BY DEF Providers
<1> HIDE DEF usable
<1> QED BY <1>2, <1>3 DEF Kept

\* A request begins at the first provider, if there is any.
LEMMA AskRoutes ==
    ASSUME RouteInv, NEW c \in Callers, NEW req, Ask(c, req)
    PROVE  RouteInv'
BY ProviderNumbers DEF RouteInv, Ask, Phases

\* It goes on to the next, if there is one more.
LEMMA MoveOnRoutes ==
    ASSUME RouteInv, NEW c \in Callers, phase[c] \in {"routing", "waiting"}, MoveOn(c)
    PROVE  RouteInv'
<1>1. CASE at[c] < Len(Providers)
  <2>1. at' = [at EXCEPT ![c] = @ + 1] /\ phase' = [phase EXCEPT ![c] = "routing"]
    BY <1>1 DEF MoveOn
  <2> QED BY <1>1, <2>1, ProviderNumbers DEF RouteInv, Phases
<1>2. CASE ~(at[c] < Len(Providers))
  <2>1. at' = at /\ phase' = [phase EXCEPT ![c] = "failed"]
    BY <1>2 DEF MoveOn
  <2> QED BY <2>1 DEF RouteInv, Phases
<1> QED BY <1>1, <1>2

\* Taking the result ends it.
LEMMA ConsumeRoutes ==
    ASSUME RouteInv, NEW c \in Callers, Consume(c)
    PROVE  RouteInv'
BY DEF RouteInv, Consume, Phases

\* A success closes the breaker, a failure opens it with the third in a row;
\* the count behind an open one stays where it is.
LEMMA RecordKeeps ==
    ASSUME BreakerInv, NEW n \in Names, RecordSuccess(n) \/ RecordFailure(n)
    PROVE  BreakerInv'
<1> USE DEF BreakerInv, OpenMeansFailing, Threshold
<1>1. CASE RecordSuccess(n)
  BY <1>1 DEF RecordSuccess
<1>2. CASE RecordFailure(n)
  BY <1>2 DEF RecordFailure
<1> QED BY <1>1, <1>2

\* The router's own steps.
LEMMA RouterKeeps ==
    ASSUME RouteInv, BreakerInv, RouterNext
    PROVE  RouteInv' /\ BreakerInv'
<1>1. ASSUME UNCHANGED breakerVars PROVE BreakerInv'
  BY <1>1 DEF breakerVars, BreakerInv, OpenMeansFailing
<1>2. ASSUME NEW c \in Callers, Skip(c) PROVE RouteInv' /\ BreakerInv'
  BY <1>1, <1>2, MoveOnRoutes DEF Skip
<1>3. ASSUME NEW c \in Callers, Send(c) PROVE RouteInv' /\ BreakerInv'
  BY <1>1, <1>3 DEF Send, RouteInv, Phases
<1>4. ASSUME NEW c \in Callers, Reply(c) PROVE RouteInv' /\ BreakerInv'
  <2>1. Name(at[c]) \in Names
    BY <1>4 DEF Reply, RouteInv, Names
  <2>2. ASSUME NEW outcome, Answer(c, outcome) PROVE RouteInv' /\ BreakerInv'
    BY <1>4, <2>1, <2>2, RecordKeeps DEF Answer, Reply, RouteInv, Phases
  <2>3. ASSUME NEW outcome, Refusal(c, outcome) PROVE RouteInv' /\ BreakerInv'
    BY <1>4, <2>1, <2>3, RecordKeeps, MoveOnRoutes DEF Refusal, Reply
  <2> QED BY <1>4, <2>2, <2>3 DEF Reply
<1>5. ASSUME NEW n \in Names, Lapse(n) PROVE RouteInv' /\ BreakerInv'
  BY <1>5 DEF Lapse, requestVars, RouteInv, BreakerInv, OpenMeansFailing
<1> QED BY <1>2, <1>3, <1>4, <1>5 DEF RouterNext, RouterStep

\* A mission's steps make requests and take results; breakers are none of theirs.
LEMMA MissionKeeps ==
    ASSUME RouteInv, BreakerInv, NEW m \in Missions,
           \/ BeginPlan(m) \/ BeginInputs(m) \/ BeginReplan(m) \/ BeginReflection(m)
           \/ TaskStep(m) \/ Extend(m)
    PROVE  RouteInv' /\ BreakerInv'
<1>1. ASSUME UNCHANGED breakerVars PROVE BreakerInv'
  BY <1>1 DEF breakerVars, BreakerInv, OpenMeansFailing
<1>2. Service(m) \in Callers /\ Worker(m) \in Callers
  BY CallersAssumption DEF Service, Worker, ServiceAndWorker
<1>3. CASE BeginPlan(m) \/ BeginInputs(m) \/ BeginReplan(m) \/ BeginReflection(m)
  BY <1>1, <1>2, <1>3, BeginAsks, AskKeeps, AskRoutes
<1>4. CASE PlanInvalid(m)
  <2>1. CASE Consume(Service(m))
    BY <1>1, <1>2, <2>1, ConsumeKeeps, ConsumeRoutes
  <2>2. CASE ~Consume(Service(m))
    <3>1. /\ phase[Service(m)] = "answered" /\ UNCHANGED breakerVars
          /\ phase' = [phase EXCEPT ![Service(m)] = "routing"]
          /\ at' = [at EXCEPT ![Service(m)] = 1]
      BY <1>4, <2>2 DEF PlanInvalid
    <3> QED BY <1>1, <1>2, <3>1, ProviderNumbers DEF RouteInv, Phases
  <2> QED BY <2>1, <2>2
<1>5. CASE PlanFails(m) \/ PlanArrives(m) \/ InputsArrive(m) \/ ReplanStops(m) \/ ReplanAdds(m)
           \/ ReflectionArrives(m)
  BY <1>1, <1>2, <1>5, ConsumeKeeps, ConsumeRoutes
     DEF PlanFails, PlanArrives, InputsArrive, ReplanStops, ReplanAdds, ReflectionArrives
<1>6. CASE WaveEnds(m) \/ Summarize(m) \/ Extend(m)
  BY <1>1, <1>6 DEF WaveEnds, Summarize, Extend, routerVars, requestVars, RouteInv
<1> QED BY <1>3, <1>4, <1>5, <1>6 DEF TaskStep

\* Requests stay at their providers, and open breakers behind their counts.
LEMMA RouterInvariant == Spec => [](RouteInv /\ BreakerInv)
<1> DEFINE Inv == RouteInv /\ BreakerInv
<1>1. Init => Inv
  BY DEF Init, RouterInit, RouteInv, BreakerInv, OpenMeansFailing, Phases
<1>2. Inv /\ [Next]_vars => Inv'
  <2> SUFFICES ASSUME Inv, [Next]_vars PROVE Inv'
    OBVIOUS
  <2>1. CASE Reboot
    BY <2>1 DEF Reboot, RouteInv, BreakerInv, OpenMeansFailing, Phases
  <2>2. CASE MemoryNext \/ UNCHANGED vars
    BY <2>2 DEF MemoryNext, vars, routerVars, breakerVars, requestVars, RouteInv, BreakerInv,
                OpenMeansFailing
  <2> QED BY <2>1, <2>2, RouterKeeps, MissionKeeps DEF Next
<1> QED BY <1>1, <1>2, PTL DEF Spec

\* A provider is passed over only after three failures in a row, in whatever
\* order the answers to concurrent requests come.
THEOREM OpenBreakersFail == Spec => []OpenMeansFailing
<1>1. BreakerInv => OpenMeansFailing
  BY DEF BreakerInv
<1> QED BY <1>1, RouterInvariant, PTL

-----------------------------------------------------------------------------
(* Final inputs *)

\* The indexes of final inputs are numbers, the goals of a plan are a list: serde
\* decodes them as usize and Vec.
InputsTyped(content) == Holds(content, "inputs") => content[1].index \in Seq(Nat)
GoalsTyped(content) == Holds(content, "goals") => \E S : content[1].goals \in Seq(S)
ContentTyped(content) == InputsTyped(content) /\ GoalsTyped(content)

RepliesTyped ==
    \A p \in DOMAIN Providers, reply \in Replies :
        Outcome(Dialect(p), reply).ok => ContentTyped(Outcome(Dialect(p), reply).content)

\* parse_materialize: as many indexes as tasks, none of them too large and none
\* twice, are the indexes of all tasks.
LEMMA InputsComplete ==
    ASSUME NEW content, NEW expected, InputsTyped(content), ParseInputs(content, expected).ok
    PROVE  LET inputs == ParseInputs(content, expected).value
           IN  /\ DOMAIN inputs = 0 .. expected - 1
               /\ \A i \in DOMAIN inputs : content[1].index[inputs[i]] = i
<1> DEFINE index == content[1].index
           wrong == \/ Len(index) # expected
                    \/ \E i \in DOMAIN index : index[i] >= expected
                    \/ ~IsInjective(index)
           sorted == [i \in 0 .. expected - 1 |-> CHOOSE k \in DOMAIN index : index[k] = i]
<1>1. /\ Holds(content, "inputs") /\ ~wrong
      /\ ParseInputs(content, expected).value = sorted
  <2>1. ParseInputs(content, expected) = IF ~Holds(content, "inputs") THEN Refused("ParseJson")
                                         ELSE IF wrong THEN Refused("Invalid") ELSE Read(sorted)
    BY DEF ParseInputs
  <2> HIDE DEF wrong, sorted
  <2>2. ~Refused("ParseJson").ok /\ ~Refused("Invalid").ok /\ Read(sorted).value = sorted
    BY DEF Refused, Read
  <2> QED BY <2>1, <2>2
<1>2. index \in Seq(Nat)
  BY <1>1 DEF InputsTyped
<1> HIDE DEF index
<1>3. expected \in Nat /\ DOMAIN index = 1 .. expected /\ index \in [1 .. expected -> Nat]
  BY <1>1, <1>2, LenProperties
<1>4. index \in Injection(1 .. expected, 0 .. expected - 1)
  <2>1. \A i \in 1 .. expected : index[i] \in 0 .. expected - 1
    BY <1>1, <1>3
  <2> QED BY <1>1, <1>3, <2>1 DEF Injection
<1>5. Cardinality(1 .. expected) = expected /\ Cardinality(0 .. expected - 1) = expected /\ IsFiniteSet(0 .. expected - 1)
  BY <1>3, FS_Interval
<1>6. index \in Surjection(1 .. expected, 0 .. expected - 1)
  BY <1>4, <1>5, FS_Injection
<1>7. \A i \in 0 .. expected - 1 : \E k \in DOMAIN index : index[k] = i
  BY <1>3, <1>6 DEF Surjection
<1> QED BY <1>1, <1>7 DEF index

\* What a step makes of the answers callers have.
LEMMA GotStep ==
    ASSUME [Next]_vars
    PROVE  \/ got' = got
           \/ got' = [c \in Callers |-> NoContent]
           \/ \E c \in Callers : got' = [got EXCEPT ![c] = NoContent]
           \/ \E c \in Callers, reply \in Replies :
                /\ phase[c] = "waiting" /\ Outcome(Dialect(at[c]), reply).ok
                /\ got' = [got EXCEPT ![c] = Outcome(Dialect(at[c]), reply).content]
<1> USE DEF requestVars, routerVars
<1>1. ASSUME NEW c \in Callers, RouterStep(c)
      PROVE  \/ got' = got
             \/ \E reply \in Replies : /\ phase[c] = "waiting" /\ Outcome(Dialect(at[c]), reply).ok
                                       /\ got' = [got EXCEPT ![c] = Outcome(Dialect(at[c]), reply).content]
  BY <1>1 DEF RouterStep, Skip, Send, Reply, Answer, Refusal
<1>2. ASSUME NEW n \in Names, Lapse(n) PROVE got' = got
  BY <1>2 DEF Lapse
<1>3. ASSUME NEW m \in Missions
      PROVE  Service(m) \in Callers /\ Worker(m) \in Callers
  BY CallersAssumption DEF Service, Worker, ServiceAndWorker
<1>4. ASSUME NEW m \in Missions, BeginPlan(m) \/ BeginInputs(m) \/ BeginReplan(m) \/ BeginReflection(m)
      PROVE  got' = got
  BY <1>4, BeginAsks DEF Ask
<1>5. ASSUME NEW m \in Missions, WaveEnds(m) \/ Summarize(m) \/ Extend(m) PROVE got' = got
  BY <1>5 DEF WaveEnds, Summarize, Extend
<1>6. ASSUME NEW m \in Missions, \/ PlanInvalid(m) \/ PlanFails(m) \/ PlanArrives(m) \/ InputsArrive(m)
                                 \/ ReplanStops(m) \/ ReplanAdds(m) \/ ReflectionArrives(m)
      PROVE  \E c \in Callers : got' = [got EXCEPT ![c] = NoContent]
  <2>1. \E c \in {Service(m), Worker(m)} : got' = [got EXCEPT ![c] = NoContent]
    BY <1>6 DEF PlanInvalid, PlanFails, PlanArrives, InputsArrive, ReplanStops, ReplanAdds,
                ReflectionArrives, Consume
  <2> QED BY <1>3, <2>1
<1>7. CASE MemoryNext \/ UNCHANGED vars
  BY <1>7 DEF MemoryNext, vars
<1>8. CASE Reboot
  BY <1>8 DEF Reboot
<1> QED BY <1>1, <1>2, <1>4, <1>5, <1>6, <1>7, <1>8 DEF Next, RouterNext, TaskStep

\* Whatever a caller has is typed as serde would have it.
GotInv == DOMAIN got = Callers /\ \A c \in Callers : ContentTyped(got[c])

LEMMA GotInvariant ==
    ASSUME RepliesTyped
    PROVE  Spec => []GotInv
<1>0. ContentTyped(NoContent)
  BY DEF ContentTyped, InputsTyped, GoalsTyped, Holds, NoContent
<1>1. Init => GotInv
  BY <1>0 DEF Init, RouterInit, GotInv
<1>2. RouteInv /\ GotInv /\ [Next]_vars => GotInv'
  <2> SUFFICES ASSUME RouteInv, GotInv, [Next]_vars PROVE GotInv'
    OBVIOUS
  <2>1. CASE got' = got \/ got' = [c \in Callers |-> NoContent]
    BY <1>0, <2>1 DEF GotInv
  <2>2. ASSUME NEW c \in Callers, NEW content, ContentTyped(content), got' = [got EXCEPT ![c] = content]
        PROVE  GotInv'
    BY <2>2 DEF GotInv
  <2>3. ASSUME NEW c \in Callers, NEW reply \in Replies, phase[c] = "waiting", Outcome(Dialect(at[c]), reply).ok
        PROVE  ContentTyped(Outcome(Dialect(at[c]), reply).content)
    BY <2>3 DEF RouteInv, RepliesTyped
  <2> QED BY <1>0, <2>1, <2>2, <2>3, GotStep
<1> QED BY <1>1, <1>2, RouterInvariant, PTL DEF Spec

\* InputsReachTheirTasks: an answer that is taken for the final inputs of a goal has
\* one for each of its tasks, and gives each task its own.
THEOREM InputsAreSorted ==
    ASSUME RepliesTyped
    PROVE  Spec => []InputsReachTheirTasks
<1>1. GotInv => InputsReachTheirTasks
  <2> SUFFICES ASSUME GotInv, NEW m \in Missions, ParseInputs(got[Worker(m)], GoalTasks).ok
               PROVE  LET read == ParseInputs(got[Worker(m)], GoalTasks)
                      IN  /\ DOMAIN read.value = 0 .. GoalTasks - 1
                          /\ \A i \in DOMAIN read.value : got[Worker(m)][1].index[read.value[i]] = i
    BY DEF InputsReachTheirTasks
  <2>1. InputsTyped(got[Worker(m)])
    BY CallersAssumption DEF GotInv, Worker, ServiceAndWorker, ContentTyped
  <2> QED BY <2>1, InputsComplete
<1> QED BY <1>1, GotInvariant, PTL

-----------------------------------------------------------------------------
(* Recall *)

\* A set of positions has a last one.
LEMMA LastExists ==
    ASSUME NEW k \in Nat, NEW S, S \subseteq 1 .. k, S # {}
    PROVE  \E i \in S : \A j \in S : j <= i
<1> DEFINE T == {k - i : i \in S}
<1>0. \A i \in S : i \in Nat /\ k - i \in Nat
  OBVIOUS
<1>1. T \subseteq Nat /\ T # {}
  <2>1. PICK i \in S : TRUE
    OBVIOUS
  <2>2. k - i \in T
    OBVIOUS
  <2> QED BY <1>0, <2>2
<1> DEFINE R == OpToRel(<, Nat)
<1>2. IsWellFoundedOn(R, Nat)
  BY NatLessThanWellFounded
<1>3. PICK x \in T : \A y \in T : ~ (<<y, x>> \in R)
  <2> HIDE DEF R, T
  <2> QED BY <1>1, <1>2, WFMin
<1>4. \A y \in T : ~ (y < x)
  BY <1>1, <1>3 DEF OpToRel
<1>5. PICK i \in S : x = k - i
  OBVIOUS
<1>6. \A j \in S : ~ (k - j < k - i)
  BY <1>4, <1>5
<1> HIDE DEF R, T
<1>7. \A j \in S : j <= i
  BY <1>0, <1>6
<1> QED BY <1>7

\* Rows are appended, and change in place: there are no gaps in the table.
TableInv == \E S : memory \in Seq(S)

LEMMA LearnKeeps ==
    ASSUME TableInv, NEW insight, Learn(insight)
    PROVE  TableInv'
<1>1. PICK S : memory \in Seq(S)
  BY DEF TableInv
<1> DEFINE row == [insight |-> insight, vector |-> 0, retired |-> FALSE]
<1>2. memory \in Seq(S \cup {row})
  BY <1>1, SeqMonotonic
<1>3. memory' = Append(memory, row)
  BY DEF Learn
<1> HIDE DEF row
<1>4. Append(memory, row) \in Seq(S \cup {row})
  BY <1>2, AppendProperties
<1> QED BY <1>3, <1>4 DEF TableInv

\* A row that is changed stays where it is.
LEMMA ChangeKeeps ==
    ASSUME TableInv, NEW i, NEW row, memory' = [memory EXCEPT ![i] = row]
    PROVE  TableInv'
<1>1. PICK S : memory \in Seq(S)
  BY DEF TableInv
<1>2. memory \in Seq(S \cup {row})
  BY <1>1, SeqMonotonic
<1>3. CASE i \in 1 .. Len(memory)
  BY <1>2, <1>3, ExceptSeq DEF TableInv
<1>4. CASE i \notin 1 .. Len(memory)
  <2>1. DOMAIN memory = 1 .. Len(memory) /\ memory = [k \in DOMAIN memory |-> memory[k]]
    BY <1>1
  <2>2. memory' = memory
    BY <1>4, <2>1
  <2> QED BY <1>1, <2>2 DEF TableInv
<1> QED BY <1>3, <1>4

\* The newest of the rows that share a keyword has none before it.
LEMMA KeywordFinds ==
    ASSUME TableInv, NEW m, NEW i \in DOMAIN memory, Active(i), <<m, memory[i].insight>> \in Shares
    PROVE  Keyword(m) # {}
<1> DEFINE sharing == {k \in DOMAIN memory : Active(k) /\ <<m, memory[k].insight>> \in Shares}
           newer == {p \in sharing \X sharing : p[1] > p[2]}
<1>1. DOMAIN memory = 1 .. Len(memory) /\ Len(memory) \in Nat
  BY DEF TableInv
<1>2. sharing \subseteq 1 .. Len(memory) /\ sharing # {}
  BY <1>1
<1>3. Keyword(m) = Best(sharing, newer)
  BY DEF Keyword
<1> HIDE DEF sharing
<1>4. PICK last \in sharing : \A k \in sharing : k <= last
  BY <1>1, <1>2, LastExists
<1>5. {k \in sharing : <<k, last>> \in newer} = {}
  <2>1. ASSUME NEW k \in sharing, <<k, last>> \in newer PROVE k > last
    BY <2>1
  <2>2. \A k \in sharing : k \in Nat
    BY <1>1, <1>2
  <2> HIDE DEF newer
  <2> QED BY <1>4, <2>1, <2>2
<1>6. last \in Best(sharing, newer)
  <2>1. Cardinality({k \in sharing : <<k, last>> \in newer}) < RecallLimit
    <3>1. Cardinality({}) < RecallLimit
      BY FS_EmptySet, MemoryAssumption
    <3> QED BY <1>5, <3>1
  <2> HIDE DEF newer
  <2> QED BY <2>1 DEF Best
<1> QED BY <1>3, <1>6

\* The table has no gaps.
LEMMA TableInvariant == Spec => []TableInv
<1>1. Init => TableInv
  BY EmptySeq DEF Init, MemoryInit, TableInv
<1>2. TableInv /\ [Next]_vars => TableInv'
  <2> SUFFICES ASSUME TableInv, [Next]_vars PROVE TableInv'
    OBVIOUS
  <2>1. ASSUME memory' = memory PROVE TableInv'
    BY <2>1 DEF TableInv
  <2>2. CASE RouterNext \/ Reboot \/ UNCHANGED vars
    BY <2>1, <2>2 DEF RouterNext, Reboot, MemoryRestart, vars, memoryVars
  <2>3. ASSUME NEW i, Backfill(i) \/ Retire(i) PROVE TableInv'
    BY <2>1, <2>3, ChangeKeeps DEF Backfill, Retire
  <2>4. ASSUME NEW m \in Missions, ReflectionArrives(m) PROVE TableInv'
    BY <2>1, <2>4, LearnKeeps DEF ReflectionArrives, memoryVars
  <2>5. ASSUME NEW m \in Missions,
               \/ BeginPlan(m) \/ BeginInputs(m) \/ BeginReplan(m) \/ BeginReflection(m)
               \/ PlanInvalid(m) \/ PlanFails(m) \/ PlanArrives(m) \/ InputsArrive(m) \/ WaveEnds(m)
               \/ ReplanStops(m) \/ ReplanAdds(m) \/ Summarize(m) \/ Extend(m)
        PROVE  memory' = memory
    BY <2>5 DEF BeginPlan, BeginInputs, BeginReplan, BeginReflection, PlanInvalid, PlanFails,
                PlanArrives, InputsArrive, WaveEnds, ReplanStops, ReplanAdds, Summarize, Extend, memoryVars
  <2> QED BY <2>1, <2>2, <2>3, <2>4, <2>5 DEF Next, MemoryNext, TaskStep
<1> QED BY <1>1, <1>2, PTL DEF Spec

\* RecallDegrades: what the vectors do not yield, keywords do, so that a mission
\* that shares one with an active row is reminded of something whenever the
\* search by keywords does not fail.
THEOREM RecallFallsBack == Spec => []RecallDegrades
<1>1. TableInv => RecallDegrades
  <2> SUFFICES ASSUME TableInv, NEW m \in Missions, NEW works \in SUBSET RecallCalls,
                      "search" \in works, NEW i \in DOMAIN memory, Active(i), <<m, memory[i].insight>> \in Shares
               PROVE  Recall(m, works) # {}
    BY DEF RecallDegrades
  <2> QED BY KeywordFinds DEF Recall, ByKeywords
<1> QED BY <1>1, TableInvariant, PTL

-----------------------------------------------------------------------------
(* Conversations *)

\* A list but for its first item.
Rest(list, n) == [i \in 1 .. n - 1 |-> list[i + 1]]
Whole(list, n) == [i \in 1 .. n |-> list[i]]

\* What an interval of places keeps is kept one after the other: the whole list,
\* all but its first place, the first place alone, or nothing.
LEMMA KeptParts ==
    ASSUME NEW list, NEW n \in Nat, 1 <= n
    PROVE  /\ Kept(list, 1 .. n) = Whole(list, n)
           /\ Kept(list, 2 .. n) = Rest(list, n)
           /\ Kept(list, {1}) = << list[1] >>
           /\ Kept(list, {}) = << >>
<1>0. /\ 0 \in Nat /\ 1 \in Nat /\ 2 \in Nat
      /\ 1 <= n + 1 /\ 2 <= n + 1 /\ 1 <= 1 + 1 /\ 1 <= 0 + 1
  OBVIOUS
<1>1. ASSUME NEW a \in Nat, NEW b \in Nat, a <= b + 1
      PROVE  Kept(list, a .. b) = [k \in 1 .. b - a + 1 |-> list[a + k - 1]]
  <2>1. Cardinality(a .. b) = b - a + 1
    BY <1>1, FS_Interval
  <2>2. ASSUME NEW i \in a .. b PROVE Rank(i, a .. b) = i - a + 1
    <3>1. {j \in a .. b : j <= i} = a .. i
      OBVIOUS
    <3>2. Cardinality(a .. i) = i - a + 1
      BY FS_Interval
    <3> QED BY <3>1, <3>2 DEF Rank
  <2>3. ASSUME NEW k \in 1 .. b - a + 1
        PROVE  (CHOOSE i \in a .. b : Rank(i, a .. b) = k) = a + k - 1
    <3> DEFINE places == a .. b
               place == a + k - 1
    <3>1. \A i \in places : Rank(i, places) = i - a + 1
      BY <2>2
    <3>2. place \in places /\ \A i \in places : Rank(i, places) = k <=> i = place
      BY <3>1
    <3> HIDE DEF places, place
    <3>3. (CHOOSE i \in places : Rank(i, places) = k) = place
      BY <3>2
    <3> QED BY <3>3 DEF places, place
  <2> DEFINE place(k) == CHOOSE i \in a .. b : Rank(i, a .. b) = k
  <2>4. Kept(list, a .. b) = [k \in 1 .. b - a + 1 |-> list[place(k)]]
    BY <2>1 DEF Kept
  <2>5. \A k \in 1 .. b - a + 1 : place(k) = a + k - 1
    BY <2>3
  <2> HIDE DEF place
  <2> QED BY <2>4, <2>5
<1>2. Kept(list, 1 .. n) = [k \in 1 .. n - 1 + 1 |-> list[1 + k - 1]]
  BY <1>0, <1>1, Zenon
<1>3. Kept(list, 2 .. n) = [k \in 1 .. n - 2 + 1 |-> list[2 + k - 1]]
  BY <1>0, <1>1, Zenon
<1>4. Kept(list, 1 .. 1) = [k \in 1 .. 1 - 1 + 1 |-> list[1 + k - 1]]
  BY <1>0, <1>1, Zenon
<1>5. Kept(list, 1 .. 0) = [k \in 1 .. 0 - 1 + 1 |-> list[1 + k - 1]]
  BY <1>0, <1>1, Zenon
<1>6. /\ n - 1 + 1 = n /\ n - 2 + 1 = n - 1 /\ 1 - 1 + 1 = 1 /\ 0 - 1 + 1 = 0 /\ 1 .. 0 = {}
      /\ \A k \in 1 .. n : 1 + k - 1 = k /\ 2 + k - 1 = k + 1
  OBVIOUS
<1>7. Kept(list, 1 .. n) = Whole(list, n)
  BY <1>2, <1>6 DEF Whole
<1>8. Kept(list, 2 .. n) = Rest(list, n)
  BY <1>3, <1>6 DEF Rest
<1>9. Kept(list, {1}) = << list[1] >>
  <2>1. 1 .. 1 = {1} /\ \A k \in {1} : 1 + k - 1 = 1
    OBVIOUS
  <2>2. Kept(list, 1 .. 1) = [k \in {1} |-> list[1]]
    BY <1>4, <1>6, <2>1
  <2> QED BY <2>1, <2>2
<1>10. Kept(list, {}) = << >>
  BY <1>5, <1>6
<1> QED BY <1>7, <1>8, <1>9, <1>10

\* Two lists of one item put together.
LEMMA JoinOnes ==
    ASSUME NEW a, NEW b
    PROVE  <<a>> \o <<b>> = <<a, b>>
<1> DEFINE s == <<a>> 
           t == <<b>> 
           st == <<a, b>>
           S == {a, b}
<1>1. s \in Seq(S) /\ t \in Seq(S) /\ st \in Seq(S) /\ Len(s) = 1 /\ Len(t) = 1 /\ Len(st) = 2
      /\ s[1] = a /\ t[1] = b /\ st[1] = a /\ st[2] = b
  OBVIOUS
<1> HIDE DEF s, t, st, S
<1> DEFINE u == s \o t
<1>2. /\ u \in Seq(S) /\ Len(u) = Len(s) + Len(t)
      /\ \A i \in 1 .. Len(s) + Len(t) : u[i] = IF i <= Len(s) THEN s[i] ELSE t[i - Len(s)]
  BY <1>1, ConcatProperties, Zenon
<1> HIDE DEF u
<1>3. Len(u) = Len(st) /\ \A i \in 1 .. Len(u) : u[i] = st[i]
  BY <1>1, <1>2
<1>4. u = st
  BY <1>1, <1>2, <1>3, SeqEqual
<1> QED BY <1>4 DEF s, t, st, u

\* Lists of two.
LEMMA JoinTwos ==
    ASSUME NEW a, NEW b, NEW c, NEW d
    PROVE  <<a, b>> \o <<c, d>> = <<a, b, c, d>>
<1> DEFINE s == <<a, b>> 
           t == <<c, d>> 
           st == <<a, b, c, d>>
           S == {a, b, c, d}
<1>1. s \in Seq(S) /\ t \in Seq(S) /\ st \in Seq(S) /\ Len(s) = 2 /\ Len(t) = 2 /\ Len(st) = 4
      /\ s[1] = a /\ s[2] = b /\ t[1] = c /\ t[2] = d /\ st[1] = a /\ st[2] = b /\ st[3] = c /\ st[4] = d
  OBVIOUS
<1> HIDE DEF s, t, st, S
<1> DEFINE u == s \o t
<1>2. /\ u \in Seq(S) /\ Len(u) = Len(s) + Len(t)
      /\ \A i \in 1 .. Len(s) + Len(t) : u[i] = IF i <= Len(s) THEN s[i] ELSE t[i - Len(s)]
  BY <1>1, ConcatProperties, Zenon
<1> HIDE DEF u
<1>3. Len(u) = Len(st) /\ \A i \in 1 .. Len(u) : u[i] = st[i]
  BY <1>1, <1>2
<1>4. u = st
  BY <1>1, <1>2, <1>3, SeqEqual
<1> QED BY <1>4 DEF s, t, st, u

\* The voices of a conversation, with the complaint that may follow.
Voices == <<"system", "user", "assistant", "user">>
Spoken(n, texts) == [i \in 1 .. n |-> Message(Voices[i], texts[i])]

\* What the planner and the reflector ask: a prompt and a brief, and perhaps an
\* answer and the complaint about it.
Conversation(req) ==
    LET messages == req.messages IN
    /\ req = Request(req.limit, messages)
    /\ \E n \in {2, 4} : messages = Spoken(n, [i \in 1 .. n |-> messages[i].text])
    /\ messages[1].text # JsonHint
    /\ \A i \in DOMAIN messages : messages[i].text.what = "complaint" =>
            i = 4 /\ messages[3].text = Said(messages[4].text.about)

\* The prompt is what the operator said, the rest is the conversation.
LEMMA PromptAndTurns ==
    ASSUME NEW n \in {2, 4}, NEW texts
    PROVE  /\ Systems(Spoken(n, texts)) = << Spoken(n, texts)[1] >>
           /\ Turns(Spoken(n, texts)) = Rest(Spoken(n, texts), n)
<1> DEFINE messages == Spoken(n, texts)
<1>1. DOMAIN messages = 1 .. n /\ \A i \in 1 .. n : messages[i].role = Voices[i]
  BY DEF Message, Spoken
<1>2. \A i \in 1 .. n : Voices[i] = "system" <=> i = 1
  BY DEF Voices
<1> HIDE DEF messages
<1>3. {i \in DOMAIN messages : messages[i].role # "system"} = 2 .. n
  <2>1. 1 .. n = {1} \cup 2 .. n /\ 1 \notin 2 .. n
    OBVIOUS
  <2>2. \A i : i \in DOMAIN messages /\ messages[i].role # "system" <=> i \in 2 .. n
    BY <1>1, <1>2, <2>1
  <2> QED BY <2>2
<1>4. {i \in DOMAIN messages : messages[i].role = "system"} = {1}
  <2>1. 1 \in 1 .. n
    OBVIOUS
  <2>2. \A i : i \in DOMAIN messages /\ messages[i].role = "system" <=> i \in {1}
    BY <1>1, <1>2, <2>1
  <2> QED BY <2>2
<1>5. n \in Nat /\ 1 <= n
  OBVIOUS
<1>6. Kept(messages, 2 .. n) = Rest(messages, n) /\ Kept(messages, {1}) = << messages[1] >>
  BY <1>5, KeptParts
<1>7. Systems(messages) = << messages[1] >> /\ Turns(messages) = Rest(messages, n)
  BY <1>3, <1>4, <1>6 DEF Turns, Systems
<1> QED BY <1>7 DEF messages

\* A prompt that is no hint is all a service is told, with the hint and without.
LEMMA PromptIsTold ==
    ASSUME NEW prompt, prompt # JsonHint
    PROVE  /\ Kept(<< >>, {i \in DOMAIN << >> : << >>[i] # JsonHint}) = << >>
           /\ Kept(<< prompt, JsonHint >>,
                   {i \in DOMAIN << prompt, JsonHint >> : << prompt, JsonHint >>[i] # JsonHint}) = << prompt >>
<1> DEFINE system == << prompt, JsonHint >>
<1>1. {i \in DOMAIN << >> : << >>[i] # JsonHint} = {}
  OBVIOUS
<1>2. {i \in DOMAIN system : system[i] # JsonHint} = {1}
  OBVIOUS
<1>3. system[1] = prompt
  OBVIOUS
<1> HIDE DEF system
<1>4. Kept(<< >>, {}) = << >> /\ Kept(system, {1}) = << system[1] >>
  <2>1. 1 \in Nat /\ 1 <= 1
    OBVIOUS
  <2> QED BY <2>1, KeptParts
<1>5. Kept(system, {i \in DOMAIN system : system[i] # JsonHint}) = << prompt >>
  BY <1>2, <1>3, <1>4
<1> QED BY <1>1, <1>4, <1>5 DEF system

\* The voices of the turns, as the services name them.
Names1 == [user |-> "user", assistant |-> "assistant"]
Names2 == [user |-> "user", assistant |-> "model", model |-> "model"]

\* Under either set of names the turns are read in the voices they were spoken in.
LEMMA RecastIsRead ==
    ASSUME NEW n \in {2, 4}, NEW texts, NEW names \in {Names1, Names2}
    PROVE  LET turns == Recast(Rest(Spoken(n, texts), n), names)
           IN  Systems(turns) = << >> /\ Voiced(Turns(turns)) = Rest(Spoken(n, texts), n)
<1> DEFINE spoken == Rest(Spoken(n, texts), n)
           turns == Recast(spoken, names)
           name(i) == names[Voices[i + 1]]
<1>1. \A i \in 1 .. n - 1 : Voices[i + 1] \in {"user", "assistant"}
  BY DEF Voices
<1>2. spoken = [i \in 1 .. n - 1 |-> Message(Voices[i + 1], texts[i + 1])]
  BY DEF Rest, Spoken
<1>3. \A i \in 1 .. n - 1 :
        /\ Voices[i + 1] \in DOMAIN names /\ name(i) \in {"user", "assistant", "model"}
        /\ (IF name(i) = "model" THEN "assistant" ELSE name(i)) = Voices[i + 1]
  BY <1>1 DEF Names1, Names2
<1> HIDE DEF spoken
<1>4. turns = [i \in 1 .. n - 1 |-> Message(name(i), texts[i + 1])]
  <2>1. \A i \in 1 .. n - 1 :
          [spoken[i] EXCEPT !.role = IF @ \in DOMAIN names THEN names[@] ELSE "user"]
            = Message(name(i), texts[i + 1])
    BY <1>2, <1>3 DEF Message
  <2> QED BY <1>2, <2>1 DEF Recast
<1> HIDE DEF turns, name
<1>5. DOMAIN turns = 1 .. n - 1 /\ \A i \in 1 .. n - 1 : turns[i].role # "system"
  BY <1>3, <1>4 DEF Message
<1>6. /\ {i \in DOMAIN turns : turns[i].role = "system"} = {}
      /\ {i \in DOMAIN turns : turns[i].role # "system"} = 1 .. n - 1
  BY <1>5
<1>7. Kept(turns, {}) = << >> /\ Kept(turns, 1 .. n - 1) = Whole(turns, n - 1)
  <2>1. n - 1 \in Nat /\ 1 <= n - 1
    OBVIOUS
  <2> QED BY <2>1, KeptParts
<1>8. Whole(turns, n - 1) = turns
  BY <1>4 DEF Whole
<1>9. Systems(turns) = << >> /\ Turns(turns) = turns
  BY <1>6, <1>7, <1>8 DEF Systems, Turns
<1>10. Voiced(turns) = spoken
  <2>1. \A i \in 1 .. n - 1 :
          [turns[i] EXCEPT !.role = IF @ = "model" THEN "assistant" ELSE @]
            = Message(Voices[i + 1], texts[i + 1])
    BY <1>3, <1>4 DEF Message
  <2> QED BY <1>2, <1>5, <2>1 DEF Voiced
<1> QED BY <1>9, <1>10 DEF turns, spoken

\* Whatever the dialect, a conversation is read as it was spoken.
LEMMA ConversationIsRead ==
    ASSUME NEW dialect, NEW req, Conversation(req)
    PROVE  LET read == ReadBody(Body(dialect, req))
           IN  /\ read.told = << req.messages[1].text >>
               /\ read.said = Turns(req.messages)
               /\ read.json
<1> DEFINE messages == req.messages
           prompt == messages[1].text
           rest(n) == Rest(messages, n)
<1>1. PICK n \in {2, 4} : messages = Spoken(n, [i \in 1 .. n |-> messages[i].text])
  BY DEF Conversation
<1> DEFINE texts == [i \in 1 .. n |-> messages[i].text]
<1>2. messages = Spoken(n, texts)
  BY <1>1
<1>3. req.json /\ prompt # JsonHint
  BY DEF Conversation, Request
<1> HIDE DEF messages, texts, prompt
<1>4. Systems(messages) = << messages[1] >> /\ Turns(messages) = rest(n)
  BY <1>2, PromptAndTurns
<1>5. Texts(<< messages[1] >>) = << prompt >>
  BY DEF Texts, prompt
<1>6. Texts(<< >>) = << >>
  BY DEF Texts
<1>7. << prompt >> \o << >> = << prompt >> /\ << >> \o << prompt >> = << prompt >>
      /\ << prompt >> \o << JsonHint >> = << prompt, JsonHint >>
  BY JoinOnes
<1>8. ASSUME NEW body, body.turns = messages, body.system = << >>, body.json
      PROVE  /\ ReadBody(body).told = << prompt >>
             /\ ReadBody(body).said = rest(n)
             /\ ReadBody(body).json
  <2>1. Voiced(rest(n)) = rest(n)
    <3>1. rest(n) = [i \in 1 .. n - 1 |-> Message(Voices[i + 1], texts[i + 1])]
      BY <1>2 DEF Rest, Spoken
    <3>2. \A i \in 1 .. n - 1 : Voices[i + 1] # "model"
      BY DEF Voices
    <3>3. \A i \in 1 .. n - 1 :
            [rest(n)[i] EXCEPT !.role = IF @ = "model" THEN "assistant" ELSE @]
              = Message(Voices[i + 1], texts[i + 1])
      BY <3>1, <3>2 DEF Message
    <3> HIDE DEF rest
    <3> QED BY <3>1, <3>3 DEF Voiced
  <2>2. Kept(body.system, {i \in DOMAIN body.system : body.system[i] # JsonHint}) = << >>
    BY <1>3, <1>8, PromptIsTold
  <2>3. ReadBody(body).told = << prompt >> \o << >>
    BY <1>4, <1>5, <1>8, <2>2 DEF ReadBody
  <2> QED BY <1>4, <1>7, <1>8, <2>1, <2>3 DEF ReadBody
<1>9. ASSUME NEW body, NEW names \in {Names1, Names2}, body.turns = Recast(Turns(messages), names),
             body.system = << prompt, JsonHint >>
      PROVE  /\ ReadBody(body).told = << prompt >>
             /\ ReadBody(body).said = rest(n)
             /\ ReadBody(body).json
  <2>1. Systems(body.turns) = << >> /\ Voiced(Turns(body.turns)) = rest(n)
    BY <1>2, <1>4, <1>9, RecastIsRead
  <2>2. Kept(body.system, {i \in DOMAIN body.system : body.system[i] # JsonHint}) = << prompt >>
    BY <1>3, <1>9, PromptIsTold
  <2>3. ReadBody(body).told = << >> \o << prompt >>
    BY <1>6, <2>1, <2>2 DEF ReadBody
  <2>4. \E i \in DOMAIN body.system : body.system[i] = JsonHint
    BY <1>9
  <2> QED BY <1>7, <2>1, <2>3, <2>4 DEF ReadBody
<1>10. Hoisted(req) = << prompt, JsonHint >>
  BY <1>3, <1>4, <1>5, <1>7 DEF Hoisted, messages
<1>11. CASE dialect = "anthropic"
  <2>1. /\ Body(dialect, req).turns = Recast(Turns(messages), Names1)
        /\ Body(dialect, req).system = << prompt, JsonHint >>
    BY <1>10, <1>11 DEF Body, AnthropicBody, Names1, messages
  <2> QED BY <1>4, <1>9, <2>1 DEF messages, prompt
<1>12. CASE dialect = "gemini"
  <2>1. /\ Body(dialect, req).turns = Recast(Turns(messages), Names2)
        /\ Body(dialect, req).system = << prompt, JsonHint >>
    BY <1>10, <1>12 DEF Body, GeminiBody, Names2, messages
  <2> QED BY <1>4, <1>9, <2>1 DEF messages, prompt
<1>13. CASE dialect \notin {"anthropic", "gemini"}
  <2>1. /\ Body(dialect, req).turns = messages /\ Body(dialect, req).system = << >>
        /\ Body(dialect, req).json
    BY <1>3, <1>13 DEF Body, OllamaBody, OpenAiBody, messages
  <2> QED BY <1>4, <1>8, <2>1 DEF messages, prompt
<1> QED BY <1>11, <1>12, <1>13

\* What is under way, or has just been answered, is a conversation; the first
\* attempt at a plan has no complaint in it yet.
Pending(c) == phase[c] \in {"routing", "waiting", "answered"}

ConversationInv ==
    /\ DOMAIN conv = Callers /\ DOMAIN stage = Missions /\ DOMAIN attempt = Missions
    /\ \A c \in Callers : Pending(c) => Conversation(conv[c])
    /\ \A m \in Missions :
          stage[m] = "planning" /\ attempt[m] = 1 /\ Pending(Service(m))
              => DOMAIN conv[Service(m)].messages = 1 .. 2

\* A prompt and a brief are a conversation.
LEMMA RequestIsConversation ==
    ASSUME NEW limit, NEW prompt, NEW brief,
           prompt # JsonHint, prompt.what # "complaint", brief.what # "complaint"
    PROVE  LET req == Request(limit, << Message("system", prompt), Message("user", brief) >>)
           IN  Conversation(req) /\ DOMAIN req.messages = 1 .. 2
<1> DEFINE messages == << Message("system", prompt), Message("user", brief) >>
           req == Request(limit, messages)
<1>1. req.messages = messages /\ req = Request(req.limit, req.messages)
  BY DEF Request
<1>2. DOMAIN messages = 1 .. 2 /\ messages[1].text = prompt /\ messages[2].text = brief
  BY DEF Message
<1>3. messages = Spoken(2, [i \in 1 .. 2 |-> messages[i].text])
  BY DEF Message, Spoken, Voices
<1> HIDE DEF messages, req
<1>4. \A i \in DOMAIN messages : messages[i].text.what # "complaint"
  BY <1>2
<1>5. Conversation(req)
  BY <1>1, <1>2, <1>3, <1>4 DEF Conversation
<1> QED BY <1>1, <1>2, <1>5 DEF messages, req

\* So are they with the answer and the complaint about it.
LEMMA RetryIsConversation ==
    ASSUME NEW req, Conversation(req), DOMAIN req.messages = 1 .. 2, NEW error, NEW content
    PROVE  Conversation([req EXCEPT !.messages =
               @ \o << Message("assistant", Said(content)), Message("user", Complaint(error, content)) >>])
<1> DEFINE first == req.messages[1].text
           second == req.messages[2].text
           more == << Message("assistant", Said(content)), Message("user", Complaint(error, content)) >>
           messages == req.messages \o more
           new == [req EXCEPT !.messages = messages]
<1>1. PICK n \in {2, 4} : req.messages = Spoken(n, [i \in 1 .. n |-> req.messages[i].text])
  BY DEF Conversation
<1>2. n = 2
  <2>1. DOMAIN Spoken(n, [i \in 1 .. n |-> req.messages[i].text]) = 1 .. n
    BY DEF Spoken
  <2>2. 4 \in 1 .. 4 /\ 4 \notin 1 .. 2
    OBVIOUS
  <2> QED BY <1>1, <2>1, <2>2
<1>3. req.messages = << Message("system", first), Message("user", second) >>
  <2>1. Spoken(2, [i \in 1 .. 2 |-> req.messages[i].text]) = << Message("system", first), Message("user", second) >>
    BY DEF Spoken, Voices
  <2> QED BY <1>1, <1>2, <2>1
<1>4. messages = << Message("system", first), Message("user", second),
                    Message("assistant", Said(content)), Message("user", Complaint(error, content)) >>
  BY <1>3, JoinTwos
<1>5. /\ first # JsonHint /\ req = Request(req.limit, req.messages)
      /\ first.what # "complaint" /\ second.what # "complaint"
  <2>1. \A i \in 1 .. 2 : req.messages[i].text.what = "complaint" => i = 4
    BY DEF Conversation
  <2>2. 1 \in 1 .. 2 /\ 2 \in 1 .. 2 /\ 1 # 4 /\ 2 # 4
    OBVIOUS
  <2>3. first # JsonHint /\ req = Request(req.limit, req.messages)
    BY DEF Conversation
  <2> QED BY <2>1, <2>2, <2>3
<1> HIDE DEF messages, first, second
<1>6. /\ DOMAIN messages = 1 .. 4 /\ messages[1].text = first /\ messages[2].text = second
      /\ messages[3].text = Said(content) /\ messages[4].text = Complaint(error, content)
  BY <1>4 DEF Message
<1>7. messages = Spoken(4, [i \in 1 .. 4 |-> messages[i].text])
  BY <1>4 DEF Message, Spoken, Voices
<1>8. new = Request(req.limit, messages) /\ new.messages = messages /\ new.limit = req.limit
  <2>1. PICK limit, said : req = Request(limit, said)
    BY <1>5
  <2> DEFINE yes == TRUE
  <2> HIDE DEF yes
  <2>2. req = [messages |-> said, limit |-> limit, json |-> yes]
    BY <2>1 DEF Request, yes
  <2>3. new = [messages |-> messages, limit |-> limit, json |-> yes] /\ req.limit = limit
    BY <2>2
  <2>4. new = Request(limit, messages) /\ req.limit = limit
    BY <2>3 DEF Request, yes
  <2> QED BY <2>4 DEF Request
<1> HIDE DEF new
<1>9. \A i \in DOMAIN messages : messages[i].text.what = "complaint" =>
          i = 4 /\ messages[3].text = Said(messages[4].text.about)
  BY <1>5, <1>6 DEF Said, Complaint
<1>10. Conversation(new)
  BY <1>5, <1>6, <1>7, <1>8, <1>9 DEF Conversation
<1> QED BY <1>10 DEF new, messages

\* What begins a call asks a conversation of two messages.
LEMMA BeginConverses ==
    ASSUME NEW m, BeginPlan(m) \/ BeginInputs(m) \/ BeginReplan(m) \/ BeginReflection(m)
    PROVE  \E c \in {Service(m), Worker(m)} : \E req :
               Ask(c, req) /\ Conversation(req) /\ DOMAIN req.messages = 1 .. 2
<1> DEFINE Two(prompt, brief, limit) ==
             Request(limit, << Message("system", prompt), Message("user", brief) >>)
<1>1. ASSUME NEW c \in {Service(m), Worker(m)}, NEW prompt, NEW brief, NEW limit,
             Ask(c, Two(prompt, brief, limit)),
             prompt.what \in {"plan_prompt", "inputs_prompt", "replan_prompt", "reflect_prompt"},
             brief.what \in {"brief", "state"}
      PROVE  \E req : Ask(c, req) /\ Conversation(req) /\ DOMAIN req.messages = 1 .. 2
  <2>0. JsonHint.what = "json hint"
    BY DEF JsonHint
  <2>1. prompt # JsonHint /\ prompt.what # "complaint" /\ brief.what # "complaint"
    BY <1>1, <2>0
  <2>2. Conversation(Two(prompt, brief, limit)) /\ DOMAIN Two(prompt, brief, limit).messages = 1 .. 2
    BY <2>1, RequestIsConversation, Zenon
  <2> HIDE DEF Two
  <2> QED BY <1>1, <2>2
<1> HIDE DEF Two
<1>2. UserPrompt(m).what = "brief" /\ ReplanUserPrompt(m, rows[m]).what = "state"
  BY DEF UserPrompt, ReplanUserPrompt
<1>3. CASE BeginPlan(m)
  <2>1. PICK works \in SUBSET RecallCalls :
          Ask(Service(m), Two(SystemPrompt(Recall(m, works), {}), UserPrompt(m), 2048))
    BY <1>3 DEF BeginPlan, Two
  <2>2. SystemPrompt(Recall(m, works), {}).what = "plan_prompt"
    BY DEF SystemPrompt
  <2> QED BY <1>1, <1>2, <2>1, <2>2
<1>4. CASE BeginInputs(m)
  <2>1. Ask(Worker(m), Two([what |-> "inputs_prompt"], UserPrompt(m), 1500))
    BY <1>4 DEF BeginInputs, Two
  <2> QED BY <1>1, <1>2, <2>1
<1>5. CASE BeginReplan(m)
  <2>1. Ask(Service(m), Two(ReplanSystemPrompt({}, {}), ReplanUserPrompt(m, rows[m]), 1500))
    BY <1>5 DEF BeginReplan, Two
  <2>2. ReplanSystemPrompt({}, {}).what = "replan_prompt"
    BY DEF ReplanSystemPrompt
  <2> QED BY <1>1, <1>2, <2>1, <2>2
<1>6. CASE BeginReflection(m)
  <2>1. Ask(Service(m), Two([what |-> "reflect_prompt"], ReplanUserPrompt(m, rows[m]), 1500))
    BY <1>6 DEF BeginReflection, Two
  <2> QED BY <1>1, <1>2, <2>1
<1> QED BY <1>3, <1>4, <1>5, <1>6

\* A step that leaves what is pending as it was, and plans nothing anew.
LEMMA StillConversing ==
    ASSUME ConversationInv,
           DOMAIN conv' = Callers, DOMAIN stage' = Missions, DOMAIN attempt' = Missions,
           \A c \in Callers : Pending(c)' => Pending(c) /\ conv'[c] = conv[c],
           \A m \in Missions : stage'[m] = "planning" /\ attempt'[m] = 1
                                   => stage[m] = "planning" /\ attempt[m] = 1
    PROVE  ConversationInv'
<1>1. ASSUME NEW c \in Callers, Pending(c)' PROVE Conversation(conv'[c])
  BY <1>1 DEF ConversationInv
<1>2. ASSUME NEW m \in Missions, stage'[m] = "planning", attempt'[m] = 1, Pending(Service(m))'
      PROVE  DOMAIN conv'[Service(m)].messages = 1 .. 2
  <2>1. Service(m) \in Callers
    BY CallersAssumption DEF Service, ServiceAndWorker
  <2> QED BY <1>2, <2>1 DEF ConversationInv
<1> HIDE DEF Pending
<1> QED BY <1>1, <1>2 DEF ConversationInv

\* The router passes conversations on as they are.
LEMMA RouterConverses ==
    ASSUME ConversationInv, RouteInv, RouterNext
    PROVE  ConversationInv'
<1>1. stage' = stage /\ attempt' = attempt
  BY DEF RouterNext, missionVars
<1>2. ASSUME NEW c \in Callers, RouterStep(c)
      PROVE  /\ conv' = conv
             /\ \A d \in Callers : Pending(d)' => Pending(d)
  <2>1. phase[c] \in {"routing", "waiting"} /\ conv' = conv /\ \E p : phase' = [phase EXCEPT ![c] = p]
    BY <1>2 DEF RouterStep, Skip, Send, Reply, Answer, Refusal, MoveOn
  <2> QED BY <2>1 DEF Pending, RouteInv
<1>3. ASSUME NEW n \in Names, Lapse(n) PROVE conv' = conv /\ phase' = phase
  BY <1>3 DEF Lapse, requestVars
<1>4. conv' = conv /\ \A d \in Callers : Pending(d)' => Pending(d)
  BY <1>2, <1>3 DEF RouterNext, Pending
<1> QED BY <1>1, <1>4, StillConversing DEF ConversationInv

\* A request that begins is a conversation.
LEMMA AskConverses ==
    ASSUME ConversationInv, RouteInv, NEW m \in Missions,
           BeginPlan(m) \/ BeginInputs(m) \/ BeginReplan(m) \/ BeginReflection(m)
    PROVE  ConversationInv'
<1>0. PICK c \in {Service(m), Worker(m)} :
          \E req : Ask(c, req) /\ Conversation(req) /\ DOMAIN req.messages = 1 .. 2
  BY BeginConverses
<1>1. PICK req : Ask(c, req) /\ Conversation(req) /\ DOMAIN req.messages = 1 .. 2
  BY <1>0
<1>2. c \in Callers /\ \A k \in Missions : Service(k) \in Callers
  BY CallersAssumption DEF Service, Worker, ServiceAndWorker
<1>3. /\ phase[c] = "idle" /\ conv' = [conv EXCEPT ![c] = req]
      /\ \E p : phase' = [phase EXCEPT ![c] = p]
  BY <1>1 DEF Ask
<1>4. \A d \in Callers : d # c => (Pending(d)' <=> Pending(d)) /\ conv'[d] = conv[d]
  BY <1>3 DEF Pending, RouteInv, ConversationInv
<1>5. conv'[c] = req /\ DOMAIN conv' = Callers
  BY <1>2, <1>3 DEF ConversationInv
<1>6. /\ DOMAIN stage' = Missions /\ DOMAIN attempt' = Missions
      /\ \A k \in Missions : stage'[k] = "planning" /\ attempt'[k] = 1
             => Service(k) = c \/ (stage[k] = "planning" /\ attempt[k] = 1)
  <2>1. CASE BeginPlan(m)
    <3>1. PICK r : Ask(Service(m), r)
      BY <2>1 DEF BeginPlan
    <3>2. /\ phase[Service(m)] = "idle" /\ phase'[Service(m)] # "idle"
      BY <1>2, <3>1 DEF Ask, RouteInv
    <3>3. c = Service(m)
      BY <1>2, <1>3, <3>2 DEF RouteInv
    <3>4. /\ stage' = [stage EXCEPT ![m] = "planning"]
          /\ attempt' = [attempt EXCEPT ![m] = 1]
      BY <2>1 DEF BeginPlan, GoTo
    <3>5. DOMAIN stage = Missions /\ DOMAIN attempt = Missions
      BY DEF ConversationInv
    <3>6. DOMAIN stage' = Missions /\ DOMAIN attempt' = Missions
      BY <3>4, <3>5
    <3>7. \A k \in Missions : k # m => stage'[k] = stage[k] /\ attempt'[k] = attempt[k]
      BY <3>4, <3>5
    <3> QED BY <3>3, <3>6, <3>7
  <2>2. CASE BeginInputs(m) \/ BeginReplan(m)
    BY <2>2 DEF BeginInputs, BeginReplan, missionVars, ConversationInv
  <2>3. CASE BeginReflection(m)
    BY <2>3 DEF BeginReflection, GoTo, ConversationInv
  <2> QED BY <2>1, <2>2, <2>3
<1> HIDE DEF Pending
<1>7. \A d \in Callers : Pending(d)' => Conversation(conv'[d])
  BY <1>1, <1>4, <1>5 DEF ConversationInv
<1>8. ASSUME NEW k \in Missions, stage'[k] = "planning", attempt'[k] = 1, Pending(Service(k))'
      PROVE  DOMAIN conv'[Service(k)].messages = 1 .. 2
  BY <1>1, <1>2, <1>4, <1>5, <1>6, <1>8 DEF ConversationInv
<1> QED BY <1>5, <1>6, <1>7, <1>8 DEF ConversationInv

\* A mission that takes an answer has nothing pending any more, or it tries its
\* first plan again, with the complaint.
LEMMA MissionConverses ==
    ASSUME ConversationInv, RouteInv, NEW m \in Missions, TaskStep(m) \/ Extend(m)
    PROVE  ConversationInv'
<1> DEFINE s == Service(m)
<1>1. \A k \in Missions : Service(k) \in Callers /\ Worker(k) \in Callers
  BY CallersAssumption DEF Service, Worker, ServiceAndWorker
<1>2. DOMAIN stage = Missions /\ DOMAIN attempt = Missions /\ DOMAIN conv = Callers
  BY DEF ConversationInv
<1>3. ASSUME NEW c \in Callers, Consume(c)
      PROVE  /\ DOMAIN conv' = Callers
             /\ \A d \in Callers : Pending(d)' => Pending(d) /\ conv'[d] = conv[d]
  BY <1>2, <1>3 DEF Consume, Pending, RouteInv
<1>4. ASSUME conv' = conv, phase' = phase
      PROVE  /\ DOMAIN conv' = Callers
             /\ \A d \in Callers : Pending(d)' => Pending(d) /\ conv'[d] = conv[d]
  BY <1>2, <1>4 DEF Pending
<1>5. ASSUME NEW next, next # "planning", GoTo(m, next),
             UNCHANGED attempt \/ \E n : attempt' = [attempt EXCEPT ![m] = n]
      PROVE  /\ DOMAIN stage' = Missions /\ DOMAIN attempt' = Missions
             /\ \A k \in Missions : stage'[k] = "planning" /\ attempt'[k] = 1
                                        => stage[k] = "planning" /\ attempt[k] = 1
  BY <1>2, <1>5 DEF GoTo
<1>6. CASE PlanInvalid(m)
  <2>1. CASE attempt[m] = 1
    <3> DEFINE old == conv[s]
               parsed == ParsePlan(got[s], Tools)
               new == [old EXCEPT !.messages =
                          @ \o << Message("assistant", Said(got[s])), Message("user", Complaint(parsed.error, got[s])) >>]
    <3>1. /\ stage[m] = "planning" /\ phase[s] = "answered"
          /\ conv' = [conv EXCEPT ![s] = new] /\ attempt' = [attempt EXCEPT ![m] = 2]
          /\ phase' = [phase EXCEPT ![s] = "routing"] /\ stage' = stage
      BY <1>6, <2>1 DEF PlanInvalid, RetryPrompt
    <3>2. Conversation(old) /\ DOMAIN old.messages = 1 .. 2
      BY <1>1, <2>1, <3>1 DEF ConversationInv, Pending
    <3>3. Conversation(new)
      BY <3>2, RetryIsConversation
    <3> HIDE DEF new, old
    <3>4. \A d \in Callers : d # s => (Pending(d)' <=> Pending(d)) /\ conv'[d] = conv[d]
      BY <1>2, <3>1 DEF Pending, RouteInv
    <3>5. conv'[s] = new /\ DOMAIN conv' = Callers
      BY <1>1, <1>2, <3>1
    <3>6. DOMAIN stage' = Missions /\ DOMAIN attempt' = Missions /\ attempt'[m] # 1
      BY <1>2, <3>1
    <3>7. \A k \in Missions : k # m => attempt'[k] = attempt[k] /\ Service(k) # s
      BY <1>2, <3>1 DEF Service
    <3> HIDE DEF Pending, s
    <3>8. \A d \in Callers : Pending(d)' => Conversation(conv'[d])
      BY <3>3, <3>4, <3>5 DEF ConversationInv
    <3>9. ASSUME NEW k \in Missions, stage'[k] = "planning", attempt'[k] = 1, Pending(Service(k))'
          PROVE  DOMAIN conv'[Service(k)].messages = 1 .. 2
      <4>1. k # m
        BY <3>6, <3>9
      <4>2. stage[k] = "planning" /\ attempt[k] = 1 /\ Service(k) # s
        BY <3>1, <3>7, <3>9, <4>1
      <4>3. Pending(Service(k)) /\ conv'[Service(k)] = conv[Service(k)]
        BY <1>1, <3>4, <3>9, <4>2
      <4> QED BY <4>2, <4>3 DEF ConversationInv
    <3> QED BY <3>5, <3>6, <3>8, <3>9 DEF ConversationInv
  <2>2. CASE attempt[m] # 1
    <3>1. Consume(s) /\ GoTo(m, "failed") /\ UNCHANGED attempt
      BY <1>6, <2>2 DEF PlanInvalid
    <3> QED BY <1>1, <1>3, <1>5, <3>1, StillConversing
  <2> QED BY <2>1, <2>2
<1>7. CASE PlanFails(m) \/ ReplanStops(m) \/ ReflectionArrives(m)
  <2>1. Consume(s) /\ UNCHANGED attempt
        /\ \E next \in {"failed", "drain", "done"} : GoTo(m, next)
    BY <1>7 DEF PlanFails, ReplanStops, ReflectionArrives
  <2> QED BY <1>1, <1>3, <1>5, <2>1, StillConversing
<1>8. CASE PlanArrives(m) \/ ReplanAdds(m)
  <2>1. Consume(s) /\ \E n : attempt' = [attempt EXCEPT ![m] = n]
    BY <1>8 DEF PlanArrives, ReplanAdds
  <2>2. \E next \in {"wave", "stuck", "summary", "drain"} : GoTo(m, next)
    BY <1>8 DEF PlanArrives, ReplanAdds
  <2> QED BY <1>1, <1>3, <1>5, <2>1, <2>2, StillConversing
<1>9. CASE InputsArrive(m)
  <2>1. Consume(Worker(m)) /\ UNCHANGED <<stage, attempt>>
    BY <1>9 DEF InputsArrive, missionVars
  <2> QED BY <1>1, <1>2, <1>3, <2>1, StillConversing
<1>10. CASE WaveEnds(m) \/ Summarize(m) \/ Extend(m)
  <2>1. conv' = conv /\ phase' = phase /\ UNCHANGED attempt
        /\ \E next \in {"summary", "replan", "reflect", "draft"} : GoTo(m, next)
    BY <1>10 DEF WaveEnds, Summarize, Extend, routerVars, requestVars
  <2> QED BY <1>4, <1>5, <2>1, StillConversing
<1> QED BY <1>6, <1>7, <1>8, <1>9, <1>10 DEF TaskStep

\* A complaint among the turns comes right after the answer it is about.
LEMMA ComplaintFollows ==
    ASSUME NEW req, Conversation(req), NEW i \in DOMAIN Turns(req.messages),
           Turns(req.messages)[i].text.what = "complaint"
    PROVE  Turns(req.messages)[i - 1] = Message("assistant", Said(Turns(req.messages)[i].text.about))
<1> DEFINE messages == req.messages
           turns == Turns(messages)
<1>1. PICK n \in {2, 4} : messages = Spoken(n, [k \in 1 .. n |-> messages[k].text])
  BY DEF Conversation
<1> DEFINE texts == [k \in 1 .. n |-> messages[k].text]
<1>2. messages = Spoken(n, texts)
  BY <1>1
<1>3. \A k \in DOMAIN messages : messages[k].text.what = "complaint" =>
          k = 4 /\ messages[3].text = Said(messages[4].text.about)
  BY DEF Conversation
<1> HIDE DEF messages, texts
<1>4. turns = Rest(messages, n)
  BY <1>2, PromptAndTurns
<1>5. DOMAIN messages = 1 .. n /\ \A k \in 1 .. n : messages[k] = Message(Voices[k], texts[k])
  BY <1>2 DEF Spoken
<1>6. i \in 1 .. n - 1 /\ turns[i] = messages[i + 1] /\ i + 1 \in DOMAIN messages
  BY <1>4, <1>5 DEF Rest, messages
<1>7. i + 1 = 4 /\ messages[3].text = Said(messages[4].text.about)
  <2>1. messages[i + 1].text.what = "complaint"
    BY <1>6 DEF messages
  <2> QED BY <1>3, <1>6, <2>1
<1>8. i = 3 /\ 3 \in 1 .. n /\ turns[2] = messages[3] /\ turns[3] = messages[4]
  BY <1>4, <1>6, <1>7 DEF Rest
<1>9. messages[3] = Message("assistant", messages[3].text)
  <2>1. messages[3] = Message(Voices[3], texts[3])
    BY <1>5, <1>8
  <2> QED BY <2>1 DEF Message, Voices
<1>10. i - 1 = 2
  BY <1>8
<1>11. turns[i - 1] = Message("assistant", Said(turns[i].text.about))
  BY <1>7, <1>8, <1>9, <1>10
<1> QED BY <1>11 DEF messages

\* What is asked stays a conversation.
LEMMA ConversationInvariant == Spec => []ConversationInv
<1>1. Init => ConversationInv
  BY DEF Init, RouterInit, ConversationInv, Pending
<1>2. RouteInv /\ ConversationInv /\ [Next]_vars => ConversationInv'
  <2> SUFFICES ASSUME RouteInv, ConversationInv, [Next]_vars PROVE ConversationInv'
    OBVIOUS
  <2>1. CASE MemoryNext \/ UNCHANGED vars
    <3>1. conv' = conv /\ phase' = phase /\ stage' = stage /\ attempt' = attempt
      BY <2>1 DEF MemoryNext, vars, routerVars, requestVars, missionVars
    <3> QED BY <3>1, StillConversing DEF ConversationInv, Pending
  <2>2. CASE Reboot
    <3>1. DOMAIN conv' = Callers /\ DOMAIN stage' = Missions /\ DOMAIN attempt' = Missions
      BY <2>2 DEF Reboot, ConversationInv
    <3>2. \A c \in Callers : ~Pending(c)'
      BY <2>2 DEF Reboot, Pending
    <3>3. \A m \in Missions : stage'[m] # "planning"
      BY <2>2 DEF Reboot
    <3> QED BY <3>1, <3>2, <3>3, StillConversing
  <2> QED BY <2>1, <2>2, RouterConverses, AskConverses, MissionConverses DEF Next
<1> QED BY <1>1, <1>2, RouterInvariant, PTL DEF Spec

\* ConversationsSurvive: whichever provider a request has come to, in whichever
\* dialect, after however many failures, the model reads what was said, in order
\* and in the right voices, and a complaint right after the answer it is about.
THEOREM ConversationsAreRead == Spec => []ConversationsSurvive
<1>1. ConversationInv => ConversationsSurvive
  <2> SUFFICES ASSUME ConversationInv, NEW c \in Callers, phase[c] = "waiting"
               PROVE  LET messages == conv[c].messages
                          read == ReadBody(Body(Dialect(at[c]), conv[c]))
                      IN  /\ read.told = << messages[1].text >>
                          /\ read.said = Turns(messages)
                          /\ read.json
                          /\ \A i \in DOMAIN read.said :
                                read.said[i].text.what = "complaint" =>
                                    read.said[i - 1] = Message("assistant", Said(read.said[i].text.about))
    BY DEF ConversationsSurvive
  <2> DEFINE req == conv[c]
             read == ReadBody(Body(Dialect(at[c]), req))
  <2>1. Conversation(req)
    BY DEF ConversationInv, Pending
  <2> HIDE DEF req
  <2>2. read.told = << req.messages[1].text >> /\ read.said = Turns(req.messages) /\ read.json
    BY <2>1, ConversationIsRead
  <2>3. ASSUME NEW i \in DOMAIN Turns(req.messages), Turns(req.messages)[i].text.what = "complaint"
        PROVE  Turns(req.messages)[i - 1] = Message("assistant", Said(Turns(req.messages)[i].text.about))
    BY <2>1, <2>3, ComplaintFollows
  <2> HIDE DEF read
  <2>4. /\ read.told = << req.messages[1].text >> /\ read.said = Turns(req.messages) /\ read.json
        /\ \A i \in DOMAIN read.said :
              read.said[i].text.what = "complaint" =>
                  read.said[i - 1] = Message("assistant", Said(read.said[i].text.about))
    BY <2>2, <2>3
  <2> QED BY <2>4 DEF read, req
<1> QED BY <1>1, ConversationInvariant, PTL

-----------------------------------------------------------------------------
(* Stages *)

\* The stages, and the rounds a mission has had.
Rounds(next, n) ==
    /\ next \in Stages /\ n \in Nat \ {0}
    /\ next = "planning" => n <= 2
    /\ next \in {"wave", "replan"} => n <= ReplanCap

StageInv ==
    /\ stage \in [Missions -> Stages] /\ attempt \in [Missions -> Nat \ {0}]
    /\ \A m \in Missions : Rounds(stage[m], attempt[m])

\* A mission's step takes it where its rounds allow.
LEMMA MissionMoves ==
    ASSUME StageInv, NEW m \in Missions, NEW next, NEW n, Rounds(next, n),
           stage' = [stage EXCEPT ![m] = next], attempt' = [attempt EXCEPT ![m] = n]
    PROVE  StageInv'
<1>1. next \in Stages /\ n \in Nat \ {0}
  BY DEF Rounds
<1>2. stage' \in [Missions -> Stages] /\ attempt' \in [Missions -> Nat \ {0}]
  BY <1>1 DEF StageInv
<1>3. ASSUME NEW k \in Missions PROVE Rounds(stage'[k], attempt'[k])
  BY DEF StageInv
<1> QED BY <1>2, <1>3 DEF StageInv, Rounds

LEMMA MissionStages ==
    ASSUME StageInv, NEW m \in Missions,
           \/ BeginPlan(m) \/ BeginInputs(m) \/ BeginReplan(m) \/ BeginReflection(m)
           \/ TaskStep(m) \/ Extend(m)
    PROVE  StageInv'
<1>0. /\ attempt[m] \in Nat \ {0} /\ Rounds(stage[m], attempt[m])
      /\ ReplanCap \in Nat \ {0}
      /\ attempt = [attempt EXCEPT ![m] = attempt[m]] /\ stage = [stage EXCEPT ![m] = stage[m]]
  BY CapAssumption DEF StageInv
<1>1. CASE UNCHANGED <<stage, attempt>>
  BY <1>1 DEF StageInv, Rounds
<1>2. ASSUME NEW next \in Stages \ {"planning", "wave", "replan"}, GoTo(m, next), UNCHANGED attempt
      PROVE  StageInv'
  <2>1. Rounds(next, attempt[m])
    BY <1>0, <1>2 DEF Rounds
  <2> QED BY <1>0, <1>2, <2>1, MissionMoves DEF GoTo
<1>3. CASE BeginPlan(m)
  <2>1. Rounds("planning", 1)
    BY DEF Rounds, Stages
  <2>2. stage' = [stage EXCEPT ![m] = "planning"] /\ attempt' = [attempt EXCEPT ![m] = 1]
    BY <1>3 DEF BeginPlan, GoTo
  <2> QED BY <2>1, <2>2, MissionMoves
<1>4. CASE BeginInputs(m) \/ BeginReplan(m) \/ InputsArrive(m)
  BY <1>1, <1>4 DEF BeginInputs, BeginReplan, InputsArrive, missionVars
<1>5. CASE PlanInvalid(m)
  <2>1. CASE attempt[m] = 1
    <3>1. stage' = stage /\ attempt' = [attempt EXCEPT ![m] = 2] /\ stage[m] = "planning"
      BY <1>5, <2>1 DEF PlanInvalid
    <3>2. Rounds("planning", 2)
      BY DEF Rounds, Stages
    <3>3. stage' = [stage EXCEPT ![m] = "planning"]
      BY <1>0, <3>1
    <3> QED BY <3>1, <3>2, <3>3, MissionMoves
  <2>2. CASE attempt[m] # 1
    <3>1. GoTo(m, "failed") /\ UNCHANGED attempt
      BY <1>5, <2>2 DEF PlanInvalid
    <3> QED BY <1>2, <3>1 DEF Stages
  <2> QED BY <2>1, <2>2
<1>6. CASE BeginReflection(m) \/ PlanFails(m) \/ ReplanStops(m) \/ Summarize(m) \/ ReflectionArrives(m)
           \/ Extend(m)
  <2>1. UNCHANGED attempt /\ \E next \in {"reflecting", "failed", "drain", "reflect", "done", "draft"} : GoTo(m, next)
    BY <1>6 DEF BeginReflection, PlanFails, ReplanStops, Summarize, ReflectionArrives, Extend
  <2> QED BY <1>2, <2>1 DEF Stages
<1>7. CASE WaveEnds(m)
  <2>1. CASE stage[m] = "wave" /\ GoTo(m, "replan")
    <3>1. Rounds("replan", attempt[m]) /\ UNCHANGED attempt
      BY <1>0, <1>7, <2>1 DEF WaveEnds, Rounds, Stages
    <3> QED BY <1>0, <2>1, <3>1, MissionMoves DEF GoTo
  <2>2. CASE GoTo(m, "summary")
    <3>1. UNCHANGED attempt
      BY <1>7 DEF WaveEnds
    <3> QED BY <1>2, <2>2, <3>1 DEF Stages
  <2> QED BY <1>7, <2>1, <2>2 DEF WaveEnds
<1>8. CASE PlanArrives(m)
  <2>1. PICK next \in {"wave", "stuck"} : GoTo(m, next) /\ attempt' = [attempt EXCEPT ![m] = 1]
    BY <1>8 DEF PlanArrives
  <2>2. Rounds(next, 1)
    BY <1>0 DEF Rounds, Stages
  <2> QED BY <2>1, <2>2, MissionMoves DEF GoTo
<1>9. CASE ReplanAdds(m)
  <2>1. PICK next \in {"summary", "wave", "drain"} :
          /\ GoTo(m, next) /\ attempt' = [attempt EXCEPT ![m] = @ + 1]
          /\ next = "wave" => attempt[m] < ReplanCap
    BY <1>9 DEF ReplanAdds
  <2>2. Rounds(next, attempt[m] + 1) /\ attempt' = [attempt EXCEPT ![m] = attempt[m] + 1]
    BY <1>0, <2>1 DEF Rounds, Stages
  <2> QED BY <2>1, <2>2, MissionMoves DEF GoTo
<1> QED BY <1>3, <1>4, <1>5, <1>6, <1>7, <1>8, <1>9 DEF TaskStep

LEMMA StageInvariant == Spec => []StageInv
<1>1. Init => StageInv
  BY DEF Init, StageInv, Rounds, Stages
<1>2. StageInv /\ [Next]_vars => StageInv'
  <2> SUFFICES ASSUME StageInv, [Next]_vars PROVE StageInv'
    OBVIOUS
  <2>1. CASE RouterNext \/ MemoryNext \/ UNCHANGED vars
    BY <2>1 DEF RouterNext, MemoryNext, vars, missionVars, StageInv, Rounds
  <2>2. CASE Reboot
    <3>1. /\ stage' = [m \in Missions |-> IF stage[m] \in {"draft", "done", "failed"} THEN stage[m] ELSE "stuck"]
          /\ attempt' = attempt
      BY <2>2 DEF Reboot
    <3>2. \A m \in Missions : stage'[m] \in {"draft", "done", "failed", "stuck"}
      BY <3>1
    <3> QED BY <3>1, <3>2 DEF StageInv, Rounds, Stages
  <2> QED BY <2>1, <2>2, MissionStages DEF Next
<1> QED BY <1>1, <1>2, PTL DEF Spec

\* A mission that is being planned goes to its wave with a plan only.
LEMMA PlanningEnds ==
    ASSUME StageInv, [Next]_vars, NEW m \in Missions, stage[m] = "planning", stage'[m] = "wave"
    PROVE  PlanArrives(m)
<1>1. m \in DOMAIN stage /\ stage' # stage
  BY DEF StageInv
<1>2. ASSUME NEW k \in Missions, NEW next, GoTo(k, next) PROVE k = m /\ next = "wave"
  BY <1>1, <1>2 DEF GoTo, StageInv
<1>3. CASE RouterNext \/ MemoryNext \/ UNCHANGED vars
  BY <1>1, <1>3 DEF RouterNext, MemoryNext, vars, missionVars
<1>4. CASE Reboot
  BY <1>4 DEF Reboot
<1>5. ASSUME NEW k \in Missions,
             \/ BeginPlan(k) \/ BeginInputs(k) \/ BeginReplan(k) \/ BeginReflection(k)
             \/ TaskStep(k) \/ Extend(k)
      PROVE  PlanArrives(m)
  <2>1. CASE BeginInputs(k) \/ BeginReplan(k) \/ InputsArrive(k)
    BY <1>1, <2>1 DEF BeginInputs, BeginReplan, InputsArrive, missionVars
  <2>2. CASE PlanInvalid(k)
    BY <1>1, <1>2, <2>2 DEF PlanInvalid
  <2>3. CASE \/ BeginPlan(k) \/ BeginReflection(k) \/ PlanFails(k) \/ ReplanStops(k) \/ Summarize(k)
             \/ ReflectionArrives(k) \/ Extend(k)
    <3>1. \E next \in {"planning", "reflecting", "failed", "drain", "reflect", "done", "draft"} : GoTo(k, next)
      BY <2>3 DEF BeginPlan, BeginReflection, PlanFails, ReplanStops, Summarize, ReflectionArrives, Extend
    <3> QED BY <1>2, <3>1
  <2>4. CASE WaveEnds(k)
    <3>1. stage[k] \in {"wave", "drain"} /\ \E next : GoTo(k, next)
      BY <2>4 DEF WaveEnds
    <3> QED BY <1>2, <3>1
  <2>5. CASE ReplanAdds(k)
    <3>1. stage[k] = "replan" /\ \E next : GoTo(k, next)
      BY <2>5 DEF ReplanAdds
    <3> QED BY <1>2, <3>1
  <2>6. CASE PlanArrives(k)
    <3>1. \E next : GoTo(k, next)
      BY <2>6 DEF PlanArrives
    <3> QED BY <1>2, <2>6, <3>1
  <2> QED BY <1>5, <2>1, <2>2, <2>3, <2>4, <2>5, <2>6 DEF TaskStep
<1> QED BY <1>3, <1>4, <1>5 DEF Next

-----------------------------------------------------------------------------
(* Goals *)

\* A set of positions has a first one.
LEMMA FirstExists ==
    ASSUME NEW S, S \subseteq Nat, S # {}
    PROVE  \E i \in S : \A j \in S : i <= j
<1> DEFINE R == OpToRel(<, Nat)
<1>1. IsWellFoundedOn(R, Nat)
  BY NatLessThanWellFounded
<1>2. PICK i \in S : \A j \in S : ~ (<<j, i>> \in R)
  <2> HIDE DEF R
  <2> QED BY <1>1, WFMin
<1>3. \A j \in S : ~ (j < i)
  BY <1>2 DEF OpToRel
<1> HIDE DEF R
<1> QED BY <1>3

\* A list that is as long as its domain says.
IsList(list, n) == list = [i \in 1 .. n |-> list[i]]

LEMMA Listed ==
    ASSUME NEW n \in Nat, NEW list, IsList(list, n)
    PROVE  Len(list) = n /\ DOMAIN list = 1 .. n
<1> DEFINE S == {list[i] : i \in 1 .. n}
<1>1. list \in [1 .. n -> S]
  BY DEF IsList
<1> HIDE DEF S
<1>2. list \in Seq(S)
  BY <1>1, SeqDef
<1>3. DOMAIN list = 1 .. n
  BY <1>1
<1> QED BY <1>2, <1>3, LenProperties

\* A goal's id is that of the last raw goal with its name: one that was allocated.
LEMMA RowForAllocated ==
    ASSUME NEW n \in Nat, NEW goals, DOMAIN goals = 1 .. n, NEW base \in Nat, NEW i \in 1 .. n
    PROVE  RowFor(goals, goals[i].id, base) \in base + 1 .. base + n
<1> DEFINE id == goals[i].id
           same == {k \in 1 .. n : goals[k].id = id}
           IsLast(k) == goals[k].id = id /\ \A j \in DOMAIN goals : goals[j].id = id => j <= k
           last == CHOOSE k \in DOMAIN goals : IsLast(k)
<1>1. same \subseteq 1 .. n /\ same # {}
  OBVIOUS
<1>2. PICK k \in same : \A j \in same : j <= k
  <2> HIDE DEF same
  <2> QED BY <1>1, LastExists
<1>3. k \in DOMAIN goals /\ IsLast(k)
  BY <1>2
<1>4. last \in DOMAIN goals
  <2> HIDE DEF IsLast
  <2> QED BY <1>3
<1>5. RowFor(goals, id, base) = base + last
  BY DEF RowFor
<1> HIDE DEF last
<1> QED BY <1>4, <1>5

\* The rows of a plan, and those of a delta, have ids that were just allocated.
NewRows(new, base, n) ==
    /\ IsList(new, n)
    /\ \A i \in 1 .. n : new[i].row \in base + 1 .. base + n

LEMMA RowsAreNew ==
    ASSUME NEW S, NEW goals \in Seq(S), NEW base \in Nat
    PROVE  /\ NewRows(PlanRows(goals, base), base, Len(goals))
           /\ NewRows(DeltaRows(goals, base), base, Len(goals))
<1> DEFINE n == Len(goals)
           plan == PlanRows(goals, base)
           delta == DeltaRows(goals, base)
<1>1. n \in Nat /\ DOMAIN goals = 1 .. n
  BY LenProperties
<1>2. \A i \in 1 .. n : RowFor(goals, goals[i].id, base) \in base + 1 .. base + n
  <2> HIDE DEF n
  <2> QED BY <1>1, RowForAllocated
<1>3. /\ DOMAIN plan = 1 .. n /\ IsList(plan, n)
      /\ \A i \in 1 .. n : plan[i].row = RowFor(goals, goals[i].id, base)
  BY <1>1 DEF PlanRows, IsList
<1>4. /\ DOMAIN delta = 1 .. n /\ IsList(delta, n)
      /\ \A i \in 1 .. n : delta[i].row = RowFor(goals, goals[i].id, base)
  BY <1>1 DEF DeltaRows, IsList
<1> HIDE DEF plan, delta, n
<1>5. NewRows(plan, base, n) /\ NewRows(delta, base, n)
  BY <1>2, <1>3, <1>4 DEF NewRows
<1> QED BY <1>5 DEF plan, delta, n

\* What is inserted is a first part of the new rows, up to the first whose id is taken.
UpTo(new, last) == {new[i] : i \in 1 .. last}

LEMMA InsertedPart ==
    ASSUME NEW n \in Nat, NEW new, IsList(new, n), NEW old
    PROVE  \E last \in 0 .. n :
              /\ Inserted(new, old).rows = old \cup UpTo(new, last)
              /\ \A i \in 1 .. last : /\ \A r \in old : r.row # new[i].row
                                      /\ \A k \in 1 .. i - 1 : new[k].row # new[i].row
<1> DEFINE taken(i) == \/ \E r \in old : r.row = new[i].row
                       \/ \E k \in 1 .. i - 1 : new[k].row = new[i].row
           clashes == {i \in DOMAIN new : taken(i)}
           IsFirst(i) == \A k \in clashes : i <= k
           first == IF clashes = {} THEN Len(new) + 1 ELSE CHOOSE i \in clashes : IsFirst(i)
<1>1. Len(new) = n /\ DOMAIN new = 1 .. n
  BY Listed
<1>2. Inserted(new, old).rows = old \cup {new[i] : i \in 1 .. first - 1}
  BY DEF Inserted
<1>3. clashes \subseteq 1 .. n /\ \A i \in 1 .. n : i \notin clashes => ~taken(i)
  BY <1>1
<1>4. first \in 1 .. n + 1 /\ \A i \in 1 .. first - 1 : i \notin clashes
  <2> HIDE DEF taken, clashes
  <2>1. CASE clashes = {}
    BY <1>1, <2>1
  <2>2. CASE clashes # {}
    <3>0. clashes \subseteq Nat
      BY <1>3
    <3>1. PICK i \in clashes : IsFirst(i)
      BY <2>2, <3>0, FirstExists
    <3> DEFINE least == CHOOSE k \in clashes : IsFirst(k)
    <3>2. least \in clashes /\ IsFirst(least)
      <4> HIDE DEF IsFirst
      <4> QED BY <3>1
    <3>3. first = least
      BY <2>2
    <3> HIDE DEF least, first
    <3> QED BY <1>3, <3>2, <3>3
  <2> QED BY <2>1, <2>2
<1> HIDE DEF first
<1>5. first - 1 \in 0 .. n /\ \A i \in 1 .. first - 1 : ~taken(i)
  <2> HIDE DEF taken, clashes
  <2> QED BY <1>3, <1>4
<1> HIDE DEF clashes
<1>6. Inserted(new, old).rows = old \cup UpTo(new, first - 1)
  BY <1>2 DEF UpTo
<1> QED BY <1>5, <1>6

\* As many rows come in at most as there are goals.
LEMMA InsertedCount ==
    ASSUME NEW n \in Nat, NEW new, IsList(new, n), NEW old, IsFiniteSet(old)
    PROVE  /\ IsFiniteSet(Inserted(new, old).rows)
           /\ Cardinality(Inserted(new, old).rows) <= Cardinality(old) + n
<1>1. PICK last \in 0 .. n : Inserted(new, old).rows = old \cup UpTo(new, last)
  BY InsertedPart
<1>3. IsFiniteSet(1 .. last) /\ Cardinality(1 .. last) = last
  BY FS_Interval
<1> DEFINE added == UpTo(new, last)
           f == [i \in 1 .. last |-> new[i]]
<1>2. f \in Surjection(1 .. last, added)
  BY DEF Surjection, UpTo
<1> HIDE DEF added, f
<1>4. IsFiniteSet(added) /\ Cardinality(added) <= last
  BY <1>2, <1>3, FS_Surjection
<1>5. /\ IsFiniteSet(old \cup added)
      /\ Cardinality(old \cup added) = Cardinality(old) + Cardinality(added) - Cardinality(old \cap added)
  BY <1>4, FS_Union
<1>6. IsFiniteSet(old \cap added)
  BY <1>4, FS_Subset
<1>7. Cardinality(old) \in Nat /\ Cardinality(added) \in Nat /\ Cardinality(old \cap added) \in Nat
      /\ Cardinality(old \cup added) \in Nat
  BY <1>4, <1>5, <1>6, FS_CardinalityType
<1>8. Cardinality(old \cup added) <= Cardinality(old) + n
  BY <1>4, <1>5, <1>7
<1> QED BY <1>1, <1>5, <1>8 DEF added

\* The rows of one mission: allocated ids, each of one goal, and finitely many.
RowsOf(mine, count) ==
    /\ IsFiniteSet(mine) /\ count \in Nat
    /\ \A r \in mine : r.row \in 1 .. count
    /\ \A r, s \in mine : r.row = s.row => r = s

LEMMA InsertedUnique ==
    ASSUME NEW old, NEW base, RowsOf(old, base), NEW n \in Nat, NEW new, NewRows(new, base, n)
    PROVE  RowsOf(Inserted(new, old).rows, base + n)
<1>1. base \in Nat /\ IsList(new, n) /\ IsFiniteSet(old)
  BY DEF RowsOf, NewRows
<1>2. IsFiniteSet(Inserted(new, old).rows)
  BY <1>1, InsertedCount
<1>3. PICK last \in 0 .. n :
              /\ Inserted(new, old).rows = old \cup UpTo(new, last)
              /\ \A i \in 1 .. last : /\ \A r \in old : r.row # new[i].row
                                      /\ \A k \in 1 .. i - 1 : new[k].row # new[i].row
  BY <1>1, InsertedPart
<1> DEFINE all == Inserted(new, old).rows
<1>4. \A r : r \in all => r \in old \/ \E i \in 1 .. last : r = new[i]
  BY <1>3 DEF UpTo
<1> HIDE DEF all
<1>5. ASSUME NEW r \in all PROVE r.row \in 1 .. base + n
  BY <1>1, <1>4, <1>5 DEF RowsOf, NewRows
<1>6. ASSUME NEW r \in all, NEW s \in all, r.row = s.row PROVE r = s
  <2>1. CASE r \in old /\ s \in old
    BY <1>6, <2>1 DEF RowsOf
  <2>2. CASE r \in old /\ s \notin old
    BY <1>3, <1>4, <1>6, <2>2
  <2>3. CASE r \notin old /\ s \in old
    BY <1>3, <1>4, <1>6, <2>3
  <2>4. CASE r \notin old /\ s \notin old
    <3>1. PICK i \in 1 .. last : r = new[i]
      BY <1>4, <2>4
    <3>2. PICK k \in 1 .. last : s = new[k]
      BY <1>4, <2>4
    <3>3. ~ (k < i) /\ ~ (i < k)
      BY <1>3, <1>6, <3>1, <3>2
    <3> QED BY <3>1, <3>2, <3>3
  <2> QED BY <2>1, <2>2, <2>3, <2>4
<1>7. RowsOf(all, base + n)
  BY <1>1, <1>2, <1>5, <1>6 DEF RowsOf, all
<1> QED BY <1>7 DEF all

\* A plan is a list of goals, and so is a delta.
LEMMA PlanIsList ==
    ASSUME NEW content, GoalsTyped(content), NEW tools, ParsePlan(content, tools).ok
    PROVE  \E S : ParsePlan(content, tools).value \in Seq(S)
<1> DEFINE goals == content[1].goals
           wrong == ~KnownTools(goals, tools)
           loose == \E i \in DOMAIN goals : ~(goals[i].deps \subseteq IdsOf(goals))
<1>1. ParsePlan(content, tools) = IF ~Holds(content, "goals") THEN Refused("ParseJson")
                                  ELSE IF goals = << >> THEN Refused("Empty")
                                  ELSE IF wrong THEN Refused("Invalid")
                                  ELSE IF loose THEN Refused("Invalid") ELSE Read(goals)
  BY DEF ParsePlan
<1> HIDE DEF goals, wrong, loose
<1>2. /\ ~Refused("ParseJson").ok /\ ~Refused("Empty").ok /\ ~Refused("Invalid").ok
      /\ Read(goals).value = goals
  BY DEF Refused, Read
<1>3. Holds(content, "goals") /\ ParsePlan(content, tools).value = goals
  BY <1>1, <1>2
<1> QED BY <1>3 DEF GoalsTyped, goals

LEMMA DeltaIsList ==
    ASSUME NEW content, GoalsTyped(content), NEW tools, ParseReplan(content, tools).ok
    PROVE  \E S : ParseReplan(content, tools).value.goals \in Seq(S)
<1> DEFINE goals == content[1].goals
           end == content[1].terminate
           wrong == ~KnownTools(goals, tools)
           none == [terminate |-> FALSE, goals |-> << >>]
           delta == [terminate |-> end, goals |-> goals]
<1>1. ParseReplan(content, tools) = IF Holds(content, "object") THEN Read(none)
                                    ELSE IF ~Holds(content, "goals") THEN Refused("ParseJson")
                                    ELSE IF wrong THEN Refused("Invalid") ELSE Read(delta)
  BY DEF ParseReplan
<1> HIDE DEF wrong, goals, end
<1>2. none.goals = << >> /\ delta.goals = goals
  OBVIOUS
<1> HIDE DEF none, delta
<1>3. /\ ~Refused("ParseJson").ok /\ ~Refused("Invalid").ok
      /\ Read(none).value = none /\ Read(delta).value = delta
  BY DEF Refused, Read
<1>4. \/ ParseReplan(content, tools).value.goals = << >>
      \/ Holds(content, "goals") /\ ParseReplan(content, tools).value.goals = goals
  BY <1>1, <1>2, <1>3
<1> QED BY <1>4, EmptySeq DEF GoalsTyped, goals

\* Goals come with a plan and with a replan, and from nowhere else.
LEMMA RowWriters ==
    ASSUME [Next]_vars
    PROVE  \/ UNCHANGED <<rows, allocated>>
           \/ \E m \in Missions : PlanArrives(m) \/ ReplanAdds(m)
<1>1. CASE RouterNext \/ MemoryNext \/ Reboot \/ UNCHANGED vars
  BY <1>1 DEF RouterNext, MemoryNext, Reboot, vars, missionVars
<1>2. ASSUME NEW m \in Missions, \/ BeginPlan(m) \/ BeginInputs(m) \/ BeginReplan(m) \/ BeginReflection(m)
                                 \/ Extend(m)
      PROVE  UNCHANGED <<rows, allocated>>
  BY <1>2 DEF BeginPlan, BeginInputs, BeginReplan, BeginReflection, Extend, missionVars
<1>3. ASSUME NEW m \in Missions, TaskStep(m), ~PlanArrives(m), ~ReplanAdds(m)
      PROVE  UNCHANGED <<rows, allocated>>
  BY <1>3 DEF TaskStep, PlanInvalid, PlanFails, InputsArrive, WaveEnds, ReplanStops, Summarize,
              ReflectionArrives, missionVars
<1> QED BY <1>1, <1>2, <1>3 DEF Next

GoalsInv ==
    /\ DOMAIN rows = Missions /\ allocated \in [Missions -> Nat]
    /\ \A m \in Missions : RowsOf(rows[m], allocated[m])

\* What a plan or a replan writes.
Write(m, new, n) ==
    /\ NewRows(new, allocated[m], n)
    /\ rows' = [rows EXCEPT ![m] = Inserted(new, rows[m]).rows]
    /\ allocated' = [allocated EXCEPT ![m] = @ + n]
    /\ stage[m] = "replan" => Cardinality(rows[m]) + n <= GoalCap

LEMMA RowsWritten ==
    ASSUME GotInv, GoalsInv, NEW m \in Missions, PlanArrives(m) \/ ReplanAdds(m)
    PROVE  \E n \in Nat : \E new : Write(m, new, n)
<1> DEFINE c == Service(m)
           base == allocated[m]
<1>1. c \in Callers /\ base \in Nat
  BY CallersAssumption DEF Service, ServiceAndWorker, GoalsInv
<1>2. GoalsTyped(got[c])
  BY <1>1 DEF GotInv, ContentTyped
<1>3. CASE PlanArrives(m)
  <2> DEFINE goals == ParsePlan(got[c], Tools).value
             new == PlanRows(goals, base)
  <2>1. /\ stage[m] = "planning" /\ ParsePlan(got[c], Tools).ok
        /\ rows' = [rows EXCEPT ![m] = Inserted(new, rows[m]).rows]
        /\ allocated' = [allocated EXCEPT ![m] = @ + Len(goals)]
    BY <1>3 DEF PlanArrives
  <2>2. PICK S : goals \in Seq(S)
    BY <1>2, <2>1, PlanIsList
  <2> HIDE DEF goals, c, base
  <2>3. Len(goals) \in Nat /\ NewRows(new, base, Len(goals))
    BY <1>1, <2>2, LenProperties, RowsAreNew
  <2> HIDE DEF new
  <2> QED BY <2>1, <2>3 DEF base, Write
<1>4. CASE ReplanAdds(m)
  <2> DEFINE goals == ParseReplan(got[c], Tools).value.goals
             new == DeltaRows(goals, base)
  <2>1. /\ ParseReplan(got[c], Tools).ok /\ ~TooMany(m, goals)
        /\ rows' = [rows EXCEPT ![m] = Inserted(new, rows[m]).rows]
        /\ allocated' = [allocated EXCEPT ![m] = @ + Len(goals)]
    BY <1>4 DEF ReplanAdds
  <2>2. PICK S : goals \in Seq(S)
    BY <1>2, <2>1, DeltaIsList
  <2> HIDE DEF goals, c, base
  <2>3. Len(goals) \in Nat /\ NewRows(new, base, Len(goals))
    BY <1>1, <2>2, LenProperties, RowsAreNew
  <2>4. Cardinality(rows[m]) \in Nat
    BY FS_CardinalityType DEF GoalsInv, RowsOf
  <2>5. Cardinality(rows[m]) + Len(goals) <= GoalCap
    BY <2>1, <2>3, <2>4, CapAssumption DEF TooMany
  <2> HIDE DEF new
  <2> QED BY <2>1, <2>3, <2>5 DEF base, Write
<1> QED BY <1>3, <1>4

LEMMA GoalsInvariant ==
    ASSUME RepliesTyped
    PROVE  Spec => []GoalsInv
<1>1. Init => GoalsInv
  BY FS_EmptySet DEF Init, GoalsInv, RowsOf
<1>2. GotInv /\ GoalsInv /\ [Next]_vars => GoalsInv'
  <2> SUFFICES ASSUME GotInv, GoalsInv, [Next]_vars PROVE GoalsInv'
    OBVIOUS
  <2>1. CASE UNCHANGED <<rows, allocated>>
    BY <2>1 DEF GoalsInv
  <2>2. ASSUME NEW m \in Missions, PlanArrives(m) \/ ReplanAdds(m) PROVE GoalsInv'
    <3>0. PICK n \in Nat : \E new : Write(m, new, n)
      BY <2>2, RowsWritten
    <3>1. PICK new : Write(m, new, n)
      BY <3>0
    <3>2. RowsOf(Inserted(new, rows[m]).rows, allocated[m] + n)
      BY <3>1, InsertedUnique DEF GoalsInv, Write
    <3> QED BY <3>1, <3>2 DEF GoalsInv, Write, RowsOf
  <2> QED BY <2>1, <2>2, RowWriters
<1> QED BY <1>1, <1>2, GotInvariant, PTL DEF Spec

\* GoalIdsAreUnique: whatever ids an answer gives its goals, and whatever goals the
\* mission has already, a mission's goal rows have ids that were allocated to it,
\* and no two rows the same (materialize, materialize_delta, persist_new_goal).
THEOREM GoalsAreDistinct ==
    ASSUME RepliesTyped
    PROVE  Spec => []GoalIdsAreUnique
<1>1. GoalsInv => GoalIdsAreUnique
  BY DEF GoalsInv, RowsOf, GoalIdsAreUnique
<1> QED BY <1>1, GoalsInvariant, PTL

\* ReplansKeepTheCap: whatever it is answered, a replan leaves its mission with no
\* more goals than the cap, TOTAL_GOAL_CAP, though the plan before it need not have.
THEOREM ReplansAreCapped ==
    ASSUME RepliesTyped
    PROVE  Spec => ReplansKeepTheCap
<1> DEFINE Capped == \A m \in Missions :
               stage[m] = "replan" /\ rows'[m] # rows[m] => Cardinality(rows'[m]) <= GoalCap
<1>1. GotInv /\ GoalsInv /\ [Next]_vars => [Capped]_vars
  <2> SUFFICES ASSUME GotInv, GoalsInv, [Next]_vars,
                      NEW k \in Missions, stage[k] = "replan", rows'[k] # rows[k]
               PROVE  Cardinality(rows'[k]) <= GoalCap
    BY DEF vars, missionVars
  <2>1. PICK m \in Missions : PlanArrives(m) \/ ReplanAdds(m)
    BY RowWriters
  <2>0. PICK n \in Nat : \E new : Write(m, new, n)
    BY <2>1, RowsWritten
  <2>2. PICK new : Write(m, new, n)
    BY <2>0
  <2>3. k = m /\ rows'[k] = Inserted(new, rows[m]).rows
    BY <2>2 DEF GoalsInv, Write
  <2>4. IsFiniteSet(rows[m]) /\ IsList(new, n)
    BY <2>2 DEF GoalsInv, RowsOf, NewRows, Write
  <2>5. /\ IsFiniteSet(rows'[k]) /\ Cardinality(rows'[k]) <= Cardinality(rows[m]) + n
    BY <2>3, <2>4, InsertedCount
  <2>6. Cardinality(rows'[k]) \in Nat /\ Cardinality(rows[m]) \in Nat
    BY <2>4, <2>5, FS_CardinalityType
  <2> QED BY <2>2, <2>3, <2>5, <2>6, CapAssumption DEF Write
<1> QED BY <1>1, GotInvariant, GoalsInvariant, PTL DEF Spec, ReplansKeepTheCap

\* Rows that were inserted whole are all there, and none of them was before.
LEMMA InsertedWhole ==
    ASSUME NEW n \in Nat, NEW new, IsList(new, n), NEW old, Inserted(new, old).whole
    PROVE  Inserted(new, old).rows \ old = UpTo(new, n)
<1> DEFINE taken(i) == \/ \E r \in old : r.row = new[i].row
                       \/ \E k \in 1 .. i - 1 : new[k].row = new[i].row
           clashes == {i \in DOMAIN new : taken(i)}
           first == IF clashes = {} THEN Len(new) + 1
                    ELSE CHOOSE i \in clashes : \A k \in clashes : i <= k
<1>1. Len(new) = n /\ DOMAIN new = 1 .. n
  BY Listed
<1>2. /\ Inserted(new, old).rows = old \cup {new[i] : i \in 1 .. first - 1}
      /\ Inserted(new, old).whole = (clashes = {})
  BY DEF Inserted
<1>3. clashes = {}
  BY <1>2
<1>4. first - 1 = n
  BY <1>1, <1>3
<1>5. \A i \in 1 .. n : new[i] \notin old
  BY <1>1, <1>3
<1> HIDE DEF first, clashes
<1> QED BY <1>2, <1>4, <1>5 DEF UpTo

\* What passes for a plan is a list of goals that wait for one another only.
LEMMA PlanIsClosed ==
    ASSUME NEW content, NEW tools, ParsePlan(content, tools).ok
    PROVE  LET goals == ParsePlan(content, tools).value IN
           \A i \in DOMAIN goals : goals[i].deps \subseteq IdsOf(goals)
<1> DEFINE goals == content[1].goals
           wrong == ~KnownTools(goals, tools)
           loose == \E i \in DOMAIN goals : ~(goals[i].deps \subseteq IdsOf(goals))
<1>1. ParsePlan(content, tools) = IF ~Holds(content, "goals") THEN Refused("ParseJson")
                                  ELSE IF goals = << >> THEN Refused("Empty")
                                  ELSE IF wrong THEN Refused("Invalid")
                                  ELSE IF loose THEN Refused("Invalid") ELSE Read(goals)
  BY DEF ParsePlan
<1> HIDE DEF goals, wrong, loose
<1>2. /\ ~Refused("ParseJson").ok /\ ~Refused("Empty").ok /\ ~Refused("Invalid").ok
      /\ Read(goals).value = goals
  BY DEF Refused, Read
<1>3. ~loose /\ ParsePlan(content, tools).value = goals
  BY <1>1, <1>2
<1> QED BY <1>3 DEF loose

\* The rows of such goals wait for rows among them.
LEMMA PlanRowsClosed ==
    ASSUME NEW S, NEW goals \in Seq(S), NEW base,
           \A i \in DOMAIN goals : goals[i].deps \subseteq IdsOf(goals)
    PROVE  LET new == PlanRows(goals, base)
               all == UpTo(new, Len(goals)) IN
           \A r \in all : r.deps \subseteq {q.row : q \in all}
<1> DEFINE n == Len(goals)
           new == PlanRows(goals, base)
           all == UpTo(new, n)
<1>1. n \in Nat /\ DOMAIN goals = 1 .. n
  BY LenProperties
<1>2. \A i \in 1 .. n : /\ new[i].row = RowFor(goals, goals[i].id, base)
                        /\ new[i].deps = {RowFor(goals, d, base) : d \in goals[i].deps \cap IdsOf(goals)}
  BY <1>1 DEF PlanRows
<1> HIDE DEF n, new
<1>3. SUFFICES ASSUME NEW i \in 1 .. n, NEW dep \in new[i].deps
               PROVE  \E q \in all : q.row = dep
  BY DEF UpTo, n, new
<1>4. PICK d \in IdsOf(goals) : dep = RowFor(goals, d, base)
  BY <1>2
<1>5. PICK k \in 1 .. n : d = goals[k].id
  BY <1>1, <1>4 DEF IdsOf
<1>6. new[k] \in all /\ new[k].row = dep
  BY <1>2, <1>4, <1>5 DEF UpTo
<1> QED BY <1>6

\* PlansStandAlone: whatever ids an answer uses, a plan is taken whole only when
\* every goal its goals wait for is one of its own (parse_and_validate, materialize).
THEOREM PlansAreClosed ==
    ASSUME RepliesTyped
    PROVE  Spec => PlansStandAlone
<1> DEFINE Closed(new) == \A r \in new : r.deps \subseteq {q.row : q \in new}
           Alone(m) == stage[m] = "planning" /\ stage'[m] = "wave" => Closed(rows'[m] \ rows[m])
<1>1. GotInv /\ GoalsInv /\ StageInv /\ [Next]_vars => [\A m \in Missions : Alone(m)]_vars
  <2> SUFFICES ASSUME GotInv, GoalsInv, StageInv, [Next]_vars,
                      NEW m \in Missions, stage[m] = "planning", stage'[m] = "wave"
               PROVE  Closed(rows'[m] \ rows[m])
    BY DEF vars, missionVars
  <2> DEFINE c == Service(m)
             goals == ParsePlan(got[c], Tools).value
             new == PlanRows(goals, allocated[m])
  <2>1. PlanArrives(m)
    BY PlanningEnds
  <2>2. c \in Callers
    BY CallersAssumption DEF Service, ServiceAndWorker
  <2>3. GoalsTyped(got[c]) /\ ParsePlan(got[c], Tools).ok
    BY <2>1, <2>2 DEF GotInv, ContentTyped, PlanArrives
  <2>4. PICK S : goals \in Seq(S)
    BY <2>3, PlanIsList
  <2>5. /\ rows' = [rows EXCEPT ![m] = Inserted(new, rows[m]).rows]
        /\ Inserted(new, rows[m]).whole
    BY <2>1 DEF PlanArrives, GoTo, StageInv
  <2>6. \A i \in DOMAIN goals : goals[i].deps \subseteq IdsOf(goals)
    BY <2>3, PlanIsClosed
  <2> HIDE DEF goals
  <2>7. allocated[m] \in Nat /\ Len(goals) \in Nat
    BY <2>4, LenProperties DEF GoalsInv
  <2>8. IsList(new, Len(goals))
    BY <2>4, <2>7, RowsAreNew DEF NewRows
  <2>9. Closed(UpTo(new, Len(goals)))
    BY <2>4, <2>6, PlanRowsClosed
  <2> HIDE DEF new, Closed
  <2>10. Inserted(new, rows[m]).rows \ rows[m] = UpTo(new, Len(goals))
    BY <2>5, <2>7, <2>8, InsertedWhole
  <2> QED BY <2>5, <2>9, <2>10 DEF GoalsInv
<1> QED BY <1>1, GotInvariant, GoalsInvariant, StageInvariant, PTL DEF Spec, PlansStandAlone

-----------------------------------------------------------------------------
(* Questions and answers *)

\* What a step keeps when it begins no call: what is asked, and the stage of a
\* mission whose service task has asked it.
LEMMA StillAsking ==
    ASSUME AnswersMeetTheirQuestion,
           \A c \in Callers : phase'[c] # "idle" => phase[c] # "idle" /\ conv'[c] = conv[c],
           \A m \in Missions : phase'[Service(m)] # "idle" => stage'[m] = stage[m]
    PROVE  AnswersMeetTheirQuestion'
<1>1. \A m \in Missions : Service(m) \in Callers /\ Worker(m) \in Callers
  BY CallersAssumption DEF Service, Worker, ServiceAndWorker
<1> QED BY <1>1 DEF AnswersMeetTheirQuestion

\* A prompt and a brief.
Two(prompt, brief, limit) == Request(limit, << Message("system", prompt), Message("user", brief) >>)

\* A call that begins has its prompt first, and leaves the others alone.
LEMMA AskPrompts ==
    ASSUME RouteInv, ConversationInv, NEW c \in Callers, NEW prompt, NEW brief, NEW limit,
           Ask(c, Two(prompt, brief, limit))
    PROVE  /\ conv'[c].messages[1].text = prompt
           /\ \A d \in Callers : d # c => phase'[d] = phase[d] /\ conv'[d] = conv[d]
<1> DEFINE req == Two(prompt, brief, limit)
<1>1. req.messages[1].text = prompt
  BY DEF Two, Request, Message
<1> HIDE DEF req
<1>2. conv' = [conv EXCEPT ![c] = req] /\ \E p : phase' = [phase EXCEPT ![c] = p]
  BY DEF Ask, req
<1> QED BY <1>1, <1>2 DEF RouteInv, ConversationInv

\* The service task asks what the stage it goes to is for.
LEMMA ServiceAsks ==
    ASSUME AnswersMeetTheirQuestion, RouteInv, ConversationInv, NEW m \in Missions,
           NEW prompt, NEW brief, NEW limit, Ask(Service(m), Two(prompt, brief, limit)),
           stage'[m] \in DOMAIN Purpose, prompt.what = Purpose[stage'[m]],
           \A k \in Missions : k # m => stage'[k] = stage[k]
    PROVE  AnswersMeetTheirQuestion'
<1>1. \A k \in Missions : Service(k) \in Callers /\ Worker(k) \in Callers /\ Worker(k) # Service(m)
  BY CallersAssumption DEF Service, Worker, ServiceAndWorker
<1>2. \A k \in Missions : k # m => Service(k) # Service(m)
  BY DEF Service
<1>3. /\ conv'[Service(m)].messages[1].text = prompt
      /\ \A d \in Callers : d # Service(m) => phase'[d] = phase[d] /\ conv'[d] = conv[d]
  BY <1>1, AskPrompts
<1>5. ASSUME NEW k \in Missions, phase'[Service(k)] # "idle"
      PROVE  /\ stage'[k] \in DOMAIN Purpose
             /\ conv'[Service(k)].messages[1].text.what = Purpose[stage'[k]]
  <2>1. CASE k = m
    BY <1>3, <2>1
  <2>2. CASE k # m
    BY <1>1, <1>2, <1>3, <1>5, <2>2 DEF AnswersMeetTheirQuestion
  <2> QED BY <2>1, <2>2
<1>6. ASSUME NEW k \in Missions, phase'[Worker(k)] # "idle"
      PROVE  conv'[Worker(k)].messages[1].text.what = "inputs_prompt"
  BY <1>1, <1>3, <1>6 DEF AnswersMeetTheirQuestion
<1> QED BY <1>5, <1>6 DEF AnswersMeetTheirQuestion

\* A worker asks for its inputs.
LEMMA WorkerAsks ==
    ASSUME AnswersMeetTheirQuestion, RouteInv, ConversationInv, NEW m \in Missions,
           NEW prompt, NEW brief, NEW limit, prompt.what = "inputs_prompt",
           Ask(Worker(m), Two(prompt, brief, limit)), stage' = stage
    PROVE  AnswersMeetTheirQuestion'
<1>1. \A k \in Missions : Service(k) \in Callers /\ Worker(k) \in Callers /\ Service(k) # Worker(m)
  BY CallersAssumption DEF Service, Worker, ServiceAndWorker
<1>2. /\ conv'[Worker(m)].messages[1].text = prompt
      /\ \A d \in Callers : d # Worker(m) => phase'[d] = phase[d] /\ conv'[d] = conv[d]
  BY <1>1, AskPrompts
<1>3. ASSUME NEW k \in Missions, phase'[Service(k)] # "idle"
      PROVE  /\ stage'[k] \in DOMAIN Purpose
             /\ conv'[Service(k)].messages[1].text.what = Purpose[stage'[k]]
  BY <1>1, <1>2, <1>3 DEF AnswersMeetTheirQuestion
<1>4. ASSUME NEW k \in Missions, phase'[Worker(k)] # "idle"
      PROVE  conv'[Worker(k)].messages[1].text.what = "inputs_prompt"
  BY <1>1, <1>2, <1>4 DEF AnswersMeetTheirQuestion
<1> QED BY <1>3, <1>4 DEF AnswersMeetTheirQuestion

\* Whatever a mission begins to ask is for the stage it is at then.
LEMMA BeginsAsk ==
    ASSUME AnswersMeetTheirQuestion, RouteInv, ConversationInv, NEW m \in Missions,
           BeginPlan(m) \/ BeginInputs(m) \/ BeginReplan(m) \/ BeginReflection(m)
    PROVE  AnswersMeetTheirQuestion'
<1>0. /\ DOMAIN Purpose = {"planning", "replan", "reflecting"} /\ Purpose["planning"] = "plan_prompt"
      /\ Purpose["replan"] = "replan_prompt" /\ Purpose["reflecting"] = "reflect_prompt"
  BY DEF Purpose
<1>1. CASE BeginPlan(m)
  <2>1. PICK works \in SUBSET RecallCalls :
          Ask(Service(m), Two(SystemPrompt(Recall(m, works), {}), UserPrompt(m), 2048))
    BY <1>1 DEF BeginPlan, Two
  <2>2. SystemPrompt(Recall(m, works), {}).what = "plan_prompt"
    BY DEF SystemPrompt
  <2>3. stage'[m] = "planning" /\ \A k \in Missions : k # m => stage'[k] = stage[k]
    BY <1>1 DEF BeginPlan, GoTo, ConversationInv
  <2> QED BY <1>0, <2>1, <2>2, <2>3, ServiceAsks
<1>2. CASE BeginInputs(m)
  <2>1. Ask(Worker(m), Two([what |-> "inputs_prompt"], UserPrompt(m), 1500)) /\ stage' = stage
    BY <1>2 DEF BeginInputs, Two, missionVars
  <2> QED BY <2>1, WorkerAsks
<1>3. CASE BeginReplan(m)
  <2>1. Ask(Service(m), Two(ReplanSystemPrompt({}, {}), ReplanUserPrompt(m, rows[m]), 1500))
    BY <1>3 DEF BeginReplan, Two
  <2>2. ReplanSystemPrompt({}, {}).what = "replan_prompt"
    BY DEF ReplanSystemPrompt
  <2>3. stage[m] = "replan" /\ stage' = stage
    BY <1>3 DEF BeginReplan, missionVars
  <2> QED BY <1>0, <2>1, <2>2, <2>3, ServiceAsks
<1>4. CASE BeginReflection(m)
  <2>1. Ask(Service(m), Two([what |-> "reflect_prompt"], ReplanUserPrompt(m, rows[m]), 1500))
    BY <1>4 DEF BeginReflection, Two
  <2>2. stage'[m] = "reflecting" /\ \A k \in Missions : k # m => stage'[k] = stage[k]
    BY <1>4 DEF BeginReflection, GoTo, ConversationInv
  <2> QED BY <1>0, <2>1, <2>2, ServiceAsks
<1> QED BY <1>1, <1>2, <1>3, <1>4

\* What is added to a conversation comes after its prompt.
LEMMA PromptStays ==
    ASSUME NEW req, Conversation(req), NEW a, NEW b
    PROVE  (req.messages \o << a, b >>)[1] = req.messages[1]
<1> DEFINE messages == req.messages
           more == << a, b >>
<1>1. PICK n \in {2, 4} : messages = Spoken(n, [i \in 1 .. n |-> messages[i].text])
  BY DEF Conversation
<1> DEFINE texts == [i \in 1 .. n |-> messages[i].text]
           S == {Message(Voices[i], texts[i]) : i \in 1 .. n} \cup {a, b}
<1>2. messages \in [1 .. n -> S]
  BY <1>1 DEF Spoken
<1>3. more \in Seq(S) /\ n \in Nat /\ 1 <= n
  OBVIOUS
<1> HIDE DEF S, messages, more, texts
<1>4. messages \in Seq(S) /\ Len(messages) = n
  <2>1. messages \in Seq(S)
    BY <1>2, <1>3, SeqDef
  <2> QED BY <1>2, <1>3, <2>1, LenProperties
<1>5. Len(more) \in Nat
  BY <1>3, LenProperties
<1>6. \A i \in 1 .. Len(messages) + Len(more) :
        (messages \o more)[i] = IF i <= Len(messages) THEN messages[i] ELSE more[i - Len(messages)]
  BY <1>3, <1>4, ConcatProperties, Zenon
<1>7. (messages \o more)[1] = messages[1]
  BY <1>3, <1>4, <1>5, <1>6
<1> QED BY <1>7 DEF messages, more

\* A mission that takes an answer has nothing under way any more, or asks again.
LEMMA MissionAsks ==
    ASSUME AnswersMeetTheirQuestion, RouteInv, ConversationInv, NEW m \in Missions,
           TaskStep(m) \/ Extend(m)
    PROVE  AnswersMeetTheirQuestion'
<1> DEFINE s == Service(m)
<1>1. \A k \in Missions : Service(k) \in Callers /\ Worker(k) \in Callers /\ (k # m => Service(k) # s)
  BY CallersAssumption DEF Service, Worker, ServiceAndWorker
<1>2. ASSUME NEW c \in Callers, Consume(c)
      PROVE  /\ phase'[c] = "idle"
             /\ \A d \in Callers : phase'[d] # "idle" => phase[d] # "idle" /\ conv'[d] = conv[d]
  BY <1>2 DEF Consume, RouteInv, ConversationInv
<1>3. ASSUME NEW next, GoTo(m, next)
      PROVE  \A k \in Missions : k # m => stage'[k] = stage[k]
  BY <1>3 DEF GoTo, ConversationInv
<1>4. CASE PlanInvalid(m)
  <2>1. CASE attempt[m] = 1
    <3> DEFINE old == conv[s]
               answer == Message("assistant", Said(got[s]))
               complaint == Message("user", Complaint(ParsePlan(got[s], Tools).error, got[s]))
               messages == old.messages \o << answer, complaint >>
               new == [old EXCEPT !.messages = messages]
    <3>1. /\ stage[m] = "planning" /\ phase[s] = "answered" /\ stage' = stage
          /\ conv' = [conv EXCEPT ![s] = new] /\ phase' = [phase EXCEPT ![s] = "routing"]
      BY <1>4, <2>1 DEF PlanInvalid, RetryPrompt
    <3>2. Conversation(old)
      BY <1>1, <3>1 DEF ConversationInv, Pending
    <3>3. messages[1] = old.messages[1]
      <4> HIDE DEF answer, complaint, old
      <4> QED BY <3>2, PromptStays
    <3>4. new.messages = messages
      <4>1. old = Request(old.limit, old.messages)
        BY <3>2 DEF Conversation
      <4> HIDE DEF messages
      <4>2. "messages" \in DOMAIN old
        BY <4>1 DEF Request
      <4> QED BY <4>2
    <3> HIDE DEF messages, new, old
    <3>5. conv'[s] = new /\ \A d \in Callers : d # s => phase'[d] = phase[d] /\ conv'[d] = conv[d]
      BY <1>1, <3>1 DEF RouteInv, ConversationInv
    <3>6. conv'[s].messages[1] = conv[s].messages[1]
      BY <3>3, <3>4, <3>5 DEF old
    <3>7. \A k \in Missions : Worker(k) # s
      BY DEF Worker, Service
    <3> HIDE DEF s
    <3>8. ASSUME NEW k \in Missions, phase'[Service(k)] # "idle"
          PROVE  /\ stage'[k] \in DOMAIN Purpose
                 /\ conv'[Service(k)].messages[1].text.what = Purpose[stage'[k]]
      <4>1. CASE k = m
        <5>1. phase[s] # "idle" /\ Service(k) = s
          BY <3>1, <4>1 DEF s
        <5> QED BY <3>1, <3>6, <4>1, <5>1 DEF AnswersMeetTheirQuestion
      <4>2. CASE k # m
        BY <1>1, <3>1, <3>5, <3>8, <4>2 DEF AnswersMeetTheirQuestion
      <4> QED BY <4>1, <4>2
    <3>9. ASSUME NEW k \in Missions, phase'[Worker(k)] # "idle"
          PROVE  conv'[Worker(k)].messages[1].text.what = "inputs_prompt"
      BY <1>1, <3>5, <3>7, <3>9 DEF AnswersMeetTheirQuestion
    <3> QED BY <3>8, <3>9 DEF AnswersMeetTheirQuestion
  <2>2. CASE attempt[m] # 1
    <3>1. Consume(s) /\ GoTo(m, "failed")
      BY <1>4, <2>2 DEF PlanInvalid
    <3> QED BY <1>1, <1>2, <1>3, <3>1, StillAsking
  <2> QED BY <2>1, <2>2
<1>5. CASE PlanFails(m) \/ PlanArrives(m) \/ ReplanStops(m) \/ ReplanAdds(m) \/ ReflectionArrives(m)
  <2>1. Consume(s) /\ \E next : GoTo(m, next)
    BY <1>5 DEF PlanFails, PlanArrives, ReplanStops, ReplanAdds, ReflectionArrives
  <2> QED BY <1>1, <1>2, <1>3, <2>1, StillAsking
<1>6. CASE InputsArrive(m)
  <2>1. Consume(Worker(m)) /\ stage' = stage
    BY <1>6 DEF InputsArrive, missionVars
  <2> QED BY <1>1, <1>2, <2>1, StillAsking
<1>7. CASE WaveEnds(m) \/ Summarize(m) \/ Extend(m)
  <2>1. /\ conv' = conv /\ phase' = phase /\ \E next : GoTo(m, next)
        /\ stage[m] \in {"wave", "drain", "summary", "done", "failed"}
    BY <1>7 DEF WaveEnds, Summarize, Extend, routerVars, requestVars
  <2>2. phase[s] = "idle"
    BY <2>1 DEF AnswersMeetTheirQuestion, Purpose
  <2> QED BY <1>1, <1>3, <2>1, <2>2, StillAsking
<1> QED BY <1>4, <1>5, <1>6, <1>7 DEF TaskStep

\* AnswersMeetTheirQuestion: an answer is read at the stage that asked for it.  No
\* call of a mission's service task outlives the stage that made it, whatever the
\* workers' calls do (plan_only, run_with_replan_loop, reflect_and_learn).
THEOREM AnswersAreExpected == Spec => []AnswersMeetTheirQuestion
<1>1. Init => AnswersMeetTheirQuestion
  BY CallersAssumption DEF Init, RouterInit, AnswersMeetTheirQuestion, Service, Worker, ServiceAndWorker
<1>2. AnswersMeetTheirQuestion /\ RouteInv /\ ConversationInv /\ [Next]_vars => AnswersMeetTheirQuestion'
  <2> SUFFICES ASSUME AnswersMeetTheirQuestion, RouteInv, ConversationInv, [Next]_vars
               PROVE  AnswersMeetTheirQuestion'
    OBVIOUS
  <2>1. CASE MemoryNext \/ UNCHANGED vars
    <3>1. conv' = conv /\ phase' = phase /\ stage' = stage
      BY <2>1 DEF MemoryNext, vars, routerVars, requestVars, missionVars
    <3> QED BY <3>1, StillAsking
  <2>2. CASE Reboot
    <3>1. \A c \in Callers : phase'[c] = "idle"
      BY <2>2 DEF Reboot
    <3>2. \A m \in Missions : Service(m) \in Callers
      BY CallersAssumption DEF Service, ServiceAndWorker
    <3> QED BY <3>1, <3>2, StillAsking
  <2>3. CASE RouterNext
    <3>1. conv' = conv /\ stage' = stage
      BY <2>3 DEF RouterNext, missionVars, RouterStep, Skip, Send, Reply, Answer, Refusal, Lapse, requestVars
    <3>2. ASSUME NEW c \in Callers, RouterStep(c)
          PROVE  phase[c] # "idle" /\ \E p : phase' = [phase EXCEPT ![c] = p]
      BY <3>2 DEF RouterStep, Skip, Send, Reply, Answer, Refusal, MoveOn
    <3>3. ASSUME NEW n \in Names, Lapse(n) PROVE phase' = phase
      BY <3>3 DEF Lapse, requestVars
    <3>4. \A c \in Callers : phase'[c] # "idle" => phase[c] # "idle"
      BY <2>3, <3>2, <3>3 DEF RouterNext, RouteInv
    <3> QED BY <3>1, <3>4, StillAsking
  <2> QED BY <2>1, <2>2, <2>3, BeginsAsk, MissionAsks DEF Next
<1> QED BY <1>1, <1>2, RouterInvariant, ConversationInvariant, PTL DEF Spec

-----------------------------------------------------------------------------
(* Types *)

CountsInv ==
    /\ failures \in [Names -> 0 .. Threshold]
    /\ requests \in 0 .. MaxRequests /\ reboots \in 0 .. MaxReboots

\* The router counts failures up to three, and makes no requests of its own.
LEMMA RouterCountsUp ==
    ASSUME CountsInv, RouteInv, RouterNext
    PROVE  CountsInv'
<1>1. reboots' = reboots
  BY DEF RouterNext, missionVars
<1>2. ASSUME NEW c \in Callers, Skip(c) \/ Send(c) PROVE CountsInv'
  BY <1>1, <1>2 DEF Skip, Send, breakerVars, CountsInv
<1>3. ASSUME NEW c \in Callers, Reply(c) PROVE CountsInv'
  <2>1. requests' = requests
    BY <1>3 DEF Reply, Answer, Refusal
  <2>2. PICK n : RecordSuccess(n) \/ RecordFailure(n)
    BY <1>3 DEF Reply, Answer, Refusal
  <2>3. failures' \in [Names -> 0 .. Threshold]
    BY <2>2 DEF RecordSuccess, RecordFailure, Threshold, CountsInv
  <2> QED BY <1>1, <2>1, <2>3 DEF CountsInv
<1>4. ASSUME NEW n \in Names, Lapse(n) PROVE CountsInv'
  BY <1>1, <1>4 DEF Lapse, CountsInv
<1> QED BY <1>2, <1>3, <1>4 DEF RouterNext, RouterStep

LEMMA MissionCountsUp ==
    ASSUME CountsInv, NEW m \in Missions,
           \/ BeginPlan(m) \/ BeginInputs(m) \/ BeginReplan(m) \/ BeginReflection(m)
           \/ TaskStep(m) \/ Extend(m)
    PROVE  CountsInv'
<1> USE DEF CountsInv, breakerVars, routerVars, missionVars
<1>1. CASE BeginPlan(m) \/ BeginInputs(m) \/ BeginReplan(m) \/ BeginReflection(m)
  <2>1. reboots' = reboots
    BY <1>1 DEF BeginPlan, BeginInputs, BeginReplan, BeginReflection
  <2>2. PICK c, req : Ask(c, req)
    BY <1>1, BeginAsks
  <2> QED BY <2>1, <2>2 DEF Ask
<1>2. CASE PlanInvalid(m) \/ PlanFails(m) \/ PlanArrives(m) \/ InputsArrive(m)
  BY <1>2 DEF PlanInvalid, PlanFails, PlanArrives, InputsArrive, Consume
<1>3. CASE WaveEnds(m) \/ ReplanStops(m) \/ ReplanAdds(m) \/ ReflectionArrives(m)
  BY <1>3 DEF WaveEnds, ReplanStops, ReplanAdds, ReflectionArrives, Consume
<1>4. CASE Summarize(m) \/ Extend(m)
  BY <1>4 DEF Summarize, Extend
<1> QED BY <1>1, <1>2, <1>3, <1>4 DEF TaskStep

LEMMA CountsInvariant == Spec => []CountsInv
<1>1. Init => CountsInv
  BY CapAssumption DEF Init, RouterInit, CountsInv, Threshold
<1>2. CountsInv /\ RouteInv /\ [Next]_vars => CountsInv'
  <2> SUFFICES ASSUME CountsInv, RouteInv, [Next]_vars PROVE CountsInv'
    OBVIOUS
  <2>1. CASE MemoryNext \/ UNCHANGED vars
    BY <2>1 DEF MemoryNext, vars, routerVars, breakerVars, missionVars, CountsInv
  <2>2. CASE Reboot
    BY <2>2, CapAssumption DEF Reboot, CountsInv, Threshold
  <2> QED BY <2>1, <2>2, RouterCountsUp, MissionCountsUp DEF Next
<1> QED BY <1>1, <1>2, RouterInvariant, PTL DEF Spec

\* A row of the memory.
MemoryRow(insight, vector, retired) == [insight |-> insight, vector |-> vector, retired |-> retired]
IsMemoryRow(row) == \E insight : \E vector \in Dims, retired \in BOOLEAN : row = MemoryRow(insight, vector, retired)

LEMMA RowChanges ==
    ASSUME NEW insight, NEW vector, NEW retired, NEW row, row = MemoryRow(insight, vector, retired)
    PROVE  /\ row.vector = vector /\ row.retired = retired
           /\ \A d : [row EXCEPT !.vector = d] = MemoryRow(insight, d, retired)
           /\ \A b : [row EXCEPT !.retired = b] = MemoryRow(insight, vector, b)
BY DEF MemoryRow

MemoryInv ==
    /\ TableInv /\ Len(memory) \in 0 .. MaxMemory
    /\ backfills \subseteq DOMAIN memory /\ dim \in Dims
    /\ \A i \in DOMAIN memory : IsMemoryRow(memory[i])

\* A row is added, without a vector, while there is room.
LEMMA LearnTyped ==
    ASSUME MemoryInv, NEW insight, Learn(insight)
    PROVE  MemoryInv'
<1>1. PICK S : memory \in Seq(S)
  BY DEF MemoryInv, TableInv
<1> DEFINE row == [insight |-> insight, vector |-> 0, retired |-> FALSE]
<1>2. IsMemoryRow(row)
  <2> DEFINE no == FALSE
  <2>1. no \in BOOLEAN /\ 0 \in Dims
    BY MemoryAssumption
  <2> HIDE DEF no
  <2>2. IsMemoryRow(MemoryRow(insight, 0, no))
    BY <2>1, Zenon DEF IsMemoryRow
  <2> QED BY <2>2 DEF no, MemoryRow
<1>3. /\ Len(memory) < MaxMemory /\ memory' = Append(memory, row) /\ dim' = dim
      /\ backfills' \subseteq backfills \cup {Len(memory) + 1}
  BY DEF Learn
<1> HIDE DEF row
<1>4. memory \in Seq(S \cup {row})
  BY <1>1, SeqMonotonic
<1>5. /\ memory' \in Seq(S \cup {row}) /\ Len(memory') = Len(memory) + 1
      /\ \A i \in 1 .. Len(memory) : memory'[i] = memory[i]
      /\ memory'[Len(memory) + 1] = row
  BY <1>3, <1>4, AppendProperties
<1>6. /\ Len(memory) \in Nat /\ DOMAIN memory = 1 .. Len(memory)
      /\ DOMAIN memory' = 1 .. Len(memory) + 1
  BY <1>1, <1>5, LenProperties
<1>7. \A i \in DOMAIN memory' : IsMemoryRow(memory'[i])
  BY <1>2, <1>5, <1>6 DEF MemoryInv
<1>8. TableInv' /\ Len(memory') \in 0 .. MaxMemory
  BY <1>3, <1>5, <1>6, MemoryAssumption DEF TableInv
<1>9. backfills' \subseteq DOMAIN memory' /\ dim' \in Dims
  BY <1>3, <1>6 DEF MemoryInv
<1> QED BY <1>7, <1>8, <1>9 DEF MemoryInv, IsMemoryRow

\* A row changes in place: the embedder's vector, or its retirement.
LEMMA ChangeTyped ==
    ASSUME MemoryInv, NEW i \in DOMAIN memory, NEW row, IsMemoryRow(row),
           memory' = [memory EXCEPT ![i] = row], backfills' \subseteq backfills, dim' = dim
    PROVE  MemoryInv'
<1>1. TableInv'
  BY ChangeKeeps DEF MemoryInv
<1>2. DOMAIN memory' = DOMAIN memory
  OBVIOUS
<1>3. Len(memory') = Len(memory)
  BY <1>1, <1>2, LenProperties DEF MemoryInv, TableInv
<1>4. \A k \in DOMAIN memory' : IsMemoryRow(memory'[k])
  BY <1>2 DEF MemoryInv
<1> QED BY <1>1, <1>2, <1>3, <1>4 DEF MemoryInv, IsMemoryRow

LEMMA MemoryInvariant == Spec => []MemoryInv
<1>1. Init => MemoryInv
  BY EmptySeq, MemoryAssumption DEF Init, MemoryInit, MemoryInv, TableInv
<1>2. MemoryInv /\ [Next]_vars => MemoryInv'
  <2> SUFFICES ASSUME MemoryInv, [Next]_vars PROVE MemoryInv'
    OBVIOUS
  <2>1. CASE UNCHANGED memoryVars
    BY <2>1 DEF memoryVars, MemoryInv, TableInv, IsMemoryRow
  <2>2. CASE Reboot
    BY <2>2 DEF Reboot, MemoryRestart, MemoryInv, TableInv, IsMemoryRow
  <2>3. ASSUME NEW i \in DOMAIN memory, Backfill(i) \/ Retire(i) PROVE MemoryInv'
    <3>1. PICK insight : \E vector \in Dims, retired \in BOOLEAN : memory[i] = MemoryRow(insight, vector, retired)
      BY DEF MemoryInv, IsMemoryRow
    <3>2. PICK vector \in Dims, retired \in BOOLEAN : memory[i] = MemoryRow(insight, vector, retired)
      BY <3>1
    <3> DEFINE yes == TRUE
               row == memory[i]
    <3>3. yes \in BOOLEAN /\ dim \in Dims
      BY DEF MemoryInv
    <3>4. \/ memory' = memory
          \/ memory' = [memory EXCEPT ![i] = [row EXCEPT !.vector = dim]]
          \/ memory' = [memory EXCEPT ![i] = [row EXCEPT !.retired = yes]]
      BY <2>3 DEF Backfill, Retire
    <3>5. backfills' \subseteq backfills /\ dim' = dim
      BY <2>3 DEF Backfill, Retire
    <3> HIDE DEF yes, row
    <3>6. row = MemoryRow(insight, vector, retired)
      BY <3>2 DEF row
    <3>7. /\ [row EXCEPT !.vector = dim] = MemoryRow(insight, dim, retired)
          /\ [row EXCEPT !.retired = yes] = MemoryRow(insight, vector, yes)
      BY <3>6, RowChanges
    <3>8. IsMemoryRow([row EXCEPT !.vector = dim]) /\ IsMemoryRow([row EXCEPT !.retired = yes])
      BY <3>2, <3>3, <3>7, Zenon DEF IsMemoryRow
    <3>9. CASE memory' = memory
      BY <3>5, <3>9 DEF MemoryInv, TableInv, IsMemoryRow
    <3> QED BY <3>4, <3>5, <3>8, <3>9, ChangeTyped
  <2>4. ASSUME NEW m \in Missions, ReflectionArrives(m) PROVE MemoryInv'
    BY <2>1, <2>4, LearnTyped DEF ReflectionArrives
  <2>5. ASSUME NEW m \in Missions,
               \/ BeginPlan(m) \/ BeginInputs(m) \/ BeginReplan(m) \/ BeginReflection(m)
               \/ PlanInvalid(m) \/ PlanFails(m) \/ PlanArrives(m) \/ InputsArrive(m) \/ WaveEnds(m)
               \/ ReplanStops(m) \/ ReplanAdds(m) \/ Summarize(m) \/ Extend(m)
        PROVE  UNCHANGED memoryVars
    BY <2>5 DEF BeginPlan, BeginInputs, BeginReplan, BeginReflection, PlanInvalid, PlanFails,
                PlanArrives, InputsArrive, WaveEnds, ReplanStops, ReplanAdds, Summarize, Extend
  <2>6. CASE RouterNext \/ UNCHANGED vars
    BY <2>1, <2>6 DEF RouterNext, vars, memoryVars
  <2> QED BY <2>1, <2>2, <2>3, <2>4, <2>5, <2>6 DEF Next, MemoryNext, TaskStep
<1> QED BY <1>1, <1>2, PTL DEF Spec

\* Every variable stays in its type, for any configuration, any number of missions
\* and whatever is answered: requests at providers there are, breakers' counts up to
\* three, embedding tasks of rows there are, no more rounds than REPLAN_CAP.
THEOREM TypeCorrect ==
    ASSUME RepliesTyped
    PROVE  Spec => []TypeOK
<1>1. ASSUME RouteInv, BreakerInv, CostInv, ConversationInv, GotInv, GoalsInv, CountsInv, StageInv, MemoryInv
      PROVE  TypeOK
  <2>1. \A i \in DOMAIN memory : memory[i].vector \in Dims /\ memory[i].retired \in BOOLEAN
    <3> SUFFICES ASSUME NEW i \in DOMAIN memory
                 PROVE  memory[i].vector \in Dims /\ memory[i].retired \in BOOLEAN
      OBVIOUS
    <3>1. PICK insight : \E vector \in Dims, retired \in BOOLEAN : memory[i] = MemoryRow(insight, vector, retired)
      BY <1>1 DEF MemoryInv, IsMemoryRow
    <3>2. PICK vector \in Dims, retired \in BOOLEAN : memory[i] = MemoryRow(insight, vector, retired)
      BY <3>1
    <3>3. memory[i].vector = vector /\ memory[i].retired = retired
      BY <3>2, RowChanges
    <3> QED BY <3>2, <3>3, Zenon
  <2>2. /\ failures \in [Names -> 0 .. Threshold] /\ open \subseteq Names
        /\ requests \in 0 .. MaxRequests /\ reboots \in 0 .. MaxReboots
    BY <1>1 DEF BreakerInv, CountsInv
  <2>3. /\ at \in [Callers -> Nat] /\ phase \in [Callers -> Phases]
        /\ \A c \in Callers : phase[c] \in {"routing", "waiting", "answered"} => at[c] \in DOMAIN Providers
        /\ DOMAIN conv = Callers /\ DOMAIN got = Callers
    BY <1>1 DEF RouteInv, ConversationInv, GotInv
  <2>4. /\ costs \in [Missions -> Nat] /\ summed \in [Missions -> Nat] /\ answers \in [Missions -> Nat]
        /\ allocated \in [Missions -> Nat]
    BY <1>1 DEF CostInv, GoalsInv
  <2>5. Len(memory) \in 0 .. MaxMemory /\ backfills \subseteq DOMAIN memory /\ dim \in Dims
    BY <1>1 DEF MemoryInv
  <2>6. /\ stage \in [Missions -> Stages] /\ attempt \in [Missions -> Nat \ {0}]
        /\ \A m \in Missions : /\ stage[m] = "planning" => attempt[m] <= 2
                               /\ stage[m] \in {"wave", "replan"} => attempt[m] <= ReplanCap
    BY <1>1 DEF StageInv, Rounds
  <2> QED BY <2>1, <2>2, <2>3, <2>4, <2>5, <2>6, Zenon DEF TypeOK
<1> QED BY <1>1, RouterInvariant, CostInvariant, ConversationInvariant, GotInvariant, GoalsInvariant,
           CountsInvariant, StageInvariant, MemoryInvariant, PTL

=============================================================================
