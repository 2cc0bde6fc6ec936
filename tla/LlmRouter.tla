------------------------------ MODULE LlmRouter ------------------------------
(***************************************************************************)
(* crates/forge-llm/src/lib.rs: the router every model call goes through.  *)
(*                                                                         *)
(* A request tries the providers in their order, passing over those whose  *)
(* circuit breaker is open, until one answers.  Requests run concurrently  *)
(* and share the breakers, which go by the provider's NAME, and the cost   *)
(* buckets, which go by the mission.  Time is what makes an open breaker   *)
(* lapse; it does not reset the count of failures behind it.               *)
(***************************************************************************)
EXTENDS LlmProviders

CONSTANTS
    Config,         \* the configured providers, in order: kind and key variable
    Keys,           \* the environment variables that hold a key
    Callers,        \* tasks that make requests
    Missions,
    MissionOf,      \* the mission a caller's requests are attributed to
    Replies,        \* what a provider may send back
    MaxRequests     \* bound: requests

ASSUME RouterAssumption ==
    /\ MissionOf \in [Callers -> Missions]
    /\ MaxRequests \in Nat

ASSUME ConfigAssumption == Config \in Seq([kind : STRING, key : STRING])

VARIABLES
    failures,       \* Breaker::consecutive_failures, up to Threshold
    open,           \* the names whose breaker is open
    at,             \* the provider a request is at
    phase,          \* what the request is doing there
    conv,           \* the request
    got,            \* the answer's content
    costs,          \* the answers counted in each mission's bucket
    summed,         \* the answers a drain has reported
    answers,        \* the answers providers gave, for whatever request
    requests

breakerVars == <<failures, open>>
requestVars == <<at, phase, conv, got>>
costVars    == <<costs, summed, answers>>
routerVars  == <<breakerVars, requestVars, costVars, requests>>

Threshold == 3

\* Runtime::boot: a provider whose key is missing is left out; those that run
\* locally need none.  LM Studio and vLLM are reached through OpenAI's adapter
\* under names of their own.
NeedsKey(kind) == kind \notin {"ollama", "lmstudio", "vllm"}
Providers == Kept(Config, {i \in DOMAIN Config : NeedsKey(Config[i].kind) => Config[i].key \in Keys})

Name(p) == Providers[p].kind
Dialect(p) == IF Name(p) \in {"lmstudio", "vllm"} THEN "openai" ELSE Name(p)
Names == {Name(p) : p \in DOMAIN Providers}
Phases == {"idle", "routing", "waiting", "answered", "failed"}
NoContent == << >>
NoRequest == [messages |-> << >>, limit |-> NoLimit, json |-> FALSE]

RouterInit ==
    /\ failures = [n \in Names |-> 0]
    /\ open = {}
    /\ at = [c \in Callers |-> 1]
    /\ phase = [c \in Callers |-> "idle"]
    /\ conv = [c \in Callers |-> NoRequest]
    /\ got = [c \in Callers |-> NoContent]
    /\ costs = [m \in Missions |-> 0]
    /\ summed = [m \in Missions |-> 0]
    /\ answers = [m \in Missions |-> 0]
    /\ requests = 0

-----------------------------------------------------------------------------

\* The call.  Without any provider it fails at once.
Ask(c, req) ==
    /\ phase[c] = "idle" /\ requests < MaxRequests
    /\ requests' = requests + 1
    /\ phase' = [phase EXCEPT ![c] = IF Providers = << >> THEN "failed" ELSE "routing"]
    /\ at' = [at EXCEPT ![c] = 1]
    /\ conv' = [conv EXCEPT ![c] = req]
    /\ UNCHANGED <<breakerVars, got, costVars>>

\* On to the next provider, or out of providers.
MoveOn(c) ==
    IF at[c] < Len(Providers)
    THEN /\ at' = [at EXCEPT ![c] = @ + 1]
         /\ phase' = [phase EXCEPT ![c] = "routing"]
    ELSE /\ phase' = [phase EXCEPT ![c] = "failed"]
         /\ UNCHANGED at

IsOpen(p) == Name(p) \in open

\* Mutant: a provider whose breaker is open ends the search.
SkipEnds(c) ==
    /\ phase[c] = "routing" /\ IsOpen(at[c])
    /\ phase' = [phase EXCEPT ![c] = "routing"]
    /\ UNCHANGED <<breakerVars, at, conv, got, costVars, requests>>

Skip(c) ==
    /\ phase[c] = "routing" /\ IsOpen(at[c])
    /\ MoveOn(c)
    /\ UNCHANGED <<breakerVars, conv, got, costVars, requests>>

\* on_request, then the provider's call.
Send(c) ==
    /\ phase[c] = "routing" /\ ~IsOpen(at[c])
    /\ phase' = [phase EXCEPT ![c] = "waiting"]
    /\ UNCHANGED <<breakerVars, at, conv, got, costVars, requests>>

\* Mutant: only the count is reset.
RecordSuccessLate(name) ==
    /\ failures' = [failures EXCEPT ![name] = 0]
    /\ UNCHANGED open

RecordSuccess(name) ==
    /\ failures' = [failures EXCEPT ![name] = 0]
    /\ open' = open \ {name}

RecordFailure(name) ==
    /\ failures' = [failures EXCEPT ![name] = IF @ < Threshold THEN @ + 1 ELSE @]
    /\ open' = IF failures'[name] >= Threshold THEN open \cup {name} ELSE open

\* An answer: the breaker closes, the mission's bucket, made if it is not
\* there, counts it; on_response.
Answer(c, outcome) ==
    /\ outcome.ok
    /\ RecordSuccess(Name(at[c]))
    /\ costs' = [costs EXCEPT ![MissionOf[c]] = @ + 1]
    /\ answers' = [answers EXCEPT ![MissionOf[c]] = @ + 1]
    /\ got' = [got EXCEPT ![c] = outcome.content]
    /\ phase' = [phase EXCEPT ![c] = "answered"]
    /\ UNCHANGED <<at, conv, summed, requests>>

\* A failure: the breaker counts it; on_failure; the next provider.
Refusal(c, outcome) ==
    /\ ~outcome.ok
    /\ RecordFailure(Name(at[c]))
    /\ MoveOn(c)
    /\ UNCHANGED <<conv, got, costVars, requests>>

Reply(c) ==
    /\ phase[c] = "waiting"
    /\ \E reply \in Replies :
        LET outcome == Outcome(Dialect(at[c]), reply)
        IN  Answer(c, outcome) \/ Refusal(c, outcome)

\* Thirty seconds are over.
Lapse(name) ==
    /\ name \in open
    /\ open' = open \ {name}
    /\ UNCHANGED <<failures, requestVars, costVars, requests>>

\* The caller has its result; the task is free for its next request.
Consume(c) ==
    /\ phase' = [phase EXCEPT ![c] = "idle"]
    /\ conv' = [conv EXCEPT ![c] = NoRequest]
    /\ got' = [got EXCEPT ![c] = NoContent]
    /\ at' = [at EXCEPT ![c] = 1]
    /\ UNCHANGED <<breakerVars, costVars, requests>>

\* Mutant: the bucket is read and left in place.
DrainKeeps(m) ==
    /\ costs' = costs
    /\ summed' = [summed EXCEPT ![m] = @ + costs[m]]
    /\ UNCHANGED answers

\* drain_mission_cost: the bucket goes, its totals are reported.
Drain(m) ==
    /\ costs' = [costs EXCEPT ![m] = 0]
    /\ summed' = [summed EXCEPT ![m] = @ + costs[m]]
    /\ UNCHANGED answers

RouterStep(c) == Skip(c) \/ Send(c) \/ Reply(c)

=============================================================================
