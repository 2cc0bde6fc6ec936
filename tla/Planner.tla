------------------------------- MODULE Planner -------------------------------
(***************************************************************************)
(* crates/forge-planner: the prompts, and what is made of the answers.     *)
(*                                                                         *)
(* A CONTENT is what LlmProviders makes of an answer: a sequence of texts. *)
(* Code fences around it are stripped before it is read.  A text that is a *)
(* JSON object is one of                                                   *)
(*    [what |-> "goals",  goals, terminate]  a plan or a replan's delta    *)
(*    [what |-> "inputs", index]             final inputs, by their index  *)
(*    [what |-> "review", insights]          a reflection                  *)
(*    [what |-> "object"]                    none of these fields          *)
(* and anything else is not JSON.  A raw goal has an id, the ids it        *)
(* depends on and its tasks' tools; an id is a short name or a goal row's. *)
(***************************************************************************)
EXTENDS Naturals, Sequences, FiniteSets, SequencesExt

Short(name) == [short |-> name]
RowId(n) == [row |-> n]
IsRowId(id) == "row" \in DOMAIN id

Read(value) == [ok |-> TRUE, value |-> value]
Refused(error) == [ok |-> FALSE, error |-> error]

\* serde on the stripped content: the object, if it has the fields.
Holds(content, what) == Len(content) = 1 /\ content[1].what = what

-----------------------------------------------------------------------------
(* Prompts *)

\* The schemas, the memory block if there is one, the playbooks.
SystemPrompt(memory, playbooks) ==
    [what |-> "plan_prompt", memory |-> memory, playbooks |-> playbooks]

ReplanSystemPrompt(memory, playbooks) ==
    [what |-> "replan_prompt", memory |-> memory, playbooks |-> playbooks]

UserPrompt(mission) == [what |-> "brief", mission |-> mission]

\* The rows as they are, so that the model can name them.
ReplanUserPrompt(mission, rows) == [what |-> "state", mission |-> mission, rows |-> rows]

Said(content) == [what |-> "said", content |-> content]
Complaint(error, content) == [what |-> "complaint", error |-> error, about |-> content]

-----------------------------------------------------------------------------
(* Reading a plan *)

KnownTools(goals, tools) == \A i \in DOMAIN goals : goals[i].tools \subseteq tools

IdsOf(goals) == {goals[i].id : i \in DOMAIN goals}

\* parse_and_validate.  Cycles and ids given twice go through.
ParsePlan(content, tools) ==
    IF ~Holds(content, "goals") THEN Refused("ParseJson")
    ELSE LET goals == content[1].goals IN
         IF goals = << >> THEN Refused("Empty")
         ELSE IF ~KnownTools(goals, tools) THEN Refused("Invalid")
         ELSE IF \E i \in DOMAIN goals : ~(goals[i].deps \subseteq IdsOf(goals)) THEN Refused("Invalid")
         ELSE Read(goals)

\* parse_replan.  Every field has a default: an object is an empty delta.
ParseReplan(content, tools) ==
    IF Holds(content, "object") THEN Read([terminate |-> FALSE, goals |-> << >>])
    ELSE IF ~Holds(content, "goals") THEN Refused("ParseJson")
    ELSE IF ~KnownTools(content[1].goals, tools) THEN Refused("Invalid")
    ELSE Read([terminate |-> content[1].terminate, goals |-> content[1].goals])

\* Mutant: the inputs are taken in the order of the answer.
ParseInputsInOrder(content, expected) ==
    IF ~Holds(content, "inputs") THEN Refused("ParseJson")
    ELSE IF Len(content[1].index) # expected THEN Refused("Invalid")
    ELSE Read([i \in 0 .. expected - 1 |-> i + 1])

\* parse_materialize: the right number, each index in range and given once.
ParseInputs(content, expected) ==
    IF ~Holds(content, "inputs") THEN Refused("ParseJson")
    ELSE LET index == content[1].index IN
         IF \/ Len(index) # expected
            \/ \E i \in DOMAIN index : index[i] >= expected
            \/ ~IsInjective(index)
         THEN Refused("Invalid")
         ELSE Read([i \in 0 .. expected - 1 |-> CHOOSE k \in DOMAIN index : index[k] = i])

\* strip_fences and serde: the lists are mandatory.
ParseReflection(content) ==
    IF Holds(content, "review") THEN Read(content[1].insights) ELSE Refused("ParseJson")

-----------------------------------------------------------------------------
(* Goal rows from raw goals.  `base' rows have been allocated before; the raw
   goal at i is allocated base + i, and an id that is given twice belongs to
   the last goal that has it. *)

RowFor(goals, id, base) ==
    base + CHOOSE i \in DOMAIN goals :
              /\ goals[i].id = id
              /\ \A k \in DOMAIN goals : goals[k].id = id => k <= i

\* materialize: ids of the plan itself.
PlanRows(goals, base) ==
    [i \in DOMAIN goals |->
        [row |-> RowFor(goals, goals[i].id, base),
         deps |-> {RowFor(goals, d, base) : d \in goals[i].deps \cap IdsOf(goals)}]]

\* materialize_delta: what parses as a row's id is one, whether or not there is
\* such a row; other ids are siblings', or dropped.
DeltaRows(goals, base) ==
    [i \in DOMAIN goals |->
        [row |-> RowFor(goals, goals[i].id, base),
         deps |-> {d.row : d \in {e \in goals[i].deps : IsRowId(e)}}
                  \cup {RowFor(goals, d, base) :
                            d \in {e \in goals[i].deps \cap IdsOf(goals) : ~IsRowId(e)}}]]

\* persist_new_goal, goal by goal: the rows inserted, and whether all were.  The
\* id is the primary key: a second row with the same id is an error.
Inserted(new, old) ==
    LET taken(i) == \/ \E r \in old : r.row = new[i].row
                    \/ \E k \in 1 .. i - 1 : new[k].row = new[i].row
        clashes  == {i \in DOMAIN new : taken(i)}
        first    == IF clashes = {} THEN Len(new) + 1
                    ELSE CHOOSE i \in clashes : \A k \in clashes : i <= k
    IN  [rows |-> old \cup {new[i] : i \in 1 .. first - 1}, whole |-> clashes = {}]

=============================================================================
