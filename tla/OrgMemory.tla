------------------------------ MODULE OrgMemory ------------------------------
(***************************************************************************)
(* Organizational memory: what reflections taught, and what a mission's    *)
(* planner is reminded of (crates/forge-mission, the org_memory table of   *)
(* crates/forge-persistence, the embedding adapters of crates/forge-llm).  *)
(*                                                                         *)
(* A row is stored without its vector; a task spawned for it asks the      *)
(* embedder and stores the vector later, or never.  Recall goes by the     *)
(* vectors first and by keywords when they yield nothing.  The embedder is *)
(* chosen at boot: vectors of another dimension are passed over.           *)
(***************************************************************************)
EXTENDS Naturals, Sequences, FiniteSets

CONSTANTS
    Score,          \* cosine of a mission's text and an insight's, in percent
    Shares,         \* <<mission, insight>>: they share a keyword
    Dims,           \* the dimensions an embedder may have; 0 is no embedder
    RecallLimit,    \* rows recalled at most
    MaxMemory       \* bound: rows

ASSUME MemoryAssumption ==
    /\ Dims \subseteq Nat /\ 0 \in Dims
    /\ RecallLimit \in Nat \ {0} /\ MaxMemory \in Nat

VARIABLES
    memory,         \* org_memory, in the order of its ids
    backfills,      \* rows whose embedding task has not ended
    dim             \* the embedder's dimension, or 0

memoryVars == <<memory, backfills, dim>>

Noise == 20

MemoryInit ==
    /\ memory = << >>
    /\ backfills = {}
    /\ dim \in Dims

Active(i) == ~memory[i].retired

\* insert, without a vector, and the spawned task.
Learn(insight) ==
    /\ Len(memory) < MaxMemory
    /\ memory' = Append(memory, [insight |-> insight, vector |-> 0, retired |-> FALSE])
    /\ backfills' = IF dim = 0 THEN backfills ELSE backfills \cup {Len(memory) + 1}
    /\ UNCHANGED dim

\* embed: a status, a decoding or a dimension that is not right is an error.
EmbedOutcome(got) == IF got = dim THEN "vector" ELSE "error"

\* The task ends: set_embedding, unless the embedder or the write failed.
Backfill(i) ==
    /\ i \in backfills
    /\ backfills' = backfills \ {i}
    /\ \E got \in {dim, dim + 1} :
        memory' = IF EmbedOutcome(got) = "vector" THEN [memory EXCEPT ![i].vector = dim] ELSE memory
    /\ UNCHANGED dim

Retire(i) ==
    /\ i \in DOMAIN memory /\ Active(i)
    /\ memory' = [memory EXCEPT ![i].retired = TRUE]
    /\ UNCHANGED <<backfills, dim>>

\* The process is started again, perhaps with another embedder.
MemoryRestart ==
    /\ backfills' = {}
    /\ dim' \in Dims
    /\ UNCHANGED memory

-----------------------------------------------------------------------------
(* Recall *)

\* The first `RecallLimit' rows of a set; ahead has the pairs whose first comes first.
Best(rows, ahead) ==
    {i \in rows : Cardinality({k \in rows : <<k, i>> \in ahead}) < RecallLimit}

\* semantic_search, by score and then in the table's order; the noise is dropped.
Semantic(mission) ==
    LET score(i) == Score[mission, memory[i].insight]
        candidates == {i \in DOMAIN memory : Active(i) /\ memory[i].vector = dim /\ dim # 0}
        better == {p \in candidates \X candidates :
                      \/ score(p[1]) > score(p[2])
                      \/ score(p[1]) = score(p[2]) /\ p[1] < p[2]}
    IN  {i \in Best(candidates, better) : score(i) >= Noise}

\* search: the newest rows that share a keyword.
Keyword(mission) ==
    LET sharing == {i \in DOMAIN memory : Active(i) /\ <<mission, memory[i].insight>> \in Shares}
        newer == {p \in sharing \X sharing : p[1] > p[2]}
    IN  Best(sharing, newer)

\* What a recall asks; any of them may fail.
RecallCalls == {"embed", "semantic_search", "search"}

BySemantics(mission, works) ==
    IF {"embed", "semantic_search"} \subseteq works /\ dim # 0 THEN Semantic(mission) ELSE {}

\* A search that fails finds nothing.
ByKeywords(mission, works) == IF "search" \in works THEN Keyword(mission) ELSE {}

\* Mutant: keywords are for runtimes without an embedder.
RecallOneWay(mission, works) ==
    IF "embed" \in works /\ dim # 0 THEN BySemantics(mission, works) ELSE ByKeywords(mission, works)

\* fetch_org_memory_block; `works': the calls that do not fail.
Recall(mission, works) ==
    IF BySemantics(mission, works) # {} THEN BySemantics(mission, works) ELSE ByKeywords(mission, works)

=============================================================================
