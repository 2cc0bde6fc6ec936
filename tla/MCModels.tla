------------------------------ MODULE MCModels ------------------------------
(***************************************************************************)
(* A small instance of ModelCalls for TLC: providers of two dialects and   *)
(* what they may send back.                                                *)
(***************************************************************************)
EXTENDS ModelCalls

Entry(kind, key) == [kind |-> kind, key |-> key]

\* OpenAI has no key here: Gemini first, then a local server.
ConfigSeq == << Entry("openai", "OPENAI_KEY"), Entry("gemini", "GEMINI_KEY"), Entry("lmstudio", "NONE") >>

ToolSet == {"fs"}

Goal(id, deps, tools) == [id |-> id, deps |-> deps, tools |-> tools]

GoalsReply(terminate, goals) == [what |-> "goals", terminate |-> terminate, goals |-> goals]

\* A plan; a plan whose ids clash, or the end of the replans; a delta, or a plan
\* with an unknown id.
GoodPlan == GoalsReply(FALSE, << Goal(Short("g1"), {}, {"fs"}), Goal(Short("g2"), {Short("g1")}, {}) >>)
TwicePlan == GoalsReply(TRUE, << Goal(Short("g1"), {}, {}), Goal(Short("g1"), {}, {}) >>)
Delta == GoalsReply(FALSE, << Goal(Short("g3"), {RowId(1), Short("g8")}, {}) >>)
Inputs(index) == [what |-> "inputs", index |-> index]
Review(insight) == [what |-> "review", insights |-> insight]

TextReply(text) == [kind |-> "parts", parts |-> << <<text>> >>]

ReplySet ==
    { [kind |-> "unsent"], TextReply(GoodPlan), TextReply(TwicePlan), TextReply(Delta),
      TextReply(Inputs(<<1, 0>>)), TextReply(Review("i1")) }

ScoreOf == [pair \in {"m1"} \X {"i1"} |-> 80]
SharesOf == {"m1"} \X {"i1"}

=============================================================================
