---------------------------- MODULE LlmProviders ----------------------------
(***************************************************************************)
(* crates/forge-llm's adapters: how each of them words a CompletionRequest *)
(* for its service, and what it makes of the service's reply.              *)
(*                                                                         *)
(* A MESSAGE has a role and a text.  A reply is "unsent" (no connection,   *)
(* timeout), "refused" (a status that is not a success), "garbled", an     *)
(* "error" object, or a list of "parts": choices, content blocks or        *)
(* candidates.  A part is the sequence of texts it holds: none for an      *)
(* empty string, <<Null>> for null.                                        *)
(***************************************************************************)
EXTENDS Naturals, Sequences, FiniteSets, SequencesExt

Dialects == {"openai", "azure", "groq", "openrouter", "ollama", "anthropic", "gemini", "mock"}

Message(role, text) == [role |-> role, text |-> text]

Null == [what |-> "null"]

\* The sentence that asks for JSON where the service has no switch for it.
JsonHint == [what |-> "json hint"]

NoLimit == 0
DefaultLimit == 4096

-----------------------------------------------------------------------------
(* Requests.  A body has the text beside the conversation, the turns of the
   conversation, the limit on the answer, and whether JSON mode is switched on. *)

\* OpenAI, Groq and OpenRouter take the messages as they are; Azure's address
\* names the model.
OpenAiBody(req) ==
    [system |-> << >>, turns |-> req.messages, limit |-> req.limit, json |-> req.json]

\* Ollama's options carry the temperature only.
OllamaBody(req) == [OpenAiBody(req) EXCEPT !.limit = NoLimit]

\* What a filter keeps of a list: what is at the places that pass, in the list's order.
Rank(i, places) == Cardinality({j \in places : j <= i})
Kept(list, places) ==
    [k \in 1 .. Cardinality(places) |-> list[CHOOSE i \in places : Rank(i, places) = k]]

Turns(messages) == Kept(messages, {i \in DOMAIN messages : messages[i].role # "system"})

Systems(messages) == Kept(messages, {i \in DOMAIN messages : messages[i].role = "system"})
Texts(messages) == [i \in DOMAIN messages |-> messages[i].text]

\* Every system message, wherever it stands, and the hint.
Hoisted(req) == Texts(Systems(req.messages)) \o IF req.json THEN <<JsonHint>> ELSE << >>

\* Roles the service does not know become the user's.
Recast(messages, names) ==
    [i \in DOMAIN messages |->
        [messages[i] EXCEPT !.role = IF @ \in DOMAIN names THEN names[@] ELSE "user"]]

AnthropicBody(req) ==
    [system |-> Hoisted(req),
     turns  |-> Recast(Turns(req.messages), [user |-> "user", assistant |-> "assistant"]),
     limit  |-> IF req.limit = NoLimit THEN DefaultLimit ELSE req.limit,
     json   |-> FALSE]

\* Mutant: the model's own turns are taken for a role Gemini does not know.
GeminiBodyOneVoice(req) ==
    [system |-> Hoisted(req),
     turns  |-> Recast(Turns(req.messages), [user |-> "user", model |-> "model"]),
     limit  |-> req.limit,
     json   |-> req.json]

GeminiBody(req) ==
    [system |-> Hoisted(req),
     turns  |-> Recast(Turns(req.messages),
                       [user |-> "user", assistant |-> "model", model |-> "model"]),
     limit  |-> req.limit,
     json   |-> req.json]

Body(dialect, req) ==
    CASE dialect = "anthropic" -> AnthropicBody(req)
      [] dialect = "gemini"    -> GeminiBody(req)
      [] dialect = "ollama"    -> OllamaBody(req)
      [] OTHER                 -> OpenAiBody(req)

-----------------------------------------------------------------------------
(* Replies *)

Answered(content) == [ok |-> TRUE, content |-> content]
Failed(error) == [ok |-> FALSE, error |-> error]

\* What all adapters make of a reply without parts.  An error object alone is a
\* parse error where the list of choices is mandatory.
NoParts(reply, choicesMandatory) ==
    CASE reply.kind = "unsent"  -> Failed("Http")
      [] reply.kind = "refused" -> Failed("Provider")
      [] reply.kind = "error"   -> Failed(IF choicesMandatory THEN "InvalidResponse" ELSE "Provider")
      [] OTHER                  -> Failed("InvalidResponse")

\* The first choice counts.  It may be empty; null is an error.
FirstChoice(parts) ==
    IF parts = << >> \/ parts[1] = <<Null>> THEN Failed("InvalidResponse") ELSE Answered(parts[1])

OpenAiOutcome(reply) ==
    IF reply.kind = "parts" THEN FirstChoice(reply.parts) ELSE NoParts(reply, TRUE)

AzureOutcome(reply) ==
    IF reply.kind = "parts" THEN FirstChoice(reply.parts) ELSE NoParts(reply, FALSE)

\* The content is mandatory: a null in any choice spoils the reply.
AllChoices(parts) ==
    IF \E i \in DOMAIN parts : parts[i] = <<Null>> THEN Failed("InvalidResponse")
    ELSE FirstChoice(parts)

GroqOutcome(reply) ==
    IF reply.kind = "parts" THEN AllChoices(reply.parts) ELSE NoParts(reply, TRUE)

OpenRouterOutcome(reply) ==
    IF reply.kind = "parts" THEN AllChoices(reply.parts) ELSE NoParts(reply, TRUE)

OllamaOutcome(reply) ==
    IF reply.kind = "parts" THEN FirstChoice(reply.parts) ELSE NoParts(reply, FALSE)

\* All texts together; here nothing is an error.
JoinedOutcome(reply) ==
    IF reply.kind # "parts" THEN NoParts(reply, FALSE)
    ELSE LET texts == FlattenSeq(SelectSeq(reply.parts, LAMBDA p : p # <<Null>>))
         IN  IF texts = << >> THEN Failed("InvalidResponse") ELSE Answered(texts)

AnthropicOutcome(reply) == JoinedOutcome(reply)
GeminiOutcome(reply) == JoinedOutcome(reply)

\* The tests' provider replays what it was given.
MockOutcome(reply) ==
    IF reply.kind = "parts" THEN FirstChoice(reply.parts) ELSE Failed("Provider")

Outcome(dialect, reply) ==
    CASE dialect = "openai"     -> OpenAiOutcome(reply)
      [] dialect = "azure"      -> AzureOutcome(reply)
      [] dialect = "groq"       -> GroqOutcome(reply)
      [] dialect = "openrouter" -> OpenRouterOutcome(reply)
      [] dialect = "ollama"     -> OllamaOutcome(reply)
      [] dialect = "anthropic"  -> AnthropicOutcome(reply)
      [] dialect = "gemini"     -> GeminiOutcome(reply)
      [] dialect = "mock"       -> MockOutcome(reply)

-----------------------------------------------------------------------------
(* What the model at the other end reads: the reference for the bodies *)

\* "model" and "assistant" are the same voice.
Voiced(messages) ==
    [i \in DOMAIN messages |->
        [messages[i] EXCEPT !.role = IF @ = "model" THEN "assistant" ELSE @]]

\* The conversation as the model takes it in: what it was told by the operator,
\* then who said what.
ReadBody(body) ==
    [told |-> Texts(Systems(body.turns))
              \o Kept(body.system, {i \in DOMAIN body.system : body.system[i] # JsonHint}),
     said |-> Voiced(Turns(body.turns)),
     json |-> body.json \/ \E i \in DOMAIN body.system : body.system[i] = JsonHint]

=============================================================================
