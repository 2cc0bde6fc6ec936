----------------------------- MODULE RequestReply -----------------------------
(***************************************************************************)
(* What a caller of a remote procedure may rely on: a call returns with    *)
(* the answer to the request it made, given after it was made, or with an  *)
(* error; never with another request's answer.                             *)
(***************************************************************************)
EXTENDS Naturals

CONSTANTS
    Callers,
    MaxAsks         \* bound: calls of each caller

VARIABLES
    asked,          \* how many calls a caller has made
    outcome,        \* "idle", "asked", "answer" or "error"
    answered        \* <<caller, number>>: the requests that were answered

rrVars == <<asked, outcome, answered>>

Init ==
    /\ asked = [c \in Callers |-> 0]
    /\ outcome = [c \in Callers |-> "idle"]
    /\ answered = {}

Ask(c) ==
    /\ outcome[c] # "asked" /\ asked[c] < MaxAsks[c]
    /\ asked' = [asked EXCEPT ![c] = @ + 1]
    /\ outcome' = [outcome EXCEPT ![c] = "asked"]
    /\ UNCHANGED answered

Answer(c, n) ==
    /\ n \in 1 .. asked[c]
    /\ answered' = answered \cup {<<c, n>>}
    /\ UNCHANGED <<asked, outcome>>

Return(c) ==
    /\ outcome[c] = "asked"
    /\ \/ /\ <<c, asked[c]>> \in answered
          /\ outcome' = [outcome EXCEPT ![c] = "answer"]
       \/ outcome' = [outcome EXCEPT ![c] = "error"]
    /\ UNCHANGED <<asked, answered>>

Next ==
    \E c \in Callers :
        \/ Ask(c) \/ Return(c)
        \/ \E n \in 1 .. MaxAsks[c] : Answer(c, n)

Spec == Init /\ [][Next]_rrVars

=============================================================================
