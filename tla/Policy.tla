-------------------------------- MODULE Policy --------------------------------
(***************************************************************************)
(* crates/forge-policy: what a task's tool call may do.                    *)
(*                                                                         *)
(* A TEXT is a sequence of words.  A rule is about one tool or any; it may *)
(* require a prefix of an input field, and may object to a pattern in one. *)
(* A field that is missing or is not a string is the empty text.           *)
(***************************************************************************)
EXTENDS Naturals, Sequences, SequencesExt

NoCheck == [field |-> "none"]
AnyTool == <<"any">>

Field(input, name) == IF name \in DOMAIN input THEN input[name] ELSE << >>

\* regex_lite: alternatives of literal text, at the start or anywhere.
Contains_(text, part) == \E i \in 0 .. Len(text) : IsPrefix(part, SubSeq(text, i + 1, Len(text)))

Matches(pattern, text) ==
    \E alt \in pattern.alts : IF pattern.anchored THEN IsPrefix(alt, text) ELSE Contains_(text, alt)

\* A pattern with other metacharacters is no objection.
Objects(check, input) ==
    check # NoCheck /\ check.pattern.supported /\ Matches(check.pattern, Field(input, check.field))

\* "workspace_root" stands for the root.
Prefix(check, root) == IF check.of = <<"workspace_root">> THEN root ELSE check.of

LacksPrefix(check, input, root) ==
    check # NoCheck /\ ~IsPrefix(Prefix(check, root), Field(input, check.field))

Speaks(rule, tool, input, root) ==
    /\ rule.tool \in {AnyTool, tool}
    /\ LacksPrefix(rule.prefix, input, root) \/ Objects(rule.matches, input)

\* The first rule that speaks decides; none does: allow.
Evaluate(rules, tool, input, root) ==
    LET speaking == {i \in DOMAIN rules : Speaks(rules[i], tool, input, root)}
    IN  IF speaking = {} THEN "allow"
        ELSE rules[CHOOSE i \in speaking : \A k \in speaking : i <= k].onFail

=============================================================================
