------------------------------- MODULE MCSkills -------------------------------
(***************************************************************************)
(* A small instance of SkillLifecycle for TLC: two skills with the same    *)
(* canonical file, one of them with two documents, of which one is a       *)
(* beginning of the other.                                                 *)
(***************************************************************************)
EXTENDS SkillLifecycle

CONSTANTS a1, a2, b1, alpha, beta, shared, u1

TwoNames == [d \in Docs |-> IF d = b1 THEN beta ELSE alpha]
Versions == [d \in Docs |-> 1]
CutDocs == [d \in Docs |-> IF d = a2 THEN {a1} ELSE {}]
OneFile == [n \in {alpha, beta} |-> shared]
BothDuplicates == { {alpha, beta} }

=============================================================================
