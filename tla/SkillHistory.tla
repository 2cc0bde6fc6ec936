----------------------------- MODULE SkillHistory -----------------------------
(***************************************************************************)
(* Version control of skills: table skills_history (crates/                *)
(* forge-persistence/src/sqlite.rs) and the content-addressed store        *)
(* (crates/forge-skills/src/versions.rs).                                  *)
(*                                                                         *)
(* A document is a SKILL.md; its sha is the document itself.  Rows are     *)
(* numbered in order of insertion; of a row matter the document, the       *)
(* document it replaced and whether retired_at is still NULL.              *)
(*                                                                         *)
(* A file is written in place (std::fs::write): created empty, then filled. *)
(* Until it is filled, and for good if the write fails or the process ends, *)
(* it holds a beginning of what is written: no skill, or a shorter one of   *)
(* the same name.                                                          *)
(***************************************************************************)
EXTENDS Naturals, Sequences

CONSTANTS
    Docs,           \* SKILL.md documents
    NameOf,         \* the name in a document's front matter
    Beginnings      \* the documents that are beginnings of a document

NoDoc == "no document"
Junk == "no skill"

ASSUME HistoryAssumption ==
    /\ {NoDoc, Junk} \cap Docs = {}
    /\ Beginnings \in [Docs -> SUBSET Docs]
    /\ \A d \in Docs : \A e \in Beginnings[d] : NameOf[e] = NameOf[d]

VARIABLES
    rows,           \* skills_history
    store           \* what the file of a document's sha under history/ holds,
                    \* NoDoc if there is none

Names == {NameOf[d] : d \in Docs}

Row == [doc : Docs, parent : Docs \cup {NoDoc}, live : BOOLEAN]

RowName(i) == NameOf[rows[i].doc]

LiveRows(n) == {i \in DOMAIN rows : RowName(i) = n /\ rows[i].live}

IsActive(n) == LiveRows(n) # {}

\* active: the newest row of the name that is not retired.
ActiveRow(n) == CHOOSE i \in LiveRows(n) : \A j \in LiveRows(n) : j <= i

ActiveDoc(n) == IF IsActive(n) THEN rows[ActiveRow(n)].doc ELSE NoDoc

\* promote: append a row.
Promote(d, p) == rows' = Append(rows, [doc |-> d, parent |-> p, live |-> TRUE])

\* retire_active: nothing to do if no row of the name is active.  The SELECT
\* and the UPDATE of the row it found are one step.
RetireActive(n) ==
    rows' = IF IsActive(n) THEN [rows EXCEPT ![ActiveRow(n)].live = FALSE] ELSE rows

\* What a file holds to which c is being written.
Torn(c) == {Junk} \cup (IF c \in Docs THEN Beginnings[c] ELSE {})

Stored(d) == store[d] # NoDoc

\* put: the bytes c go under d's sha, unless something is there.  Create, and fill.
Create(d, c) == ~ Stored(d) /\ \E t \in Torn(c) : store' = [store EXCEPT ![d] = t]
Fill(d, c) == store' = [store EXCEPT ![d] = c]

-----------------------------------------------------------------------------
(* Properties *)

HistoryTypeOK ==
    /\ rows \in Seq(Row)
    /\ store \in [Docs -> Docs \cup {NoDoc, Junk}]

\* "Nothing should ever be overwritten": rows are appended, and what changes in
\* a row is only that it gets retired.
HistoryGrows ==
    [][/\ Len(rows) <= Len(rows')
       /\ \A i \in DOMAIN rows :
            /\ rows'[i].doc = rows[i].doc
            /\ rows'[i].parent = rows[i].parent
            /\ rows'[i].live => rows[i].live]_rows

\* parent_sha "links a promotion back to what it replaced": to a document that
\* was active under the same name before.
ParentsPrecede ==
    \A i \in DOMAIN rows : rows[i].parent # NoDoc =>
        \E j \in 1 .. i - 1 : RowName(j) = RowName(i) /\ rows[j].doc = rows[i].parent

=============================================================================
