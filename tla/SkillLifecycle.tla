---------------------------- MODULE SkillLifecycle ----------------------------
(***************************************************************************)
(* The life of a skill (crates/forge-runtime/src/skills_ops.rs,            *)
(* crates/forge-skills/src/proposal.rs and loader.rs): proposals, the files *)
(* in active/, the history rows and store of SkillHistory, and the         *)
(* registry that missions select skills from.                              *)
(*                                                                         *)
(* An operation is a sequence of file and table writes with no lock and no *)
(* transaction around them: promote_from_proposal (the AutoPromoter),      *)
(* approve_proposal (a user's approval, which moves the file and does      *)
(* nothing else), rollback, retire (a user's, or the Curator's).  Each     *)
(* table write is a step, and each file written in place is two.  An       *)
(* operation may fail at any of its steps, and the process may end; boot   *)
(* loads the registry from the files and then records the files that have  *)
(* no row (seed_missing_history).                                          *)
(*                                                                         *)
(* A file of active/ is named after the proposal it came from, with the    *)
(* time of the proposal in it, or canonically after the skill, with every  *)
(* character but letters, digits, - and _ replaced by -: two skills may    *)
(* have the same canonical file.                                           *)
(***************************************************************************)
EXTENDS SkillHistory, FiniteSets

CONSTANTS
    Version,        \* the version in a document's front matter
    FileOf,         \* a skill's canonical file
    Valid,          \* documents that pass the hard checks of the validator
    Handwritten,    \* documents that are in active/ when the program first boots
    Duplicates,     \* pairs of skills the Curator takes for duplicates
    Users,          \* concurrent user commands
    MaxBegun,       \* bound: promotions, approvals and rollbacks begun
    MaxBoots,       \* bound: boots of the process
    MaxMishaps      \* bound: failed operations and files edited by hand

Promoter == "promoter"
Curator == "curator"
Actors == Users \cup {Promoter, Curator}
NoFile == "no file"

\* The file a proposal becomes is named by its document, the file a rollback
\* writes by the skill.
Files == Docs \cup {FileOf[n] : n \in Names}

ASSUME LifecycleAssumption ==
    /\ Docs \cap {FileOf[n] : n \in Names} = {} /\ NoFile \notin Files
    /\ Users \cap {Promoter, Curator} = {}
    /\ Version \in [Docs -> Nat]
    /\ Valid \subseteq Docs /\ Handwritten \subseteq Docs
    /\ \A d, e \in Handwritten : FileOf[NameOf[d]] = FileOf[NameOf[e]] => d = e
    /\ {MaxBegun, MaxMishaps} \subseteq Nat /\ MaxBoots \in Nat \ {0}

VARIABLES
    drafts,         \* documents nobody has proposed yet
    proposed,       \* documents in proposed/
    active,         \* what a file of active/ holds, NoDoc if there is none
    registry,       \* the document selected for a name in this process
    phase,          \* of the process: "load" | "seed" | "up"
    todo, at,       \* boot: files not looked at yet, the one being recorded,
    stage,          \* and how far its recording is
    op, pc,         \* an actor's operation and where it is in it
    doc, parent,    \* its document, and the one it replaces
    bytes,          \* what it has read and not yet written
    snap,           \* duplicates the Curator's scan has found and not handled
    boots, mishaps,
    begun,          \* promotions, approvals and rollbacks, counted for the bound
    clash,          \* history: skills on which operations have overlapped
    broken          \* history: skills with an operation cut short, or a file
                    \* that was put into active/ behind the history's back or
                    \* overwritten with another skill's

fileVars == <<drafts, proposed, active>>
bootVars == <<registry, phase, todo, at, stage, boots>>
opVars == <<op, pc, doc, parent, bytes>>
tableVars == <<rows, store>>
ghostVars == <<clash, begun, broken>>
vars == <<fileVars, bootVars, opVars, tableVars, ghostVars, snap, mishaps>>

Init ==
    /\ rows = <<>> /\ store = [d \in Docs |-> NoDoc]
    /\ drafts = Docs \ Handwritten /\ proposed = {}
    /\ active = [f \in Files |->
          IF \E d \in Handwritten : FileOf[NameOf[d]] = f
          THEN CHOOSE d \in Handwritten : FileOf[NameOf[d]] = f ELSE NoDoc]
    /\ registry = [n \in Names |-> NoDoc]
    /\ phase = "load" /\ todo = {} /\ at = NoFile /\ stage = "look"
    /\ op = [a \in Actors |-> "none"] /\ pc = [a \in Actors |-> "idle"]
    /\ doc = [a \in Actors |-> NoDoc] /\ parent = [a \in Actors |-> NoDoc]
    /\ bytes = [a \in Actors |-> NoDoc]
    /\ snap = {}
    /\ boots = 1 /\ mishaps = 0
    /\ clash = {} /\ broken = {} /\ begun = 0

Busy(a) == pc[a] \notin {"idle", "dead"}
On(a) == NameOf[doc[a]]
Present == {f \in Files : active[f] \in Docs}
FilesOf(n) == {f \in Present : NameOf[active[f]] = n}
Without(n) == [f \in Files |-> IF f \in FilesOf(n) THEN NoDoc ELSE active[f]]

\* The file of active/ an operation is writing.
Opened(a) == IF pc[a] = "write" THEN doc[a]
             ELSE IF pc[a] = "placing" THEN FileOf[On(a)] ELSE NoFile

\* The other skills that lose a file, finished or not, when n's is written to f.
Losers(f, n) ==
    {m \in Names \ {n} : \/ f \in FilesOf(m)
                          \/ \E b \in Actors : Opened(b) = f /\ On(b) = m}

\* What is written to a file that was moved away meanwhile goes with it.
WriteFile(f, c) == active' = IF active[f] = NoDoc THEN active ELSE [active EXCEPT ![f] = c]

\* An operation of a on document d starts.
Start(a, what, d, p, first) ==
    /\ phase = "up" /\ pc[a] = "idle"
    /\ what # "retire" => begun < MaxBegun
    /\ begun' = IF what = "retire" THEN begun ELSE begun + 1
    /\ op' = [op EXCEPT ![a] = what] /\ pc' = [pc EXCEPT ![a] = first]
    /\ doc' = [doc EXCEPT ![a] = d] /\ parent' = [parent EXCEPT ![a] = p]
    /\ clash' = IF \E b \in Actors \ {a} : Busy(b) /\ On(b) = NameOf[d]
                THEN clash \cup {NameOf[d]} ELSE clash

GoTo(a, there) == pc' = [pc EXCEPT ![a] = there]

\* a's operation is over; its locals are gone.
Finished(a, there) ==
    /\ op' = [op EXCEPT ![a] = "none"] /\ GoTo(a, there)
    /\ doc' = [doc EXCEPT ![a] = NoDoc] /\ parent' = [parent EXCEPT ![a] = NoDoc]
    /\ bytes' = [bytes EXCEPT ![a] = NoDoc]

-----------------------------------------------------------------------------
(* Proposals *)

\* write_proposal: by the reflector, or by the Curator for a merge.
Propose(d) ==
    /\ phase = "up" /\ d \in drafts
    /\ drafts' = drafts \ {d} /\ proposed' = proposed \cup {d}
    /\ UNCHANGED <<active, bootVars, opVars, tableVars, ghostVars, snap, mishaps>>

\* reject_proposal
Reject(d) ==
    /\ phase = "up" /\ d \in proposed
    /\ proposed' = proposed \ {d}
    /\ UNCHANGED <<drafts, active, bootVars, opVars, tableVars, ghostVars, snap, mishaps>>

\* AutoPromoter::sweep: a proposal that passes the hard checks.
Sweep(d) ==
    /\ d \in proposed \cap Valid
    /\ Start(Promoter, "promote", d, NoDoc, "approve")
    /\ UNCHANGED <<bytes, fileVars, bootVars, tableVars, broken, snap, mishaps>>

\* approve_skill_proposal: no validation, no row, nothing stored.
ApproveByHand(a, d) ==
    /\ a \in Users /\ d \in proposed
    /\ Start(a, "approve", d, NoDoc, "approve")
    /\ broken' = broken \cup {NameOf[d]}
    /\ UNCHANGED <<bytes, fileVars, bootVars, tableVars, snap, mishaps>>

\* approve_proposal_detail reads the proposal, creates its file in active/ ...
Approve(a) ==
    /\ pc[a] = "approve"
    /\ IF doc[a] \in proposed
       THEN /\ \E t \in Torn(doc[a]) : active' = [active EXCEPT ![doc[a]] = t]
            /\ GoTo(a, "write") /\ UNCHANGED <<op, doc, parent, bytes>>
       ELSE Finished(a, "idle") /\ UNCHANGED active
    /\ UNCHANGED <<drafts, proposed, bootVars, tableVars, ghostVars, snap, mishaps>>

\* ... fills it ...
Write(a) ==
    /\ pc[a] = "write"
    /\ WriteFile(doc[a], doc[a])
    /\ GoTo(a, "unlink")
    /\ UNCHANGED <<drafts, proposed, op, doc, parent, bytes, bootVars, tableVars, ghostVars, snap, mishaps>>

\* ... and removes the proposal, which fails if somebody else has.
Unlink(a) ==
    /\ pc[a] = "unlink"
    /\ proposed' = proposed \ {doc[a]}
    /\ IF doc[a] \in proposed /\ op[a] = "promote"
       THEN GoTo(a, "store") /\ UNCHANGED <<op, doc, parent, bytes, broken>>
       ELSE /\ Finished(a, "idle")
            /\ broken' = broken \cup {On(a)}
    /\ UNCHANGED <<drafts, active, bootVars, tableVars, clash, begun, snap, mishaps>>

-----------------------------------------------------------------------------
(* promote, from the file in active/ on *)

\* The file is read back, and put into the store under the proposal's sha.
Store(a) ==
    /\ pc[a] = "store" /\ active[doc[a]] # NoDoc
    /\ IF Stored(doc[a])
       THEN GoTo(a, "parent") /\ UNCHANGED <<store, bytes>>
       ELSE /\ Create(doc[a], active[doc[a]]) /\ bytes' = [bytes EXCEPT ![a] = active[doc[a]]]
            /\ GoTo(a, "storing")
    /\ UNCHANGED <<op, doc, parent, rows, fileVars, bootVars, ghostVars, snap, mishaps>>

StoreAll(a) ==
    /\ pc[a] = "storing"
    /\ Fill(doc[a], bytes[a]) /\ bytes' = [bytes EXCEPT ![a] = NoDoc]
    /\ GoTo(a, "parent")
    /\ UNCHANGED <<op, doc, parent, rows, fileVars, bootVars, ghostVars, snap, mishaps>>

\* Somebody has moved the file away.
StoreNothing(a) ==
    /\ pc[a] = "store" /\ active[doc[a]] = NoDoc
    /\ Finished(a, "idle") /\ broken' = broken \cup {On(a)}
    /\ UNCHANGED <<fileVars, bootVars, tableVars, clash, begun, snap, mishaps>>

\* What the new version replaces.
Parent(a) ==
    /\ pc[a] = "parent"
    /\ parent' = [parent EXCEPT ![a] = ActiveDoc(On(a))]
    /\ GoTo(a, IF IsActive(On(a)) THEN "drop" ELSE "insert")
    /\ UNCHANGED <<op, doc, bytes, fileVars, bootVars, tableVars, ghostVars, snap, mishaps>>

\* retire_active, within a promotion, a rollback or a retirement.
Drop(a) ==
    /\ pc[a] = "drop"
    /\ RetireActive(On(a))
    /\ CASE op[a] = "promote"  -> GoTo(a, "insert") /\ UNCHANGED <<op, doc, parent, bytes>>
         [] op[a] = "rollback" -> GoTo(a, "place") /\ UNCHANGED <<op, doc, parent, bytes>>
         [] op[a] = "retire"   -> Finished(a, "idle")
    /\ UNCHANGED <<store, fileVars, bootVars, ghostVars, snap, mishaps>>

\* Mutant: the version replaced is retired after the new row is appended.
InsertFirst(a) ==
    /\ pc[a] = "insert"
    /\ rows' = Append(rows, [doc |-> doc[a], parent |-> parent[a], live |-> FALSE])
    /\ GoTo(a, "confirm")
    /\ UNCHANGED <<op, doc, parent, bytes, store, fileVars, bootVars, ghostVars, snap, mishaps>>

Insert(a) ==
    /\ pc[a] = "insert"
    /\ Promote(doc[a], parent[a])
    /\ GoTo(a, "confirm")
    /\ UNCHANGED <<op, doc, parent, bytes, store, fileVars, bootVars, ghostVars, snap, mishaps>>

\* "Just promoted, must be active": a panic if it is not.  It ends a command,
\* and the AutoPromoter for good.
Confirm(a) ==
    /\ pc[a] = "confirm"
    /\ Finished(a, IF IsActive(On(a)) \/ a \in Users THEN "idle" ELSE "dead")
    /\ UNCHANGED <<fileVars, bootVars, tableVars, ghostVars, snap, mishaps>>

-----------------------------------------------------------------------------
(* rollback and retire *)

\* rollback, of a skill to a document whose file in the store holds a skill.
Rollback(a, d) ==
    /\ a \in Users /\ store[d] \in Docs
    /\ Start(a, "rollback", d, ActiveDoc(NameOf[d]), IF IsActive(NameOf[d]) THEN "drop" ELSE "place")
    /\ bytes' = [bytes EXCEPT ![a] = store[d]]
    /\ UNCHANGED <<fileVars, bootVars, tableVars, broken, snap, mishaps>>

\* restore_from_bytes: the skill's files give way to one, whatever is there ...
Place(a) ==
    /\ pc[a] = "place"
    /\ \E t \in Torn(bytes[a]) : active' = [Without(On(a)) EXCEPT ![FileOf[On(a)]] = t]
    /\ broken' = broken \cup Losers(FileOf[On(a)], On(a))
    /\ GoTo(a, "placing")
    /\ UNCHANGED <<drafts, proposed, op, doc, parent, bytes, bootVars, tableVars, clash, begun, snap, mishaps>>

\* ... which gets the bytes of the version rolled back to.
PlaceAll(a) ==
    /\ pc[a] = "placing"
    /\ WriteFile(FileOf[On(a)], bytes[a]) /\ bytes' = [bytes EXCEPT ![a] = NoDoc]
    /\ broken' = broken \cup Losers(FileOf[On(a)], On(a))
    /\ GoTo(a, "insert")
    /\ UNCHANGED <<drafts, proposed, op, doc, parent, bootVars, tableVars, clash, begun, snap, mishaps>>

StartRetire(a, n) ==
    /\ IsActive(n)
    /\ Start(a, "retire", ActiveDoc(n), NoDoc, "move")
    /\ UNCHANGED <<bytes, fileVars, bootVars, tableVars, broken, mishaps>>

Retire(a, n) == a \in Users /\ StartRetire(a, n) /\ UNCHANGED snap

\* Mutant: retire_active_skill that looks for the canonical file only.
MoveCanonical(a) ==
    /\ pc[a] = "move"
    /\ active' = [active EXCEPT ![FileOf[On(a)]] = NoDoc]
    /\ GoTo(a, "drop")
    /\ UNCHANGED <<drafts, proposed, op, doc, parent, bytes, bootVars, tableVars, ghostVars, snap, mishaps>>

\* retire_active_skill moves every file of the skill to archived/.
Move(a) ==
    /\ pc[a] = "move"
    /\ active' = Without(On(a))
    /\ GoTo(a, "drop")
    /\ UNCHANGED <<drafts, proposed, op, doc, parent, bytes, bootVars, tableVars, ghostVars, snap, mishaps>>

\* Curator::scan looks at the active skills once, for pairs of duplicates ...
Scan ==
    /\ phase = "up" /\ pc[Curator] = "idle"
    /\ snap' = {pair \in Duplicates : \A n \in pair : IsActive(n)}
    /\ UNCHANGED <<fileVars, bootVars, opVars, tableVars, ghostVars, mishaps>>

\* ... and retires one skill of a pair, whichever has been used less; pairs with
\* a skill retired in this pass are passed over.
Archive(n) ==
    /\ \E pair \in snap : n \in pair
    /\ StartRetire(Curator, n)
    /\ snap' = {pair \in snap : n \notin pair}

-----------------------------------------------------------------------------
(* Failures, edits, boot *)

\* A step of an operation fails and its error is returned.
Fail(a) ==
    /\ Busy(a) /\ mishaps < MaxMishaps
    /\ mishaps' = mishaps + 1
    /\ Finished(a, "idle")
    /\ broken' = broken \cup {On(a)}
    /\ UNCHANGED <<fileVars, bootVars, tableVars, clash, begun, snap>>

\* The same while the skill's files are moved, or before the file that replaces
\* them is written: some of them are gone.
FailMoving(a, gone) ==
    /\ pc[a] \in {"move", "place"} /\ mishaps < MaxMishaps
    /\ mishaps' = mishaps + 1
    /\ gone # {} /\ gone \subseteq FilesOf(On(a))
    /\ active' = [f \in Files |-> IF f \in gone THEN NoDoc ELSE active[f]]
    /\ Finished(a, "idle")
    /\ broken' = broken \cup {On(a)}
    /\ UNCHANGED <<drafts, proposed, bootVars, tableVars, clash, begun, snap>>

\* A user writes a skill into active/: edits its file, or names one as any skill's
\* canonical file is named; not in the moment in which seeding has read the file
\* and not yet recorded it.
Edit(d, f) ==
    /\ phase # "seed" /\ mishaps < MaxMishaps /\ d \in drafts
    /\ f \in Docs => NameOf[f] = NameOf[d]
    /\ mishaps' = mishaps + 1
    /\ drafts' = drafts \ {d}
    /\ active' = [active EXCEPT ![f] = d]
    /\ broken' = broken \cup {NameOf[d]} \cup Losers(f, NameOf[d])
    /\ UNCHANGED <<proposed, bootVars, opVars, tableVars, clash, begun, snap>>

\* The skills with a step under way that cannot be taken again.
CutShort ==
    {On(a) : a \in {b \in Actors : Busy(b)}} \cup
    (IF stage = "fill" THEN {NameOf[active[at]]} ELSE {})

\* The process ends, and is started again: files and tables survive.
Restart ==
    /\ boots < MaxBoots
    /\ boots' = boots + 1
    /\ phase' = "load" /\ todo' = {} /\ at' = NoFile /\ stage' = "look"
    /\ registry' = [n \in Names |-> NoDoc]
    /\ op' = [a \in Actors |-> "none"] /\ pc' = [a \in Actors |-> "idle"]
    /\ doc' = [a \in Actors |-> NoDoc] /\ parent' = [a \in Actors |-> NoDoc]
    /\ bytes' = [a \in Actors |-> NoDoc]
    /\ snap' = {}
    /\ broken' = broken \cup CutShort
    /\ UNCHANGED <<fileVars, tableVars, clash, begun, mishaps>>

\* What FilesystemSkillLoader may select for a name: it skips proposed/ and
\* archived/ and walks the rest of the skills' root, the store under history/
\* included; the highest version wins, and of several whichever comes first.
Loadable(n) ==
    LET found == {d \in Docs : /\ NameOf[d] = n
                               /\ (\E e \in Docs : store[e] = d) \/ (\E f \in Files : active[f] = d)}
    IN  {d \in found : \A e \in found : Version[e] <= Version[d]}

Load ==
    /\ phase = "load"
    /\ registry' \in [Names -> Docs \cup {NoDoc}]
    /\ \A n \in Names : IF Loadable(n) = {} THEN registry'[n] = NoDoc
                                            ELSE registry'[n] \in Loadable(n)
    /\ phase' = "seed" /\ todo' = Present
    /\ UNCHANGED <<at, stage, boots, fileVars, opVars, tableVars, ghostVars, snap, mishaps>>

\* seed_missing_history, file by file.  A file whose document is the active one
\* is passed over; another document's row is retired first.
SeedKnown(f) ==
    /\ phase = "seed" /\ stage = "look" /\ f \in todo
    /\ ActiveDoc(NameOf[active[f]]) = active[f]
    /\ todo' = todo \ {f}
    /\ UNCHANGED <<registry, phase, at, stage, boots, fileVars, opVars, tableVars, ghostVars, snap, mishaps>>

SeedRetire(f) ==
    /\ phase = "seed" /\ stage = "look" /\ f \in todo
    /\ IsActive(NameOf[active[f]]) /\ ActiveDoc(NameOf[active[f]]) # active[f]
    /\ RetireActive(NameOf[active[f]])
    /\ at' = f /\ stage' = "put"
    /\ UNCHANGED <<store, registry, phase, todo, boots, fileVars, opVars, ghostVars, snap, mishaps>>

\* Mutant: seeding that never looks for an active row first.
RecordedAlways(f) ==
    /\ phase = "seed" /\ f \in todo
    /\ (stage = "put" /\ at = f) \/ stage = "look"

\* The file is to be recorded now.
Recorded(f) ==
    /\ phase = "seed" /\ f \in todo
    /\ \/ stage = "put" /\ at = f
       \/ stage = "look" /\ ~ IsActive(NameOf[active[f]])

\* Mutant: a seeded row whose document is not stored.
SeedRowOnly(f) ==
    /\ Recorded(f)
    /\ at' = f /\ stage' = "insert"
    /\ UNCHANGED <<tableVars, registry, phase, todo, boots, fileVars, opVars, ghostVars, snap, mishaps>>

SeedPut(f) ==
    /\ Recorded(f)
    /\ at' = f
    /\ \/ Create(active[f], active[f]) /\ stage' = "fill"
       \/ Stored(active[f]) /\ stage' = "insert" /\ UNCHANGED store
    /\ UNCHANGED <<rows, registry, phase, todo, boots, fileVars, opVars, ghostVars, snap, mishaps>>

SeedPutAll(f) ==
    /\ stage = "fill" /\ at = f
    /\ Fill(active[f], active[f])
    /\ stage' = "insert"
    /\ UNCHANGED <<rows, registry, phase, todo, at, boots, fileVars, opVars, ghostVars, snap, mishaps>>

SeedInsert(f) ==
    /\ stage = "insert" /\ at = f
    /\ Promote(active[f], NoDoc)
    /\ at' = NoFile /\ stage' = "look" /\ todo' = todo \ {f}
    /\ UNCHANGED <<store, registry, phase, boots, fileVars, opVars, ghostVars, snap, mishaps>>

\* A step of seeding fails: boot goes on without the rest.
SeedFails ==
    /\ phase = "seed" /\ todo # {} /\ mishaps < MaxMishaps
    /\ mishaps' = mishaps + 1
    /\ phase' = "up" /\ todo' = {} /\ at' = NoFile /\ stage' = "look"
    /\ broken' = broken \cup {NameOf[active[f]] : f \in todo}
    /\ UNCHANGED <<registry, boots, fileVars, opVars, tableVars, clash, begun, snap>>

\* Boot is over; what was out of step has been looked at.
Up ==
    /\ phase = "seed" /\ todo = {}
    /\ phase' = "up"
    /\ UNCHANGED <<registry, todo, at, stage, boots, fileVars, opVars, tableVars, ghostVars, snap, mishaps>>

-----------------------------------------------------------------------------

Next ==
    \/ \E d \in Docs : Propose(d) \/ Reject(d) \/ Sweep(d) \/ \E f \in Files : Edit(d, f)
    \/ \E a \in Users, d \in Docs : ApproveByHand(a, d) \/ Rollback(a, d)
    \/ \E a \in Users, n \in Names : Retire(a, n)
    \/ \E a \in Actors : \/ Approve(a) \/ Write(a) \/ Unlink(a)
                         \/ Store(a) \/ StoreAll(a) \/ StoreNothing(a) \/ Parent(a) \/ Drop(a)
                         \/ Insert(a) \/ Confirm(a) \/ Place(a) \/ PlaceAll(a) \/ Move(a) \/ Fail(a)
    \/ \E a \in Actors, gone \in SUBSET Present : FailMoving(a, gone)
    \/ Scan \/ \E n \in Names : Archive(n)
    \/ Restart \/ Load \/ SeedFails \/ Up
    \/ \E f \in Files : SeedKnown(f) \/ SeedRetire(f) \/ SeedPut(f) \/ SeedPutAll(f) \/ SeedInsert(f)

Spec == Init /\ [][Next]_vars

-----------------------------------------------------------------------------
(* Properties *)

PCs == {"idle", "approve", "write", "unlink", "store", "storing", "parent", "drop", "insert",
        "confirm", "place", "placing", "move", "dead"}

\* Every variable stays in its type.
TypeOK ==
    /\ HistoryTypeOK
    /\ drafts \subseteq Docs /\ proposed \subseteq Docs
    /\ active \in [Files -> Docs \cup {NoDoc, Junk}]
    /\ registry \in [Names -> Docs \cup {NoDoc}]
    /\ phase \in {"load", "seed", "up"} /\ todo \subseteq Files /\ at \in Files \cup {NoFile}
    /\ stage \in {"look", "put", "fill", "insert"}
    /\ op \in [Actors -> {"none", "promote", "approve", "rollback", "retire"}]
    /\ pc \in [Actors -> PCs]
    /\ doc \in [Actors -> Docs \cup {NoDoc}] /\ parent \in [Actors -> Docs \cup {NoDoc}]
    /\ bytes \in [Actors -> Docs \cup {NoDoc, Junk}]
    /\ snap \subseteq Duplicates
    /\ boots \in 1 .. MaxBoots /\ mishaps \in 0 .. MaxMishaps /\ begun \in 0 .. MaxBegun
    /\ clash \subseteq Names /\ broken \subseteq Names

\* A skill on which operations have never overlapped has at most one active row,
\* whatever fails, crashes or is edited by hand.
OneActiveVersion == \A n \in Names \ clash : Cardinality(LiveRows(n)) <= 1

Quiet(n) == phase = "up" /\ \A a \in Actors : Busy(a) => On(a) # n

\* "Everything should be reversible": whichever step of an operation was its last,
\* what has been active has a file in the store; and the file holds the document,
\* bit for bit, unless operations on the skill overlapped or were cut short, or a
\* user bypassed them.
RowsAreStored ==
    \A i \in DOMAIN rows :
        /\ Stored(rows[i].doc)
        /\ RowName(i) \notin clash \cup broken => store[rows[i].doc] = rows[i].doc

\* Files and history agree on a skill between operations: it has a file if and
\* only if it has an active row, and the row's document is in one of its files;
\* unless operations overlapped or were cut short, a user bypassed them, or a file
\* of the skill was overwritten with another skill's of the same file name.
FilesMatchHistory ==
    \A n \in Names \ (clash \cup broken) : Quiet(n) =>
        /\ FilesOf(n) # {} <=> IsActive(n)
        /\ IsActive(n) => \E f \in FilesOf(n) : active[f] = ActiveDoc(n)

\* "The loop must be resilient because it runs unattended": the AutoPromoter
\* survives as long as no two operations have overlapped on a skill.
PromoterSurvives == pc[Promoter] = "dead" => clash # {}

-----------------------------------------------------------------------------
(* What the documentation says, and the code does not do *)

\* "active/: live skills (loaded by SkillRegistry)", "archived/: never loaded":
\* what the registry selects from is in active/; every operation on the skill
\* having run to its end, one at a time.
LoadsOnlyActive ==
    [][phase = "load" /\ phase' = "seed" =>
          \A n \in Names \ (broken \cup clash) : registry'[n] # NoDoc => \E f \in Files : active[f] = registry'[n]]_vars

\* "The history row and the file always land together (or both fail)", "Bit-exact
\* rollback": a write cut short leaves a file that every later put takes for the
\* document.
StoreIsExact == \A i \in DOMAIN rows : store[rows[i].doc] = rows[i].doc

\* "Replacing whatever active version of `name` currently exists": a rollback
\* leaves the files of the other skills alone.
RollbackIsLocal ==
    [][\A a \in Actors : pc[a] = "place" /\ pc'[a] = "placing" =>
          \A n \in Names \ {On(a)} : FilesOf(n) \subseteq FilesOf(n)']_vars

\* "Different bytes for same name - the user edited the file in place": a boot
\* leaves the active version of a skill alone whose files nobody has edited.
BootKeepsVersion ==
    [][phase = "seed" => \A n \in Names \ (broken \cup clash) :
          IsActive(n) => ActiveDoc(n)' = ActiveDoc(n)]_vars

=============================================================================
