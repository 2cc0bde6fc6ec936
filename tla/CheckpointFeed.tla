---------------------------- MODULE CheckpointFeed ----------------------------
(***************************************************************************)
(* Shadow-git checkpoints: the subscriber that boot starts                 *)
(* (crates/forge-runtime/src/lib.rs) and its repository                    *)
(* (crates/forge-runtime/src/checkpoints.rs).                              *)
(*                                                                         *)
(* A task changes the workspace, writes its row and publishes              *)
(* TaskCompleted; later the subscriber receives the event, looks the task  *)
(* up and commits the workspace as it is by then.  A revert resets branch   *)
(* and workspace to an earlier commit.  A change is a number; the          *)
(* workspace, like a commit, is the set of changes it holds.               *)
(***************************************************************************)
EXTENDS EventBus, FiniteSets

CONSTANTS
    Tasks,          \* workers whose tools change the workspace
    MaxWrites,      \* bound: changes
    MaxReverts,     \* bound: reverts
    MaxLosses       \* bound: failed lookups and commits, publications dropped

Feed == "checkpoints"

ASSUME FeedAssumption ==
    /\ Tasks \subseteq Publishers /\ Feed \in Publishers \ Tasks /\ Feed \in Subscribers
    /\ {MaxWrites, MaxReverts, MaxLosses} \subseteq Nat

VARIABLES
    tree,           \* changes present in the workspace
    writes,         \* number of changes made so far
    done,           \* the change whose event a task has still to publish, 0 if none
    chain,          \* commits reachable from the head, oldest first: [label, tree]
    task,           \* the change whose event the subscriber works on, 0 if none
    report,         \* TRUE if the subscriber is to publish what came of it
    reverts, losses,
    gone,           \* history: changes a revert has taken out of the workspace
    missed          \* history: changes whose event will not reach the subscriber
                    \* or of which it made no commit

checkpointVars == <<tree, writes, done, chain, task, report, reverts, losses, gone, missed>>

CheckpointInit ==
    /\ tree = {} /\ writes = 0 /\ done = [t \in Tasks |-> 0]
    /\ chain = <<>> /\ task = 0 /\ report = FALSE
    /\ reverts = 0 /\ losses = 0 /\ gone = {} /\ missed = {}

HeadTree == IF chain = <<>> THEN {} ELSE chain[Len(chain)].tree

\* A tool succeeds in changing the workspace; the row of the task is written.
Write(t) ==
    /\ done[t] = 0 /\ unsent[t] = 0 /\ writes < MaxWrites
    /\ writes' = writes + 1
    /\ tree' = tree \cup {writes + 1}
    /\ done' = [done EXCEPT ![t] = writes + 1]
    /\ UNCHANGED <<busVars, chain, task, report, reverts, losses, gone, missed>>

\* TaskCompleted, up to its row.
Announce(t) ==
    /\ done[t] # 0
    /\ AppendRow(t, done[t])
    /\ done' = [done EXCEPT ![t] = 0]
    /\ UNCHANGED <<tree, writes, chain, task, report, reverts, losses, gone, missed>>

\* The subscriber receives an event; only changes to the workspace interest it.
FeedReceive ==
    /\ task = 0 /\ ~ report /\ unsent[Feed] = 0
    /\ Holds(Feed) /\ Received(Feed)
    /\ task' = log[Incoming(Feed)]
    /\ UNCHANGED <<tree, writes, done, chain, report, reverts, losses, gone, missed>>

FeedLag ==
    /\ task = 0 /\ ~ report /\ unsent[Feed] = 0
    /\ Lags(Feed) /\ CatchUp(Feed)
    /\ missed' = missed \cup ({log[e] : e \in Overwritten(Feed)} \ {NoWrite})
    /\ UNCHANGED <<tree, writes, done, chain, task, report, reverts, losses, gone>>

\* commit: whatever the workspace holds, or nothing if the head has it.
Commit ==
    /\ task # 0
    /\ chain' = IF tree = HeadTree THEN chain ELSE Append(chain, [label |-> task, tree |-> tree])
    /\ task' = 0 /\ report' = TRUE
    /\ UNCHANGED <<busVars, tree, writes, done, reverts, losses, gone, missed>>

\* The lookup or the commit fails: the event is done with.
CommitFails ==
    /\ task # 0 /\ losses < MaxLosses
    /\ losses' = losses + 1
    /\ missed' = missed \cup {task}
    /\ task' = 0
    /\ UNCHANGED <<busVars, tree, writes, done, chain, report, reverts, gone>>

\* CheckpointCreated or CheckpointSkipped.
Report ==
    /\ report /\ AppendRow(Feed, NoWrite)
    /\ report' = FALSE
    /\ UNCHANGED <<tree, writes, done, chain, task, reverts, losses, gone, missed>>

\* Mutant: no clean after the reset.
RevertUnclean(i) ==
    /\ i \in DOMAIN chain /\ reverts < MaxReverts
    /\ reverts' = reverts + 1
    /\ chain' = SubSeq(chain, 1, i)
    /\ UNCHANGED <<busVars, tree, writes, done, task, report, losses, gone, missed>>

\* revert, to a commit that is listed: reset --hard and clean.
Revert(i) ==
    /\ i \in DOMAIN chain /\ reverts < MaxReverts
    /\ reverts' = reverts + 1
    /\ gone' = gone \cup (tree \ chain[i].tree)
    /\ tree' = chain[i].tree
    /\ chain' = SubSeq(chain, 1, i)
    /\ UNCHANGED <<busVars, writes, done, task, report, losses, missed>>

\* A task is dropped while it publishes.
DropPublication(t) ==
    /\ losses < MaxLosses /\ Abandon(t)
    /\ losses' = losses + 1
    /\ missed' = missed \cup ({log[unsent[t]]} \ {NoWrite})
    /\ UNCHANGED <<tree, writes, done, chain, task, report, reverts, gone>>

-----------------------------------------------------------------------------

CheckpointTypeOK ==
    /\ tree \subseteq 1 .. writes /\ writes \in 0 .. MaxWrites
    /\ done \in [Tasks -> 0 .. writes] /\ task \in 0 .. writes
    /\ chain \in Seq([label : 1 .. writes, tree : SUBSET (1 .. writes)])
    /\ report \in BOOLEAN /\ reverts \in 0 .. MaxReverts /\ losses \in 0 .. MaxLosses
    /\ gone \subseteq 1 .. writes /\ missed \subseteq 1 .. writes

\* Changes whose event has not been dealt with.
Underway ==
    {done[t] : t \in Tasks} \cup {task}
    \cup {log[unsent[p]] : p \in {q \in Publishers : unsent[q] # 0}}
    \cup {log[sent[i]] : i \in {j \in DOMAIN sent : j >= next[Feed]}}

\* "Every filesystem mutation performed by a task triggers a commit": a change in
\* the workspace is in the head commit, or its event is underway, or it is one
\* of those whose event was lost.
ChangesAreCommitted == tree \subseteq HeadTree \cup Underway \cup missed

\* A checkpoint bears the label of a change it holds, though the workspace was
\* read after the event; unless a revert came in between.
LabelsFit == \A i \in DOMAIN chain : chain[i].label \in chain[i].tree \cup gone

=============================================================================
