------------------------------ MODULE FeedProofs ------------------------------
(***************************************************************************)
(* Theorems about EventFeeds, for any publishers, subscribers, capacity,   *)
(* tasks, requests and number of events.                                   *)
(*                                                                         *)
(* EventsAreSentOnce, TypeCorrect, EveryChangeIsCommitted,                 *)
(* LabelsFitCheckpoints, ShownTwiceAtMost, StoreComplete; each from the    *)
(* types (TypeInv) and an invariant of its own, stated where it is proved. *)
(***************************************************************************)
EXTENDS EventFeeds, SequenceTheorems, FiniteSetTheorems, TLAPS

-----------------------------------------------------------------------------
(* What a publication does *)

\* The types the bus needs of the steps that publish on it.
PublishTypeOK ==
    /\ log \in Seq(Nat) /\ sent \in Seq(1 .. Len(log))
    /\ unsent \in [Publishers -> 0 .. Len(log)]
    /\ writes \in Nat /\ done \in [Tasks -> Nat]

PublishInv == PublishTypeOK /\ SentOnce

\* A row that is appended has not been sent, nor been appended by anybody else.
LEMMA AppendRowKeeps ==
    ASSUME PublishInv, NEW p \in Publishers, NEW payload \in Nat, AppendRow(p, payload)
    PROVE  /\ log' \in Seq(Nat) /\ sent' \in Seq(1 .. Len(log'))
           /\ unsent' \in [Publishers -> 0 .. Len(log')]
           /\ SentOnce'
<1>1. log' \in Seq(Nat) /\ Len(log') = Len(log) + 1 /\ Len(log) \in Nat
  BY AppendProperties, LenProperties DEF AppendRow, PublishInv, PublishTypeOK
<1>2. sent' = sent /\ sent' \in Seq(1 .. Len(log'))
  BY <1>1, SeqMonotonic DEF AppendRow, PublishInv, PublishTypeOK
<1>3. unsent' = [unsent EXCEPT ![p] = Len(log) + 1]
  BY DEF AppendRow
<1>4. unsent' \in [Publishers -> 0 .. Len(log')]
  BY <1>1, <1>3 DEF PublishInv, PublishTypeOK
<1>5. \A i \in DOMAIN sent : sent[i] \in 1 .. Len(log)
  BY ElementOfSeq, LenProperties DEF PublishInv, PublishTypeOK
<1>6. \A q \in Publishers : unsent[q] # Len(log) + 1
  BY <1>1 DEF PublishInv, PublishTypeOK
<1>7. \A q \in Publishers : unsent'[q] = IF q = p THEN Len(log) + 1 ELSE unsent[q]
  BY <1>3 DEF PublishInv, PublishTypeOK
<1>8. \A i, j \in DOMAIN sent' : sent'[i] = sent'[j] => i = j
  BY <1>2 DEF PublishInv, SentOnce
<1>9. \A q \in Publishers : unsent'[q] # 0 => \A i \in DOMAIN sent' : sent'[i] # unsent'[q]
  <2> SUFFICES ASSUME NEW q \in Publishers, unsent'[q] # 0, NEW i \in DOMAIN sent
               PROVE  sent[i] # unsent'[q]
    BY <1>2
  <2>1. CASE q = p
    <3>1. sent[i] \in 1 .. Len(log) /\ unsent'[q] = Len(log) + 1
      BY <1>5, <1>7, <2>1
    <3> QED BY <1>1, <3>1
  <2>2. CASE q # p
    BY <1>7, <2>2 DEF PublishInv, SentOnce
  <2> QED BY <2>1, <2>2
<1>10. \A q, r \in Publishers : unsent'[q] = unsent'[r] /\ unsent'[q] # 0 => q = r
  BY <1>6, <1>7 DEF PublishInv, SentOnce
<1> QED BY <1>1, <1>2, <1>4, <1>8, <1>9, <1>10 DEF SentOnce

\* What is sent was waiting to be sent, and is not waiting any more.
LEMMA SendKeeps ==
    ASSUME PublishInv, NEW p \in Publishers, Send(p)
    PROVE  /\ log' \in Seq(Nat) /\ sent' \in Seq(1 .. Len(log'))
           /\ unsent' \in [Publishers -> 0 .. Len(log')]
           /\ SentOnce'
<1>1. log' = log /\ unsent[p] \in 1 .. Len(log) /\ Len(log) \in Nat
  BY LenProperties DEF Send, PublishInv, PublishTypeOK
<1>2. /\ sent' \in Seq(1 .. Len(log')) /\ Len(sent') = Len(sent) + 1 /\ Len(sent) \in Nat
      /\ \A i \in 1 .. Len(sent) : sent'[i] = sent[i]
      /\ sent'[Len(sent) + 1] = unsent[p]
  BY <1>1, AppendProperties, LenProperties DEF Send, PublishInv, PublishTypeOK
<1>3. DOMAIN sent = 1 .. Len(sent) /\ DOMAIN sent' = 1 .. Len(sent) + 1
  BY <1>2, LenProperties DEF PublishInv, PublishTypeOK
<1>4. unsent' = [unsent EXCEPT ![p] = 0]
  BY DEF Send
<1>5. unsent' \in [Publishers -> 0 .. Len(log')]
  BY <1>1, <1>4 DEF PublishInv, PublishTypeOK
<1>6. \A i, j \in DOMAIN sent' : sent'[i] = sent'[j] => i = j
  BY <1>1, <1>2, <1>3 DEF SentOnce, PublishInv
<1>7. \A q \in Publishers : unsent'[q] # 0 => \A i \in DOMAIN sent' : sent'[i] # unsent'[q]
  <2> SUFFICES ASSUME NEW q \in Publishers, unsent'[q] # 0, NEW i \in DOMAIN sent'
               PROVE  sent'[i] # unsent'[q]
    OBVIOUS
  <2>1. q # p /\ unsent'[q] = unsent[q]
    BY <1>4 DEF PublishInv, PublishTypeOK
  <2>2. CASE i \in DOMAIN sent
    BY <1>2, <1>3, <2>1, <2>2 DEF SentOnce, PublishInv
  <2>3. CASE i = Len(sent) + 1
    BY <1>1, <1>2, <2>1, <2>3 DEF SentOnce, PublishInv
  <2> QED BY <1>2, <1>3, <2>2, <2>3
<1>8. \A q, r \in Publishers : unsent'[q] = unsent'[r] /\ unsent'[q] # 0 => q = r
  BY <1>4 DEF SentOnce, PublishInv, PublishTypeOK
<1> QED BY <1>1, <1>2, <1>5, <1>6, <1>7, <1>8 DEF SentOnce, PublishInv, PublishTypeOK

\* A publication that is dropped only leaves its row behind.
LEMMA AbandonKeeps ==
    ASSUME PublishInv, NEW p \in Publishers, Abandon(p)
    PROVE  /\ log' \in Seq(Nat) /\ sent' \in Seq(1 .. Len(log'))
           /\ unsent' \in [Publishers -> 0 .. Len(log')]
           /\ SentOnce'
<1>1. Len(log) \in Nat
  BY LenProperties DEF PublishInv, PublishTypeOK
<1> QED BY <1>1 DEF Abandon, SentOnce, PublishInv, PublishTypeOK

-----------------------------------------------------------------------------

\* Every step of the feeds keeps publications apart.
LEMMA NextPublish == PublishInv /\ [Next]_vars => PublishInv'
<1> SUFFICES ASSUME PublishInv, [Next]_vars PROVE PublishInv'
  OBVIOUS
<1>1. ASSUME NEW p \in Publishers, Publish(p) PROVE PublishInv'
  BY <1>1, AppendRowKeeps DEF Publish, NoWrite, checkpointVars, PublishInv, PublishTypeOK
<1>2. ASSUME NEW p \in Publishers, Deliver(p) PROVE PublishInv'
  BY <1>2, SendKeeps DEF Deliver, checkpointVars, PublishInv, PublishTypeOK
<1>3. ASSUME NEW p \in Publishers, Drop(p) PROVE PublishInv'
  BY <1>3, AbandonKeeps DEF Drop, DropPublication, PublishInv, PublishTypeOK
<1>4. ASSUME NEW t \in Tasks, Announce(t) PROVE PublishInv'
  <2>1. t \in Publishers /\ done[t] \in Nat /\ AppendRow(t, done[t])
    BY <1>4, FeedAssumption DEF Announce, PublishInv, PublishTypeOK
  <2> QED BY <1>4, <2>1, AppendRowKeeps DEF Announce, PublishInv, PublishTypeOK
<1>5. CASE Report
  <2>1. Feed \in Publishers /\ AppendRow(Feed, NoWrite) /\ NoWrite \in Nat
    BY <1>5, FeedAssumption DEF Report, NoWrite
  <2> QED BY <1>5, <2>1, AppendRowKeeps DEF Report, PublishInv, PublishTypeOK
<1>6. ASSUME NEW t \in Tasks, Write(t) PROVE PublishInv'
  BY <1>6 DEF Write, busVars, PublishInv, PublishTypeOK, SentOnce
<1>7. CASE FeedReceive \/ FeedLag
  BY <1>7 DEF FeedReceive, FeedLag, Received, CatchUp, PublishInv, PublishTypeOK, SentOnce
<1>8. CASE Commit \/ CommitFails \/ \E i \in DOMAIN chain : Revert(i)
  BY <1>8 DEF Commit, CommitFails, Revert, busVars, PublishInv, PublishTypeOK, SentOnce
<1>9. CASE Desktop
  <2>1. UNCHANGED <<log, unsent, sent, writes, done>>
    BY <1>9 DEF Desktop, BridgeStart, BridgeReceive, BridgeLag, Listen, Push, Ask, ReadBacklog,
                Hydrate, Subscribe, Received, CatchUp, busVars, checkpointVars
  <2> QED BY <2>1 DEF PublishInv, PublishTypeOK, SentOnce
<1>10. CASE UNCHANGED vars
  BY <1>10 DEF vars, busVars, checkpointVars, PublishInv, PublishTypeOK, SentOnce
<1> QED BY <1>1, <1>2, <1>3, <1>4, <1>5, <1>6, <1>7, <1>8, <1>9, <1>10 DEF Next, Checkpoints

\* Every event a subscriber can receive has a row, and is sent at most once, by
\* the publisher that wrote the row.
THEOREM EventsAreSentOnce == Spec => []SentOnce
<1>1. Init => PublishInv
  BY EmptySeq DEF Init, BusInit, CheckpointInit, PublishInv, PublishTypeOK, SentOnce
<1>2. PublishInv => SentOnce
  BY DEF PublishInv
<1> QED BY <1>1, <1>2, NextPublish, PTL DEF Spec

-----------------------------------------------------------------------------
(* Type correctness *)

\* Events announce changes that have been made; the checkpoints are subscribed to
\* the bus from the start; the store was last filled by a request that is done.
TypeInv ==
    /\ TypeOK
    /\ log \in Seq(0 .. writes)
    /\ next[Feed] # 0
    /\ latest # None => request[latest] = "done"

\* What a step does to the bus: rows are only ever added, and every row announces a
\* change that has been made, if any.
LEMMA BusStep ==
    ASSUME TypeInv, [Next]_vars
    PROVE  /\ BusTypeOK' /\ log' \in Seq(0 .. writes') /\ next'[Feed] # 0
           /\ writes <= writes' /\ Len(log) <= Len(log')
           /\ \A i \in 1 .. Len(log) : log'[i] = log[i]
<1> USE BusAssumption DEF TypeInv, TypeOK, BusTypeOK
<1> DEFINE Goal == /\ BusTypeOK' /\ log' \in Seq(0 .. writes') /\ next'[Feed] # 0
                   /\ writes <= writes' /\ Len(log) <= Len(log')
                   /\ \A i \in 1 .. Len(log) : log'[i] = log[i]
<1>0. /\ Len(log) \in Nat /\ Len(sent) \in Nat /\ writes \in Nat /\ log \in Seq(0 .. writes)
      /\ Feed \in Subscribers /\ Bridge \in Subscribers /\ Feed # Bridge /\ Feed \in Publishers
      /\ \A i \in 1 .. Len(log) : log[i] \in 0 .. writes
      /\ \A i \in 1 .. Len(sent) : sent[i] \in 1 .. Len(log)
      /\ next \in [Subscribers -> 0 .. Len(sent) + 1] /\ next[Feed] # 0
  <2>1. Len(log) \in Nat /\ Len(sent) \in Nat /\ writes \in Nat
    BY LenProperties, FeedAssumption DEF CheckpointTypeOK
  <2>2. \A i \in 1 .. Len(log) : log[i] \in 0 .. writes
    BY ElementOfSeq
  <2>3. \A i \in 1 .. Len(sent) : sent[i] \in 1 .. Len(log)
    BY ElementOfSeq
  <2> QED BY <2>1, <2>2, <2>3, FeedAssumption, DesktopAssumption DEF Feed, Bridge
<1>1. ASSUME NEW p \in Publishers, NEW x \in 0 .. writes, AppendRow(p, x), writes' = writes PROVE Goal
  <2>1. /\ log' \in Seq(0 .. writes) /\ Len(log') = Len(log) + 1
        /\ \A i \in 1 .. Len(log) : log'[i] = log[i]
    BY <1>0, <1>1, AppendProperties DEF AppendRow
  <2>2. log' \in Seq(Nat)
    BY <1>0, <2>1, SeqMonotonic
  <2>3. sent' \in Seq(1 .. Len(log')) /\ sent' = sent
    BY <1>0, <1>1, <2>1, SeqMonotonic DEF AppendRow
  <2>4. unsent' \in [Publishers -> 0 .. Len(log')] /\ next' = next /\ Len(log') <= MaxEvents
    BY <1>0, <1>1, <2>1 DEF AppendRow
  <2> QED BY <1>0, <1>1, <2>1, <2>2, <2>3, <2>4
<1>2. ASSUME NEW p \in Publishers, Send(p), writes' = writes PROVE Goal
  <2>1. sent' \in Seq(1 .. Len(log)) /\ Len(sent') = Len(sent) + 1
    BY <1>0, <1>2, AppendProperties DEF Send
  <2>2. log' = log /\ next' = next /\ unsent' \in [Publishers -> 0 .. Len(log)]
    BY <1>0, <1>2 DEF Send
  <2>3. Len(sent') \in Nat /\ next \in [Subscribers -> 0 .. Len(sent') + 1]
    <3> HIDE DEF TypeInv, TypeOK, BusTypeOK
    <3> QED BY <1>0, <2>1
  <2> QED BY <1>0, <1>2, <2>1, <2>2, <2>3, SMTT(30)
<1>3. ASSUME NEW p \in Publishers, Abandon(p), writes' = writes PROVE Goal
  BY <1>0, <1>3 DEF Abandon
<1>4. ASSUME NEW s \in Subscribers,
             \/ s # Feed /\ Subscribe(s)
             \/ Holds(s) /\ Received(s)
             \/ Lags(s) /\ CatchUp(s), writes' = writes
      PROVE  Goal
  <2>1. log' = log /\ sent' = sent /\ unsent' = unsent
    BY <1>4 DEF Subscribe, Received, CatchUp
  <2>2. next' \in [Subscribers -> 0 .. Len(sent) + 1] /\ next'[Feed] # 0
    <3>1. CASE s # Feed /\ Subscribe(s)
      BY <1>0, <3>1 DEF Subscribe
    <3>2. CASE Holds(s) /\ Received(s)
      <4>1. next[s] \in 1 .. Len(sent) /\ next' = [next EXCEPT ![s] = next[s] + 1]
        BY <1>0, <3>2 DEF Received, Holds, Subscribed
      <4> HIDE DEF TypeInv, TypeOK, BusTypeOK
      <4> QED BY <1>0, <4>1
    <3>3. CASE Lags(s) /\ CatchUp(s)
      <4> DEFINE oldest == Len(sent) - Capacity + 1
      <4>1. oldest \in 1 .. Len(sent)
        BY <1>0, <3>3 DEF Lags, Subscribed
      <4>2. next' = [next EXCEPT ![s] = oldest]
        BY <3>3 DEF CatchUp
      <4> HIDE DEF oldest, TypeInv, TypeOK, BusTypeOK
      <4> QED BY <1>0, <4>1, <4>2
    <3> QED BY <1>4, <3>1, <3>2, <3>3
  <2> QED BY <1>0, <1>4, <2>1, <2>2
<1>5. CASE UNCHANGED busVars /\ writes' = writes
  BY <1>0, <1>5 DEF busVars
<1>6. ASSUME NEW p \in Publishers, Publish(p) \/ Deliver(p) \/ Drop(p) PROVE Goal
  <2>1. NoWrite \in 0 .. writes
    BY <1>0 DEF NoWrite
  <2> QED BY <1>1, <1>2, <1>3, <1>6, <2>1 DEF Publish, Deliver, Drop, DropPublication, checkpointVars
<1>7. ASSUME NEW t \in Tasks, Write(t) PROVE Goal
  <2>1. log' = log /\ sent' = sent /\ unsent' = unsent /\ next' = next /\ writes' = writes + 1
    BY <1>7 DEF Write, busVars
  <2>2. log \in Seq(0 .. writes')
    BY <1>0, <2>1, SeqMonotonic
  <2> QED BY <1>0, <2>1, <2>2
<1>8. ASSUME NEW t \in Tasks, Announce(t) PROVE Goal
  BY <1>1, <1>8, FeedAssumption DEF Announce, CheckpointTypeOK
<1>9. CASE FeedReceive \/ FeedLag
  BY <1>0, <1>4, <1>9 DEF FeedReceive, FeedLag
<1>10. CASE Commit \/ CommitFails \/ \E i \in DOMAIN chain : Revert(i)
  BY <1>5, <1>10 DEF Commit, CommitFails, Revert
<1>11. CASE Report
  BY <1>0, <1>1, <1>11 DEF Report, NoWrite
<1>12. CASE Desktop
  <2>1. CASE BridgeStart \/ BridgeReceive \/ BridgeLag
    BY <1>0, <1>4, <1>12, <2>1 DEF Desktop, BridgeStart, BridgeReceive, BridgeLag, checkpointVars
  <2>2. CASE Listen \/ Push \/ \E r \in Requests : Ask(r) \/ ReadBacklog(r) \/ Hydrate(r)
    BY <1>5, <1>12, <2>2 DEF Desktop, Listen, Push, Ask, ReadBacklog, Hydrate, checkpointVars
  <2> QED BY <1>12, <2>1, <2>2 DEF Desktop
<1>13. CASE UNCHANGED vars
  BY <1>5, <1>13 DEF vars, checkpointVars
<1> QED BY <1>6, <1>7, <1>8, <1>9, <1>10, <1>11, <1>12, <1>13 DEF Next, Checkpoints

\* A commit of the first n changes, or some of them.
Checkpoint(n) == [label : 1 .. n, tree : SUBSET (1 .. n)]

\* Every step keeps the types of the checkpoints.
LEMMA CheckpointType == TypeInv /\ [Next]_vars => CheckpointTypeOK'
<1> SUFFICES ASSUME TypeInv, [Next]_vars PROVE CheckpointTypeOK'
  OBVIOUS
<1>0. /\ tree \subseteq 1 .. writes /\ writes \in Nat /\ writes \in 0 .. MaxWrites
      /\ done \in [Tasks -> 0 .. writes] /\ task \in 0 .. writes
      /\ report \in BOOLEAN /\ reverts \in 0 .. MaxReverts /\ losses \in 0 .. MaxLosses
      /\ gone \subseteq 1 .. writes /\ missed \subseteq 1 .. writes
      /\ MaxWrites \in Nat /\ MaxReverts \in Nat /\ MaxLosses \in Nat
  BY FeedAssumption DEF TypeInv, TypeOK, CheckpointTypeOK
<1>t. /\ chain \in Seq(Checkpoint(writes))
      /\ \A i \in DOMAIN chain : chain[i] \in Checkpoint(writes)
      /\ \A e \in 1 .. Len(log) : log[e] \in 0 .. writes
      /\ \A i \in 1 .. Len(sent) : sent[i] \in 1 .. Len(log)
  <2>0. chain \in Seq(Checkpoint(writes))
    BY DEF TypeInv, TypeOK, CheckpointTypeOK, Checkpoint
  <2>1. \A i \in DOMAIN chain : chain[i] \in Checkpoint(writes)
    BY <2>0, ElementOfSeq, LenProperties
  <2>2. \A e \in 1 .. Len(log) : log[e] \in 0 .. writes
    BY ElementOfSeq DEF TypeInv
  <2>3. \A i \in 1 .. Len(sent) : sent[i] \in 1 .. Len(log)
    BY ElementOfSeq DEF TypeInv, TypeOK, BusTypeOK
  <2> QED BY <2>0, <2>1, <2>2, <2>3
<1>1. CASE UNCHANGED checkpointVars
  BY <1>1, <1>0, <1>t DEF checkpointVars, CheckpointTypeOK, Checkpoint
<1>2. ASSUME NEW p \in Publishers, Drop(p) PROVE CheckpointTypeOK'
  <2>1. unsent[p] \in 1 .. Len(log)
    BY <1>2, LenProperties DEF Drop, DropPublication, Abandon, BusTypeOK, TypeInv, TypeOK
  <2>2. missed' \subseteq 1 .. writes
    <3>1. log[unsent[p]] \in 0 .. writes /\ missed' = missed \cup ({log[unsent[p]]} \ {0})
      BY <1>0, <1>t, <1>2, <2>1 DEF Drop, DropPublication, NoWrite
    <3>2. {log[unsent[p]]} \ {0} \subseteq 1 .. writes
      BY <1>0, <3>1
    <3> QED BY <1>0, <3>1, <3>2
  <2>3. UNCHANGED <<tree, writes, done, chain, task, report, reverts, gone>> /\ losses' \in 0 .. MaxLosses
    BY <1>0, <1>2 DEF Drop, DropPublication
  <2> QED BY <1>0, <1>t, <2>2, <2>3 DEF CheckpointTypeOK, Checkpoint
<1>3. ASSUME NEW t \in Tasks, Write(t) PROVE CheckpointTypeOK'
  <2>1. writes' = writes + 1 /\ writes' \in 0 .. MaxWrites
    BY <1>0, <1>t, <1>3 DEF Write
  <2>2. chain' \in Seq(Checkpoint(writes'))
    <3>1. Checkpoint(writes) \subseteq Checkpoint(writes')
      BY <1>0, <1>t, <2>1 DEF Checkpoint
    <3> QED BY <1>0, <1>t, <1>3, <3>1, SeqMonotonic DEF Write
  <2>3. done' \in [Tasks -> 0 .. writes'] /\ tree' \subseteq 1 .. writes' /\ task' \in 0 .. writes'
    BY <1>0, <1>t, <1>3, <2>1 DEF Write
  <2> QED BY <1>0, <1>t, <1>3, <2>1, <2>2, <2>3 DEF Write, Checkpoint, CheckpointTypeOK
<1>4. ASSUME NEW t \in Tasks, Announce(t) PROVE CheckpointTypeOK'
  BY <1>0, <1>t, <1>4 DEF Announce, CheckpointTypeOK, Checkpoint
<1>5. CASE FeedReceive
  <2>1. next[Feed] \in 1 .. Len(sent)
    BY <1>5, LenProperties, FeedAssumption DEF FeedReceive, Holds, Subscribed, BusTypeOK, TypeInv, TypeOK
  <2> QED BY <1>0, <1>t, <1>5, <2>1 DEF FeedReceive, Incoming, CheckpointTypeOK, Checkpoint
<1>6. CASE FeedLag
  <2>1. Overwritten(Feed) \subseteq 1 .. Len(log)
    <3>1. next[Feed] \in Nat /\ next[Feed] # 0 /\ Len(sent) \in Nat
      BY <1>6, LenProperties, FeedAssumption DEF BusTypeOK, TypeInv, TypeOK
    <3>2. \A i \in 1 .. Len(sent) : sent[i] \in 1 .. Len(log)
      BY <1>0, <1>t
    <3>3. \A e \in Overwritten(Feed) : \E i \in 1 .. Len(sent) : e = sent[i]
      BY <3>1, BusAssumption DEF Overwritten
    <3> QED BY <3>2, <3>3
  <2>2. missed' \subseteq 1 .. writes
    <3>1. {log[e] : e \in Overwritten(Feed)} \ {0} \subseteq 1 .. writes
      BY <1>0, <1>t, <2>1
    <3> QED BY <1>0, <1>6, <3>1 DEF FeedLag, NoWrite
  <2>3. UNCHANGED <<tree, writes, done, chain, task, report, reverts, losses, gone>>
    BY <1>6 DEF FeedLag
  <2> QED BY <1>0, <1>t, <2>2, <2>3 DEF CheckpointTypeOK, Checkpoint
<1>7. CASE Commit
  <2>1. task \in 1 .. writes /\ [label |-> task, tree |-> tree] \in Checkpoint(writes)
    BY <1>0, <1>t, <1>7 DEF Commit, Checkpoint
  <2>2. chain' \in Seq(Checkpoint(writes))
    BY <1>0, <1>t, <1>7, <2>1, AppendProperties DEF Commit
  <2> QED BY <1>0, <1>t, <1>7, <2>2 DEF Commit, Checkpoint, CheckpointTypeOK
<1>8. CASE CommitFails
  BY <1>0, <1>t, <1>8 DEF CommitFails, CheckpointTypeOK, Checkpoint
<1>9. CASE Report
  BY <1>0, <1>t, <1>9 DEF Report, CheckpointTypeOK, Checkpoint
<1>10. ASSUME NEW i \in DOMAIN chain, Revert(i) PROVE CheckpointTypeOK'
  <2>1. i \in 1 .. Len(chain) /\ Len(chain) \in Nat /\ DOMAIN chain = 1 .. Len(chain)
    BY <1>10, LenProperties
  <2>2. chain' \in Seq(Checkpoint(writes))
    BY <1>0, <1>t, <1>10, <2>1, SubSeqProperties DEF Revert
  <2>3. chain[i].tree \subseteq 1 .. writes
    BY <1>t DEF Checkpoint
  <2>4. gone' \subseteq 1 .. writes /\ tree' \subseteq 1 .. writes
    <3>1. gone' = gone \cup (tree \ chain[i].tree) /\ tree' = chain[i].tree
      BY <1>10 DEF Revert
    <3> QED BY <1>0, <2>3, <3>1
  <2>6. reverts' \in 0 .. MaxReverts
    BY <1>0, <1>10 DEF Revert
  <2>5. UNCHANGED <<writes, done, task, report, losses, missed>>
    BY <1>10 DEF Revert
  <2> QED BY <1>0, <1>t, <2>2, <2>4, <2>5, <2>6 DEF CheckpointTypeOK, Checkpoint
<1> QED BY <1>1, <1>2, <1>3, <1>4, <1>5, <1>6, <1>7, <1>8, <1>9, <1>10
        DEF Next, Publish, Deliver, Checkpoints, Desktop, vars

\* The store's events after a push or a hydration.
LEMMA NewestType ==
    ASSUME NEW S, NEW s \in Seq(S)
    PROVE  /\ Newest(s) \in Seq(S)
           /\ Len(Newest(s)) = IF Len(s) < MaxShown THEN Len(s) ELSE MaxShown
           /\ \A i \in 1 .. Len(Newest(s)) : Newest(s)[i] = s[i]
<1> DEFINE n == IF Len(s) < MaxShown THEN Len(s) ELSE MaxShown
<1>1. Len(s) \in Nat /\ MaxShown \in Nat \ {0} /\ n \in 0 .. Len(s)
  BY LenProperties, DesktopAssumption
<1>2. \A i \in 1 .. n : s[i] \in S
  BY <1>1, ElementOfSeq
<1>3. /\ SubSeq(s, 1, n) \in Seq(S) /\ Len(SubSeq(s, 1, n)) = n
      /\ \A i \in 1 .. n : SubSeq(s, 1, n)[i] = s[i]
  <2> HIDE DEF n
  <2> QED BY <1>1, <1>2, SubSeqProperties
<1> QED BY <1>3 DEF Newest

\* What a push does to the store.
LEMMA PushStore ==
    ASSUME NEW S, wire \in Seq(S), shown \in Seq(S), Push
    PROVE  /\ wire' \in Seq(S) /\ Len(wire') = Len(wire) - 1 /\ Len(wire) \in Nat \ {0}
           /\ \A i \in 1 .. Len(wire') : wire'[i] = wire[i + 1]
           /\ shown' \in Seq(S) /\ shown'[1] = wire[1]
           /\ Len(shown') = IF Len(shown) + 1 < MaxShown THEN Len(shown) + 1 ELSE MaxShown
           /\ \A i \in 2 .. Len(shown') : shown'[i] = shown[i - 1]
<1>1. wire # <<>> /\ wire' = Tail(wire) /\ shown' = Newest(<<Head(wire)>> \o shown)
  BY DEF Push
<1>2. /\ Head(wire) \in S /\ wire' \in Seq(S) /\ Len(wire') = Len(wire) - 1 /\ Len(wire) \in Nat \ {0}
      /\ \A i \in 1 .. Len(wire') : wire'[i] = wire[i + 1]
      /\ Head(wire) = wire[1]
  BY <1>1, HeadTailProperties, EmptySeq
<1> DEFINE one == <<Head(wire)>>
<1>3. one \in Seq(S) /\ Len(one) = 1 /\ one[1] = wire[1]
  BY <1>2
<1> DEFINE all == one \o shown
<1>4. Len(shown) \in Nat
  BY LenProperties
<1> HIDE DEF one
<1>5. /\ all \in Seq(S) /\ Len(all) = Len(shown) + 1
      /\ \A i \in 1 .. Len(shown) + 1 : all[i] = IF i <= 1 THEN wire[1] ELSE shown[i - 1]
  <2>1. /\ all \in Seq(S) /\ Len(all) = Len(one) + Len(shown)
        /\ \A i \in 1 .. Len(one) + Len(shown) : all[i] = IF i <= Len(one) THEN one[i] ELSE shown[i - Len(one)]
    BY <1>3, ConcatProperties
  <2> QED BY <1>3, <1>4, <2>1
<1>6. shown' = Newest(all)
  BY <1>1 DEF one
<1> HIDE DEF all
<1>7. /\ shown' \in Seq(S) /\ Len(shown') = IF Len(shown) + 1 < MaxShown THEN Len(shown) + 1 ELSE MaxShown
      /\ \A i \in 1 .. Len(shown') : shown'[i] = all[i]
  BY <1>5, <1>6, NewestType
<1>8. Len(shown') \in 1 .. Len(shown) + 1
  BY <1>4, <1>7, DesktopAssumption
<1>9. \A i \in 1 .. Len(shown') : i \in 1 .. Len(shown) + 1 /\ shown'[i] = IF i <= 1 THEN wire[1] ELSE shown[i - 1]
  BY <1>4, <1>5, <1>7, <1>8
<1>10. shown'[1] = wire[1] /\ \A i \in 2 .. Len(shown') : shown'[i] = shown[i - 1]
  BY <1>4, <1>8, <1>9
<1> QED BY <1>2, <1>7, <1>10

\* What a hydration does to it.
LEMMA HydrateStore ==
    ASSUME NEW r \in Requests, upto[r] \in Nat, Hydrate(r)
    PROVE  /\ shown' \in Seq(1 .. upto[r])
           /\ Len(shown') = IF upto[r] < MaxShown THEN upto[r] ELSE MaxShown
           /\ \A i \in 1 .. Len(shown') : shown'[i] = upto[r] + 1 - i
<1> DEFINE n == upto[r]
<1> DEFINE back == [i \in 1 .. n |-> n + 1 - i]
<1>1. back \in Seq(1 .. n) /\ Len(back) = n
  <2>1. back \in [1 .. n -> 1 .. n]
    OBVIOUS
  <2>2. back \in Seq(1 .. n)
    BY <2>1, SeqDef
  <2>3. DOMAIN back = 1 .. Len(back) /\ Len(back) \in Nat /\ DOMAIN back = 1 .. n
    BY <2>2, LenProperties
  <2> QED BY <2>2, <2>3
<1>2. shown' = Newest(back)
  BY DEF Hydrate
<1>3. \A i \in 1 .. n : back[i] = n + 1 - i
  OBVIOUS
<1> HIDE DEF back
<1>4. /\ shown' \in Seq(1 .. n)
      /\ Len(shown') = IF n < MaxShown THEN n ELSE MaxShown
      /\ \A i \in 1 .. Len(shown') : shown'[i] = back[i]
  BY <1>1, <1>2, NewestType
<1> QED BY <1>3, <1>4, DesktopAssumption

\* One answer more.
LEMMA Answered ==
    ASSUME NEW S, NEW f \in [S -> BOOLEAN], NEW r \in S, NEW b \in BOOLEAN
    PROVE  [f EXCEPT ![r] = b] \in [S -> BOOLEAN]
BY Zenon

\* Every step keeps the types of the desktop's stream.
LEMMA DesktopType ==
    ASSUME TypeInv, [Next]_vars, Len(log) <= Len(log')
    PROVE  DesktopTypeOK' /\ (latest' # None => request'[latest'] = "done")
<1> DEFINE Goal == DesktopTypeOK' /\ (latest' # None => request'[latest'] = "done")
<1>0. /\ Len(log) \in Nat /\ Len(sent) \in Nat /\ Len(log') \in Nat
      /\ MaxShown \in Nat \ {0} /\ ReadLimit \in Nat \ {0}
      /\ Bridge \in Subscribers /\ None \notin Requests
  <2>1. Len(log) \in Nat /\ Len(sent) \in Nat
    BY LenProperties DEF TypeInv, TypeOK, BusTypeOK
  <2>2. Len(log') \in Nat
    BY BusStep, LenProperties DEF BusTypeOK
  <2> QED BY <2>1, <2>2, DesktopAssumption, BusAssumption
<1>s. /\ wire \in Seq(1 .. Len(log)) /\ shown \in Seq(1 .. Len(log)) /\ Len(shown) <= MaxShown
      /\ \A i \in 1 .. Len(sent) : sent[i] \in 1 .. Len(log)
      /\ next[Bridge] \in Nat
  <2>1. wire \in Seq(1 .. Len(log)) /\ shown \in Seq(1 .. Len(log)) /\ Len(shown) <= MaxShown
    BY DEF TypeInv, TypeOK, DesktopTypeOK
  <2>2. sent \in Seq(1 .. Len(log)) /\ next \in [Subscribers -> 0 .. Len(sent) + 1]
    BY DEF TypeInv, TypeOK, BusTypeOK
  <2>3. \A i \in 1 .. Len(sent) : sent[i] \in 1 .. Len(log)
    BY <2>2, ElementOfSeq
  <2> QED BY <1>0, <2>1, <2>2, <2>3
<1>r. /\ request \in [Requests -> {"none", "asked", "read", "done"}]
      /\ upto \in [Requests -> 0 .. Len(log)]
      /\ latest \in Requests \cup {None} /\ (latest # None => request[latest] = "done")
      /\ erased \subseteq 1 .. Len(log) /\ dropped \subseteq 1 .. Len(log)
  BY DEF TypeInv, TypeOK, DesktopTypeOK
<1>b. listening \in BOOLEAN /\ gapless \in [Requests -> BOOLEAN]
  BY DEF TypeInv, TypeOK, DesktopTypeOK
<1>w. /\ wire \in Seq(1 .. Len(log')) /\ shown \in Seq(1 .. Len(log'))
      /\ upto \in [Requests -> 0 .. Len(log')]
      /\ erased \subseteq 1 .. Len(log') /\ dropped \subseteq 1 .. Len(log')
  <2>1. 1 .. Len(log) \subseteq 1 .. Len(log') /\ 0 .. Len(log) \subseteq 0 .. Len(log')
    BY <1>0
  <2>2. wire \in Seq(1 .. Len(log')) /\ shown \in Seq(1 .. Len(log'))
    BY <1>s, <2>1, SeqMonotonic
  <2> QED BY <1>r, <2>1, <2>2
<1>1. CASE UNCHANGED desktopVars
  <2>1. UNCHANGED <<listening, gapless>> /\ UNCHANGED <<wire, request, upto, shown, latest, erased, dropped>>
    BY <1>1 DEF desktopVars
  <2>2. listening' \in BOOLEAN /\ gapless' \in [Requests -> BOOLEAN]
    BY <1>b, <2>1
  <2> QED BY <1>s, <1>r, <1>w, <2>1, <2>2 DEF DesktopTypeOK
<1>2. ASSUME NEW p \in Publishers, Drop(p) PROVE Goal
  <2>1. listening' = listening /\ gapless' = gapless
    BY <1>2 DEF Drop, DropPublication
  <2>2. unsent[p] \in 1 .. Len(log')
    BY <1>0, <1>2 DEF Drop, DropPublication, Abandon, TypeInv, TypeOK, BusTypeOK
  <2>3. dropped' \subseteq 1 .. Len(log')
    BY <1>2, <1>w, <2>2 DEF Drop
  <2>4. UNCHANGED <<wire, request, upto, shown, latest, erased>>
    BY <1>2 DEF Drop
  <2>5. listening' \in BOOLEAN /\ gapless' \in [Requests -> BOOLEAN]
    BY <1>2, <1>b DEF Drop
  <2> QED BY <1>s, <1>r, <1>w, <2>3, <2>4, <2>5 DEF DesktopTypeOK
<1>3. CASE BridgeReceive
  <2>1. wire' \in Seq(1 .. Len(log'))
    <3>1. next[Bridge] \in 1 .. Len(sent)
      BY <1>0, <1>3, <1>s DEF BridgeReceive, Holds, Subscribed
    <3>2. Incoming(Bridge) \in 1 .. Len(log')
      BY <1>0, <1>s, <3>1 DEF Incoming
    <3> QED BY <1>3, <1>w, <3>2, AppendProperties DEF BridgeReceive
  <2>2. UNCHANGED <<request, upto, shown, latest, erased, dropped>>
    BY <1>3 DEF BridgeReceive
  <2>3. listening' \in BOOLEAN /\ gapless' \in [Requests -> BOOLEAN]
    BY <1>3, <1>b DEF BridgeReceive
  <2> QED BY <1>s, <1>r, <1>w, <2>1, <2>2, <2>3 DEF DesktopTypeOK
<1>4. CASE BridgeLag
  <2>1. dropped' \subseteq 1 .. Len(log')
    <3>1. Overwritten(Bridge) \subseteq 1 .. Len(log)
      <4>1. next[Bridge] # 0
        BY <1>4 DEF BridgeLag, Lags, Subscribed
      <4> QED BY <1>0, <1>s, <4>1, BusAssumption DEF Overwritten
    <3>2. dropped' = dropped \cup Overwritten(Bridge) /\ 1 .. Len(log) \subseteq 1 .. Len(log')
      BY <1>0, <1>4 DEF BridgeLag
    <3> QED BY <1>w, <3>1, <3>2
  <2>2. UNCHANGED <<wire, request, upto, shown, latest, erased>>
    BY <1>4 DEF BridgeLag
  <2>3. listening' \in BOOLEAN /\ gapless' \in [Requests -> BOOLEAN]
    BY <1>4, <1>b DEF BridgeLag
  <2> QED BY <1>s, <1>r, <1>w, <2>1, <2>2, <2>3 DEF DesktopTypeOK
<1>5. CASE Listen
  <2>1. UNCHANGED <<wire, request, upto, shown, latest, erased, dropped>>
    BY <1>5 DEF Listen
  <2>2. listening' \in BOOLEAN /\ gapless' \in [Requests -> BOOLEAN]
    BY <1>5, <1>b DEF Listen
  <2> QED BY <1>s, <1>r, <1>w, <2>1, <2>2 DEF DesktopTypeOK
<1>6. CASE Push
  <2> DEFINE S == 1 .. Len(log')
  <2>1. wire \in Seq(S) /\ shown \in Seq(S)
    BY <1>w
  <2>2. wire' \in Seq(S) /\ shown' \in Seq(S) /\ Len(shown') <= MaxShown
    <3> HIDE DEF S
    <3>1. Len(shown) \in Nat
      BY <2>1, LenProperties
    <3> QED BY <1>0, <1>6, <2>1, <3>1, PushStore
  <2>3. UNCHANGED <<request, upto, latest, erased, dropped>>
    BY <1>6 DEF Push
  <2>4. listening' \in BOOLEAN /\ gapless' \in [Requests -> BOOLEAN]
    BY <1>6, <1>b DEF Push
  <2> QED BY <1>s, <1>r, <1>w, <2>2, <2>3, <2>4 DEF DesktopTypeOK
<1>7. ASSUME NEW r \in Requests, Ask(r) PROVE Goal
  <2>1. UNCHANGED <<wire, upto, shown, latest, erased, dropped>>
    BY <1>7 DEF Ask
  <2>2. request' = [request EXCEPT ![r] = "asked"] /\ request[r] = "none"
    BY <1>7 DEF Ask
  <2>3. listening' \in BOOLEAN /\ gapless' \in [Requests -> BOOLEAN]
    <3>1. (listening /\ Subscribed(Bridge)) \in BOOLEAN
      BY <1>b
    <3>2. gapless' = [gapless EXCEPT ![r] = (listening /\ Subscribed(Bridge))] /\ listening' = listening
      BY <1>7 DEF Ask
    <3> QED BY <1>b, <3>1, <3>2, Answered
  <2> QED BY <1>s, <1>r, <1>w, <2>1, <2>2, <2>3 DEF DesktopTypeOK
<1>8. ASSUME NEW r \in Requests, ReadBacklog(r) PROVE Goal
  <2>1. UNCHANGED <<wire, shown, latest, erased, dropped>>
    BY <1>8 DEF ReadBacklog
  <2>2. request' = [request EXCEPT ![r] = "read"] /\ request[r] = "asked"
    BY <1>8 DEF ReadBacklog
  <2>3. upto' \in [Requests -> 0 .. Len(log')]
    <3>1. ReadAll \in 0 .. Len(log')
      BY <1>0 DEF ReadAll
    <3> QED BY <1>8, <1>w, <3>1 DEF ReadBacklog
  <2>4. listening' \in BOOLEAN /\ gapless' \in [Requests -> BOOLEAN]
    BY <1>8, <1>b DEF ReadBacklog
  <2> QED BY <1>s, <1>r, <1>w, <2>1, <2>2, <2>3, <2>4 DEF DesktopTypeOK
<1>9. ASSUME NEW r \in Requests, Hydrate(r) PROVE Goal
  <2>1. UNCHANGED <<wire, upto, dropped>>
    BY <1>9 DEF Hydrate
  <2>2. request' = [request EXCEPT ![r] = "done"] /\ latest' = r
    BY <1>9 DEF Hydrate
  <2>3. upto[r] \in Nat /\ 1 .. upto[r] \subseteq 1 .. Len(log')
    BY <1>0, <1>w
  <2>4. shown' \in Seq(1 .. Len(log')) /\ Len(shown') <= MaxShown
    <3>1. shown' \in Seq(1 .. upto[r]) /\ Len(shown') = IF upto[r] < MaxShown THEN upto[r] ELSE MaxShown
      BY <1>9, <2>3, HydrateStore
    <3>2. shown' \in Seq(1 .. Len(log'))
      BY <2>3, <3>1, SeqMonotonic
    <3> QED BY <1>0, <2>3, <3>1, <3>2
  <2>5. erased' \subseteq 1 .. Len(log')
    <3>1. Elements(shown) \subseteq 1 .. Len(log')
      BY <1>w, ElementOfSeq, LenProperties DEF Elements
    <3> QED BY <1>9, <1>w, <3>1 DEF Hydrate
  <2>6. listening' \in BOOLEAN /\ gapless' \in [Requests -> BOOLEAN]
    BY <1>9, <1>b DEF Hydrate
  <2> QED BY <1>s, <1>r, <1>w, <2>1, <2>2, <2>4, <2>5, <2>6 DEF DesktopTypeOK
<1> QED BY <1>1, <1>2, <1>3, <1>4, <1>5, <1>6, <1>7, <1>8, <1>9
        DEF Next, Publish, Deliver, Checkpoints, Desktop, vars, BridgeStart

\* Every step keeps every variable in its type.
LEMMA NextType == TypeInv /\ [Next]_vars => TypeInv'
BY BusStep, CheckpointType, DesktopType DEF TypeInv, TypeOK

\* It starts that way.
LEMMA InitType == Init => TypeInv
<1> SUFFICES ASSUME Init PROVE TypeInv
  OBVIOUS
<1>1. BusTypeOK /\ log \in Seq(0 .. writes) /\ next[Feed] # 0
  BY EmptySeq, BusAssumption, FeedAssumption DEF Init, BusInit, CheckpointInit, BusTypeOK
<1>2. CheckpointTypeOK
  <2>1. chain \in Seq(Checkpoint(writes))
    BY EmptySeq DEF Init, CheckpointInit
  <2>2. /\ tree \subseteq 1 .. writes /\ writes \in 0 .. MaxWrites
        /\ done \in [Tasks -> 0 .. writes] /\ task \in 0 .. writes
        /\ report \in BOOLEAN /\ reverts \in 0 .. MaxReverts /\ losses \in 0 .. MaxLosses
        /\ gone \subseteq 1 .. writes /\ missed \subseteq 1 .. writes
    <3>1. MaxWrites \in Nat /\ MaxReverts \in Nat /\ MaxLosses \in Nat
      BY FeedAssumption
    <3>2. /\ tree = {} /\ writes = 0 /\ done = [t \in Tasks |-> 0] /\ task = 0
          /\ reverts = 0 /\ losses = 0 /\ gone = {} /\ missed = {}
      BY DEF Init, CheckpointInit
    <3>3. report \in BOOLEAN
      BY DEF Init, CheckpointInit
    <3> QED BY <3>1, <3>2, <3>3
  <2> QED BY <2>1, <2>2 DEF CheckpointTypeOK, Checkpoint
<1>3. DesktopTypeOK /\ (latest # None => request[latest] = "done")
  <2>1. listening \in BOOLEAN /\ gapless \in [Requests -> BOOLEAN]
    BY DEF Init, DesktopInit
  <2>2. Len(log) = 0 /\ wire \in Seq(1 .. Len(log)) /\ shown \in Seq(1 .. Len(log)) /\ Len(shown) = 0
    BY EmptySeq DEF Init, BusInit, DesktopInit
  <2> QED BY <2>1, <2>2, DesktopAssumption DEF Init, DesktopInit, DesktopTypeOK
<1> QED BY <1>1, <1>2, <1>3 DEF TypeInv, TypeOK

\* The bus, the checkpoints and the desktop's stream keep every variable in its type.
THEOREM TypeCorrect == Spec => []TypeOK
<1>1. TypeInv => TypeOK
  BY DEF TypeInv
<1> QED BY <1>1, InitType, NextType, PTL DEF Spec

\* The lengths and positions the steps reason about.
LEMMA BusFacts ==
    ASSUME TypeInv
    PROVE  /\ Len(log) \in Nat /\ Len(sent) \in Nat /\ DOMAIN sent = 1 .. Len(sent)
           /\ unsent \in [Publishers -> 0 .. Len(log)] /\ sent \in Seq(1 .. Len(log))
           /\ \A i \in 1 .. Len(sent) : sent[i] \in 1 .. Len(log)
           /\ next \in [Subscribers -> 0 .. Len(sent) + 1]
           /\ Bridge \in Subscribers /\ Feed \in Subscribers /\ Feed # Bridge
           /\ Capacity \in Nat \ {0} /\ next[Feed] \in 1 .. Len(sent) + 1
           /\ Len(wire) \in Nat /\ DOMAIN wire = 1 .. Len(wire) /\ wire \in Seq(1 .. Len(log))
           /\ Len(shown) \in Nat /\ DOMAIN shown = 1 .. Len(shown) /\ shown \in Seq(1 .. Len(log))
           /\ \A i \in 1 .. Len(wire) : wire[i] \in 1 .. Len(log)
           /\ \A i \in 1 .. Len(shown) : shown[i] \in 1 .. Len(log)
           /\ upto \in [Requests -> 0 .. Len(log)] /\ latest \in Requests \cup {None}
           /\ latest # None => request[latest] = "done"
<1>1. /\ unsent \in [Publishers -> 0 .. Len(log)] /\ sent \in Seq(1 .. Len(log))
      /\ next \in [Subscribers -> 0 .. Len(sent) + 1] /\ Len(log) \in Nat
  BY LenProperties DEF TypeInv, TypeOK, BusTypeOK
<1>2. /\ wire \in Seq(1 .. Len(log)) /\ shown \in Seq(1 .. Len(log))
      /\ upto \in [Requests -> 0 .. Len(log)] /\ latest \in Requests \cup {None}
      /\ latest # None => request[latest] = "done"
  BY DEF TypeInv, TypeOK, DesktopTypeOK
<1>3. \A i \in 1 .. Len(sent) : sent[i] \in 1 .. Len(log)
  BY <1>1, ElementOfSeq
<1>4. /\ \A i \in 1 .. Len(wire) : wire[i] \in 1 .. Len(log)
      /\ \A i \in 1 .. Len(shown) : shown[i] \in 1 .. Len(log)
  BY <1>2, ElementOfSeq
<1>5. /\ Len(sent) \in Nat /\ DOMAIN sent = 1 .. Len(sent)
      /\ Len(wire) \in Nat /\ DOMAIN wire = 1 .. Len(wire)
      /\ Len(shown) \in Nat /\ DOMAIN shown = 1 .. Len(shown)
  BY <1>1, <1>2, LenProperties
<1>6. Bridge \in Subscribers /\ Feed \in Subscribers /\ Feed # Bridge /\ Capacity \in Nat \ {0}
  BY DesktopAssumption, FeedAssumption, BusAssumption DEF Feed, Bridge
<1>7. next[Feed] \in 1 .. Len(sent) + 1
  BY <1>1, <1>5, <1>6 DEF TypeInv
<1> QED BY <1>1, <1>2, <1>3, <1>4, <1>5, <1>6, <1>7

-----------------------------------------------------------------------------
(* Every change is committed *)

\* The change c has a row whose event the checkpoints may still receive.
OnBus(c) ==
    \/ \E p \in Publishers : unsent[p] # 0 /\ log[unsent[p]] = c
    \/ \E i \in DOMAIN sent : i >= next[Feed] /\ log[sent[i]] = c

LEMMA UnderwayIs ==
    ASSUME NEW c
    PROVE  /\ c \in Underway <=> (\E t \in Tasks : done[t] = c) \/ task = c \/ OnBus(c)
           /\ c \in Underway' <=> (\E t \in Tasks : done'[t] = c) \/ task' = c \/ OnBus(c)'
BY DEF Underway, OnBus

\* The bus keeps an event until the checkpoints receive it, skip it, or its
\* publisher is dropped.
LEMMA BusKeeps ==
    ASSUME TypeInv, NEW c
    PROVE  /\ OnBus(c) /\ UNCHANGED <<log, unsent, sent>> /\ next'[Feed] = next[Feed] => OnBus(c)'
           /\ \A p \in Publishers, x \in Nat : AppendRow(p, x) => OnBus(x)' /\ (OnBus(c) => OnBus(c)')
           /\ \A p \in Publishers : Send(p) => (OnBus(c) => OnBus(c)')
           /\ \A p \in Publishers : Abandon(p) => (OnBus(c) => OnBus(c)' \/ c = log[unsent[p]])
           /\ Received(Feed) => (OnBus(c) => OnBus(c)' \/ c = log[Incoming(Feed)])
           /\ CatchUp(Feed) => (OnBus(c) => OnBus(c)' \/ \E e \in Overwritten(Feed) : c = log[e])
<1>t. /\ Len(log) \in Nat /\ Len(sent) \in Nat /\ next[Feed] \in 1 .. Len(sent) + 1
      /\ DOMAIN sent = 1 .. Len(sent) /\ unsent \in [Publishers -> 0 .. Len(log)]
      /\ \A i \in 1 .. Len(sent) : sent[i] \in 1 .. Len(log)
      /\ next \in [Subscribers -> Nat] /\ Feed \in Subscribers
      /\ Capacity \in Nat \ {0}
  BY BusFacts
<1>1. OnBus(c) /\ UNCHANGED <<log, unsent, sent>> /\ next'[Feed] = next[Feed] => OnBus(c)'
  BY DEF OnBus
<1>2. ASSUME NEW p \in Publishers, NEW x \in Nat, AppendRow(p, x) PROVE OnBus(x)' /\ (OnBus(c) => OnBus(c)')
  <2>1. /\ log' = Append(log, x) /\ \A e \in 1 .. Len(log) : log'[e] = log[e]
        /\ log'[Len(log) + 1] = x
    BY <1>2, AppendProperties DEF AppendRow, TypeInv, TypeOK, BusTypeOK
  <2>2. /\ unsent[p] = 0 /\ unsent'[p] = Len(log) + 1 /\ sent' = sent /\ next' = next
        /\ \A q \in Publishers : q # p => unsent'[q] = unsent[q]
    BY <1>t, <1>2 DEF AppendRow
  <2>3. OnBus(x)'
    BY <1>t, <2>1, <2>2 DEF OnBus
  <2>4. ASSUME NEW q \in Publishers, unsent[q] # 0, log[unsent[q]] = c PROVE OnBus(c)'
    <3>1. unsent[q] \in 1 .. Len(log) /\ q # p
      BY <1>t, <2>2, <2>4
    <3> QED BY <2>1, <2>2, <2>4, <3>1 DEF OnBus
  <2>5. ASSUME NEW i \in DOMAIN sent, i >= next[Feed], log[sent[i]] = c PROVE OnBus(c)'
    <3>1. sent[i] \in 1 .. Len(log)
      BY <1>t
    <3> QED BY <2>1, <2>2, <2>5, <3>1 DEF OnBus
  <2> QED BY <2>3, <2>4, <2>5 DEF OnBus
<1>3. ASSUME NEW p \in Publishers, Send(p), OnBus(c) PROVE OnBus(c)'
  <2>1. /\ sent' \in Seq(1 .. Len(log)) /\ Len(sent') = Len(sent) + 1
        /\ \A i \in 1 .. Len(sent) : sent'[i] = sent[i]
        /\ sent'[Len(sent) + 1] = unsent[p]
    BY <1>t, <1>3, AppendProperties DEF Send, TypeInv, TypeOK, BusTypeOK
  <2>2. DOMAIN sent' = 1 .. Len(sent) + 1
    BY <2>1, LenProperties
  <2>3. log' = log /\ next' = next /\ \A q \in Publishers : q # p => unsent'[q] = unsent[q]
    BY <1>t, <1>3 DEF Send
  <2>4. ASSUME NEW q \in Publishers, unsent[q] # 0, log[unsent[q]] = c PROVE OnBus(c)'
    <3>1. CASE q = p
      <4>1. Len(sent) + 1 \in DOMAIN sent' /\ Len(sent) + 1 >= next[Feed]
        BY <1>t, <2>2
      <4> QED BY <2>1, <2>3, <2>4, <3>1, <4>1 DEF OnBus
    <3>2. CASE q # p
      BY <2>3, <2>4, <3>2 DEF OnBus
    <3> QED BY <3>1, <3>2
  <2>5. ASSUME NEW i \in DOMAIN sent, i >= next[Feed], log[sent[i]] = c PROVE OnBus(c)'
    <3>1. i \in DOMAIN sent' /\ sent'[i] = sent[i]
      BY <1>t, <2>1, <2>2
    <3> QED BY <2>3, <2>5, <3>1 DEF OnBus
  <2> QED BY <1>3, <2>4, <2>5 DEF OnBus
<1>4. ASSUME NEW p \in Publishers, Abandon(p), OnBus(c) PROVE OnBus(c)' \/ c = log[unsent[p]]
  <2>1. /\ log' = log /\ next' = next /\ sent' = sent
        /\ \A q \in Publishers : q # p => unsent'[q] = unsent[q]
    BY <1>t, <1>4 DEF Abandon
  <2> QED BY <1>4, <2>1 DEF OnBus
<1>5. ASSUME Received(Feed), OnBus(c) PROVE OnBus(c)' \/ c = log[Incoming(Feed)]
  <2>1. UNCHANGED <<log, unsent, sent>> /\ next'[Feed] = next[Feed] + 1
    BY <1>t, <1>5 DEF Received
  <2>2. ASSUME NEW i \in DOMAIN sent, i >= next[Feed], log[sent[i]] = c
        PROVE  OnBus(c)' \/ c = log[Incoming(Feed)]
    <3>1. i = next[Feed] \/ i >= next'[Feed]
      BY <1>t, <2>1, <2>2
    <3> QED BY <2>1, <2>2, <3>1 DEF OnBus, Incoming
  <2> QED BY <1>5, <2>1, <2>2 DEF OnBus
<1>6. ASSUME CatchUp(Feed), OnBus(c) PROVE OnBus(c)' \/ \E e \in Overwritten(Feed) : c = log[e]
  <2>1. UNCHANGED <<log, unsent, sent>> /\ next'[Feed] = Len(sent) - Capacity + 1
    BY <1>t, <1>6 DEF CatchUp
  <2>2. ASSUME NEW i \in DOMAIN sent, i >= next[Feed], log[sent[i]] = c
        PROVE  OnBus(c)' \/ \E e \in Overwritten(Feed) : c = log[e]
    <3>1. i \in next[Feed] .. Len(sent) - Capacity \/ i >= next'[Feed]
      BY <1>t, <2>1, <2>2
    <3> QED BY <2>1, <2>2, <3>1 DEF OnBus, Overwritten
  <2> QED BY <1>6, <2>1, <2>2 DEF OnBus
<1> QED BY <1>1, <1>2, <1>3, <1>4, <1>5, <1>6

\* c is in the head commit, or its event is underway, or lost.
Dealt(c) == c \in HeadTree \/ c \in Underway \/ c \in missed

\* A step that leaves workspace and commits alone, and every event that is not lost
\* underway, keeps every change committed or underway.
LEMMA StillDealt ==
    ASSUME ChangesAreCommitted, tree' = tree, chain' = chain, missed \subseteq missed',
           \A c \in tree : c \in Underway => c \in Underway' \/ c \in missed'
    PROVE  ChangesAreCommitted'
<1>1. HeadTree' = HeadTree
  BY DEF HeadTree
<1> QED BY <1>1 DEF ChangesAreCommitted

\* Every step keeps every change committed or underway, but for the lost ones.
LEMMA NextCommitted ==
    ASSUME TypeInv, ChangesAreCommitted, [Next]_vars
    PROVE  ChangesAreCommitted'
<1>0. /\ tree \subseteq 1 .. writes /\ writes \in Nat /\ done \in [Tasks -> 0 .. writes]
      /\ task \in 0 .. writes /\ Feed \in Subscribers /\ Feed # Bridge /\ Tasks \subseteq Publishers
      /\ Feed \in Publishers /\ next \in [Subscribers -> Nat]
  BY FeedAssumption DEF TypeInv, TypeOK, CheckpointTypeOK, BusTypeOK, Feed, Bridge
<1>t. tree \subseteq Nat \ {0}
  BY <1>0
<1>1. ASSUME UNCHANGED <<tree, chain, missed, done, task>>,
             \A c \in tree : OnBus(c) => OnBus(c)'
      PROVE  ChangesAreCommitted'
  <2>1. ASSUME NEW c \in tree, c \in Underway PROVE c \in Underway'
    BY <1>1, <2>1, UnderwayIs
  <2> QED BY <1>1, <2>1, StillDealt
<1>2. ASSUME NEW p \in Publishers, Publish(p) \/ Deliver(p) PROVE ChangesAreCommitted'
  <2>1. UNCHANGED <<tree, chain, missed, done, task>>
    BY <1>2 DEF Publish, Deliver, checkpointVars
  <2>2. ASSUME NEW c \in tree, OnBus(c) PROVE OnBus(c)'
    BY <1>2, <2>2, BusKeeps DEF Publish, Deliver, NoWrite
  <2> QED BY <1>1, <2>1, <2>2
<1>3. ASSUME NEW p \in Publishers, Drop(p) PROVE ChangesAreCommitted'
  <2>1. /\ Abandon(p) /\ UNCHANGED <<tree, chain, done, task>>
        /\ missed' = missed \cup ({log[unsent[p]]} \ {0})
    BY <1>3 DEF Drop, DropPublication, NoWrite
  <2>2. ASSUME NEW c \in tree, c \in Underway PROVE c \in Underway' \/ c \in missed'
    <3>1. OnBus(c) => OnBus(c)' \/ c = log[unsent[p]]
      BY <2>1, BusKeeps
    <3>2. c # 0
      BY <1>t
    <3> QED BY <2>1, <2>2, <3>1, <3>2, UnderwayIs
  <2> QED BY <2>1, <2>2, StillDealt
<1>4. ASSUME NEW t \in Tasks, Write(t) PROVE ChangesAreCommitted'
  <2>1. /\ tree' = tree \cup {writes + 1} /\ done' = [done EXCEPT ![t] = writes + 1]
        /\ done[t] = 0 /\ UNCHANGED <<log, unsent, sent, next, chain, task, missed>>
    BY <1>4 DEF Write, busVars
  <2>2. HeadTree' = HeadTree
    BY <2>1 DEF HeadTree
  <2>3. writes + 1 \in Underway'
    <3>1. done'[t] = writes + 1
      BY <1>0, <2>1
    <3> QED BY <3>1, UnderwayIs
  <2>4. ASSUME NEW c \in tree, c \in Underway PROVE c \in Underway'
    <3>1. OnBus(c) => OnBus(c)'
      BY <2>1, BusKeeps
    <3>2. \A u \in Tasks : done[u] = c => done'[u] = c
      BY <1>0, <1>t, <2>1
    <3> QED BY <2>1, <2>4, <3>1, <3>2, UnderwayIs
  <2> QED BY <2>1, <2>2, <2>3, <2>4 DEF ChangesAreCommitted
<1>5. ASSUME NEW t \in Tasks, Announce(t) PROVE ChangesAreCommitted'
  <2>1. PICK x \in Nat : x = done[t]
    BY <1>0
  <2>2. /\ done' = [done EXCEPT ![t] = 0] /\ AppendRow(t, x) /\ t \in Publishers
        /\ UNCHANGED <<tree, chain, task, missed>>
    BY <1>0, <1>5, <2>1 DEF Announce
  <2>3. ASSUME NEW c \in tree, c \in Underway PROVE c \in Underway'
    <3>1. (OnBus(c) => OnBus(c)') /\ OnBus(x)'
      BY <2>2, BusKeeps
    <3>2. \A u \in Tasks : done[u] = c => done'[u] = c \/ c = x
      BY <1>0, <2>1, <2>2
    <3> QED BY <2>2, <2>3, <3>1, <3>2, UnderwayIs
  <2> QED BY <2>2, <2>3, StillDealt
<1>6. CASE FeedReceive
  <2>1. /\ Received(Feed) /\ task = 0 /\ task' = log[Incoming(Feed)]
        /\ UNCHANGED <<tree, done, chain, missed>>
    BY <1>6 DEF FeedReceive
  <2>2. ASSUME NEW c \in tree, c \in Underway PROVE c \in Underway'
    <3>1. OnBus(c) => OnBus(c)' \/ c = log[Incoming(Feed)]
      BY <2>1, BusKeeps
    <3>2. c # 0
      BY <1>t
    <3> QED BY <2>1, <2>2, <3>1, <3>2, UnderwayIs
  <2> QED BY <2>1, <2>2, StillDealt
<1>7. CASE FeedLag
  <2>1. /\ CatchUp(Feed) /\ UNCHANGED <<tree, done, chain, task>>
        /\ missed' = missed \cup ({log[e] : e \in Overwritten(Feed)} \ {0})
    BY <1>7 DEF FeedLag, NoWrite
  <2>2. ASSUME NEW c \in tree, c \in Underway PROVE c \in Underway' \/ c \in missed'
    <3>1. OnBus(c) => OnBus(c)' \/ \E e \in Overwritten(Feed) : c = log[e]
      BY <2>1, BusKeeps
    <3>2. c # 0
      BY <1>t
    <3> QED BY <2>1, <2>2, <3>1, <3>2, UnderwayIs
  <2> QED BY <2>1, <2>2, StillDealt
<1>8. CASE Commit
  <2>1. tree' = tree /\ chain' = IF tree = HeadTree THEN chain ELSE Append(chain, [label |-> task, tree |-> tree])
    BY <1>8 DEF Commit
  <2>2. HeadTree' = tree
    <3>1. CASE tree = HeadTree
      BY <2>1, <3>1 DEF HeadTree
    <3>2. CASE tree # HeadTree
      <4> DEFINE C == Checkpoint(writes)
                 new == [label |-> task, tree |-> tree]
      <4>1. chain \in Seq(C) /\ new \in C
        BY <1>0, <1>8 DEF TypeInv, TypeOK, CheckpointTypeOK, Checkpoint, Commit
      <4>2. new.tree = tree /\ chain' = Append(chain, new)
        BY <2>1, <3>2
      <4> HIDE DEF C, new
      <4>3. Len(chain') = Len(chain) + 1 /\ Len(chain) \in Nat /\ chain'[Len(chain) + 1] = new
        BY <4>1, <4>2, AppendProperties, LenProperties
      <4>4. chain' # <<>>
        BY <4>3
      <4> QED BY <4>2, <4>3, <4>4 DEF HeadTree
    <3> QED BY <3>1, <3>2
  <2> QED BY <2>1, <2>2 DEF ChangesAreCommitted
<1>9. CASE CommitFails
  <2>1. /\ missed' = missed \cup {task} /\ UNCHANGED <<log, unsent, sent, next>>
        /\ UNCHANGED <<tree, done, chain>>
    BY <1>9 DEF CommitFails, busVars
  <2>2. ASSUME NEW c \in tree, c \in Underway PROVE c \in Underway' \/ c \in missed'
    BY <2>1, <2>2, BusKeeps, UnderwayIs
  <2> QED BY <2>1, <2>2, StillDealt
<1>10. CASE Report
  <2>1. UNCHANGED <<tree, chain, missed, done, task>>
    BY <1>10 DEF Report
  <2>2. ASSUME NEW c \in tree, OnBus(c) PROVE OnBus(c)'
    <3>1. AppendRow(Feed, 0) /\ 0 \in Nat
      BY <1>10 DEF Report, NoWrite
    <3> QED BY <1>0, <2>2, <3>1, BusKeeps
  <2> QED BY <1>1, <2>1, <2>2
<1>11. ASSUME NEW i \in DOMAIN chain, Revert(i) PROVE ChangesAreCommitted'
  <2>1. tree' = chain[i].tree /\ chain' = SubSeq(chain, 1, i)
    BY <1>11 DEF Revert
  <2>2. HeadTree' = tree'
    <3> DEFINE C == Checkpoint(writes)
    <3>1. chain \in Seq(C)
      BY DEF TypeInv, TypeOK, CheckpointTypeOK, Checkpoint
    <3> HIDE DEF C
    <3>2. i \in 1 .. Len(chain) /\ Len(chain) \in Nat
      BY <3>1, LenProperties
    <3>3. Len(chain') = i /\ chain'[i] = chain[i]
      BY <2>1, <3>1, <3>2, SubSeqProperties
    <3>4. chain' # <<>>
      BY <3>2, <3>3
    <3> QED BY <2>1, <3>3, <3>4 DEF HeadTree
  <2> QED BY <2>2 DEF ChangesAreCommitted
<1>12. CASE Desktop
  <2>1. UNCHANGED <<tree, chain, missed, done, task>>
    BY <1>12 DEF Desktop, checkpointVars
  <2>2. UNCHANGED <<log, unsent, sent>> /\ next'[Feed] = next[Feed]
    BY <1>0, <1>12 DEF Desktop, BridgeStart, BridgeReceive, BridgeLag, Listen, Push, Ask, ReadBacklog,
                Hydrate, Subscribe, Received, CatchUp, busVars
  <2>3. ASSUME NEW c \in tree, OnBus(c) PROVE OnBus(c)'
    BY <2>2, <2>3, BusKeeps
  <2> QED BY <1>1, <2>1, <2>3
<1>13. CASE UNCHANGED vars
  <2>1. UNCHANGED <<tree, chain, missed, done, task>> /\ UNCHANGED <<log, unsent, sent, next>>
    BY <1>13 DEF vars, checkpointVars, busVars
  <2>2. ASSUME NEW c \in tree, OnBus(c) PROVE OnBus(c)'
    BY <2>1, <2>2, BusKeeps
  <2> QED BY <1>1, <2>1, <2>2
<1> QED BY <1>2, <1>3, <1>4, <1>5, <1>6, <1>7, <1>8, <1>9, <1>10, <1>11, <1>12, <1>13 DEF Next, Checkpoints

\* A change in the workspace is in the head commit, or an event that has been
\* received, is on the bus or will be published announces it; or its event was
\* lost, or its commit failed.
THEOREM EveryChangeIsCommitted == Spec => []ChangesAreCommitted
<1>1. Init => ChangesAreCommitted
  BY DEF Init, CheckpointInit, ChangesAreCommitted
<1>2. TypeInv /\ ChangesAreCommitted /\ [Next]_vars => ChangesAreCommitted'
  BY NextCommitted
<1> QED BY <1>1, <1>2, InitType, NextType, PTL DEF Spec

-----------------------------------------------------------------------------
(* What a checkpoint is labelled with *)

\* What has been changed and announced is or was in the workspace.
AnnouncedWasThere == Underway \subseteq tree \cup gone \cup {NoWrite}

\* Only a publication brings an event on the bus.
LEMMA BusOnly ==
    ASSUME TypeInv, NEW c, OnBus(c)'
    PROVE  /\ UNCHANGED <<log, unsent, sent>> /\ next'[Feed] = next[Feed] => OnBus(c)
           /\ \A p \in Publishers, x \in Nat : AppendRow(p, x) => OnBus(c) \/ c = x
           /\ \A p \in Publishers : Send(p) \/ Abandon(p) => OnBus(c)
           /\ Received(Feed) => OnBus(c)
           /\ Lags(Feed) /\ CatchUp(Feed) => OnBus(c)
<1>t. /\ Len(log) \in Nat /\ Len(sent) \in Nat /\ next[Feed] \in 1 .. Len(sent) + 1
      /\ DOMAIN sent = 1 .. Len(sent) /\ unsent \in [Publishers -> 0 .. Len(log)]
      /\ \A i \in 1 .. Len(sent) : sent[i] \in 1 .. Len(log)
      /\ next \in [Subscribers -> Nat] /\ Feed \in Subscribers
      /\ Capacity \in Nat \ {0}
  BY BusFacts
<1>1. UNCHANGED <<log, unsent, sent>> /\ next'[Feed] = next[Feed] => OnBus(c)
  BY DEF OnBus
<1>2. ASSUME NEW p \in Publishers, NEW x \in Nat, AppendRow(p, x) PROVE OnBus(c) \/ c = x
  <2>1. /\ \A e \in 1 .. Len(log) : log'[e] = log[e]
        /\ log'[Len(log) + 1] = x
    BY <1>2, AppendProperties DEF AppendRow, TypeInv, TypeOK, BusTypeOK
  <2>2. /\ unsent'[p] = Len(log) + 1 /\ sent' = sent /\ next' = next
        /\ \A q \in Publishers : q # p => unsent'[q] = unsent[q]
    BY <1>t, <1>2 DEF AppendRow
  <2>3. ASSUME NEW q \in Publishers, unsent'[q] # 0, log'[unsent'[q]] = c PROVE OnBus(c) \/ c = x
    <3>1. q # p => unsent[q] \in 1 .. Len(log)
      BY <1>t, <2>2, <2>3
    <3> QED BY <2>1, <2>2, <2>3, <3>1 DEF OnBus
  <2>4. ASSUME NEW i \in DOMAIN sent', i >= next'[Feed], log'[sent'[i]] = c PROVE OnBus(c)
    <3>1. sent[i] \in 1 .. Len(log)
      BY <1>t, <2>2
    <3> QED BY <2>1, <2>2, <2>4, <3>1 DEF OnBus
  <2> QED BY <2>3, <2>4 DEF OnBus
<1>3. ASSUME NEW p \in Publishers, Send(p) PROVE OnBus(c)
  <2>1. /\ sent' \in Seq(1 .. Len(log)) /\ Len(sent') = Len(sent) + 1 /\ unsent[p] # 0
        /\ \A i \in 1 .. Len(sent) : sent'[i] = sent[i]
        /\ sent'[Len(sent) + 1] = unsent[p]
    BY <1>t, <1>3, AppendProperties DEF Send, TypeInv, TypeOK, BusTypeOK
  <2>2. DOMAIN sent' = 1 .. Len(sent) + 1
    BY <2>1, LenProperties
  <2>3. /\ log' = log /\ next' = next /\ unsent'[p] = 0
        /\ \A q \in Publishers : q # p => unsent'[q] = unsent[q]
    BY <1>t, <1>3 DEF Send
  <2>4. ASSUME NEW i \in DOMAIN sent', i >= next'[Feed], log'[sent'[i]] = c PROVE OnBus(c)
    <3>1. i = Len(sent) + 1 \/ (i \in DOMAIN sent /\ sent'[i] = sent[i])
      BY <1>t, <2>1, <2>2
    <3> QED BY <2>1, <2>3, <2>4, <3>1 DEF OnBus
  <2> QED BY <2>3, <2>4 DEF OnBus
<1>4. ASSUME NEW p \in Publishers, Abandon(p) PROVE OnBus(c)
  <2>1. /\ log' = log /\ next' = next /\ sent' = sent /\ unsent'[p] = 0
        /\ \A q \in Publishers : q # p => unsent'[q] = unsent[q]
    BY <1>t, <1>4 DEF Abandon
  <2> QED BY <2>1 DEF OnBus
<1>5. ASSUME Received(Feed) \/ (Lags(Feed) /\ CatchUp(Feed)) PROVE OnBus(c)
  <2>1. UNCHANGED <<log, unsent, sent>> /\ next'[Feed] >= next[Feed] /\ next'[Feed] \in Nat
    BY <1>t, <1>5 DEF Received, CatchUp, Lags
  <2> QED BY <1>t, <2>1 DEF OnBus
<1>6. \A p \in Publishers, x \in Nat : AppendRow(p, x) => OnBus(c) \/ c = x
  BY <1>2
<1>7. \A p \in Publishers : Send(p) \/ Abandon(p) => OnBus(c)
  BY <1>3, <1>4
<1>8. (Received(Feed) => OnBus(c)) /\ (Lags(Feed) /\ CatchUp(Feed) => OnBus(c))
  BY <1>5
<1> QED BY <1>1, <1>6, <1>7, <1>8

\* The workspace, with all that reverts have taken out of it, only grows.
LEMMA StillThere ==
    ASSUME AnnouncedWasThere, tree \cup gone \subseteq tree' \cup gone',
           \A c : c \in Underway' => c \in Underway \/ c \in tree' \cup gone' \cup {0}
    PROVE  AnnouncedWasThere'
BY DEF AnnouncedWasThere, NoWrite

\* Every step keeps what is announced something the workspace holds or held.
LEMMA NextAnnounced ==
    ASSUME TypeInv, AnnouncedWasThere, [Next]_vars
    PROVE  AnnouncedWasThere' /\ tree \cup gone \subseteq tree' \cup gone' /\ gone \subseteq gone'
<1> DEFINE Goal == AnnouncedWasThere' /\ tree \cup gone \subseteq tree' \cup gone' /\ gone \subseteq gone'
<1>0. /\ done \in [Tasks -> 0 .. writes] /\ writes \in Nat /\ Feed \in Subscribers /\ Feed # Bridge
      /\ Tasks \subseteq Publishers /\ Feed \in Publishers /\ next \in [Subscribers -> Nat]
  BY FeedAssumption DEF TypeInv, TypeOK, CheckpointTypeOK, BusTypeOK, Feed, Bridge
<1>1. ASSUME UNCHANGED <<tree, gone, done, task>>, \A c : OnBus(c)' => OnBus(c) \/ c = 0 PROVE Goal
  <2>1. \A c : c \in Underway' => c \in Underway \/ c = 0
    BY <1>1, UnderwayIs
  <2> QED BY <1>1, <2>1, StillThere
<1>2. ASSUME NEW p \in Publishers, Publish(p) \/ Deliver(p) \/ Drop(p) PROVE Goal
  <2>1. UNCHANGED <<tree, gone, done, task>>
    BY <1>2 DEF Publish, Deliver, Drop, DropPublication, checkpointVars
  <2>2. ASSUME NEW c, OnBus(c)' PROVE OnBus(c) \/ c = 0
    BY <1>2, <2>2, BusOnly DEF Publish, Deliver, Drop, DropPublication, NoWrite
  <2> QED BY <1>1, <2>1, <2>2
<1>3. ASSUME NEW t \in Tasks, Write(t) PROVE Goal
  <2>1. /\ tree' = tree \cup {writes + 1} /\ done' = [done EXCEPT ![t] = writes + 1]
        /\ UNCHANGED <<log, unsent, sent, next, task, gone>>
    BY <1>3 DEF Write, busVars
  <2>2. ASSUME NEW c, c \in Underway' PROVE c \in Underway \/ c = writes + 1
    <3>1. OnBus(c)' => OnBus(c)
      BY <2>1, BusOnly
    <3>2. \A u \in Tasks : done'[u] = done[u] \/ done'[u] = writes + 1
      BY <1>0, <2>1
    <3> QED BY <2>1, <2>2, <3>1, <3>2, UnderwayIs
  <2> QED BY <2>1, <2>2, StillThere
<1>4. ASSUME NEW t \in Tasks, Announce(t) PROVE Goal
  <2>1. PICK x \in Nat : x = done[t]
    BY <1>0
  <2>2. /\ done' = [done EXCEPT ![t] = 0] /\ AppendRow(t, x) /\ t \in Publishers
        /\ UNCHANGED <<tree, gone, task>>
    BY <1>0, <1>4, <2>1 DEF Announce
  <2>3. ASSUME NEW c, c \in Underway' PROVE c \in Underway \/ c = 0
    <3>1. OnBus(c)' => OnBus(c) \/ c = x
      BY <2>2, BusOnly
    <3>2. \A u \in Tasks : done'[u] = done[u] \/ done'[u] = 0
      BY <1>0, <2>2
    <3> QED BY <2>1, <2>2, <2>3, <3>1, <3>2, UnderwayIs
  <2> QED BY <2>2, <2>3, StillThere
<1>5. CASE FeedReceive
  <2>1. /\ Received(Feed) /\ Holds(Feed) /\ task' = log[Incoming(Feed)]
        /\ UNCHANGED <<tree, done, gone>>
    BY <1>5 DEF FeedReceive
  <2>2. OnBus(log[Incoming(Feed)])
    <3>1. next[Feed] \in DOMAIN sent /\ next[Feed] >= next[Feed]
      BY <1>0, <2>1, LenProperties DEF Holds, Subscribed, TypeInv, TypeOK, BusTypeOK
    <3> QED BY <3>1 DEF OnBus, Incoming
  <2>3. ASSUME NEW c, c \in Underway' PROVE c \in Underway
    <3>1. OnBus(c)' => OnBus(c)
      BY <2>1, BusOnly
    <3> QED BY <2>1, <2>2, <2>3, <3>1, UnderwayIs
  <2> QED BY <2>1, <2>3, StillThere
<1>6. CASE FeedLag
  <2>1. Lags(Feed) /\ CatchUp(Feed) /\ UNCHANGED <<tree, gone, done, task>>
    BY <1>6 DEF FeedLag
  <2>2. ASSUME NEW c, OnBus(c)' PROVE OnBus(c) \/ c = 0
    BY <2>1, <2>2, BusOnly
  <2> QED BY <1>1, <2>1, <2>2
<1>7. CASE Commit \/ CommitFails
  <2>1. task' = 0 /\ UNCHANGED <<log, unsent, sent, next>> /\ UNCHANGED <<tree, gone, done>>
    BY <1>7 DEF Commit, CommitFails, busVars
  <2>2. ASSUME NEW c, c \in Underway' PROVE c \in Underway \/ c = 0
    <3>1. OnBus(c)' => OnBus(c)
      BY <2>1, BusOnly
    <3> QED BY <2>1, <2>2, <3>1, UnderwayIs
  <2> QED BY <2>1, <2>2, StillThere
<1>8. CASE Report
  <2>1. UNCHANGED <<tree, gone, done, task>> /\ AppendRow(Feed, 0) /\ 0 \in Nat
    BY <1>8 DEF Report, NoWrite
  <2>2. ASSUME NEW c, OnBus(c)' PROVE OnBus(c) \/ c = 0
    BY <1>0, <2>1, <2>2, BusOnly
  <2> QED BY <1>1, <2>1, <2>2
<1>9. ASSUME NEW i \in DOMAIN chain, Revert(i) PROVE Goal
  <2>1. gone' = gone \cup (tree \ tree') /\ UNCHANGED <<log, unsent, sent, next>> /\ UNCHANGED <<done, task>>
    BY <1>9 DEF Revert, busVars
  <2>2. ASSUME NEW c, c \in Underway' PROVE c \in Underway
    <3>1. OnBus(c)' => OnBus(c)
      BY <2>1, BusOnly
    <3> QED BY <2>1, <2>2, <3>1, UnderwayIs
  <2> QED BY <2>1, <2>2, StillThere
<1>10. CASE Desktop
  <2>1. UNCHANGED <<tree, gone, done, task>>
    BY <1>10 DEF Desktop, checkpointVars
  <2>2. UNCHANGED <<log, unsent, sent>> /\ next'[Feed] = next[Feed]
    BY <1>0, <1>10 DEF Desktop, BridgeStart, BridgeReceive, BridgeLag, Listen, Push, Ask, ReadBacklog,
                Hydrate, Subscribe, Received, CatchUp, busVars
  <2>3. ASSUME NEW c, OnBus(c)' PROVE OnBus(c) \/ c = 0
    BY <2>2, <2>3, BusOnly
  <2> QED BY <1>1, <2>1, <2>3
<1>11. CASE UNCHANGED vars
  <2>1. UNCHANGED <<tree, gone, done, task>> /\ UNCHANGED <<log, unsent, sent, next>>
    BY <1>11 DEF vars, checkpointVars, busVars
  <2>2. ASSUME NEW c, OnBus(c)' PROVE OnBus(c) \/ c = 0
    BY <2>1, <2>2, BusOnly
  <2> QED BY <1>1, <2>1, <2>2
<1> QED BY <1>2, <1>3, <1>4, <1>5, <1>6, <1>7, <1>8, <1>9, <1>10, <1>11 DEF Next, Checkpoints

\* Every step keeps labels and checkpoints together.
LEMMA NextLabels ==
    ASSUME TypeInv, AnnouncedWasThere, LabelsFit, [Next]_vars
    PROVE  LabelsFit'
<1> DEFINE C == Checkpoint(writes)
           new == [label |-> task, tree |-> tree]
<1>0. chain \in Seq(C) /\ gone \subseteq gone'
  BY NextAnnounced DEF TypeInv, TypeOK, CheckpointTypeOK, Checkpoint
<1>1. CASE UNCHANGED chain
  BY <1>0, <1>1 DEF LabelsFit
<1>2. CASE Commit
  <2>1. task \in tree \cup gone
    BY <1>2, UnderwayIs DEF Commit, AnnouncedWasThere, NoWrite
  <2>2. new \in C /\ new.label = task /\ new.tree = tree
    BY <1>2 DEF TypeInv, TypeOK, CheckpointTypeOK, Checkpoint, Commit
  <2>3. chain' = chain \/ chain' = Append(chain, new)
    BY <1>2 DEF Commit
  <2> HIDE DEF C, new
  <2>4. CASE chain' = Append(chain, new)
    <3>1. /\ DOMAIN chain = 1 .. Len(chain) /\ Len(chain) \in Nat
          /\ \A i \in 1 .. Len(chain) : chain'[i] = chain[i]
          /\ DOMAIN chain' = 1 .. Len(chain) + 1 /\ chain'[Len(chain) + 1] = new
      BY <1>0, <2>2, <2>4, AppendProperties, LenProperties
    <3>2. ASSUME NEW i \in DOMAIN chain' PROVE chain'[i].label \in chain'[i].tree \cup gone'
      <4>1. (i \in DOMAIN chain /\ chain'[i] = chain[i]) \/ chain'[i] = new
        BY <3>1
      <4> QED BY <1>0, <2>1, <2>2, <4>1 DEF LabelsFit
    <3> QED BY <3>2 DEF LabelsFit
  <2> QED BY <1>1, <2>3, <2>4
<1>3. ASSUME NEW i \in DOMAIN chain, Revert(i) PROVE LabelsFit'
  <2> HIDE DEF C
  <2>1. i \in 1 .. Len(chain) /\ Len(chain) \in Nat /\ DOMAIN chain = 1 .. Len(chain)
    BY <1>0, LenProperties
  <2>2. /\ DOMAIN chain' = 1 .. i
        /\ \A j \in 1 .. i : chain'[j] = chain[j] /\ j \in DOMAIN chain
    BY <1>0, <1>3, <2>1, SubSeqProperties DEF Revert
  <2> QED BY <1>0, <2>2 DEF LabelsFit
<1> QED BY <1>1, <1>2, <1>3
        DEF Next, Publish, Deliver, Drop, DropPublication, Checkpoints, Write, Announce, FeedReceive, FeedLag,
            CommitFails, Report, Desktop, vars, checkpointVars

\* A checkpoint holds the change whose label it bears, unless a revert had taken
\* that out of the workspace.
THEOREM LabelsFitCheckpoints == Spec => []LabelsFit
<1>1. Init => AnnouncedWasThere /\ LabelsFit
  BY DEF Init, BusInit, CheckpointInit, AnnouncedWasThere, Underway, LabelsFit, NoWrite
<1>2. TypeInv /\ AnnouncedWasThere /\ LabelsFit /\ [Next]_vars => AnnouncedWasThere' /\ LabelsFit'
  BY NextAnnounced, NextLabels
<1> QED BY <1>1, <1>2, InitType, NextType, PTL DEF Spec

-----------------------------------------------------------------------------
(* No event is shown three times *)

\* The bridge has not emitted e yet, or the webview has not handled it.
AtBridge(e) ==
    \/ \E p \in Publishers : unsent[p] = e
    \/ \E i \in DOMAIN sent : i >= next[Bridge] /\ sent[i] = e
Coming(e) == AtBridge(e) \/ e \in Elements(wire)

\* No three positions of the store hold the same event, and two only if the store
\* was filled from a backlog with that event.
NoThird ==
    \A i, j, k \in DOMAIN shown : i < j /\ j < k => ~ (shown[i] = shown[j] /\ shown[j] = shown[k])
TwiceFromBacklog ==
    \A i, j \in DOMAIN shown : i < j /\ shown[i] = shown[j] => latest # None /\ shown[i] <= upto[latest]

\* An event that is still coming is there once at most, and from a backlog.
ComingIsOnce ==
    \A i \in DOMAIN shown : Coming(shown[i]) =>
        /\ latest # None /\ shown[i] <= upto[latest]
        /\ \A j \in DOMAIN shown : shown[j] = shown[i] => j = i

\* An event comes once.
ComesOnce ==
    /\ \A i, j \in DOMAIN wire : wire[i] = wire[j] => i = j
    /\ \A i \in DOMAIN wire : ~ AtBridge(wire[i])

TwiceInv == NoThird /\ TwiceFromBacklog /\ ComingIsOnce /\ ComesOnce

\* Only a new event gets to the bridge.
LEMMA BridgeOnly ==
    ASSUME TypeInv, [Next]_vars, NEW e \in 1 .. Len(log), AtBridge(e)'
    PROVE  AtBridge(e)
<1>t. /\ Len(log) \in Nat /\ Len(sent) \in Nat /\ DOMAIN sent = 1 .. Len(sent)
      /\ unsent \in [Publishers -> 0 .. Len(log)]
      /\ next \in [Subscribers -> 0 .. Len(sent) + 1]
      /\ Bridge \in Subscribers /\ Feed \in Subscribers /\ Feed # Bridge
      /\ Capacity \in Nat \ {0}
  BY BusFacts
<1>1. ASSUME NEW p \in Publishers, NEW x, AppendRow(p, x) PROVE AtBridge(e)
  <2>1. /\ unsent'[p] = Len(log) + 1 /\ sent' = sent /\ next' = next
        /\ \A q \in Publishers : q # p => unsent'[q] = unsent[q]
    BY <1>t, <1>1 DEF AppendRow
  <2>2. e # Len(log) + 1
    BY <1>t
  <2> QED BY <2>1, <2>2 DEF AtBridge
<1>2. ASSUME NEW p \in Publishers, Send(p) PROVE AtBridge(e)
  <2>1. /\ Len(sent') = Len(sent) + 1 /\ \A i \in 1 .. Len(sent) : sent'[i] = sent[i]
        /\ sent'[Len(sent) + 1] = unsent[p] /\ sent' \in Seq(1 .. Len(log))
    BY <1>t, <1>2, AppendProperties DEF Send, TypeInv, TypeOK, BusTypeOK
  <2>2. DOMAIN sent' = 1 .. Len(sent) + 1
    BY <2>1, LenProperties
  <2>3. next' = next /\ unsent'[p] = 0 /\ \A q \in Publishers : q # p => unsent'[q] = unsent[q]
    BY <1>t, <1>2 DEF Send
  <2>4. ASSUME NEW i \in DOMAIN sent', i >= next'[Bridge], sent'[i] = e PROVE AtBridge(e)
    <3>1. i = Len(sent) + 1 \/ (i \in DOMAIN sent /\ sent'[i] = sent[i])
      BY <1>t, <2>1, <2>2
    <3> QED BY <2>1, <2>3, <2>4, <3>1 DEF AtBridge
  <2> QED BY <2>3, <2>4 DEF AtBridge
<1>3. ASSUME NEW p \in Publishers, Abandon(p) PROVE AtBridge(e)
  <2>1. /\ next' = next /\ sent' = sent /\ unsent'[p] = 0
        /\ \A q \in Publishers : q # p => unsent'[q] = unsent[q]
    BY <1>t, <1>3 DEF Abandon
  <2> QED BY <2>1 DEF AtBridge
<1>4. ASSUME UNCHANGED <<unsent, sent>>, next'[Bridge] >= next[Bridge], next'[Bridge] \in Nat PROVE AtBridge(e)
  BY <1>t, <1>4 DEF AtBridge
<1>5. ASSUME UNCHANGED <<unsent, sent, next>> PROVE AtBridge(e)
  BY <1>5 DEF AtBridge
<1>6. CASE FeedReceive \/ FeedLag
  BY <1>t, <1>4, <1>6 DEF FeedReceive, FeedLag, Received, CatchUp
<1>7. CASE BridgeStart \/ BridgeReceive \/ BridgeLag
  <2>1. next'[Bridge] >= next[Bridge] /\ next'[Bridge] \in Nat
    BY <1>t, <1>7 DEF BridgeStart, BridgeReceive, BridgeLag, Subscribe, Received, CatchUp, Lags
  <2> QED BY <1>4, <1>7, <2>1 DEF BridgeStart, BridgeReceive, BridgeLag, Subscribe, Received, CatchUp
<1>8. CASE \E p \in Publishers : Publish(p) \/ Deliver(p) \/ Drop(p)
  BY <1>1, <1>2, <1>3, <1>8 DEF Publish, Deliver, Drop, DropPublication
<1>9. CASE Report \/ \E t \in Tasks : Announce(t)
  <2>1. Feed \in Publishers /\ Tasks \subseteq Publishers
    BY FeedAssumption
  <2> QED BY <1>1, <1>9, <2>1 DEF Report, Announce
<1>10. CASE \/ (\E t \in Tasks : Write(t)) \/ Commit \/ CommitFails \/ (\E i \in DOMAIN chain : Revert(i))
            \/ Listen \/ Push \/ (\E r \in Requests : Ask(r) \/ ReadBacklog(r) \/ Hydrate(r))
            \/ UNCHANGED vars
  BY <1>5, <1>10 DEF Write, Commit, CommitFails, Revert, Listen, Push, Ask, ReadBacklog, Hydrate, vars, busVars
<1> QED BY <1>6, <1>7, <1>8, <1>9, <1>10 DEF Next, Checkpoints, Desktop

\* What leaves the store alone and brings nothing new to the webview.
LEMMA StoreAlone ==
    ASSUME TypeInv, TwiceInv, [Next]_vars, UNCHANGED <<shown, wire, latest>>,
           latest # None => upto'[latest] = upto[latest]
    PROVE  TwiceInv'
<1>t. /\ DOMAIN wire = 1 .. Len(wire) /\ \A i \in 1 .. Len(wire) : wire[i] \in 1 .. Len(log)
      /\ DOMAIN shown = 1 .. Len(shown) /\ \A i \in 1 .. Len(shown) : shown[i] \in 1 .. Len(log)
  BY BusFacts
<1>1. \A i \in DOMAIN shown : Coming(shown[i])' => Coming(shown[i])
  BY <1>t, BridgeOnly DEF Coming, Elements
<1>2. \A i \in DOMAIN wire : AtBridge(wire[i])' => AtBridge(wire[i])
  BY <1>t, BridgeOnly
<1>3. NoThird' /\ TwiceFromBacklog'
  BY DEF TwiceInv, NoThird, TwiceFromBacklog
<1>4. ComingIsOnce'
  BY <1>1 DEF TwiceInv, ComingIsOnce
<1>5. ComesOnce'
  BY <1>2 DEF TwiceInv, ComesOnce
<1> QED BY <1>3, <1>4, <1>5 DEF TwiceInv

\* What the bridge emits, it has received for the only time.
LEMMA EmitTwice ==
    ASSUME TypeInv, PublishInv, TwiceInv, [Next]_vars, BridgeReceive
    PROVE  TwiceInv'
<1>t. /\ Len(sent) \in Nat /\ DOMAIN sent = 1 .. Len(sent)
      /\ DOMAIN wire = 1 .. Len(wire) /\ \A i \in 1 .. Len(wire) : wire[i] \in 1 .. Len(log)
      /\ DOMAIN shown = 1 .. Len(shown) /\ \A i \in 1 .. Len(shown) : shown[i] \in 1 .. Len(log)
      /\ \A i \in 1 .. Len(sent) : sent[i] \in 1 .. Len(log)
      /\ next \in [Subscribers -> 0 .. Len(sent) + 1] /\ Bridge \in Subscribers
      /\ wire \in Seq(1 .. Len(log)) /\ Len(wire) \in Nat
  BY BusFacts
<1>1. /\ UNCHANGED <<log, unsent, sent, shown, upto, latest>> /\ next'[Bridge] = next[Bridge] + 1
      /\ next[Bridge] \in 1 .. Len(sent)
      /\ wire' = wire \/ wire' = Append(wire, Incoming(Bridge))
  BY <1>t DEF BridgeReceive, Received, Holds, Subscribed
<1>2. CASE wire' = wire
  BY <1>1, <1>2, StoreAlone
<1>3. CASE wire' = Append(wire, Incoming(Bridge))
  <2>1. PICK new \in 1 .. Len(log) : new = sent[next[Bridge]]
    BY <1>t, <1>1
  <2>2. AtBridge(new)
    BY <1>t, <1>1, <2>1 DEF AtBridge
  <2>3. /\ DOMAIN wire' = 1 .. Len(wire) + 1 /\ wire'[Len(wire) + 1] = new
        /\ \A i \in 1 .. Len(wire) : wire'[i] = wire[i]
    <3>1. wire' = Append(wire, new)
      BY <1>3, <2>1 DEF Incoming
    <3>2. wire' \in Seq(1 .. Len(log)) /\ Len(wire') = Len(wire) + 1
      BY <1>t, <3>1, AppendProperties
    <3>3. DOMAIN wire' = 1 .. Len(wire) + 1
      BY <3>2, LenProperties
    <3> QED BY <1>t, <3>1, <3>3, AppendProperties
  <2>4. ASSUME NEW e \in 1 .. Len(log), Coming(e)' PROVE Coming(e)
    <3>1. CASE AtBridge(e)'
      BY <3>1, BridgeOnly DEF Coming
    <3>2. CASE e \in Elements(wire)'
      <4>1. PICK j \in DOMAIN wire' : wire'[j] = e
        BY <3>2 DEF Elements
      <4>2. j = Len(wire) + 1 \/ (j \in DOMAIN wire /\ wire'[j] = wire[j])
        BY <1>t, <2>3, <4>1
      <4> QED BY <2>2, <2>3, <4>1, <4>2 DEF Coming, Elements
    <3> QED BY <2>4, <3>1, <3>2 DEF Coming
  <2>5. NoThird' /\ TwiceFromBacklog'
    BY <1>1 DEF TwiceInv, NoThird, TwiceFromBacklog
  <2>6. ComingIsOnce'
    <3>1. \A i \in DOMAIN shown : Coming(shown[i])' => Coming(shown[i])
      BY <1>t, <1>1, <2>4
    <3> QED BY <1>1, <3>1 DEF TwiceInv, ComingIsOnce
  <2>7. \A i \in DOMAIN wire' : i = Len(wire) + 1 \/ (i \in DOMAIN wire /\ wire'[i] = wire[i])
    BY <1>t, <2>3, SMTT(30)
  <2>8. \A i, j \in DOMAIN wire' : wire'[i] = wire'[j] => i = j
    <3>1. \A i \in DOMAIN wire : wire[i] # new
      BY <2>2 DEF TwiceInv, ComesOnce
    <3> QED BY <2>3, <2>7, <3>1 DEF TwiceInv, ComesOnce
  <2>9. ~ AtBridge(new)'
    <3>1. \A p \in Publishers : unsent[p] # new
      BY <1>t, <1>1, <2>1 DEF PublishInv, SentOnce
    <3>2. \A i \in DOMAIN sent : i >= next'[Bridge] => sent[i] # new
      BY <1>t, <1>1, <2>1 DEF PublishInv, SentOnce
    <3> QED BY <1>1, <3>1, <3>2 DEF AtBridge
  <2>10. \A i \in DOMAIN wire : ~ AtBridge(wire[i])'
    <3> SUFFICES ASSUME NEW i \in DOMAIN wire PROVE ~ AtBridge(wire[i])'
      OBVIOUS
    <3>1. PICK e \in 1 .. Len(log) : e = wire[i]
      BY <1>t
    <3>2. e = wire'[i] /\ ~ AtBridge(e)
      BY <1>t, <2>3, <3>1 DEF TwiceInv, ComesOnce
    <3> QED BY <3>2, BridgeOnly
  <2>11. ComesOnce'
    BY <2>3, <2>7, <2>8, <2>9, <2>10 DEF ComesOnce
  <2> QED BY <2>5, <2>6, <2>11 DEF TwiceInv
<1> QED BY <1>1, <1>2, <1>3

\* The event that is pushed comes no more, and the store has it once at most.
LEMMA PushTwice ==
    ASSUME TypeInv, TwiceInv, [Next]_vars, Push
    PROVE  TwiceInv'
<1>t. /\ DOMAIN wire = 1 .. Len(wire) /\ \A i \in 1 .. Len(wire) : wire[i] \in 1 .. Len(log)
      /\ DOMAIN shown = 1 .. Len(shown) /\ \A i \in 1 .. Len(shown) : shown[i] \in 1 .. Len(log)
      /\ wire \in Seq(1 .. Len(log)) /\ Len(wire) \in Nat
      /\ shown \in Seq(1 .. Len(log)) /\ Len(shown) \in Nat /\ MaxShown \in Nat \ {0}
  BY BusFacts, DesktopAssumption
<1>1. /\ Len(wire') = Len(wire) - 1 /\ Len(wire) \in Nat \ {0} /\ DOMAIN wire' = 1 .. Len(wire) - 1
      /\ \A i \in 1 .. Len(wire) - 1 : wire'[i] = wire[i + 1]
      /\ shown'[1] = wire[1] /\ DOMAIN shown' = 1 .. Len(shown') /\ Len(shown') \in 1 .. Len(shown) + 1
      /\ \A i \in 2 .. Len(shown') : shown'[i] = shown[i - 1]
  <2> DEFINE S == 1 .. Len(log)
  <2>1. wire \in Seq(S) /\ shown \in Seq(S)
    BY <1>t
  <2> HIDE DEF S
  <2>2. /\ wire' \in Seq(S) /\ Len(wire') = Len(wire) - 1 /\ Len(wire) \in Nat \ {0}
        /\ \A i \in 1 .. Len(wire') : wire'[i] = wire[i + 1]
        /\ shown' \in Seq(S) /\ shown'[1] = wire[1]
        /\ Len(shown') = IF Len(shown) + 1 < MaxShown THEN Len(shown) + 1 ELSE MaxShown
        /\ \A i \in 2 .. Len(shown') : shown'[i] = shown[i - 1]
    BY <2>1, PushStore
  <2>3. DOMAIN wire' = 1 .. Len(wire') /\ DOMAIN shown' = 1 .. Len(shown')
    BY <2>2, LenProperties
  <2> QED BY <1>t, <2>2, <2>3
<1>2. UNCHANGED <<log, unsent, sent, next, upto, latest>>
  BY DEF Push, busVars
<1>3. PICK new \in 1 .. Len(log) : new = wire[1]
  BY <1>t, <1>1
<1>4. Coming(new) /\ ~ AtBridge(new)
  <2>1. 1 \in DOMAIN wire /\ wire[1] = new
    BY <1>t, <1>1, <1>3
  <2> QED BY <2>1 DEF Coming, Elements, TwiceInv, ComesOnce
<1>5. ASSUME NEW e \in 1 .. Len(log), Coming(e)' PROVE Coming(e) /\ e # new
  <2>1. CASE AtBridge(e)'
    BY <1>4, <2>1, BridgeOnly DEF Coming
  <2>2. CASE e \in Elements(wire)'
    <3>1. PICK j \in DOMAIN wire' : wire'[j] = e
      BY <2>2 DEF Elements
    <3>2. j + 1 \in DOMAIN wire /\ wire[j + 1] = e /\ j + 1 # 1 /\ 1 \in DOMAIN wire
      <4>1. j \in 1 .. Len(wire) - 1 /\ wire'[j] = wire[j + 1]
        BY <1>1, <3>1
      <4> QED BY <1>t, <1>1, <3>1, <4>1, SMTT(30)
    <3> QED BY <1>3, <3>2 DEF Coming, Elements, TwiceInv, ComesOnce
  <2> QED BY <1>5, <2>1, <2>2 DEF Coming
<1>6. \A i \in DOMAIN shown' :
        i \in Nat /\ IF i = 1 THEN shown'[i] = new ELSE i - 1 \in DOMAIN shown /\ shown'[i] = shown[i - 1]
  <2> SUFFICES ASSUME NEW i \in DOMAIN shown'
               PROVE  i \in Nat /\ IF i = 1 THEN shown'[i] = new
                                   ELSE i - 1 \in DOMAIN shown /\ shown'[i] = shown[i - 1]
    OBVIOUS
  <2>1. i \in 1 .. Len(shown') /\ Len(shown') \in 1 .. Len(shown) + 1
    BY <1>1
  <2>2. CASE i = 1
    BY <1>1, <1>3, <2>2
  <2>3. CASE i # 1
    <3>1. i \in 2 .. Len(shown') /\ i - 1 \in 1 .. Len(shown)
      BY <1>t, <2>1, <2>3
    <3> QED BY <1>t, <1>1, <2>3, <3>1
  <2> QED BY <2>2, <2>3
<1>7. \A i, j \in DOMAIN shown : shown[i] = new /\ shown[j] = new => i = j
  BY <1>4 DEF TwiceInv, ComingIsOnce
<1>8. NoThird'
  <2> SUFFICES ASSUME NEW i \in DOMAIN shown', NEW j \in DOMAIN shown', NEW k \in DOMAIN shown',
                      i < j, j < k, shown'[i] = shown'[j], shown'[j] = shown'[k]
               PROVE  FALSE
    BY DEF NoThird
  <2>1. /\ j - 1 \in DOMAIN shown /\ k - 1 \in DOMAIN shown /\ j - 1 < k - 1 /\ j - 1 # k - 1
        /\ shown'[j] = shown[j - 1] /\ shown'[k] = shown[k - 1]
    <3>1. i \in 1 .. Len(shown') /\ j \in 1 .. Len(shown') /\ k \in 1 .. Len(shown') /\ Len(shown') \in Nat
      BY <1>t, <1>1
    <3>2. j # 1 /\ k # 1 /\ j - 1 < k - 1 /\ j - 1 # k - 1
      BY <3>1
    <3> QED BY <1>6, <3>2
  <2>2. CASE i = 1
    <3>1. shown[j - 1] = new /\ shown[k - 1] = new
      BY <1>6, <2>1, <2>2
    <3> QED BY <1>7, <2>1, <3>1
  <2>3. CASE i # 1
    <3>1. i - 1 \in DOMAIN shown /\ i - 1 < j - 1 /\ shown'[i] = shown[i - 1]
      <4>1. i \in Nat /\ j \in Nat
        BY <1>6
      <4> QED BY <1>6, <2>3, <4>1
    <3> QED BY <2>1, <3>1 DEF TwiceInv, NoThird
  <2> QED BY <2>2, <2>3
<1>9. TwiceFromBacklog'
  <2> SUFFICES ASSUME NEW i \in DOMAIN shown', NEW j \in DOMAIN shown', i < j, shown'[i] = shown'[j]
               PROVE  latest # None /\ shown'[i] <= upto[latest]
    BY <1>2 DEF TwiceFromBacklog
  <2>1. j - 1 \in DOMAIN shown /\ shown'[j] = shown[j - 1]
    BY <1>t, <1>1, <1>6, SMTT(30)
  <2>2. CASE i = 1
    <3>1. shown[j - 1] = new
      BY <1>1, <1>3, <2>1, <2>2
    <3> QED BY <1>4, <2>1, <3>1 DEF TwiceInv, ComingIsOnce
  <2>3. CASE i # 1
    <3>1. i - 1 \in DOMAIN shown /\ i - 1 < j - 1 /\ shown'[i] = shown[i - 1]
      BY <1>t, <1>1, <1>6, <2>3
    <3> QED BY <2>1, <3>1 DEF TwiceInv, TwiceFromBacklog
  <2> QED BY <2>2, <2>3
<1>10. ComingIsOnce'
  <2> SUFFICES ASSUME NEW i \in DOMAIN shown', Coming(shown[i])'
               PROVE  /\ latest # None /\ shown'[i] <= upto[latest]
                      /\ \A j \in DOMAIN shown' : shown'[j] = shown'[i] => j = i
    BY <1>2 DEF ComingIsOnce
  <2>1. PICK e : e = shown'[i]
    OBVIOUS
  <2>2. e \in 1 .. Len(log)
    BY <1>t, <1>6, <2>1
  <2>3. Coming(e) /\ e # new
    BY <1>5, <2>1, <2>2
  <2>4. i - 1 \in DOMAIN shown /\ shown[i - 1] = e
    BY <1>6, <2>1, <2>3
  <2>5. \A k \in DOMAIN shown : shown[k] = e => k = i - 1
    BY <2>3, <2>4 DEF TwiceInv, ComingIsOnce
  <2>6. ASSUME NEW j \in DOMAIN shown', shown'[j] = e PROVE j = i
    <3>1. j - 1 \in DOMAIN shown /\ shown[j - 1] = e /\ i \in Nat /\ j \in Nat
      BY <1>1, <1>6, <2>3, <2>6
    <3> QED BY <2>5, <3>1
  <2>7. latest # None /\ e <= upto[latest]
    BY <2>3, <2>4 DEF TwiceInv, ComingIsOnce
  <2> QED BY <2>1, <2>6, <2>7
<1>11. ComesOnce'
  <2>1. \A i \in DOMAIN wire' : i + 1 \in DOMAIN wire /\ wire'[i] = wire[i + 1] /\ i \in Nat
    BY <1>t, <1>1
  <2>2. \A i, j \in DOMAIN wire' : wire'[i] = wire'[j] => i = j
    <3> SUFFICES ASSUME NEW i \in DOMAIN wire', NEW j \in DOMAIN wire', wire'[i] = wire'[j] PROVE i = j
      OBVIOUS
    <3>1. i + 1 = j + 1
      BY <2>1 DEF TwiceInv, ComesOnce
    <3> QED BY <2>1, <3>1
  <2>3. \A i \in DOMAIN wire' : ~ AtBridge(wire[i])'
    <3> SUFFICES ASSUME NEW i \in DOMAIN wire' PROVE ~ AtBridge(wire[i])'
      OBVIOUS
    <3>1. PICK e \in 1 .. Len(log) : e = wire[i + 1]
      BY <1>t, <2>1
    <3>2. e = wire'[i] /\ ~ AtBridge(e)
      BY <2>1, <3>1 DEF TwiceInv, ComesOnce
    <3> QED BY <3>2, BridgeOnly
  <2> QED BY <2>2, <2>3 DEF ComesOnce
<1> QED BY <1>8, <1>9, <1>10, <1>11 DEF TwiceInv

\* A backlog has every event once.
LEMMA HydrateTwice ==
    ASSUME TypeInv, TwiceInv, [Next]_vars, NEW r \in Requests, Hydrate(r)
    PROVE  TwiceInv'
<1>1. upto[r] \in Nat /\ r # None /\ MaxShown \in Nat \ {0}
  BY BusFacts, DesktopAssumption
<1>2. /\ shown' \in Seq(1 .. upto[r]) /\ \A i \in 1 .. Len(shown') : shown'[i] = upto[r] + 1 - i
      /\ DOMAIN shown' = 1 .. Len(shown') /\ Len(shown') \in Nat
  <2>1. shown' \in Seq(1 .. upto[r]) /\ \A i \in 1 .. Len(shown') : shown'[i] = upto[r] + 1 - i
    BY <1>1, HydrateStore
  <2> QED BY <2>1, LenProperties
<1>3. \A i, j \in DOMAIN shown' : shown'[i] = shown'[j] => i = j
  BY <1>1, <1>2
<1>4. \A i \in DOMAIN shown' : shown'[i] <= upto[r]
  BY <1>1, <1>2
<1>5. UNCHANGED <<log, unsent, sent, next, wire, upto>> /\ latest' = r
  BY DEF Hydrate, busVars
<1>6. NoThird'
  <2> SUFFICES ASSUME NEW i \in DOMAIN shown', NEW j \in DOMAIN shown', i < j, shown'[i] = shown'[j]
               PROVE  FALSE
    BY DEF NoThird
  <2> QED BY <1>2, <1>3
<1>7. TwiceFromBacklog' /\ ComingIsOnce'
  BY <1>1, <1>3, <1>4, <1>5 DEF TwiceFromBacklog, ComingIsOnce
<1>8. ComesOnce'
  BY <1>5 DEF TwiceInv, ComesOnce, AtBridge
<1> QED BY <1>6, <1>7, <1>8 DEF TwiceInv

\* Every step keeps an event from being shown three times.
LEMMA NextTwice ==
    ASSUME TypeInv, PublishInv, TwiceInv, [Next]_vars
    PROVE  TwiceInv'
<1>1. CASE BridgeReceive
  BY <1>1, EmitTwice
<1>2. CASE Push
  BY <1>2, PushTwice
<1>3. ASSUME NEW r \in Requests, Hydrate(r) PROVE TwiceInv'
  BY <1>3, HydrateTwice
<1>4. ASSUME NEW r \in Requests, ReadBacklog(r) PROVE TwiceInv'
  <2>1. UNCHANGED <<shown, wire, latest>>
    BY <1>4 DEF ReadBacklog
  <2>2. latest # None => latest # r /\ upto \in [Requests -> 0 .. Len(log)] /\ latest \in Requests
    BY <1>4, BusFacts DEF ReadBacklog
  <2>3. latest # None => upto'[latest] = upto[latest]
    BY <1>4, <2>2 DEF ReadBacklog
  <2> QED BY <2>1, <2>3, StoreAlone
<1>5. CASE UNCHANGED <<shown, wire, latest, upto>>
  BY <1>5, StoreAlone
<1>6. CASE Checkpoints \/ UNCHANGED vars
  BY <1>5, <1>6 DEF Checkpoints, vars, desktopVars
<1>7. CASE \E p \in Publishers : Publish(p) \/ Deliver(p) \/ Drop(p)
  BY <1>5, <1>7 DEF Publish, Deliver, Drop, desktopVars
<1>8. CASE BridgeStart \/ BridgeLag \/ Listen \/ \E r \in Requests : Ask(r)
  BY <1>5, <1>8 DEF BridgeStart, BridgeLag, Listen, Ask, desktopVars
<1> QED BY <1>1, <1>2, <1>3, <1>4, <1>6, <1>7, <1>8 DEF Next, Desktop

\* A set of numbers without three that differ has two elements at most, and two
\* that differ if it has two.
LEMMA AtMostTwo ==
    ASSUME NEW n \in Nat, NEW P \in SUBSET (1 .. n),
           \A i, j, k \in P : ~ (i < j /\ j < k)
    PROVE  /\ Cardinality(P) <= 2
           /\ Cardinality(P) = 2 => \E i, j \in P : i < j
<1>1. IsFiniteSet(P)
  <2>1. IsFiniteSet(1 .. n)
    BY FS_Interval
  <2> QED BY <2>1, FS_Subset
<1>2. CASE P = {}
  BY <1>2, FS_EmptySet
<1>3. ASSUME NEW a \in P PROVE /\ Cardinality(P) <= 2
                               /\ Cardinality(P) = 2 => \E i, j \in P : i < j
  <2>1. CASE P = {a}
    <3>1. Cardinality(P) = 1
      BY <2>1, FS_Singleton
    <3> QED BY <3>1
  <2>2. ASSUME NEW b \in P, b # a PROVE /\ Cardinality(P) <= 2 /\ \E i, j \in P : i < j
    <3>1. a \in Nat /\ b \in Nat /\ \A c \in P : c \in Nat
      OBVIOUS
    <3>2. P = {a} \cup {b}
      <4> SUFFICES ASSUME NEW c \in P, c # a, c # b PROVE FALSE
        OBVIOUS
      <4>1. \/ (a < b /\ b < c) \/ (a < c /\ c < b) \/ (b < a /\ a < c)
            \/ (b < c /\ c < a) \/ (c < a /\ a < b) \/ (c < b /\ b < a)
        BY <2>2, <3>1, SMTT(30)
      <4> QED BY <4>1
    <3>3. Cardinality({a}) = 1 /\ IsFiniteSet({a})
      BY FS_Singleton
    <3>4. Cardinality({a} \cup {b}) = 2
      BY <2>2, <3>3, FS_AddElement, SMTT(30)
    <3>5. Cardinality(P) <= 2
      BY <3>2, <3>4
    <3>6. \E i, j \in P : i < j
      <4>1. a < b \/ b < a
        BY <2>2, <3>1
      <4> QED BY <4>1
    <3> QED BY <3>5, <3>6
  <2> QED BY <2>1, <2>2
<1> QED BY <1>2, <1>3

\* The positions of an event in the store.
LEMMA TwiceMeans == TypeInv /\ TwiceInv => TwiceAtMost
<1> SUFFICES ASSUME TypeInv, TwiceInv, NEW e \in Elements(shown)
             PROVE  /\ Cardinality({i \in DOMAIN shown : shown[i] = e}) <= 2
                    /\ Cardinality({i \in DOMAIN shown : shown[i] = e}) = 2 =>
                          latest # None /\ e <= upto[latest]
  BY DEF TwiceAtMost
<1> DEFINE P == {i \in DOMAIN shown : shown[i] = e}
<1>1. Len(shown) \in Nat /\ P \in SUBSET (1 .. Len(shown))
  BY BusFacts
<1>2. \A i, j, k \in P : ~ (i < j /\ j < k)
  BY DEF TwiceInv, NoThird
<1>3. \A i, j \in P : i < j => latest # None /\ e <= upto[latest]
  BY DEF TwiceInv, TwiceFromBacklog
<1> HIDE DEF P
<1>4. Cardinality(P) <= 2 /\ (Cardinality(P) = 2 => \E i, j \in P : i < j)
  BY <1>1, <1>2, AtMostTwo
<1>5. Cardinality(P) <= 2 /\ (Cardinality(P) = 2 => latest # None /\ e <= upto[latest])
  BY <1>3, <1>4
<1> QED BY <1>5 DEF P

\* The store shows no event three times, and an event twice only if the backlog it
\* was filled from had that event.
THEOREM ShownTwiceAtMost == Spec => []TwiceAtMost
<1>1. Init => PublishInv
  BY EmptySeq DEF Init, BusInit, CheckpointInit, PublishInv, PublishTypeOK, SentOnce
<1>2. Init => TwiceInv
  BY DEF Init, DesktopInit, TwiceInv, NoThird, TwiceFromBacklog, ComingIsOnce, ComesOnce
<1>3. TypeInv /\ PublishInv /\ TwiceInv /\ [Next]_vars => TwiceInv'
  BY NextTwice
<1> QED BY <1>1, <1>2, <1>3, InitType, NextType, NextPublish, TwiceMeans, PTL DEF Spec

-----------------------------------------------------------------------------
(* The store is complete *)

\* How much the bridge has received, and how much of it there can be in the store.
Consumed == IF next[Bridge] = 0 THEN 0 ELSE next[Bridge] - 1
RoomInv ==
    /\ Len(wire) <= Consumed
    /\ Len(shown) + Len(wire) <= Len(log) + Consumed

\* All events fit into a backlog, and twice into the store.
Fits == Len(log) <= ReadLimit /\ 2 * Len(log) <= MaxShown

\* Where an event may be that is not lost.
Accounted(e) == Coming(e) \/ e \in Elements(shown) \cup erased \cup dropped

\* From the moment a request is made with bridge and listener in place, no event is
\* lost that its backlog does not hold.
GapsInv == \A r \in Requests : gapless[r] => listening /\ Subscribed(Bridge)
BacklogInv ==
    Fits => \A r \in Requests : gapless[r] /\ request[r] \in {"read", "done"} =>
                \A e \in upto[r] + 1 .. Len(log) : Accounted(e)
StoreInv == Fits /\ latest # None /\ gapless[latest] => \A e \in 1 .. Len(log) : Accounted(e)

CompleteInv == GapsInv /\ BacklogInv /\ StoreInv

\* No more events are sent than there are.
LEMMA SentAtMost == TypeInv /\ SentOnce => Len(sent) <= Len(log)
<1> SUFFICES ASSUME TypeInv, SentOnce PROVE Len(sent) <= Len(log)
  OBVIOUS
<1>1. Len(log) \in Nat /\ Len(sent) \in Nat /\ DOMAIN sent = 1 .. Len(sent) /\ sent \in Seq(1 .. Len(log))
  BY BusFacts
<1>2. sent \in [1 .. Len(sent) -> 1 .. Len(log)]
  BY <1>1, LenProperties
<1>3. /\ IsFiniteSet(1 .. Len(log)) /\ IsFiniteSet(1 .. Len(sent))
      /\ Cardinality(1 .. Len(sent)) = Len(sent) /\ Cardinality(1 .. Len(log)) = Len(log)
  <2>1. IsFiniteSet(1 .. Len(log)) /\ IsFiniteSet(1 .. Len(sent))
    BY <1>1, FS_Interval
  <2>2. ASSUME NEW n \in Nat PROVE Cardinality(1 .. n) = n
    <3>1. Cardinality(1 .. n) = IF 1 > n THEN 0 ELSE n - 1 + 1
      BY FS_Interval
    <3> QED BY <3>1
  <2> QED BY <1>1, <2>1, <2>2
<1>4. CASE Len(log) < Len(sent)
  <2> DEFINE S == 1 .. Len(sent)
             T == 1 .. Len(log)
  <2>1. IsFiniteSet(S) /\ IsFiniteSet(T) /\ Cardinality(T) < Cardinality(S) /\ sent \in [S -> T]
    BY <1>2, <1>3, <1>4
  <2> HIDE DEF S, T
  <2>2. \E i, j \in S : i # j /\ sent[i] = sent[j]
    BY <2>1, FS_PigeonHole
  <2> QED BY <1>1, <2>2 DEF SentOnce, S
<1> QED BY <1>1, <1>4

\* Every step leaves that much room.
LEMMA NextRoom ==
    ASSUME TypeInv, RoomInv, [Next]_vars
    PROVE  RoomInv'
<1>t. /\ Len(log) \in Nat /\ Len(sent) \in Nat
      /\ next \in [Subscribers -> 0 .. Len(sent) + 1]
      /\ Bridge \in Subscribers /\ Feed \in Subscribers /\ Feed # Bridge /\ Capacity \in Nat \ {0}
      /\ Len(wire) \in Nat /\ Len(shown) \in Nat
      /\ wire \in Seq(1 .. Len(log)) /\ shown \in Seq(1 .. Len(log))
      /\ upto \in [Requests -> 0 .. Len(log)]
      /\ Consumed \in Nat
  <2>1. Consumed \in Nat
    BY BusFacts DEF Consumed
  <2> QED BY <2>1, BusFacts
<1>l. Len(log) <= Len(log') /\ Len(log') \in Nat
  <2>1. Len(log') \in Nat
    BY BusStep, LenProperties DEF BusTypeOK
  <2> QED BY <2>1, BusStep
<1>1. ASSUME Len(wire') = Len(wire), Len(shown') = Len(shown), Consumed <= Consumed', Consumed' \in Nat
      PROVE  RoomInv'
  BY <1>t, <1>l, <1>1 DEF RoomInv
<1>2. CASE UNCHANGED <<wire, shown>> /\ next'[Bridge] = next[Bridge]
  <2>1. Consumed' = Consumed
    BY <1>2 DEF Consumed
  <2> QED BY <1>t, <1>1, <1>2, <2>1
<1>3. CASE BridgeStart \/ BridgeLag
  <2>1. UNCHANGED <<wire, shown>>
    BY <1>3 DEF BridgeStart, BridgeLag, desktopVars
  <2>2. next'[Bridge] >= next[Bridge] /\ next'[Bridge] \in Nat
    BY <1>t, <1>3 DEF BridgeStart, BridgeLag, Subscribe, CatchUp, Lags
  <2>3. Consumed <= Consumed' /\ Consumed' \in Nat
    BY <1>t, <2>2 DEF Consumed
  <2> QED BY <1>1, <2>1, <2>3
<1>4. CASE BridgeReceive
  <2>1. shown' = shown
    BY <1>4 DEF BridgeReceive
  <2>2. Consumed' = Consumed + 1
    BY <1>t, <1>4, SMTT(30) DEF BridgeReceive, Received, Holds, Subscribed, Consumed
  <2>3. Len(wire') \in {Len(wire), Len(wire) + 1}
    <3>1. next[Bridge] \in 1 .. Len(sent)
      BY <1>t, <1>4 DEF BridgeReceive, Holds, Subscribed
    <3>2. Incoming(Bridge) \in 1 .. Len(log)
      BY <3>1, BusFacts DEF Incoming
    <3> QED BY <1>t, <1>4, <3>2, AppendProperties DEF BridgeReceive
  <2> QED BY <1>t, <1>l, <2>1, <2>2, <2>3, SMTT(30) DEF RoomInv
<1>5. CASE Push
  <2>1. Consumed' = Consumed
    BY <1>5 DEF Push, busVars, Consumed
  <2> DEFINE S == 1 .. Len(log)
  <2>s. wire \in Seq(S) /\ shown \in Seq(S)
    BY <1>t, BusFacts
  <2> HIDE DEF S
  <2>2. Len(wire') = Len(wire) - 1 /\ Len(wire) # 0
    BY <1>5, <2>s, PushStore
  <2>3. Len(shown') = IF Len(shown) + 1 < MaxShown THEN Len(shown) + 1 ELSE MaxShown
    BY <1>5, <2>s, PushStore
  <2>4. Len(shown') <= Len(shown) + 1 /\ Len(shown') \in Nat
    BY <1>t, <2>3, DesktopAssumption
  <2> QED BY <1>t, <1>l, <2>1, <2>2, <2>4, SMTT(30) DEF RoomInv
<1>6. ASSUME NEW r \in Requests, Hydrate(r) PROVE RoomInv'
  <2>1. Consumed' = Consumed /\ wire' = wire
    BY <1>6 DEF Hydrate, busVars, Consumed
  <2>2. upto[r] \in 0 .. Len(log)
    BY <1>t
  <2>3. Len(shown') = IF upto[r] < MaxShown THEN upto[r] ELSE MaxShown
    BY <1>6, <2>2, HydrateStore
  <2>4. Len(shown') <= Len(log) /\ Len(shown') \in Nat
    BY <1>t, <2>2, <2>3, DesktopAssumption
  <2> QED BY <1>t, <1>l, <2>1, <2>4 DEF RoomInv
<1>7. CASE Listen \/ \E r \in Requests : Ask(r) \/ ReadBacklog(r)
  BY <1>2, <1>7 DEF Listen, Ask, ReadBacklog, busVars
<1>8. CASE \E p \in Publishers : Publish(p) \/ Deliver(p) \/ Drop(p)
  BY <1>2, <1>8 DEF Publish, Deliver, Drop, DropPublication, AppendRow, Send, Abandon, desktopVars
<1>9. CASE Checkpoints
  <2>1. UNCHANGED <<wire, shown>>
    BY <1>9 DEF Checkpoints, desktopVars
  <2>2. next'[Bridge] = next[Bridge]
    BY <1>t, <1>9 DEF Checkpoints, Write, Announce, FeedReceive, FeedLag, Commit, CommitFails, Report, Revert,
                AppendRow, Received, CatchUp, busVars
  <2> QED BY <1>2, <2>1, <2>2
<1>10. CASE UNCHANGED vars
  BY <1>2, <1>10 DEF vars, busVars, desktopVars
<1> QED BY <1>3, <1>4, <1>5, <1>6, <1>7, <1>8, <1>9, <1>10 DEF Next, Desktop

\* Nothing is lost of what is at the bridge or on its way from there, but for what
\* is counted as dropped.
LEMMA StillComing ==
    ASSUME TypeInv, [Next]_vars, listening, Subscribed(Bridge), NEW e \in 1 .. Len(log), Coming(e)
    PROVE  Coming(e)' \/ e \in Elements(shown)' \cup dropped'
<1>t. /\ Len(log) \in Nat /\ Len(sent) \in Nat /\ DOMAIN sent = 1 .. Len(sent)
      /\ unsent \in [Publishers -> 0 .. Len(log)] /\ sent \in Seq(1 .. Len(log))
      /\ \A i \in 1 .. Len(sent) : sent[i] \in 1 .. Len(log)
      /\ next \in [Subscribers -> 0 .. Len(sent) + 1]
      /\ Bridge \in Subscribers /\ Feed \in Subscribers /\ Feed # Bridge /\ Capacity \in Nat \ {0}
      /\ wire \in Seq(1 .. Len(log)) /\ shown \in Seq(1 .. Len(log))
      /\ Len(wire) \in Nat /\ DOMAIN wire = 1 .. Len(wire)
  BY BusFacts
<1>e. e # 0
  BY <1>t
<1> DEFINE Goal == Coming(e)' \/ e \in Elements(shown)' \cup dropped'
<1>1. ASSUME UNCHANGED <<unsent, sent, wire>>, next'[Bridge] = next[Bridge] PROVE Goal
  BY <1>1 DEF Coming, AtBridge, Elements
<1>2. ASSUME NEW p \in Publishers, NEW x, AppendRow(p, x), wire' = wire PROVE Goal
  <2>1. unsent[p] = 0 /\ sent' = sent /\ next' = next /\ \A q \in Publishers : q # p => unsent'[q] = unsent[q]
    BY <1>t, <1>2 DEF AppendRow
  <2> QED BY <1>e, <1>2, <2>1 DEF Coming, AtBridge, Elements
<1>3. ASSUME NEW p \in Publishers, Send(p), wire' = wire PROVE Goal
  <2>1. /\ Len(sent') = Len(sent) + 1 /\ \A i \in 1 .. Len(sent) : sent'[i] = sent[i]
        /\ sent'[Len(sent) + 1] = unsent[p] /\ sent' \in Seq(1 .. Len(log))
    BY <1>t, <1>3, AppendProperties DEF Send, TypeInv, TypeOK, BusTypeOK
  <2>2. DOMAIN sent' = 1 .. Len(sent) + 1
    BY <2>1, LenProperties
  <2>3. next' = next /\ \A q \in Publishers : q # p => unsent'[q] = unsent[q]
    BY <1>t, <1>3 DEF Send
  <2>4. ASSUME NEW i \in DOMAIN sent, i >= next[Bridge], sent[i] = e PROVE AtBridge(e)'
    <3>1. i \in DOMAIN sent' /\ sent'[i] = sent[i]
      BY <1>t, <2>1, <2>2
    <3> QED BY <2>3, <2>4, <3>1 DEF AtBridge
  <2>5. ASSUME unsent[p] = e PROVE AtBridge(e)'
    <3>1. Len(sent) + 1 \in DOMAIN sent' /\ Len(sent) + 1 >= next'[Bridge]
      BY <1>t, <2>2, <2>3
    <3> QED BY <2>1, <2>5, <3>1 DEF AtBridge
  <2>6. ASSUME NEW q \in Publishers, unsent[q] = e, q # p PROVE AtBridge(e)'
    BY <2>3, <2>6 DEF AtBridge
  <2>7. AtBridge(e) => AtBridge(e)'
    BY <2>4, <2>5, <2>6 DEF AtBridge
  <2> QED BY <1>3, <2>7 DEF Coming, Elements
<1>4. ASSUME NEW p \in Publishers, Drop(p) PROVE Goal
  <2>1. /\ next' = next /\ sent' = sent /\ wire' = wire /\ dropped' = dropped \cup {unsent[p]}
        /\ \A q \in Publishers : q # p => unsent'[q] = unsent[q]
    BY <1>t, <1>4 DEF Drop, DropPublication, Abandon
  <2> QED BY <2>1 DEF Coming, AtBridge, Elements
<1>5. CASE BridgeReceive
  <2>1. UNCHANGED <<unsent, sent>> /\ next'[Bridge] = next[Bridge] + 1 /\ next[Bridge] \in 1 .. Len(sent)
    BY <1>t, <1>5 DEF BridgeReceive, Received, Holds, Subscribed
  <2>2. PICK new \in 1 .. Len(log) : new = Incoming(Bridge) /\ new = sent[next[Bridge]]
    BY <1>t, <2>1 DEF Incoming
  <2>3. /\ DOMAIN wire' = 1 .. Len(wire) + 1 /\ wire'[Len(wire) + 1] = new
        /\ \A i \in 1 .. Len(wire) : wire'[i] = wire[i]
    <3>1. wire' = Append(wire, new)
      BY <1>5, <2>2 DEF BridgeReceive
    <3>2. wire' \in Seq(1 .. Len(log)) /\ Len(wire') = Len(wire) + 1
      BY <1>t, <3>1, AppendProperties
    <3>3. DOMAIN wire' = 1 .. Len(wire) + 1
      BY <3>2, LenProperties
    <3> QED BY <1>t, <3>1, <3>3, AppendProperties
  <2>4. Elements(wire) \cup {new} \subseteq Elements(wire)'
    <3>1. Len(wire) + 1 \in DOMAIN wire' /\ \A i \in DOMAIN wire : i \in DOMAIN wire' /\ wire'[i] = wire[i]
      BY <1>t, <2>3
    <3> QED BY <2>3, <3>1 DEF Elements
  <2>5. ASSUME NEW i \in DOMAIN sent, i >= next[Bridge], sent[i] = e PROVE Coming(e)'
    <3>1. i = next[Bridge] \/ i >= next'[Bridge]
      BY <1>t, <2>1, <2>5
    <3> QED BY <2>1, <2>2, <2>4, <2>5, <3>1 DEF Coming, AtBridge
  <2> QED BY <2>1, <2>4, <2>5 DEF Coming, AtBridge
<1>6. CASE BridgeLag
  <2>1. /\ UNCHANGED <<unsent, sent, wire>> /\ next'[Bridge] = Len(sent) - Capacity + 1
        /\ dropped' = dropped \cup Overwritten(Bridge)
    BY <1>t, <1>6 DEF BridgeLag, CatchUp
  <2>2. ASSUME NEW i \in DOMAIN sent, i >= next[Bridge], sent[i] = e PROVE Goal
    <3>1. i \in next[Bridge] .. Len(sent) - Capacity \/ i >= next'[Bridge]
      BY <1>t, <2>1, <2>2
    <3> QED BY <2>1, <2>2, <3>1 DEF Coming, AtBridge, Overwritten
  <2> QED BY <2>1, <2>2 DEF Coming, AtBridge, Elements
<1>7. CASE Push
  <2>1. UNCHANGED <<unsent, sent, next>>
    BY <1>7 DEF Push, busVars
  <2>2. /\ wire' \in Seq(1 .. Len(log)) /\ Len(wire') = Len(wire) - 1 /\ Len(wire) \in Nat \ {0}
        /\ \A i \in 1 .. Len(wire') : wire'[i] = wire[i + 1]
        /\ shown' \in Seq(1 .. Len(log)) /\ shown'[1] = wire[1]
        /\ Len(shown') = IF Len(shown) + 1 < MaxShown THEN Len(shown) + 1 ELSE MaxShown
    <3> DEFINE S == 1 .. Len(log)
    <3>1. wire \in Seq(S) /\ shown \in Seq(S)
      BY <1>t
    <3> HIDE DEF S
    <3>2. /\ wire' \in Seq(S) /\ Len(wire') = Len(wire) - 1 /\ Len(wire) \in Nat \ {0}
          /\ \A i \in 1 .. Len(wire') : wire'[i] = wire[i + 1]
          /\ shown' \in Seq(S) /\ shown'[1] = wire[1]
          /\ Len(shown') = IF Len(shown) + 1 < MaxShown THEN Len(shown) + 1 ELSE MaxShown
      BY <1>7, <3>1, PushStore
    <3> QED BY <3>2 DEF S
  <2>3. DOMAIN wire' = 1 .. Len(wire) - 1 /\ 1 \in DOMAIN shown'
    <3>1. Len(shown) \in Nat
      BY <1>t, LenProperties
    <3>2. DOMAIN wire' = 1 .. Len(wire') /\ DOMAIN shown' = 1 .. Len(shown')
      BY <2>2, LenProperties
    <3> QED BY <2>2, <3>1, <3>2, DesktopAssumption
  <2>4. ASSUME NEW i \in DOMAIN wire, wire[i] = e PROVE Goal
    <3>1. CASE i = 1
      BY <2>2, <2>3, <2>4, <3>1 DEF Elements
    <3>2. CASE i # 1
      <4>1. PICK j \in Nat : i = j + 1
        <5>1. i - 1 \in Nat /\ i = (i - 1) + 1
          BY <1>t, <3>2
        <5> QED BY <5>1
      <4>2. j \in 1 .. Len(wire) - 1
        BY <1>t, <2>4, <3>2, <4>1
      <4>3. j \in DOMAIN wire' /\ wire'[j] = wire[j + 1]
        BY <1>t, <2>2, <2>3, <4>2
      <4> QED BY <2>4, <4>1, <4>3 DEF Coming, Elements
    <3> QED BY <3>1, <3>2
  <2> QED BY <2>1, <2>4 DEF Coming, AtBridge, Elements
<1>8. CASE Listen \/ BridgeStart \/ \E r \in Requests : Ask(r) \/ ReadBacklog(r) \/ Hydrate(r)
  BY <1>1, <1>8 DEF Listen, BridgeStart, Subscribe, Subscribed, Ask, ReadBacklog, Hydrate, busVars
<1>9. CASE \E p \in Publishers : Publish(p) \/ Deliver(p)
  BY <1>2, <1>3, <1>9 DEF Publish, Deliver, desktopVars
<1>10. CASE Checkpoints
  <2>1. wire' = wire /\ Feed \in Publishers /\ Tasks \subseteq Publishers
    BY <1>10, FeedAssumption DEF Checkpoints, desktopVars
  <2>2. CASE Report \/ \E t \in Tasks : Announce(t)
    BY <1>2, <2>1, <2>2 DEF Report, Announce
  <2>3. CASE FeedReceive \/ FeedLag
    BY <1>t, <1>1, <2>1, <2>3 DEF FeedReceive, FeedLag, Received, CatchUp
  <2>4. CASE (\E t \in Tasks : Write(t)) \/ Commit \/ CommitFails \/ \E i \in DOMAIN chain : Revert(i)
    BY <1>1, <2>1, <2>4 DEF Write, Commit, CommitFails, Revert, busVars
  <2> QED BY <1>10, <2>2, <2>3, <2>4 DEF Checkpoints
<1>11. CASE UNCHANGED vars
  BY <1>1, <1>11 DEF vars, busVars, desktopVars
<1> QED BY <1>4, <1>5, <1>6, <1>7, <1>8, <1>9, <1>10, <1>11 DEF Next, Desktop

\* Nor of what the store shows, as long as everything fits into it twice.
LEMMA StillShown ==
    ASSUME TypeInv, SentOnce, RoomInv, Fits, [Next]_vars, NEW e \in Elements(shown)
    PROVE  e \in Elements(shown)' \cup erased'
<1>t. /\ Len(log) \in Nat /\ Len(sent) \in Nat /\ Len(sent) <= Len(log)
      /\ next \in [Subscribers -> 0 .. Len(sent) + 1] /\ Bridge \in Subscribers
      /\ wire \in Seq(1 .. Len(log)) /\ shown \in Seq(1 .. Len(log))
      /\ Len(wire) \in Nat /\ Len(shown) \in Nat /\ DOMAIN shown = 1 .. Len(shown)
      /\ \A i \in 1 .. Len(shown) : shown[i] \in 1 .. Len(log)
      /\ upto \in [Requests -> 0 .. Len(log)]
  BY BusFacts, SentAtMost
<1>1. CASE Push
  <2>1. /\ shown' \in Seq(1 .. Len(log)) /\ Len(wire) # 0
        /\ Len(shown') = IF Len(shown) + 1 < MaxShown THEN Len(shown) + 1 ELSE MaxShown
        /\ \A i \in 2 .. Len(shown') : shown'[i] = shown[i - 1]
    <3> DEFINE S == 1 .. Len(log)
    <3>1. wire \in Seq(S) /\ shown \in Seq(S)
      BY <1>t
    <3> HIDE DEF S
    <3>2. /\ shown' \in Seq(S) /\ Len(wire) \in Nat \ {0}
          /\ Len(shown') = IF Len(shown) + 1 < MaxShown THEN Len(shown) + 1 ELSE MaxShown
          /\ \A i \in 2 .. Len(shown') : shown'[i] = shown[i - 1]
      BY <1>1, <3>1, PushStore
    <3> QED BY <3>2 DEF S
  <2>2. Len(shown) + 1 <= MaxShown
    <3>1. Consumed \in 0 .. Len(sent)
      BY <1>t DEF Consumed
    <3>2. Len(shown) + Len(wire) <= Len(log) + Consumed /\ 2 * Len(log) <= MaxShown /\ MaxShown \in Nat
      BY DesktopAssumption DEF RoomInv, Fits
    <3> QED BY <1>t, <2>1, <3>1, <3>2
  <2>3. DOMAIN shown' = 1 .. Len(shown) + 1
    <3>1. DOMAIN shown' = 1 .. Len(shown')
      BY <2>1, LenProperties
    <3> QED BY <1>t, <2>1, <2>2, <3>1, DesktopAssumption
  <2>4. PICK i \in 1 .. Len(shown) : shown[i] = e
    BY <1>t DEF Elements
  <2>5. i + 1 \in DOMAIN shown' /\ i + 1 \in 2 .. Len(shown') /\ i + 1 - 1 = i
    <3>1. i \in Nat /\ i + 1 \in 2 .. Len(shown) + 1 /\ i + 1 - 1 = i
      BY <1>t
    <3>2. Len(shown') = Len(shown) + 1
      <4>1. Len(shown) \in Nat /\ MaxShown \in Nat
        BY <1>t, DesktopAssumption
      <4>2. CASE Len(shown) + 1 < MaxShown
        BY <2>1, <4>2
      <4>3. CASE Len(shown) + 1 = MaxShown
        <5>1. ~ (Len(shown) + 1 < MaxShown)
          BY <4>1, <4>3
        <5> QED BY <2>1, <4>3, <5>1
      <4> QED BY <2>2, <4>1, <4>2, <4>3
    <3> QED BY <1>t, <2>3, <3>1, <3>2
  <2>6. shown'[i + 1] = e
    BY <2>1, <2>4, <2>5
  <2> QED BY <2>5, <2>6 DEF Elements
<1>2. ASSUME NEW r \in Requests, Hydrate(r) PROVE e \in Elements(shown)' \cup erased'
  <2>1. e \in 1 .. Len(log)
    BY <1>t DEF Elements
  <2>2. CASE e > upto[r]
    BY <1>2, <2>2 DEF Hydrate
  <2>3. CASE ~ (e > upto[r])
    <3>1. upto[r] \in 0 .. Len(log) /\ Len(log) <= MaxShown
      BY <1>t, DesktopAssumption DEF Fits
    <3>2. /\ shown' \in Seq(1 .. upto[r])
          /\ Len(shown') = IF upto[r] < MaxShown THEN upto[r] ELSE MaxShown
          /\ \A i \in 1 .. Len(shown') : shown'[i] = upto[r] + 1 - i
      BY <1>2, <3>1, HydrateStore
    <3>3. DOMAIN shown' = 1 .. upto[r] /\ Len(shown') = upto[r]
      <4>1. DOMAIN shown' = 1 .. Len(shown')
        BY <3>2, LenProperties
      <4> QED BY <1>t, <3>1, <3>2, <4>1, DesktopAssumption
    <3>4. upto[r] + 1 - e \in 1 .. upto[r]
      BY <2>1, <2>3, <3>1
    <3>5. shown'[upto[r] + 1 - e] = e
      BY <2>1, <3>1, <3>2, <3>3, <3>4
    <3> QED BY <3>3, <3>4, <3>5 DEF Elements
  <2> QED BY <2>2, <2>3
<1>3. CASE UNCHANGED shown
  BY <1>3 DEF Elements
<1> QED BY <1>1, <1>2, <1>3
        DEF Next, Publish, Deliver, Drop, Checkpoints, Desktop, BridgeStart, BridgeReceive, BridgeLag, Listen,
            Ask, ReadBacklog, vars, desktopVars

\* What is accounted for remains so.
LEMMA StillAccounted ==
    ASSUME TypeInv, SentOnce, RoomInv, Fits, [Next]_vars, listening, Subscribed(Bridge),
           NEW e \in 1 .. Len(log), Accounted(e)
    PROVE  Accounted(e)'
<1>1. erased \subseteq erased' /\ dropped \subseteq dropped'
  BY DEF Next, Publish, Deliver, Drop, Checkpoints, Desktop, BridgeStart, BridgeReceive, BridgeLag, Listen,
         Push, Ask, ReadBacklog, Hydrate, vars, desktopVars
<1>2. CASE Coming(e)
  BY <1>2, StillComing DEF Accounted
<1>3. CASE e \in Elements(shown)
  BY <1>3, StillShown DEF Accounted
<1> QED BY <1>1, <1>2, <1>3 DEF Accounted

\* A new event is with its publisher.
LEMMA NewAccounted ==
    ASSUME TypeInv, [Next]_vars, NEW e \in Len(log) + 1 .. Len(log')
    PROVE  Accounted(e)'
<1>t. Len(log) \in Nat /\ log \in Seq(Nat) /\ unsent \in [Publishers -> 0 .. Len(log)]
  BY BusFacts DEF TypeInv, TypeOK, BusTypeOK
<1>1. log' # log
  BY <1>t
<1>2. ASSUME NEW p \in Publishers, NEW x \in Nat, AppendRow(p, x) PROVE Accounted(e)'
  <2>1. Len(log') = Len(log) + 1
    BY <1>t, <1>2, AppendProperties DEF AppendRow
  <2>2. e = Len(log) + 1
    BY <1>t, <2>1
  <2>3. unsent'[p] = e
    BY <1>t, <1>2, <2>2 DEF AppendRow
  <2> QED BY <2>3 DEF Accounted, Coming, AtBridge
<1>3. /\ Feed \in Publishers /\ Tasks \subseteq Publishers /\ \A t \in Tasks : done[t] \in Nat
  BY FeedAssumption DEF TypeInv, TypeOK, CheckpointTypeOK
<1>4. \A p \in Publishers : Publish(p) => Accounted(e)'
  BY <1>2 DEF Publish, NoWrite
<1>5. \A t \in Tasks : Announce(t) => Accounted(e)'
  BY <1>2, <1>3 DEF Announce
<1>6. Report => Accounted(e)'
  BY <1>2, <1>3 DEF Report, NoWrite
<1> QED BY <1>1, <1>4, <1>5, <1>6
        DEF Next, Deliver, Send, Drop, DropPublication, Abandon, Checkpoints, Write, FeedReceive, FeedLag,
            Received, CatchUp, Commit, CommitFails, Revert, Desktop, BridgeStart, Subscribe, BridgeReceive,
            BridgeLag, Listen, Push, Ask, ReadBacklog, Hydrate, vars, busVars

\* Bridge and listener stay in place.
LEMMA NextGaps ==
    ASSUME TypeInv, GapsInv, [Next]_vars
    PROVE  GapsInv' /\ (Subscribed(Bridge) => Subscribed(Bridge)')
<1>t. /\ Len(sent) \in Nat /\ next \in [Subscribers -> 0 .. Len(sent) + 1]
      /\ Bridge \in Subscribers /\ Feed \in Subscribers /\ Feed # Bridge /\ Capacity \in Nat \ {0}
      /\ gapless \in [Requests -> BOOLEAN]
  BY BusFacts DEF TypeInv, TypeOK, DesktopTypeOK
<1>1. Subscribed(Bridge) => Subscribed(Bridge)'
  <2>1. next'[Bridge] >= next[Bridge] /\ next'[Bridge] \in Nat
    <3>1. CASE BridgeStart \/ BridgeReceive \/ BridgeLag
      BY <1>t, <3>1 DEF BridgeStart, BridgeReceive, BridgeLag, Subscribe, Received, CatchUp, Lags
    <3>2. CASE next'[Bridge] = next[Bridge]
      BY <1>t, <3>2
    <3> QED BY <1>t, <3>1, <3>2
            DEF Next, Publish, Deliver, Drop, DropPublication, AppendRow, Send, Abandon, Checkpoints, Write,
                Announce, FeedReceive, FeedLag, Received, CatchUp, Commit, CommitFails, Report, Revert,
                Desktop, Listen, Push, Ask, ReadBacklog, Hydrate, vars, busVars
  <2> QED BY <1>t, <2>1 DEF Subscribed
<1>2. listening => listening'
  BY DEF Next, Publish, Deliver, Drop, Checkpoints, Desktop, BridgeStart, BridgeReceive, BridgeLag, Listen,
         Push, Ask, ReadBacklog, Hydrate, vars, desktopVars
<1>3. CASE gapless' = gapless
  BY <1>1, <1>2, <1>3 DEF GapsInv
<1>4. ASSUME NEW r \in Requests, Ask(r) PROVE GapsInv'
  <2>1. \A q \in Requests : q # r => gapless'[q] = gapless[q]
    BY <1>t, <1>4 DEF Ask
  <2>2. gapless'[r] = (listening /\ Subscribed(Bridge))
    BY <1>t, <1>4 DEF Ask
  <2> QED BY <1>1, <1>2, <2>1, <2>2 DEF GapsInv
<1> QED BY <1>1, <1>3, <1>4
        DEF Next, Publish, Deliver, Drop, Checkpoints, Desktop, BridgeStart, BridgeReceive, BridgeLag, Listen,
            Push, ReadBacklog, Hydrate, vars, desktopVars

\* What a step does to a request.
LEMMA RequestStep ==
    ASSUME TypeInv, [Next]_vars, NEW q \in Requests
    PROVE  \/ request'[q] \notin {"read", "done"}
           \/ upto'[q] = ReadAll /\ log' = log /\ request'[q] # "done"
           \/ /\ gapless'[q] = gapless[q] /\ upto'[q] = upto[q] /\ request[q] \in {"read", "done"}
              /\ request[q] # "done" /\ request'[q] = "done" => Hydrate(q)
<1>t. /\ gapless \in [Requests -> BOOLEAN] /\ upto \in [Requests -> 0 .. Len(log)]
      /\ request \in [Requests -> {"none", "asked", "read", "done"}]
  BY DEF TypeInv, TypeOK, DesktopTypeOK
<1>1. ASSUME NEW r \in Requests, Ask(r) \/ ReadBacklog(r) \/ Hydrate(r), q # r
      PROVE  gapless'[q] = gapless[q] /\ upto'[q] = upto[q] /\ request'[q] = request[q]
  BY <1>t, <1>1 DEF Ask, ReadBacklog, Hydrate
<1>2. CASE Ask(q)
  BY <1>t, <1>2 DEF Ask
<1>3. CASE ReadBacklog(q)
  BY <1>t, <1>3 DEF ReadBacklog, busVars
<1>4. CASE Hydrate(q)
  BY <1>t, <1>4 DEF Hydrate
<1>5. CASE UNCHANGED <<request, upto, gapless>>
  BY <1>5
<1> QED BY <1>1, <1>2, <1>3, <1>4, <1>5
        DEF Next, Publish, Deliver, Drop, Checkpoints, Desktop, BridgeStart, BridgeReceive, BridgeLag, Listen,
            Push, vars, desktopVars

\* A store filled from a backlog shows the events of the backlog, if they fit.
LEMMA HydrateShows ==
    ASSUME TypeInv, Fits, NEW r \in Requests, Hydrate(r), NEW e \in 1 .. upto[r]
    PROVE  e \in Elements(shown)'
<1>t. /\ Len(log) \in Nat /\ upto[r] \in 0 .. Len(log)
      /\ MaxShown \in Nat /\ Len(log) <= MaxShown
  <2>1. Len(log) \in Nat /\ upto[r] \in 0 .. Len(log)
    BY BusFacts
  <2> QED BY <2>1, DesktopAssumption DEF Fits
<1>1. /\ shown' \in Seq(1 .. upto[r])
      /\ Len(shown') = IF upto[r] < MaxShown THEN upto[r] ELSE MaxShown
      /\ \A i \in 1 .. Len(shown') : shown'[i] = upto[r] + 1 - i
  BY <1>t, HydrateStore
<1>2. Len(shown') = upto[r]
  <2>1. CASE upto[r] < MaxShown
    BY <1>1, <2>1
  <2>2. CASE upto[r] = MaxShown
    BY <1>t, <1>1, <2>2
  <2> QED BY <1>t, <2>1, <2>2
<1>3. upto[r] + 1 - e \in 1 .. upto[r] /\ upto[r] + 1 - (upto[r] + 1 - e) = e
  BY <1>t
<1>4. DOMAIN shown' = 1 .. upto[r] /\ shown'[upto[r] + 1 - e] = e
  <2>1. DOMAIN shown' = 1 .. Len(shown')
    BY <1>1, LenProperties
  <2> QED BY <1>1, <1>2, <1>3, <2>1
<1> QED BY <1>3, <1>4 DEF Elements

\* Every step keeps every event accounted for.
LEMMA NextComplete ==
    ASSUME TypeInv, SentOnce, RoomInv, CompleteInv, [Next]_vars
    PROVE  CompleteInv'
<1>t. /\ Len(log) \in Nat /\ Len(log') \in Nat /\ Len(log) <= Len(log')
      /\ upto \in [Requests -> 0 .. Len(log)] /\ None \notin Requests
      /\ gapless \in [Requests -> BOOLEAN]
  <2>1. Len(log') \in Nat /\ Len(log) <= Len(log')
    BY BusStep, LenProperties DEF BusTypeOK
  <2>2. gapless \in [Requests -> BOOLEAN]
    BY DEF TypeInv, TypeOK, DesktopTypeOK
  <2> QED BY <2>1, <2>2, BusFacts, DesktopAssumption
<1>f. Fits' => Fits
  <2>1. MaxShown \in Nat /\ ReadLimit \in Nat
    BY DesktopAssumption, BusAssumption
  <2> QED BY <1>t, <2>1 DEF Fits
<1>1. GapsInv'
  BY NextGaps DEF CompleteInv
<1>2. ASSUME Fits, NEW q \in Requests, gapless[q], request[q] \in {"read", "done"},
             NEW e \in upto[q] + 1 .. Len(log')
      PROVE  Accounted(e)'
  <2>1. listening /\ Subscribed(Bridge)
    BY <1>2 DEF CompleteInv, GapsInv
  <2>2. e \in 1 .. Len(log) \/ e \in Len(log) + 1 .. Len(log')
    BY <1>t
  <2>3. CASE e \in 1 .. Len(log)
    <3>1. e \in upto[q] + 1 .. Len(log)
      BY <1>t, <2>3
    <3>2. Accounted(e)
      BY <1>2, <3>1 DEF CompleteInv, BacklogInv
    <3> QED BY <1>2, <2>1, <2>3, <3>2, StillAccounted
  <2> QED BY <2>2, <2>3, NewAccounted
<1>3. BacklogInv'
  <2> SUFFICES ASSUME Fits', NEW q \in Requests, gapless'[q], request'[q] \in {"read", "done"},
                      NEW e \in upto'[q] + 1 .. Len(log')
               PROVE  Accounted(e)'
    BY DEF BacklogInv
  <2>1. ~ (upto'[q] = ReadAll /\ log' = log)
    <3>1. ReadLimit \in Nat /\ Len(log) <= ReadLimit
      BY <1>f, BusAssumption DEF Fits
    <3>2. ReadAll = Len(log)
      BY <1>t, <3>1 DEF ReadAll
    <3> QED BY <1>t, <3>2
  <2>2. gapless'[q] = gapless[q] /\ upto'[q] = upto[q] /\ request[q] \in {"read", "done"}
    BY <2>1, RequestStep
  <2> QED BY <1>2, <1>f, <2>2
<1>4. StoreInv'
  <2> SUFFICES ASSUME Fits', latest' # None, gapless[latest]', NEW e \in 1 .. Len(log')
               PROVE  Accounted(e)'
    BY DEF StoreInv
  <2>1. PICK q \in Requests : q = latest' /\ request'[q] = "done" /\ gapless'[q]
    <3>1. TypeInv'
      BY NextType
    <3> QED BY <3>1 DEF TypeInv, TypeOK, DesktopTypeOK
  <2>2. /\ gapless[q] /\ request[q] \in {"read", "done"}
        /\ request[q] # "done" => Hydrate(q)
    BY <2>1, RequestStep
  <2>3. CASE Hydrate(q)
    <3>1. CASE e \in 1 .. upto[q]
      BY <1>f, <2>3, <3>1, HydrateShows DEF Accounted
    <3>2. CASE e \in upto[q] + 1 .. Len(log')
      BY <1>2, <1>f, <2>2, <3>2
    <3> QED BY <1>t, <3>1, <3>2
  <2>4. CASE request[q] = "done"
    <3>1. latest' = latest
      <4>1. ASSUME NEW r \in Requests, Hydrate(r) PROVE FALSE
        BY <2>1, <2>4, <4>1 DEF Hydrate
      <4> QED BY <4>1
              DEF Next, Publish, Deliver, Drop, Checkpoints, Desktop, BridgeStart, BridgeReceive, BridgeLag,
                  Listen, Push, Ask, ReadBacklog, vars, desktopVars
    <3>2. latest # None /\ gapless[latest] /\ listening /\ Subscribed(Bridge)
      BY <1>t, <2>1, <2>2, <3>1 DEF CompleteInv, GapsInv
    <3>3. CASE e \in 1 .. Len(log)
      <4>1. Accounted(e)
        BY <1>f, <3>2, <3>3 DEF CompleteInv, StoreInv
      <4> QED BY <1>f, <3>2, <3>3, <4>1, StillAccounted
    <3>4. CASE e \in Len(log) + 1 .. Len(log')
      BY <3>4, NewAccounted
    <3> QED BY <1>t, <3>3, <3>4
  <2> QED BY <2>2, <2>3, <2>4
<1> QED BY <1>1, <1>3, <1>4 DEF CompleteInv

\* Once nothing is on its way, what is accounted for is shown, erased or dropped.
LEMMA CompleteMeans == TypeInv /\ CompleteInv => StoreIsComplete
<1> SUFFICES ASSUME TypeInv, CompleteInv, Settled, latest # None, gapless[latest], Fits,
                    NEW e \in 1 .. Len(log)
             PROVE  e \in Elements(shown) \cup erased \cup dropped
  BY DEF StoreIsComplete, Fits
<1>1. Accounted(e)
  BY DEF CompleteInv, StoreInv
<1>2. e # 0 /\ Len(sent) \in Nat /\ DOMAIN sent = 1 .. Len(sent)
  BY BusFacts
<1>3. ~ AtBridge(e)
  BY <1>2 DEF AtBridge, Settled, Quiet, CaughtUp
<1>4. Elements(wire) = {}
  BY BusFacts DEF Elements, Settled
<1> QED BY <1>1, <1>3, <1>4 DEF Accounted, Coming

\* When everything has arrived, a store that was filled by a request made with
\* bridge and listener in place shows every event that was not dropped, or erased
\* by a backlog read before it; as long as all fit into a backlog and twice into
\* the store.
THEOREM StoreComplete == Spec => []StoreIsComplete
<1>1. Init => PublishInv
  BY EmptySeq DEF Init, BusInit, CheckpointInit, PublishInv, PublishTypeOK, SentOnce
<1>2. Init => RoomInv /\ CompleteInv
  <2> SUFFICES ASSUME Init PROVE RoomInv /\ CompleteInv
    OBVIOUS
  <2>1. wire = <<>> /\ shown = <<>> /\ log = <<>> /\ latest = None /\ Bridge \in Subscribers
        /\ next[Bridge] = 0 /\ \A r \in Requests : ~ gapless[r]
    BY DesktopAssumption DEF Init, BusInit, DesktopInit, Feed, Bridge
  <2>2. Len(wire) = 0 /\ Len(shown) = 0 /\ Len(log) = 0
    BY <2>1, EmptySeq
  <2>3. RoomInv
    BY <2>1, <2>2 DEF RoomInv, Consumed
  <2>4. CompleteInv
    BY <2>1 DEF CompleteInv, GapsInv, BacklogInv, StoreInv
  <2> QED BY <2>3, <2>4
<1>3. TypeInv /\ SentOnce /\ RoomInv /\ CompleteInv /\ [Next]_vars => RoomInv' /\ CompleteInv'
  BY NextRoom, NextComplete
<1>4. PublishInv => SentOnce
  BY DEF PublishInv
<1> QED BY <1>1, <1>2, <1>3, <1>4, InitType, NextType, NextPublish, CompleteMeans, PTL DEF Spec

=============================================================================
