------------------------------ MODULE SkillProofs ------------------------------
(***************************************************************************)
(* Theorems about SkillLifecycle and the SkillHistory under it, for any    *)
(* documents, skills, users, failures, edits and restarts.                 *)
(***************************************************************************)
EXTENDS SkillLifecycle, SequenceTheorems, FiniteSetTheorems, WellFoundedInduction, TLAPS

\* What is no document.
LEMMA Strangers == NoDoc \notin Docs /\ Junk \notin Docs /\ Junk # NoDoc
BY HistoryAssumption DEF NoDoc, Junk

USE Strangers

-----------------------------------------------------------------------------
(* The history table *)

\* A set of positions has a last one.
LEMMA LastExists ==
    ASSUME NEW k \in Nat, NEW S, S \subseteq 1 .. k, S # {}
    PROVE  \E i \in S : \A j \in S : j <= i
<1> DEFINE T == {k - i : i \in S}
<1>0. \A i \in S : i \in Nat /\ k - i \in Nat
  OBVIOUS
<1>1. T \subseteq Nat /\ T # {}
  <2>1. PICK i \in S : TRUE
    OBVIOUS
  <2>2. k - i \in T
    OBVIOUS
  <2> QED BY <1>0, <2>2
<1> DEFINE R == OpToRel(<, Nat)
<1>2. IsWellFoundedOn(R, Nat)
  BY NatLessThanWellFounded
<1>3. PICK x \in T : \A y \in T : ~ (<<y, x>> \in R)
  <2> HIDE DEF R, T
  <2> QED BY <1>1, <1>2, WFMin
<1>4. \A y \in T : ~ (y < x)
  BY <1>1, <1>3 DEF OpToRel
<1>5. PICK i \in S : x = k - i
  OBVIOUS
<1>6. \A j \in S : ~ (k - j < k - i)
  BY <1>4, <1>5
<1> HIDE DEF R, T
<1>7. \A j \in S : j <= i
  BY <1>0, <1>6
<1> QED BY <1>7

\* The row active picks is a row of the name that is not retired, and none of
\* them is newer.
LEMMA ActiveRowFound ==
    ASSUME HistoryTypeOK, NEW n, IsActive(n)
    PROVE  /\ ActiveRow(n) \in LiveRows(n)
           /\ ActiveDoc(n) = rows[ActiveRow(n)].doc
           /\ ActiveDoc(n) \in Docs
<1>1. LiveRows(n) \subseteq 1 .. Len(rows) /\ Len(rows) \in Nat
  BY DEF HistoryTypeOK, LiveRows
<1>2. \E i \in LiveRows(n) : \A j \in LiveRows(n) : j <= i
  BY <1>1, LastExists DEF IsActive
<1>3. ActiveRow(n) \in LiveRows(n)
  BY <1>2 DEF ActiveRow
<1>4. ActiveDoc(n) = rows[ActiveRow(n)].doc
  BY DEF ActiveDoc
<1>5. rows[ActiveRow(n)] \in Row
  BY <1>1, <1>3, ElementOfSeq DEF HistoryTypeOK
<1> QED BY <1>3, <1>4, <1>5 DEF Row

LEMMA ActiveDocType ==
    ASSUME HistoryTypeOK, NEW n
    PROVE  ActiveDoc(n) \in Docs \cup {NoDoc}
BY ActiveRowFound DEF ActiveDoc

\* Promote appends one row and leaves the others alone.
LEMMA PromoteAppends ==
    ASSUME HistoryTypeOK, NEW d \in Docs, NEW p \in Docs \cup {NoDoc}, Promote(d, p)
    PROVE  /\ rows' \in Seq(Row)
           /\ Len(rows') = Len(rows) + 1 /\ Len(rows) \in Nat
           /\ \A i \in 1 .. Len(rows) : rows'[i] = rows[i]
           /\ rows'[Len(rows) + 1] = [doc |-> d, parent |-> p, live |-> TRUE]
<1>1. [doc |-> d, parent |-> p, live |-> TRUE] \in Row
  BY DEF Row
<1> QED BY <1>1, AppendProperties DEF HistoryTypeOK, Promote

\* retire_active retires a row of the name, and changes nothing else of any row.
LEMMA RetireKeepsRows ==
    ASSUME HistoryTypeOK, NEW n, RetireActive(n)
    PROVE  /\ rows' \in Seq(Row)
           /\ Len(rows') = Len(rows) /\ Len(rows) \in Nat
           /\ \A i \in 1 .. Len(rows) :
                /\ rows'[i].doc = rows[i].doc /\ rows'[i].parent = rows[i].parent
                /\ rows'[i].live => rows[i].live
           /\ IsActive(n) => ~ rows'[ActiveRow(n)].live
<1>1. CASE ~ IsActive(n)
  BY <1>1 DEF RetireActive, HistoryTypeOK
<1>2. CASE IsActive(n)
  <2> DEFINE k == ActiveRow(n)
             r == [rows[k] EXCEPT !.live = FALSE]
  <2>1. k \in 1 .. Len(rows) /\ rows \in Seq(Row)
    BY <1>2, ActiveRowFound DEF LiveRows, HistoryTypeOK
  <2>2. rows[k] \in Row
    BY <2>1, ElementOfSeq
  <2>3. r \in Row /\ r.doc = rows[k].doc /\ r.parent = rows[k].parent /\ ~ r.live
    BY <2>2 DEF Row
  <2>4. rows' = [rows EXCEPT ![k] = r]
    BY <1>2 DEF RetireActive
  <2> HIDE DEF k, r
  <2>5. /\ rows' \in Seq(Row) /\ Len(rows') = Len(rows)
        /\ \A j \in 1 .. Len(rows) : rows'[j] = IF j = k THEN r ELSE rows[j]
    BY <2>1, <2>3, <2>4, ExceptSeq
  <2> QED BY <2>1, <2>3, <2>5 DEF k
<1> QED BY <1>1, <1>2

-----------------------------------------------------------------------------
(* Type correctness, and where an operation can be *)

\* An operation is at a step of its own, has a document, and runs only while the
\* process is up; the version it rolls back to, or has promoted, has a file in the
\* store.
Work(a) ==
    /\ phase # "up" => pc[a] = "idle"
    /\ IF Busy(a) THEN doc[a] \in Docs ELSE op[a] = "none"
    /\ pc[a] \in {"approve", "write", "unlink"} => op[a] \in {"promote", "approve"}
    /\ pc[a] \in {"store", "storing", "parent"} => op[a] = "promote"
    /\ pc[a] \in {"insert", "confirm"} => op[a] \in {"promote", "rollback"}
    /\ pc[a] = "drop" => op[a] \in {"promote", "rollback", "retire"}
    /\ pc[a] \in {"place", "placing"} => op[a] = "rollback"
    /\ pc[a] = "move" => op[a] = "retire"
    /\ pc[a] = "storing" => bytes[a] # NoDoc
    /\ op[a] = "rollback" => Stored(doc[a])
    /\ op[a] = "promote" /\ pc[a] \in {"storing", "parent", "drop", "insert"} => Stored(doc[a])

Working == \A a \in Actors : Work(a)

\* A file seeding has not looked at yet is there, and the one it is recording has
\* a file in the store from the moment that one is created.
Seeding ==
    /\ phase = "seed" => todo \subseteq Present
    /\ at # NoFile => phase = "seed" /\ at \in todo
    /\ stage = "look" <=> at = NoFile
    /\ stage \in {"fill", "insert"} => Stored(active[at])

LifeInv == TypeOK /\ Working /\ Seeding

\* An operation that ends leaves the variables of the operations in their types.
LEMMA FinishedType ==
    ASSUME TypeOK, NEW a \in Actors, NEW there \in {"idle", "dead"}, Finished(a, there)
    PROVE  /\ op' \in [Actors -> {"none", "promote", "approve", "rollback", "retire"}]
           /\ pc' \in [Actors -> PCs]
           /\ doc' \in [Actors -> Docs \cup {NoDoc}] /\ parent' \in [Actors -> Docs \cup {NoDoc}]
           /\ bytes' \in [Actors -> Docs \cup {NoDoc, Junk}]
BY DEF TypeOK, PCs, Finished, GoTo

\* Steps that are not boot's, while no file is being recorded.
LEMMA SameSeeding ==
    ASSUME Seeding, UNCHANGED <<phase, todo, at, stage>>, phase # "seed"
    PROVE  Seeding'
BY DEF Seeding

\* The others are at their steps as before.
LEMMA WorkElse ==
    ASSUME Working, NEW a \in Actors, phase' = phase,
           \A b \in Actors \ {a} : pc'[b] = pc[b] /\ op'[b] = op[b] /\ doc'[b] = doc[b] /\ bytes'[b] = bytes[b],
           \A d \in Docs : Stored(d) => Stored(d)',
           Work(a)'
    PROVE  Working'
<1> SUFFICES ASSUME NEW b \in Actors, b # a PROVE Work(b)'
  BY DEF Working
<1>1. Work(b) /\ (Busy(b)' <=> Busy(b))
  BY DEF Working, Busy
<1>2. Stored(doc[b]) /\ Busy(b) => store'[doc'[b]] # NoDoc
  BY <1>1 DEF Work, Stored
<1> QED BY <1>1, <1>2 DEF Work, Stored, Busy

\* No operation moves.
LEMMA WorkSame ==
    ASSUME Working, phase' = phase \/ \A a \in Actors : pc[a] = "idle", UNCHANGED opVars,
           \A d \in Docs : Stored(d) => Stored(d)'
    PROVE  Working'
<1> SUFFICES ASSUME NEW b \in Actors PROVE Work(b)'
  BY DEF Working
<1>1. Work(b) /\ (Busy(b)' <=> Busy(b))
  BY DEF Working, Busy, opVars
<1>2. Stored(doc[b]) /\ Busy(b) => store'[doc'[b]] # NoDoc
  BY <1>1 DEF Work, Stored, opVars
<1> QED BY <1>1, <1>2 DEF Work, Stored, Busy, opVars

\* What is torn is a file's contents.
LEMMA TornType ==
    ASSUME NEW c, NEW t \in Torn(c)
    PROVE  /\ t \in Docs \cup {Junk} /\ t # NoDoc
           /\ t \in Docs => c \in Docs /\ NameOf[t] = NameOf[c]
<1>1. CASE c \in Docs
  BY <1>1, HistoryAssumption DEF Torn
<1>2. CASE c \notin Docs
  BY <1>2 DEF Torn
<1> QED BY <1>1, <1>2

\* Every step preserves the types and keeps operations at their steps.
LEMMA NextLife == LifeInv /\ [Next]_vars => LifeInv'
<1> SUFFICES ASSUME LifeInv, [Next]_vars PROVE LifeInv'
  OBVIOUS
<1>0. \A d \in Docs : NameOf[d] \in Names /\ d \in Files /\ FileOf[NameOf[d]] \in Files
  BY DEF Names, Files
<1>a. \A n : ActiveDoc(n) \in Docs \cup {NoDoc} /\ (IsActive(n) => ActiveDoc(n) \in Docs)
  BY ActiveDocType, ActiveRowFound DEF LifeInv, TypeOK
<1>b. \A n \in Names, f \in Files : Without(n)[f] \in {active[f], NoDoc}
  BY DEF Without
<1> USE <1>0 DEF LifeInv, TypeOK, Working, Work, PCs, Busy, On, GoTo, Finished, Stored
<1>1. ASSUME NEW d \in Docs, Propose(d) \/ Reject(d) \/ \E f \in Files : Edit(d, f) PROVE LifeInv'
  <2>1. CASE Propose(d)
    BY <2>1 DEF Propose, Seeding, Present, bootVars, opVars, tableVars, ghostVars, HistoryTypeOK
  <2>2. CASE Reject(d)
    BY <2>2 DEF Reject, Seeding, Present, bootVars, opVars, tableVars, ghostVars, HistoryTypeOK
  <2>3. ASSUME NEW f \in Files, Edit(d, f) PROVE LifeInv'
    <3>1. Seeding'
      BY <2>3, SameSeeding DEF Edit, bootVars
    <3>2. broken' \subseteq Names
      BY <2>3 DEF Edit, Losers
    <3> QED BY <2>3, <3>1, <3>2, LifecycleAssumption DEF Edit, bootVars, opVars, tableVars, HistoryTypeOK
  <2> QED BY <1>1, <2>1, <2>2, <2>3
<1>s. ASSUME UNCHANGED bootVars, NEW a \in Actors, Busy(a) \/ phase = "up" PROVE Seeding'
  BY <1>s, SameSeeding DEF bootVars
<1>2. ASSUME NEW d \in Docs, Sweep(d) PROVE LifeInv'
  <2>1. Seeding'
    BY <1>2, <1>s DEF Sweep, Start, Actors
  <2> QED BY <1>2, <2>1, LifecycleAssumption DEF Sweep, Start, Actors, fileVars, bootVars, tableVars, HistoryTypeOK
<1>3. ASSUME NEW a \in Users, NEW d \in Docs, ApproveByHand(a, d) PROVE LifeInv'
  <2>1. Seeding'
    BY <1>3, <1>s DEF ApproveByHand, Start, Actors
  <2> QED BY <1>3, <2>1, LifecycleAssumption
          DEF ApproveByHand, Start, Actors, fileVars, bootVars, tableVars, HistoryTypeOK
<1>4. ASSUME NEW a \in Users, NEW d \in Docs, Rollback(a, d) PROVE LifeInv'
  <2>1. Seeding' /\ store[d] # NoDoc
    BY <1>4, <1>s DEF Rollback, Start, Actors
  <2>2. bytes' \in [Actors -> Docs \cup {NoDoc, Junk}]
    BY <1>4 DEF Rollback
  <2>3. TypeOK'
    BY <1>4, <1>a, <2>2, LifecycleAssumption DEF Rollback, Start, Actors, fileVars, bootVars, tableVars, HistoryTypeOK
  <2>4. Working'
    BY <1>4, <2>1, LifecycleAssumption DEF Rollback, Start, Actors, fileVars, bootVars, tableVars
  <2> QED BY <2>1, <2>3, <2>4
<1>5. ASSUME NEW a \in Actors, NEW n \in Names, StartRetire(a, n), snap' \in SUBSET Duplicates
      PROVE LifeInv'
  <2>1. Seeding'
    BY <1>5, <1>s DEF StartRetire, Start
  <2> QED BY <1>5, <1>a, <2>1, LifecycleAssumption
          DEF StartRetire, Start, Actors, fileVars, bootVars, tableVars, HistoryTypeOK
<1>6. ASSUME NEW a \in Actors, Approve(a) PROVE LifeInv'
  <2>s. Seeding'
    BY <1>6, <1>s DEF Approve
  <2> USE DEF Approve, bootVars, tableVars, ghostVars, HistoryTypeOK
  <2>1. CASE doc[a] \in proposed
    <3>1. TypeOK'
      <4>1. PICK t \in Torn(doc[a]) : active' = [active EXCEPT ![doc[a]] = t]
        BY <1>6, <2>1
      <4>2. active' \in [Files -> Docs \cup {NoDoc, Junk}]
        BY <4>1, TornType
      <4> QED BY <1>6, <2>1, <4>2
    <3>2. Working'
      BY <1>6, <2>1
    <3> QED BY <2>s, <3>1, <3>2
  <2>2. CASE doc[a] \notin proposed
    <3>0. Finished(a, "idle") /\ On(a) \in Names
      BY <1>6, <2>2
    <3>1. TypeOK'
      <4> HIDE DEF Finished, PCs
      <4> QED BY <1>6, <2>2, <3>0, FinishedType
    <3>2. Working'
      BY <1>6, <2>2
    <3> QED BY <2>s, <3>1, <3>2
  <2> QED BY <2>1, <2>2
<1>7. ASSUME NEW a \in Actors, Unlink(a) PROVE LifeInv'
  <2>s. Seeding'
    BY <1>7, <1>s DEF Unlink
  <2> USE DEF Unlink, bootVars, tableVars, HistoryTypeOK
  <2>1. CASE doc[a] \in proposed /\ op[a] = "promote"
    <3>1. TypeOK'
      BY <1>7, <2>1
    <3>2. pc' = [pc EXCEPT ![a] = "store"] /\ UNCHANGED <<op, doc, bytes, phase, store>>
      BY <1>7, <2>1
    <3>3. Working'
      BY <1>7, <2>1, <3>2
    <3> QED BY <2>s, <3>1, <3>3
  <2>2. CASE ~ (doc[a] \in proposed /\ op[a] = "promote")
    <3>0. Finished(a, "idle") /\ On(a) \in Names
      BY <1>7, <2>2
    <3>1. TypeOK'
      <4> HIDE DEF Finished, PCs
      <4> QED BY <1>7, <2>2, <3>0, FinishedType
    <3>2. Working'
      BY <1>7, <2>2
    <3> QED BY <2>s, <3>1, <3>2
  <2> QED BY <2>1, <2>2
<1>8. ASSUME NEW a \in Actors, Store(a) PROVE LifeInv'
  <2>s. Seeding'
    BY <1>8, <1>s DEF Store
  <2>d. doc[a] \in Docs /\ doc[a] \in Files /\ active[doc[a]] \in Docs \cup {Junk} /\ phase = "up"
    BY <1>8 DEF Store
  <2> USE DEF Store, fileVars, bootVars, ghostVars, HistoryTypeOK
  <2>1. CASE store[doc[a]] # NoDoc
    BY <1>8, <2>s, <2>1
  <2>2. CASE store[doc[a]] = NoDoc
    <3>1. PICK t \in Torn(active[doc[a]]) : store' = [store EXCEPT ![doc[a]] = t]
      BY <1>8, <2>2 DEF Create
    <3>2. store' \in [Docs -> Docs \cup {NoDoc, Junk}] /\ \A d \in Docs : store[d] # NoDoc => store'[d] # NoDoc
      <4>1. t \in Docs \cup {Junk} /\ t # NoDoc
        BY <3>1, TornType
      <4>2. store \in [Docs -> Docs \cup {NoDoc, Junk}]
        OBVIOUS
      <4> QED BY <3>1, <4>1, <4>2
    <3>3. store'[doc[a]] # NoDoc
      BY <2>d, <3>1, TornType
    <3>4. bytes' = [bytes EXCEPT ![a] = active[doc[a]]] /\ pc' = [pc EXCEPT ![a] = "storing"]
          /\ UNCHANGED <<op, doc, parent, rows, fileVars, bootVars, ghostVars, snap, mishaps>>
      BY <1>8, <2>2
    <3>5. TypeOK'
      BY <2>d, <3>2, <3>4
    <3>6. Work(a)'
      <4>1. pc'[a] = "storing" /\ op'[a] = "promote" /\ doc'[a] = doc[a] /\ phase' = "up"
        BY <2>d, <3>4, <1>8
      <4>2. bytes'[a] # NoDoc
        BY <2>d, <3>4
      <4>3. (Stored(doc[a]))'
        BY <3>3, <4>1
      <4> QED BY <2>d, <4>1, <4>2, <4>3
    <3>7. Working'
      <4>1. \A b \in Actors \ {a} : pc'[b] = pc[b] /\ op'[b] = op[b] /\ doc'[b] = doc[b] /\ bytes'[b] = bytes[b]
        BY <3>4
      <4>2. phase' = phase /\ \A d \in Docs : Stored(d) => Stored(d)'
        BY <3>2, <3>4
      <4> HIDE DEF Working, Work, Stored
      <4> QED BY <3>6, <4>1, <4>2, WorkElse DEF LifeInv
    <3> QED BY <2>s, <3>5, <3>7
  <2> QED BY <2>1, <2>2
<1>9. ASSUME NEW a \in Actors, StoreAll(a) PROVE LifeInv'
  <2>s. Seeding'
    BY <1>9, <1>s DEF StoreAll
  <2>d. doc[a] \in Docs /\ bytes[a] \in Docs \cup {Junk} /\ bytes[a] # NoDoc
    BY <1>9 DEF StoreAll
  <2>1. store' = [store EXCEPT ![doc[a]] = bytes[a]]
    BY <1>9 DEF StoreAll, Fill
  <2>2. store' \in [Docs -> Docs \cup {NoDoc, Junk}] /\ \A d \in Docs : store[d] # NoDoc => store'[d] # NoDoc
    BY <2>d, <2>1 DEF HistoryTypeOK
  <2> USE DEF StoreAll, fileVars, bootVars, ghostVars, HistoryTypeOK
  <2>3. TypeOK'
    BY <1>9, <2>2
  <2>4. Work(a)'
    BY <1>9, <2>d, <2>2
  <2>5. Working'
    <3>1. \A b \in Actors \ {a} : pc'[b] = pc[b] /\ op'[b] = op[b] /\ doc'[b] = doc[b] /\ bytes'[b] = bytes[b]
      BY <1>9
    <3>2. phase' = phase /\ \A d \in Docs : Stored(d) => Stored(d)'
      BY <1>9, <2>2
    <3> HIDE DEF Working, Work, Stored
    <3> QED BY <2>4, <3>1, <3>2, WorkElse DEF LifeInv
  <2> QED BY <2>s, <2>3, <2>5
<1>10. ASSUME NEW a \in Actors, StoreNothing(a) PROVE LifeInv'
  <2>s. Seeding'
    BY <1>10, <1>s DEF StoreNothing
  <2> USE DEF StoreNothing, fileVars, bootVars, tableVars, HistoryTypeOK
  <2>0. Finished(a, "idle") /\ On(a) \in Names
    BY <1>10
  <2>1. TypeOK'
    <3> HIDE DEF Finished, PCs
    <3> QED BY <1>10, <2>0, FinishedType
  <2>2. Working'
    BY <1>10
  <2> QED BY <2>s, <2>1, <2>2
<1>11. ASSUME NEW a \in Actors, Parent(a) PROVE LifeInv'
  <2>s. Seeding'
    BY <1>11, <1>s DEF Parent
  <2> QED BY <1>11, <1>a, <2>s DEF Parent, fileVars, bootVars, tableVars, ghostVars, HistoryTypeOK
<1>12. ASSUME NEW a \in Actors, Drop(a) PROVE LifeInv'
  <2>s. Seeding'
    BY <1>12, <1>s DEF Drop
  <2>1. rows' \in Seq(Row)
    BY <1>12, RetireKeepsRows DEF Drop
  <2> USE DEF Drop, fileVars, bootVars, ghostVars, HistoryTypeOK
  <2>2. ASSUME op[a] \in {"promote", "rollback"}, NEW there \in {"insert", "place"}, GoTo(a, there),
               UNCHANGED <<op, doc, parent, bytes>>, there = "place" => op[a] = "rollback"
        PROVE  LifeInv'
    <3>1. TypeOK'
      BY <1>12, <2>1, <2>2
    <3>2. Working'
      BY <1>12, <2>2
    <3> QED BY <2>s, <3>1, <3>2
  <2>3. op[a] \in {"promote", "rollback", "retire"}
    BY <1>12
  <2>4. CASE op[a] = "retire"
    <3>0. Finished(a, "idle") /\ On(a) \in Names
      BY <1>12, <2>1, <2>4
    <3>1. TypeOK'
      <4> HIDE DEF Finished, PCs
      <4> QED BY <1>12, <2>1, <2>4, <3>0, FinishedType
    <3>2. Working'
      BY <1>12, <2>1, <2>4
    <3> QED BY <2>s, <3>1, <3>2
  <2>5. CASE op[a] = "promote"
    BY <1>12, <2>2, <2>5
  <2>6. CASE op[a] = "rollback"
    BY <1>12, <2>2, <2>6
  <2> QED BY <2>3, <2>4, <2>5, <2>6
<1>13. ASSUME NEW a \in Actors, Insert(a) PROVE LifeInv'
  <2>s. Seeding'
    BY <1>13, <1>s DEF Insert
  <2>1. rows' \in Seq(Row)
    BY <1>13, PromoteAppends DEF Insert
  <2> QED BY <1>13, <2>s, <2>1 DEF Insert, fileVars, bootVars, ghostVars, HistoryTypeOK
<1>14. ASSUME NEW a \in Actors, Confirm(a) PROVE LifeInv'
  <2>s. Seeding'
    BY <1>14, <1>s DEF Confirm
  <2> QED BY <1>14, <2>s DEF Confirm, fileVars, bootVars, tableVars, ghostVars, HistoryTypeOK
<1>15. ASSUME NEW a \in Actors, Place(a) PROVE LifeInv'
  <2>s. Seeding'
    BY <1>15, <1>s DEF Place
  <2>1. PICK t \in Torn(bytes[a]) : active' = [Without(On(a)) EXCEPT ![FileOf[On(a)]] = t]
    BY <1>15 DEF Place
  <2>2. active' \in [Files -> Docs \cup {NoDoc, Junk}]
    <3>1. t \in Docs \cup {Junk}
      BY <2>1, TornType
    <3>2. active \in [Files -> Docs \cup {NoDoc, Junk}]
      OBVIOUS
    <3>3. Without(On(a)) \in [Files -> Docs \cup {NoDoc, Junk}]
      BY <3>2 DEF Without
    <3> HIDE DEF On, TypeOK
    <3> QED BY <2>1, <3>1, <3>3
  <2>3. broken' \subseteq Names
    BY <1>15 DEF Place, Losers
  <2>g. pc' = [pc EXCEPT ![a] = "placing"] /\ pc[a] = "place" /\ UNCHANGED <<op, doc, bytes, phase, store>>
    BY <1>15 DEF Place, bootVars, tableVars
  <2>4. TypeOK'
    BY <1>15, <2>2, <2>3 DEF Place, bootVars, tableVars, HistoryTypeOK
  <2>5. Working'
    BY <2>g
  <2> QED BY <2>s, <2>4, <2>5
<1>16. ASSUME NEW a \in Actors, PlaceAll(a) PROVE LifeInv'
  <2>s. Seeding'
    BY <1>16, <1>s DEF PlaceAll
  <2>1. active' \in [Files -> Docs \cup {NoDoc, Junk}]
    BY <1>16 DEF PlaceAll, WriteFile
  <2>2. broken' \subseteq Names
    BY <1>16 DEF PlaceAll, Losers
  <2>3. TypeOK'
    BY <1>16, <2>1, <2>2 DEF PlaceAll, bootVars, tableVars, HistoryTypeOK
  <2>4. Working'
    BY <1>16 DEF PlaceAll, bootVars, tableVars
  <2> QED BY <2>s, <2>3, <2>4
<1>17. ASSUME NEW a \in Actors, Write(a) PROVE LifeInv'
  <2>s. Seeding'
    BY <1>17, <1>s DEF Write
  <2>1. active' \in [Files -> Docs \cup {NoDoc, Junk}]
    BY <1>17 DEF Write, WriteFile
  <2> QED BY <1>17, <2>s, <2>1 DEF Write, bootVars, tableVars, ghostVars, HistoryTypeOK
<1>18. ASSUME NEW a \in Actors, Move(a) PROVE LifeInv'
  <2>s. Seeding'
    BY <1>18, <1>s DEF Move
  <2>1. active' \in [Files -> Docs \cup {NoDoc, Junk}]
    BY <1>18 DEF Move, Without
  <2> QED BY <1>18, <2>s, <2>1 DEF Move, bootVars, tableVars, ghostVars, HistoryTypeOK
<1>19. ASSUME NEW a \in Actors, Fail(a) PROVE LifeInv'
  <2>s. Seeding'
    BY <1>19, <1>s DEF Fail
  <2> QED BY <1>19, <2>s, LifecycleAssumption DEF Fail, fileVars, bootVars, tableVars, HistoryTypeOK
<1>20. ASSUME NEW a \in Actors, NEW gone, FailMoving(a, gone) PROVE LifeInv'
  <2>s. Seeding'
    BY <1>20, <1>s DEF FailMoving
  <2>1. active' \in [Files -> Docs \cup {NoDoc, Junk}]
    BY <1>20 DEF FailMoving
  <2> QED BY <1>20, <2>s, <2>1, LifecycleAssumption DEF FailMoving, bootVars, tableVars, HistoryTypeOK
<1>21. CASE Scan
  BY <1>21 DEF Scan, Seeding, Present, fileVars, bootVars, opVars, tableVars, ghostVars, HistoryTypeOK
<1>22. CASE Restart
  <2>1. CutShort \subseteq Names
    BY LifecycleAssumption DEF CutShort, Seeding, Present
  <2>2. Seeding'
    BY <1>22 DEF Restart, Seeding
  <2> QED BY <1>22, <2>1, <2>2, LifecycleAssumption DEF Restart, fileVars, tableVars, HistoryTypeOK
<1>23. CASE Load
  BY <1>23 DEF Load, Seeding, Present, fileVars, opVars, tableVars, ghostVars, HistoryTypeOK
<1>24. CASE SeedFails
  <2>1. broken' \subseteq Names
    BY <1>24 DEF SeedFails, Seeding, Present
  <2> QED BY <1>24, <2>1, LifecycleAssumption DEF SeedFails, Seeding, fileVars, opVars, tableVars, HistoryTypeOK
<1>25. CASE Up
  BY <1>25 DEF Up, Seeding, fileVars, opVars, tableVars, ghostVars, HistoryTypeOK
<1>26. ASSUME NEW f \in Files, SeedKnown(f) PROVE LifeInv'
  BY <1>26 DEF SeedKnown, Seeding, Present, fileVars, opVars, tableVars, ghostVars, HistoryTypeOK
<1>27. ASSUME NEW f \in Files, SeedRetire(f) PROVE LifeInv'
  <2>1. rows' \in Seq(Row)
    BY <1>27, RetireKeepsRows DEF SeedRetire
  <2> QED BY <1>27, <2>1, LifecycleAssumption
          DEF SeedRetire, Seeding, Present, fileVars, opVars, ghostVars, HistoryTypeOK
<1>28. ASSUME NEW f \in Files, SeedPut(f) PROVE LifeInv'
  <2>0. f \in todo /\ active[f] \in Docs /\ f # NoFile /\ phase = "seed" /\ at' = f
    BY <1>28, LifecycleAssumption DEF SeedPut, Recorded, Seeding, Present
  <2>1. /\ store' \in [Docs -> Docs \cup {NoDoc, Junk}] /\ stage' \in {"fill", "insert"}
        /\ store'[active[f]] # NoDoc
    <3>1. CASE Create(active[f], active[f]) /\ stage' = "fill"
      <4>1. PICK t \in Torn(active[f]) : store' = [store EXCEPT ![active[f]] = t]
        BY <3>1 DEF Create
      <4> QED BY <2>0, <3>1, <4>1, TornType DEF HistoryTypeOK
    <3>2. CASE Stored(active[f]) /\ stage' = "insert" /\ UNCHANGED store
      BY <3>2 DEF HistoryTypeOK
    <3> QED BY <1>28, <3>1, <3>2 DEF SeedPut
  <2>2. TypeOK'
    BY <1>28, <2>0, <2>1 DEF SeedPut, fileVars, opVars, ghostVars, HistoryTypeOK
  <2>4. \A d \in Docs : store[d] # NoDoc => store'[d] # NoDoc
    <3>1. CASE Create(active[f], active[f])
      <4>1. PICK t \in Torn(active[f]) : store' = [store EXCEPT ![active[f]] = t]
        BY <3>1 DEF Create
      <4> QED BY <2>0, <4>1, TornType DEF HistoryTypeOK
    <3> QED BY <1>28, <3>1 DEF SeedPut
  <2>5. Working'
    <3>1. phase' = phase /\ UNCHANGED opVars /\ \A d \in Docs : Stored(d) => Stored(d)'
      BY <1>28, <2>4 DEF SeedPut
    <3> HIDE DEF Working, Work, Stored
    <3> QED BY <3>1, WorkSame DEF LifeInv
  <2>6. Seeding'
    BY <1>28, <2>0, <2>1 DEF SeedPut, Seeding, Present, fileVars
  <2> QED BY <2>2, <2>5, <2>6
<1>29. ASSUME NEW f \in Files, SeedPutAll(f) PROVE LifeInv'
  <2>0. f \in todo /\ active[f] \in Docs /\ f # NoFile /\ phase = "seed" /\ at = f
    BY <1>29, LifecycleAssumption DEF SeedPutAll, Seeding, Present
  <2>1. store' = [store EXCEPT ![active[f]] = active[f]]
    BY <1>29 DEF SeedPutAll, Fill
  <2>2. /\ store' \in [Docs -> Docs \cup {NoDoc, Junk}] /\ store'[active[f]] # NoDoc
        /\ \A d \in Docs : store[d] # NoDoc => store'[d] # NoDoc
    BY <2>0, <2>1 DEF HistoryTypeOK
  <2>3. TypeOK'
    BY <1>29, <2>2 DEF SeedPutAll, fileVars, opVars, ghostVars, HistoryTypeOK
  <2>4. Working'
    <3>1. phase' = phase /\ UNCHANGED opVars /\ \A d \in Docs : Stored(d) => Stored(d)'
      BY <1>29, <2>2 DEF SeedPutAll
    <3> HIDE DEF Working, Work, Stored
    <3> QED BY <3>1, WorkSame DEF LifeInv
  <2>5. Seeding'
    BY <1>29, <2>0, <2>2 DEF SeedPutAll, Seeding, Present, fileVars
  <2> QED BY <2>3, <2>4, <2>5
<1>30. ASSUME NEW f \in Files, SeedInsert(f) PROVE LifeInv'
  <2>0. f \in todo /\ active[f] \in Docs /\ phase = "seed"
    BY <1>30, LifecycleAssumption DEF SeedInsert, Seeding, Present
  <2>1. rows' \in Seq(Row)
    BY <1>30, <2>0, PromoteAppends DEF SeedInsert
  <2>2. TypeOK' /\ Working'
    BY <1>30, <2>1 DEF SeedInsert, fileVars, opVars, ghostVars, HistoryTypeOK
  <2>3. Seeding'
    BY <1>30, <2>0 DEF SeedInsert, Seeding, Present, fileVars
  <2> QED BY <2>2, <2>3
<1>31. CASE UNCHANGED vars
  BY <1>31 DEF vars, Seeding, Present, fileVars, bootVars, opVars, tableVars, ghostVars, HistoryTypeOK
<1>32. ASSUME NEW n \in Names, Archive(n) PROVE LifeInv'
  BY <1>32, <1>5 DEF Archive, Actors
<1>33. ASSUME NEW a \in Users, NEW n \in Names, Retire(a, n) PROVE LifeInv'
  BY <1>33, <1>5 DEF Retire, Actors
<1> HIDE DEF LifeInv
<1> QED
  BY <1>1, <1>2, <1>3, <1>4, <1>6, <1>7, <1>8, <1>9, <1>10, <1>11, <1>12, <1>13,
     <1>14, <1>15, <1>16, <1>17, <1>18, <1>19, <1>20, <1>21, <1>22, <1>23, <1>24,
     <1>25, <1>26, <1>27, <1>28, <1>29, <1>30, <1>31, <1>32, <1>33 DEF Next

\* Every variable stays in its type, and operations stay at their steps.
THEOREM LifeInvariant == Spec => []LifeInv
<1>1. Init => LifeInv
  <2> SUFFICES ASSUME Init PROVE LifeInv
    OBVIOUS
  <2>1. active \in [Files -> Docs \cup {NoDoc}]
    <3>1. \A f \in Files : (\E d \in Handwritten : FileOf[NameOf[d]] = f)
             => (CHOOSE d \in Handwritten : FileOf[NameOf[d]] = f) \in Handwritten
      OBVIOUS
    <3> QED BY <3>1, LifecycleAssumption DEF Init
  <2>2. TypeOK
    <3>1. rows \in Seq(Row)
      BY EmptySeq DEF Init
    <3> QED BY <2>1, <3>1, LifecycleAssumption DEF Init, TypeOK, HistoryTypeOK, PCs
  <2>3. Working /\ Seeding
    BY DEF Init, Working, Work, Seeding, Busy
  <2> QED BY <2>2, <2>3 DEF LifeInv
<1> QED BY <1>1, NextLife, PTL DEF Spec

\* Every variable of the skill lifecycle stays in its type.
THEOREM TypeCorrect == Spec => []TypeOK
BY LifeInvariant, PTL DEF LifeInv

-----------------------------------------------------------------------------
(* The history *)

\* A row is added by a promotion, a rollback or a seeding, whose document is
\* stored; apart from that, a step retires a row or leaves the table alone.
LEMMA RowsStep ==
    ASSUME LifeInv, [Next]_vars
    PROVE  \/ rows' = rows
           \/ \E n : RetireActive(n)
           \/ \E a \in Actors : Insert(a) /\ Stored(doc[a])
           \/ \E f \in Files : SeedInsert(f) /\ active[f] \in Docs /\ Stored(active[f])
<1> USE DEF tableVars
<1>1. ASSUME NEW d \in Docs, Propose(d) \/ Reject(d) \/ Sweep(d) \/ \E f : Edit(d, f) PROVE rows' = rows
  BY <1>1 DEF Propose, Reject, Sweep, Edit
<1>2. ASSUME NEW a \in Users, NEW d \in Docs, ApproveByHand(a, d) \/ Rollback(a, d) PROVE rows' = rows
  BY <1>2 DEF ApproveByHand, Rollback
<1>3. ASSUME NEW a, NEW n, Retire(a, n) \/ Archive(n) PROVE rows' = rows
  BY <1>3 DEF Retire, Archive, StartRetire
<1>4. ASSUME NEW a \in Actors,
             \/ Approve(a) \/ Write(a) \/ Unlink(a) \/ Store(a) \/ StoreAll(a) \/ StoreNothing(a)
             \/ Parent(a) \/ Confirm(a) \/ Place(a) \/ PlaceAll(a) \/ Move(a) \/ Fail(a)
             \/ \E gone : FailMoving(a, gone)
      PROVE rows' = rows
  BY <1>4 DEF Approve, Write, Unlink, Store, StoreAll, StoreNothing, Parent, Confirm, Place, PlaceAll,
              Move, Fail, FailMoving
<1>5. ASSUME NEW a \in Actors, Drop(a) PROVE RetireActive(On(a))
  BY <1>5 DEF Drop
<1>6. ASSUME NEW a \in Actors, Insert(a) PROVE Stored(doc[a])
  BY <1>6 DEF Insert, LifeInv, Working, Work
<1>7. ASSUME NEW f \in Files, SeedInsert(f) PROVE active[f] \in Docs /\ Stored(active[f])
  BY <1>7, LifecycleAssumption DEF SeedInsert, LifeInv, TypeOK, Seeding, Present
<1>8. ASSUME NEW f \in Files, SeedRetire(f) PROVE RetireActive(NameOf[active[f]])
  BY <1>8 DEF SeedRetire
<1>9. ASSUME \/ Scan \/ Restart \/ Load \/ SeedFails \/ Up
             \/ \E f \in Files : SeedKnown(f) \/ SeedPut(f) \/ SeedPutAll(f)
      PROVE rows' = rows
  BY <1>9 DEF Scan, Restart, Load, SeedFails, Up, SeedKnown, SeedPut, SeedPutAll
<1>10. CASE UNCHANGED vars
  BY <1>10 DEF vars
<1> QED BY <1>1, <1>2, <1>3, <1>4, <1>5, <1>6, <1>7, <1>8, <1>9, <1>10 DEF Next

\* What such a step adds and keeps.
LEMMA RowsFrame ==
    ASSUME LifeInv, [Next]_vars
    PROVE  /\ Len(rows) \in Nat /\ Len(rows') \in {Len(rows), Len(rows) + 1}
           /\ DOMAIN rows = 1 .. Len(rows) /\ DOMAIN rows' = 1 .. Len(rows')
           /\ \A i \in 1 .. Len(rows) :
                /\ rows'[i].doc = rows[i].doc /\ rows'[i].parent = rows[i].parent
                /\ rows'[i].live => rows[i].live
<1>1. HistoryTypeOK /\ HistoryTypeOK'
  BY NextLife DEF LifeInv, TypeOK
<1>2. /\ Len(rows) \in Nat /\ DOMAIN rows = 1 .. Len(rows)
      /\ Len(rows') \in Nat /\ DOMAIN rows' = 1 .. Len(rows')
  BY <1>1, LenProperties DEF HistoryTypeOK
<1>3. CASE rows' = rows
  BY <1>2, <1>3
<1>4. CASE \E n : RetireActive(n)
  BY <1>1, <1>2, <1>4, RetireKeepsRows
<1>5. ASSUME NEW a \in Actors, Insert(a), Stored(doc[a])
      PROVE  Promote(doc[a], parent[a]) /\ doc[a] \in Docs /\ parent[a] \in Docs \cup {NoDoc}
  BY <1>1, <1>5 DEF Insert, LifeInv, TypeOK, HistoryTypeOK, Working, Work, Busy
<1>6. ASSUME NEW f \in Files, SeedInsert(f), active[f] \in Docs PROVE Promote(active[f], NoDoc)
  BY <1>6 DEF SeedInsert
<1>7. CASE \E d \in Docs, p \in Docs \cup {NoDoc} : Promote(d, p)
  BY <1>1, <1>2, <1>7, PromoteAppends
<1> QED BY <1>3, <1>4, <1>5, <1>6, <1>7, RowsStep

\* Nothing in the history is overwritten: rows are appended, and of a row there is
\* only its retirement that changes.
THEOREM HistoryOnlyGrows == Spec => HistoryGrows
<1>1. LifeInv /\ [Next]_vars =>
        [/\ Len(rows) <= Len(rows')
         /\ \A i \in DOMAIN rows :
              /\ rows'[i].doc = rows[i].doc
              /\ rows'[i].parent = rows[i].parent
              /\ rows'[i].live => rows[i].live]_rows
  BY RowsFrame
<1> QED BY <1>1, LifeInvariant, PTL DEF Spec, HistoryGrows

\* A file never leaves the store.
LEMMA StoreGrows ==
    ASSUME LifeInv, [Next]_vars, NEW d \in Docs, Stored(d)
    PROVE  Stored(d)'
<1>0. store \in [Docs -> Docs \cup {NoDoc, Junk}]
  BY DEF LifeInv, TypeOK, HistoryTypeOK
<1>1. CASE store' = store
  BY <1>1 DEF Stored
<1>2. ASSUME NEW e, NEW c, Create(e, c) PROVE Stored(d)'
  <2>1. PICK t \in Torn(c) : store' = [store EXCEPT ![e] = t]
    BY <1>2 DEF Create
  <2> QED BY <1>0, <2>1, TornType DEF Stored
<1>3. ASSUME NEW e, NEW c, c # NoDoc, Fill(e, c) PROVE Stored(d)'
  BY <1>0, <1>3 DEF Fill, Stored
<1> USE DEF tableVars
<1>4. ASSUME NEW e \in Docs, Propose(e) \/ Reject(e) \/ Sweep(e) \/ \E f : Edit(e, f) PROVE store' = store
  BY <1>4 DEF Propose, Reject, Sweep, Edit
<1>5. ASSUME NEW a \in Users, NEW e \in Docs, ApproveByHand(a, e) \/ Rollback(a, e) PROVE store' = store
  BY <1>5 DEF ApproveByHand, Rollback
<1>6. ASSUME NEW a, NEW n, Retire(a, n) \/ Archive(n) PROVE store' = store
  BY <1>6 DEF Retire, Archive, StartRetire
<1>7. ASSUME NEW a \in Actors, Store(a) PROVE store' = store \/ Create(doc[a], active[doc[a]])
  BY <1>7 DEF Store
<1>8. ASSUME NEW a \in Actors, StoreAll(a) PROVE bytes[a] # NoDoc /\ Fill(doc[a], bytes[a])
  BY <1>8 DEF StoreAll, LifeInv, Working, Work
<1>9. ASSUME NEW a \in Actors,
             \/ Approve(a) \/ Write(a) \/ Unlink(a) \/ StoreNothing(a) \/ Parent(a) \/ Confirm(a) \/ Drop(a)
             \/ Insert(a) \/ Place(a) \/ PlaceAll(a) \/ Move(a) \/ Fail(a) \/ \E gone : FailMoving(a, gone)
      PROVE store' = store
  BY <1>9 DEF Approve, Write, Unlink, StoreNothing, Parent, Confirm, Drop, Insert, Place, PlaceAll, Move,
              Fail, FailMoving
<1>10. ASSUME NEW f \in Files, SeedPut(f) PROVE store' = store \/ Create(active[f], active[f])
  BY <1>10 DEF SeedPut
<1>11. ASSUME NEW f \in Files, SeedPutAll(f) PROVE active[f] # NoDoc /\ Fill(active[f], active[f])
  BY <1>11, LifecycleAssumption DEF SeedPutAll, LifeInv, Seeding, Present
<1>12. ASSUME \/ Scan \/ Restart \/ Load \/ SeedFails \/ Up
              \/ \E f \in Files : SeedKnown(f) \/ SeedRetire(f) \/ SeedInsert(f)
      PROVE store' = store
  BY <1>12 DEF Scan, Restart, Load, SeedFails, Up, SeedKnown, SeedRetire, SeedInsert
<1>13. CASE UNCHANGED vars
  BY <1>1, <1>13 DEF vars
<1> QED BY <1>1, <1>2, <1>3, <1>4, <1>5, <1>6, <1>7, <1>8, <1>9, <1>10, <1>11, <1>12, <1>13 DEF Next

\* Where a new row comes from.
LEMMA NewRow ==
    ASSUME LifeInv, [Next]_vars, NEW i \in DOMAIN rows', i \notin DOMAIN rows
    PROVE  /\ i = Len(rows) + 1
           /\ \/ \E a \in Actors : /\ Insert(a) /\ Stored(doc[a])
                                   /\ rows'[i] = [doc |-> doc[a], parent |-> parent[a], live |-> TRUE]
              \/ \E f \in Files : /\ SeedInsert(f) /\ active[f] \in Docs /\ Stored(active[f])
                                  /\ rows'[i] = [doc |-> active[f], parent |-> NoDoc, live |-> TRUE]
<1>1. HistoryTypeOK
  BY DEF LifeInv, TypeOK
<1>2. i = Len(rows) + 1 /\ i \in 1 .. Len(rows') /\ Len(rows') # Len(rows)
  BY RowsFrame
<1>3. ~ \E n : RetireActive(n)
  BY <1>1, <1>2, RetireKeepsRows
<1>4. ASSUME NEW a \in Actors, Insert(a), Stored(doc[a])
      PROVE  rows'[i] = [doc |-> doc[a], parent |-> parent[a], live |-> TRUE]
  <2>1. Promote(doc[a], parent[a]) /\ doc[a] \in Docs /\ parent[a] \in Docs \cup {NoDoc}
    BY <1>1, <1>4 DEF Insert, LifeInv, TypeOK, HistoryTypeOK, Working, Work, Busy
  <2> QED BY <1>1, <1>2, <2>1, PromoteAppends
<1>5. ASSUME NEW f \in Files, SeedInsert(f), active[f] \in Docs
      PROVE  rows'[i] = [doc |-> active[f], parent |-> NoDoc, live |-> TRUE]
  <2>1. Promote(active[f], NoDoc)
    BY <1>5 DEF SeedInsert
  <2> QED BY <1>1, <1>2, <1>5, <2>1, PromoteAppends
<1> QED BY <1>2, <1>3, <1>4, <1>5, RowsStep

\* Whatever has been active has a file in the store, whichever step of an operation
\* was its last.
RowsHaveFiles == \A i \in DOMAIN rows : Stored(rows[i].doc)

LEMMA NextHaveFiles == LifeInv /\ RowsHaveFiles /\ [Next]_vars => RowsHaveFiles'
<1> SUFFICES ASSUME LifeInv, RowsHaveFiles, [Next]_vars, NEW i \in DOMAIN rows'
             PROVE  (Stored(rows[i].doc))'
  BY DEF RowsHaveFiles
<1>0. \A j \in DOMAIN rows : rows[j].doc \in Docs
  <2>1. rows \in Seq(Row) /\ DOMAIN rows = 1 .. Len(rows)
    BY LenProperties DEF LifeInv, TypeOK, HistoryTypeOK
  <2>2. \A j \in DOMAIN rows : rows[j] \in Row
    BY <2>1, ElementOfSeq
  <2> QED BY <2>2 DEF Row
<1>1. PICK d \in Docs : Stored(d) /\ rows'[i].doc = d
  <2>1. CASE i \in DOMAIN rows
    BY <1>0, <2>1, RowsFrame DEF RowsHaveFiles
  <2>2. CASE i \notin DOMAIN rows
    <3>1. ASSUME NEW a \in Actors, Insert(a) PROVE doc[a] \in Docs
      BY <3>1 DEF Insert, LifeInv, Working, Work, Busy
    <3> QED BY <2>2, <3>1, NewRow
  <2> QED BY <2>1, <2>2
<1>2. store'[d] # NoDoc
  BY <1>1, StoreGrows DEF Stored
<1> QED BY <1>1, <1>2 DEF Stored

-----------------------------------------------------------------------------
(* Parents *)

\* The document an operation is about to record as replaced has been active.
ParentsKnown ==
    \A a \in Actors : Busy(a) /\ parent[a] # NoDoc =>
        \E j \in 1 .. Len(rows) : RowName(j) = On(a) /\ rows[j].doc = parent[a]

\* An operation keeps its document, and the one it replaces is the one that was
\* active when it looked.
LEMMA ActorStep ==
    ASSUME LifeInv, [Next]_vars, NEW a \in Actors, Busy(a)'
    PROVE  \/ Busy(a) /\ doc'[a] = doc[a] /\ parent'[a] = parent[a]
           \/ parent'[a] = NoDoc
           \/ parent'[a] = ActiveDoc(NameOf[doc'[a]])
<1> USE DEF Busy, GoTo, LifeInv, TypeOK
<1>1. ASSUME UNCHANGED opVars PROVE Busy(a) /\ doc'[a] = doc[a] /\ parent'[a] = parent[a]
  BY <1>1 DEF opVars
<1>2. ASSUME NEW b \in Actors, NEW what, NEW d, NEW p, NEW first, Start(b, what, d, p, first),
             p \in {NoDoc, ActiveDoc(NameOf[d])}
      PROVE  \/ Busy(a) /\ doc'[a] = doc[a] /\ parent'[a] = parent[a]
             \/ parent'[a] = NoDoc
             \/ parent'[a] = ActiveDoc(NameOf[doc'[a]])
  BY <1>2 DEF Start
<1>3. ASSUME NEW b \in Actors, NEW there \in {"idle", "dead"}, Finished(b, there)
      PROVE  Busy(a) /\ doc'[a] = doc[a] /\ parent'[a] = parent[a]
  BY <1>3 DEF Finished
<1>4. ASSUME NEW b \in Actors, Busy(b), NEW there, GoTo(b, there), UNCHANGED <<doc, parent>>
      PROVE  Busy(a) /\ doc'[a] = doc[a] /\ parent'[a] = parent[a]
  BY <1>4
<1>5. ASSUME NEW b \in Actors, Parent(b)
      PROVE  \/ Busy(a) /\ doc'[a] = doc[a] /\ parent'[a] = parent[a]
             \/ parent'[a] = ActiveDoc(NameOf[doc'[a]])
  BY <1>5 DEF Parent, On
<1> HIDE DEF Busy, GoTo, LifeInv, TypeOK
<1>6. ASSUME NEW d \in Docs, Propose(d) \/ Reject(d) \/ \E f : Edit(d, f) PROVE UNCHANGED opVars
  BY <1>6 DEF Propose, Reject, Edit
<1>7. ASSUME \/ Scan \/ Load \/ SeedFails \/ Up
             \/ \E f \in Files : SeedKnown(f) \/ SeedRetire(f) \/ SeedPut(f) \/ SeedPutAll(f) \/ SeedInsert(f)
      PROVE  UNCHANGED opVars
  BY <1>7 DEF Scan, Load, SeedFails, Up, SeedKnown, SeedRetire, SeedPut, SeedPutAll, SeedInsert
<1>8. CASE UNCHANGED vars
  BY <1>1, <1>8 DEF vars
<1>9. ~ Restart
  BY DEF Restart, Busy
<1>10. ASSUME NEW d \in Docs, Sweep(d) PROVE Start(Promoter, "promote", d, NoDoc, "approve")
  BY <1>10 DEF Sweep
<1>11. ASSUME NEW b \in Users, NEW d \in Docs, ApproveByHand(b, d) PROVE Start(b, "approve", d, NoDoc, "approve")
  BY <1>11 DEF ApproveByHand
<1>12. ASSUME NEW b \in Users, NEW d \in Docs, Rollback(b, d)
       PROVE  \E first : Start(b, "rollback", d, ActiveDoc(NameOf[d]), first)
  BY <1>12 DEF Rollback
<1>13. ASSUME NEW b \in Actors, NEW n, StartRetire(b, n)
       PROVE  Start(b, "retire", ActiveDoc(n), NoDoc, "move")
  BY <1>13 DEF StartRetire
<1>14. ASSUME NEW b \in Actors,
              \/ Approve(b) \/ Write(b) \/ Unlink(b) \/ Store(b) \/ StoreAll(b) \/ StoreNothing(b) \/ Drop(b)
              \/ Insert(b) \/ Confirm(b) \/ Place(b) \/ PlaceAll(b) \/ Move(b) \/ Fail(b)
              \/ \E gone : FailMoving(b, gone)
       PROVE  \/ \E there \in {"idle", "dead"} : Finished(b, there)
              \/ Busy(b) /\ (\E there : GoTo(b, there)) /\ UNCHANGED <<doc, parent>>
  <2>1. ASSUME Approve(b) \/ Write(b) \/ Unlink(b) \/ Store(b) \/ StoreAll(b) \/ StoreNothing(b) \/ Confirm(b)
        PROVE  \/ \E there \in {"idle", "dead"} : Finished(b, there)
               \/ Busy(b) /\ (\E there : GoTo(b, there)) /\ UNCHANGED <<doc, parent>>
    BY <2>1 DEF Approve, Write, Unlink, Store, StoreAll, StoreNothing, Confirm, Busy
  <2>2. ASSUME Drop(b)
        PROVE  \/ \E there \in {"idle", "dead"} : Finished(b, there)
               \/ Busy(b) /\ (\E there : GoTo(b, there)) /\ UNCHANGED <<doc, parent>>
    BY <2>2 DEF Drop, Busy, LifeInv, Working, Work
  <2>3. ASSUME Insert(b) \/ Place(b) \/ PlaceAll(b) \/ Move(b) \/ Fail(b) \/ \E gone : FailMoving(b, gone)
        PROVE  \/ \E there \in {"idle", "dead"} : Finished(b, there)
               \/ Busy(b) /\ (\E there : GoTo(b, there)) /\ UNCHANGED <<doc, parent>>
    BY <2>3 DEF Insert, Place, PlaceAll, Move, Fail, FailMoving, Busy
  <2> QED BY <1>14, <2>1, <2>2, <2>3
<1>15. Promoter \in Actors /\ Curator \in Actors /\ Users \subseteq Actors
  BY DEF Actors
<1>16. ASSUME NEW b \in Actors, NEW n, Retire(b, n) \/ Archive(n)
       PROVE  StartRetire(b, n) \/ StartRetire(Curator, n)
  BY <1>16 DEF Retire, Archive
<1> QED BY <1>1, <1>2, <1>3, <1>4, <1>5, <1>6, <1>7, <1>8, <1>9, <1>10, <1>11, <1>12,
           <1>13, <1>14, <1>15, <1>16 DEF Next

\* The row a promotion links back to was active under the same name before.
THEOREM ParentsComeFirst == Spec => []ParentsPrecede
<1> DEFINE Inv == ParentsPrecede /\ ParentsKnown
<1>1. Init => Inv
  BY DEF Init, ParentsPrecede, ParentsKnown, Busy
<1>2. LifeInv /\ Inv /\ [Next]_vars => Inv'
  <2> SUFFICES ASSUME LifeInv, Inv, [Next]_vars PROVE ParentsPrecede' /\ ParentsKnown'
    OBVIOUS
  <2> DEFINE Known(p, n, k) == \E j \in 1 .. k : RowName(j) = n /\ rows[j].doc = p
  <2>1. \A p, n : Known(p, n, Len(rows)) => Known(p, n, Len(rows))'
    BY RowsFrame DEF RowName
  <2>2. \A p, n : \A i \in 1 .. Len(rows) : Known(p, n, i - 1) => Known(p, n, i - 1)'
    BY RowsFrame DEF RowName
  <2>3. ParentsKnown'
    <3> SUFFICES ASSUME NEW a \in Actors, Busy(a)', parent'[a] # NoDoc
                 PROVE  Known(parent[a], On(a), Len(rows))'
      BY DEF ParentsKnown
    <3>1. CASE Busy(a) /\ doc'[a] = doc[a] /\ parent'[a] = parent[a]
      <4>1. Known(parent[a], On(a), Len(rows))
        BY <3>1 DEF ParentsKnown
      <4>2. \E j \in 1 .. Len(rows') : RowName(j)' = On(a) /\ rows'[j].doc = parent[a]
        BY <2>1, <4>1
      <4> QED BY <3>1, <4>2 DEF On
    <3>2. CASE parent'[a] = ActiveDoc(NameOf[doc'[a]])
      <4> DEFINE n == NameOf[doc'[a]]
      <4>1. IsActive(n) /\ HistoryTypeOK
        BY <3>2 DEF ActiveDoc, LifeInv, TypeOK
      <4>2. Known(ActiveDoc(n), n, Len(rows))
        BY <4>1, ActiveRowFound, RowsFrame DEF LiveRows
      <4> QED BY <2>1, <3>2, <4>2 DEF On
    <3> QED BY <3>1, <3>2, ActorStep
  <2>4. ParentsPrecede'
    <3> SUFFICES ASSUME NEW i \in DOMAIN rows', rows'[i].parent # NoDoc
                 PROVE  Known(rows[i].parent, RowName(i), i - 1)'
      BY DEF ParentsPrecede
    <3>1. CASE i \in DOMAIN rows
      BY <2>2, <3>1, RowsFrame DEF ParentsPrecede, RowName
    <3>2. CASE i \notin DOMAIN rows
      <4>1. PICK a \in Actors : /\ Insert(a) /\ i = Len(rows) + 1
                                /\ rows'[i] = [doc |-> doc[a], parent |-> parent[a], live |-> TRUE]
        BY <3>2, NewRow
      <4>2. Known(parent[a], On(a), Len(rows))
        BY <4>1 DEF ParentsKnown, Insert, Busy
      <4>3. i - 1 = Len(rows)
        BY <4>1, RowsFrame
      <4>4. \A p, n : Known(p, n, Len(rows)) => \E j \in 1 .. Len(rows) : RowName(j)' = n /\ rows'[j].doc = p
        BY RowsFrame DEF RowName
      <4>5. PICK j \in 1 .. Len(rows) : RowName(j)' = On(a) /\ rows'[j].doc = parent[a]
        BY <4>2, <4>4
      <4>6. RowName(i)' = On(a) /\ rows'[i].parent = parent[a]
        BY <4>1 DEF On, RowName
      <4> QED BY <4>3, <4>5, <4>6
    <3> QED BY <3>1, <3>2
  <2> QED BY <2>3, <2>4
<1> QED BY <1>1, <1>2, LifeInvariant, PTL DEF Spec

-----------------------------------------------------------------------------
(* One active version *)

OneLive(n) == \A i, j \in LiveRows(n) : i = j

\* Where operations have not overlapped, an operation is alone on its skill, and
\* has no active row left when it comes to insert one; and so has seeding.
OneInv ==
    /\ \A n \in Names \ clash : OneLive(n)
    /\ \A a, b \in Actors : Busy(a) /\ Busy(b) /\ a # b /\ On(a) = On(b) => On(a) \in clash
    /\ \A a \in Actors : pc[a] \in {"insert", "place", "placing"} /\ On(a) \notin clash => LiveRows(On(a)) = {}
    /\ at # NoFile /\ NameOf[active[at]] \notin clash => LiveRows(NameOf[active[at]]) = {}

\* An operation begins: on nothing that is to be inserted before its active row is
\* retired.
Begins(a) ==
    \E what, d, p, first :
        /\ Start(a, what, d, p, first) /\ d \in Docs
        /\ \/ what \in {"promote", "approve"} /\ first = "approve"
           \/ what = "rollback" /\ first = "drop"
           \/ what = "rollback" /\ first = "place" /\ ~ IsActive(NameOf[d])
           \/ what = "retire" /\ first = "move"
        /\ IF what = "rollback" THEN store[d] \in Docs /\ bytes' = [bytes EXCEPT ![a] = store[d]]
                                ELSE bytes' = bytes
        /\ UNCHANGED <<rows, store, active, phase, todo, at, stage>> /\ broken \subseteq broken'

\* An operation takes a step, and comes to insert only when no row is active.
Proceeds(a) ==
    /\ Busy(a) /\ at' = at /\ clash' = clash
    /\ \A b \in Actors \ {a} : pc'[b] = pc[b] /\ doc'[b] = doc[b]
    /\ Busy(a)' => doc'[a] = doc[a]
    /\ rows' = rows \/ Drop(a) \/ Insert(a)
    /\ pc'[a] = "confirm" => Insert(a)
    /\ pc'[a] = "dead" => Confirm(a)
    /\ pc'[a] \in {"insert", "place", "placing"} =>
         \/ Drop(a)
         \/ rows' = rows /\ (pc[a] \in {"place", "placing"} \/ ~ IsActive(On(a)))

\* Nobody's operation moves, except that a restart ends them all.
Rests ==
    /\ clash' = clash
    /\ \A a \in Actors : Busy(a)' \/ pc'[a] = "dead" => pc'[a] = pc[a] /\ doc'[a] = doc[a]
    /\ \/ rows' = rows /\ (at' = NoFile \/ (at' = at /\ active' = active))
       \/ \E f \in Files : SeedRetire(f) \/ SeedPut(f) \/ SeedInsert(f)

\* The operations begin where Begins says.
LEMMA OperationsBegin ==
    ASSUME LifeInv,
           \/ \E d \in Docs : Sweep(d)
           \/ \E a \in Users, d \in Docs : ApproveByHand(a, d) \/ Rollback(a, d)
           \/ \E a \in Users, n \in Names : Retire(a, n)
           \/ \E n \in Names : Archive(n)
    PROVE  \E a \in Actors : Begins(a)
<1>0. Promoter \in Actors /\ Curator \in Actors /\ Users \subseteq Actors
  BY DEF Actors
<1>1. ASSUME NEW d \in Docs, Sweep(d) PROVE Begins(Promoter)
  BY <1>1 DEF Sweep, Begins, fileVars, bootVars, tableVars
<1>2. ASSUME NEW a \in Users, NEW d \in Docs, ApproveByHand(a, d) PROVE Begins(a)
  BY <1>2 DEF ApproveByHand, Begins, fileVars, bootVars, tableVars
<1>3. ASSUME NEW a \in Users, NEW d \in Docs, Rollback(a, d) PROVE Begins(a)
  <2> DEFINE first == IF IsActive(NameOf[d]) THEN "drop" ELSE "place"
  <2>1. Start(a, "rollback", d, ActiveDoc(NameOf[d]), first)
    BY <1>3 DEF Rollback
  <2>2. first = "drop" \/ (first = "place" /\ ~ IsActive(NameOf[d]))
    OBVIOUS
  <2>3. /\ UNCHANGED <<rows, store, active, phase, todo, at, stage, broken>>
        /\ store[d] \in Docs /\ bytes' = [bytes EXCEPT ![a] = store[d]]
    BY <1>3 DEF Rollback, fileVars, bootVars, tableVars
  <2> HIDE DEF first
  <2> QED BY <2>1, <2>2, <2>3 DEF Begins
<1>4. ASSUME NEW a \in Actors, NEW n, StartRetire(a, n) PROVE Begins(a)
  <2>1. ActiveDoc(n) \in Docs
    BY <1>4, ActiveRowFound DEF StartRetire, LifeInv, TypeOK
  <2> QED BY <1>4, <2>1 DEF StartRetire, Begins, fileVars, bootVars, tableVars
<1> QED BY <1>0, <1>1, <1>2, <1>3, <1>4 DEF Retire, Archive

\* The operations proceed as Proceeds says.
LEMMA OperationsProceed ==
    ASSUME LifeInv, NEW a \in Actors,
           \/ Approve(a) \/ Write(a) \/ Unlink(a) \/ Store(a) \/ StoreAll(a) \/ StoreNothing(a) \/ Parent(a)
           \/ Drop(a) \/ Insert(a) \/ Confirm(a) \/ Place(a) \/ PlaceAll(a) \/ Move(a) \/ Fail(a)
           \/ \E gone : FailMoving(a, gone)
    PROVE  Proceeds(a)
<1>1. CASE \/ Approve(a) \/ Write(a) \/ Unlink(a) \/ Store(a) \/ StoreAll(a) \/ StoreNothing(a) \/ Confirm(a)
           \/ Fail(a) \/ Move(a) \/ \E gone : FailMoving(a, gone)
  <2> USE DEF Proceeds, Busy, GoTo, Finished, LifeInv, TypeOK
  <2>1. CASE Approve(a) \/ Write(a)
    BY <2>1 DEF Approve, Write, bootVars, tableVars, ghostVars
  <2>2. CASE Unlink(a)
    BY <2>2 DEF Unlink, bootVars, tableVars
  <2>3. CASE Store(a) \/ StoreAll(a)
    BY <2>3 DEF Store, StoreAll, bootVars, ghostVars
  <2>4. CASE Confirm(a)
    BY <2>4 DEF Confirm, bootVars, tableVars, ghostVars
  <2>5. CASE Fail(a) \/ StoreNothing(a)
    BY <2>5 DEF Fail, StoreNothing, bootVars, tableVars
  <2>6. CASE Move(a)
    BY <2>6 DEF Move, bootVars, tableVars, ghostVars
  <2>7. CASE \E gone : FailMoving(a, gone)
    BY <2>7 DEF FailMoving, bootVars, tableVars
  <2> QED BY <1>1, <2>1, <2>2, <2>3, <2>4, <2>5, <2>6, <2>7
<1>2. CASE Parent(a) \/ Place(a) \/ PlaceAll(a) \/ Insert(a)
  <2> USE DEF Proceeds, Busy, GoTo, LifeInv, TypeOK, PCs
  <2>1. CASE Parent(a)
    BY <2>1 DEF Parent, bootVars, tableVars, ghostVars
  <2>2. CASE Place(a) \/ PlaceAll(a)
    BY <2>2 DEF Place, PlaceAll, bootVars, tableVars
  <2>3. CASE Insert(a)
    BY <2>3 DEF Insert, bootVars, ghostVars
  <2> QED BY <1>2, <2>1, <2>2, <2>3
<1>3. CASE Drop(a)
  <2> USE DEF Proceeds, Busy, GoTo, Finished, LifeInv, TypeOK, Working, Work
  <2>1. op[a] \in {"promote", "rollback", "retire"}
    BY <1>3 DEF Drop
  <2> QED BY <1>3, <2>1 DEF Drop, bootVars, ghostVars
<1> QED BY <1>1, <1>2, <1>3

\* Every step is of one of the three kinds.
LEMMA ActorSteps == LifeInv /\ [Next]_vars => Rests \/ \E a \in Actors : Begins(a) \/ Proceeds(a)
<1> SUFFICES ASSUME LifeInv, [Next]_vars PROVE Rests \/ \E a \in Actors : Begins(a) \/ Proceeds(a)
  OBVIOUS
<1>1. ASSUME NEW d \in Docs, Propose(d) \/ Reject(d) \/ \E f \in Files : Edit(d, f) PROVE Rests
  <2> USE DEF Rests, Busy, bootVars, opVars, tableVars, ghostVars
  <2>1. CASE Propose(d)
    BY <2>1 DEF Propose
  <2>2. CASE Reject(d)
    BY <2>2 DEF Reject
  <2>3. ASSUME NEW f \in Files, Edit(d, f) PROVE Rests
    <3>1. at' = NoFile
      BY <2>3 DEF Edit, LifeInv, Seeding
    <3>2. rows' = rows /\ clash' = clash /\ pc' = pc /\ doc' = doc
      BY <2>3 DEF Edit
    <3> QED BY <3>1, <3>2
  <2> QED BY <1>1, <2>1, <2>2, <2>3
<1>2. CASE \/ Scan \/ Load \/ SeedFails \/ Up \/ Restart
           \/ \E f \in Files : SeedKnown(f) \/ SeedRetire(f) \/ SeedPut(f) \/ SeedPutAll(f) \/ SeedInsert(f)
  BY <1>2 DEF Scan, Load, SeedFails, Up, Restart, SeedKnown, SeedRetire, SeedPut, SeedPutAll, SeedInsert,
              Rests, Busy, fileVars, bootVars, opVars, tableVars, ghostVars
<1>3. CASE UNCHANGED vars
  BY <1>3 DEF Rests, Busy, vars, fileVars, bootVars, opVars, tableVars, ghostVars
<1>4. ASSUME \/ \E d \in Docs : Sweep(d)
             \/ \E a \in Users, d \in Docs : ApproveByHand(a, d) \/ Rollback(a, d)
             \/ \E a \in Users, n \in Names : Retire(a, n)
             \/ \E n \in Names : Archive(n)
      PROVE  \E a \in Actors : Begins(a)
  BY <1>4, OperationsBegin
<1> QED BY <1>1, <1>2, <1>3, <1>4, OperationsProceed DEF Next

\* What a step does to the active rows of a skill.
LEMMA LiveStep ==
    ASSUME LifeInv, [Next]_vars, NEW n
    PROVE  \/ LiveRows(n)' \subseteq LiveRows(n)
           \/ \E a \in Actors : Insert(a) /\ On(a) = n /\ LiveRows(n)' \subseteq LiveRows(n) \cup {Len(rows) + 1}
           \/ \E f \in Files : /\ SeedInsert(f) /\ NameOf[active[f]] = n
                               /\ LiveRows(n)' \subseteq LiveRows(n) \cup {Len(rows) + 1}
<1>1. \A i \in LiveRows(n)' : i \in DOMAIN rows => i \in LiveRows(n)
  BY RowsFrame DEF LiveRows, RowName
<1>2. CASE LiveRows(n)' \subseteq DOMAIN rows
  BY <1>1, <1>2
<1>3. ASSUME NEW i \in LiveRows(n)', i \notin DOMAIN rows
      PROVE  \/ \E a \in Actors : Insert(a) /\ On(a) = n
             \/ \E f \in Files : SeedInsert(f) /\ NameOf[active[f]] = n
  BY <1>3, NewRow DEF LiveRows, RowName, On
<1>4. LiveRows(n)' \subseteq LiveRows(n) \cup {Len(rows) + 1}
  BY <1>1, NewRow DEF LiveRows
<1> QED BY <1>2, <1>3, <1>4

\* Retiring the only active row leaves none.
LEMMA RetireLeavesNone ==
    ASSUME HistoryTypeOK, NEW n, OneLive(n), RetireActive(n)
    PROVE  LiveRows(n)' = {}
<1>1. \A i \in LiveRows(n)' : i \in LiveRows(n)
  BY RetireKeepsRows, LenProperties DEF LiveRows, RowName, HistoryTypeOK
<1>2. CASE ~ IsActive(n)
  BY <1>1, <1>2 DEF IsActive
<1>3. CASE IsActive(n)
  <2>1. ~ rows'[ActiveRow(n)].live /\ ActiveRow(n) \in LiveRows(n)
    BY <1>3, RetireKeepsRows, ActiveRowFound
  <2> QED BY <1>1, <2>1 DEF OneLive, LiveRows
<1> QED BY <1>2, <1>3

LEMMA NextOne == LifeInv /\ OneInv /\ [Next]_vars => OneInv'
<1> SUFFICES ASSUME LifeInv, OneInv, [Next]_vars PROVE OneInv'
  OBVIOUS
<1>0. HistoryTypeOK /\ LifeInv'
  BY NextLife DEF LifeInv, TypeOK
<1>1. ASSUME NEW a \in Actors, Begins(a) PROVE OneInv'
  <2>1. PICK what, d, p, first :
          /\ Start(a, what, d, p, first) /\ first \notin {"insert", "placing"}
          /\ first = "place" => ~ IsActive(NameOf[d])
          /\ rows' = rows /\ at' = at /\ active' = active
    BY <1>1 DEF Begins
  <2>2. /\ clash \subseteq clash' /\ pc[a] = "idle" /\ pc'[a] = first /\ doc'[a] = d
        /\ \A b \in Actors \ {a} : pc'[b] = pc[b] /\ doc'[b] = doc[b]
        /\ \A b \in Actors \ {a} : Busy(b) /\ On(b) = NameOf[d] => NameOf[d] \in clash'
    BY <2>1 DEF Start, LifeInv, TypeOK
  <2>3. \A n : LiveRows(n)' = LiveRows(n)
    BY <2>1 DEF LiveRows, RowName
  <2>4. \A n \in Names \ clash' : OneLive(n)'
    BY <2>2, <2>3 DEF OneInv, OneLive
  <2>5. ASSUME NEW b \in Actors, NEW c \in Actors, Busy(b)', Busy(c)', b # c, On(b)' = On(c)'
        PROVE  On(b)' \in clash'
    BY <2>2, <2>5 DEF OneInv, Busy, On
  <2>6. ASSUME NEW b \in Actors, pc'[b] \in {"insert", "place", "placing"}, On(b)' \notin clash'
        PROVE  LiveRows(On(b))' = {}
    <3>1. CASE b = a
      BY <2>1, <2>2, <2>3, <2>6, <3>1 DEF On, IsActive
    <3>2. CASE b # a
      BY <2>2, <2>3, <2>6, <3>2 DEF OneInv, On
    <3> QED BY <3>1, <3>2
  <2>7. at' # NoFile /\ NameOf[active'[at']] \notin clash' => LiveRows(NameOf[active[at]])' = {}
    BY <2>1, <2>2, <2>3 DEF OneInv
  <2> QED BY <2>4, <2>5, <2>6, <2>7 DEF OneInv
<1>2. ASSUME NEW a \in Actors, Proceeds(a) PROVE OneInv'
  <2>1. at' = NoFile
    BY <1>2 DEF Proceeds, LifeInv, Working, Work, Seeding, Busy
  <2>2. \A n : LiveRows(n)' \subseteq LiveRows(n) \/ (Insert(a) /\ On(a) = n)
    <3>1. CASE rows' = rows
      <4>1. \A n : LiveRows(n)' = LiveRows(n)
        BY <3>1 DEF LiveRows, RowName
      <4> QED BY <4>1
    <3>2. CASE Drop(a)
      <4>1. \A n : LiveRows(n)' \subseteq LiveRows(n)
        BY <1>0, <3>2, RetireKeepsRows, LenProperties DEF Drop, LiveRows, RowName, HistoryTypeOK
      <4> QED BY <4>1
    <3>3. CASE Insert(a)
      <4>1. \A b \in Actors : Insert(b) => b = a
        BY <1>2, <3>3 DEF Insert, Proceeds, GoTo, LifeInv, TypeOK
      <4>2. ~ \E f \in Files : SeedInsert(f)
        BY <2>1, <3>3, LifecycleAssumption DEF SeedInsert, Insert, LifeInv, Working, Work, Seeding
      <4> QED BY <3>3, <4>1, <4>2, LiveStep
    <3> QED BY <1>2, <3>1, <3>2, <3>3 DEF Proceeds
  <2>3. \A b \in Actors : Busy(b)' => Busy(b) /\ doc'[b] = doc[b]
    BY <1>2 DEF Proceeds, Busy
  <2>4. ASSUME Insert(a), NEW n, On(a) = n
        PROVE  LiveRows(n)' \subseteq LiveRows(n) \cup {Len(rows) + 1}
    BY <2>4, LiveStep
  <2>5. ASSUME NEW n \in Names \ clash' PROVE OneLive(n)'
    <3>1. CASE LiveRows(n)' \subseteq LiveRows(n)
      BY <1>2, <3>1 DEF Proceeds, OneInv, OneLive
    <3>2. CASE Insert(a) /\ On(a) = n
      <4>1. LiveRows(n) = {}
        BY <1>2, <3>2 DEF Proceeds, OneInv, Insert
      <4> QED BY <2>4, <3>2, <4>1 DEF OneLive
    <3> QED BY <2>2, <3>1, <3>2
  <2>6. ASSUME NEW b \in Actors, NEW c \in Actors, Busy(b)', Busy(c)', b # c, On(b)' = On(c)'
        PROVE  On(b)' \in clash'
    BY <1>2, <2>3, <2>6 DEF Proceeds, OneInv, On
  <2>7. ASSUME NEW b \in Actors, pc'[b] \in {"insert", "place", "placing"}, On(b)' \notin clash'
        PROVE  LiveRows(On(b))' = {}
    <3>1. Busy(b)' /\ Busy(b) /\ On(b)' = On(b) /\ On(b) \notin clash /\ On(b) \in Names
      BY <1>2, <2>3, <2>7 DEF Busy, On, Proceeds, LifeInv, Working, Work, Names
    <3>2. CASE b = a
      <4>1. CASE Drop(a)
        <5>1. LiveRows(On(a))' \in SUBSET LiveRows(On(a)) /\ RetireActive(On(a)) /\ OneLive(On(a))
          BY <2>2, <3>1, <3>2, <4>1 DEF Drop, Insert, OneInv
        <5>2. \A n : n = On(a) => LiveRows(n)' = {}
          BY <1>0, <5>1, RetireLeavesNone
        <5> QED BY <3>1, <3>2, <5>2
      <4>2. CASE rows' = rows /\ (pc[a] \in {"place", "placing"} \/ ~ IsActive(On(a)))
        BY <2>7, <3>1, <3>2, <4>2 DEF OneInv, IsActive, LiveRows, RowName
      <4> QED BY <1>2, <2>7, <3>2, <4>1, <4>2 DEF Proceeds
    <3>3. CASE b # a
      <4>1. pc'[b] = pc[b] /\ LiveRows(On(b)) = {}
        BY <1>2, <2>7, <3>1, <3>3 DEF Proceeds, OneInv
      <4>2. On(a) # On(b)
        BY <1>2, <3>1, <3>3 DEF Proceeds, OneInv
      <4>3. \A n : n = On(b) => LiveRows(n)' = {}
        BY <2>2, <4>1, <4>2
      <4> QED BY <3>1, <4>3
    <3> QED BY <3>2, <3>3
  <2> QED BY <2>1, <2>5, <2>6, <2>7 DEF OneInv
<1>3. CASE Rests
  <2>1. \A a \in Actors : Busy(a)' \/ pc'[a] \in {"insert", "place", "placing"}
          => Busy(a) /\ pc'[a] = pc[a] /\ doc'[a] = doc[a]
    BY <1>3 DEF Rests, Busy
  <2>2. clash' = clash
    BY <1>3 DEF Rests
  <2>3. \A a, b \in Actors : Busy(a)' /\ Busy(b)' /\ a # b /\ On(a)' = On(b)' => On(a)' \in clash'
    BY <2>1, <2>2 DEF OneInv, On
  <2>4. CASE rows' = rows /\ (at' = NoFile \/ (at' = at /\ active' = active))
    <3>1. \A n : LiveRows(n)' = LiveRows(n)
      BY <2>4 DEF LiveRows, RowName
    <3> QED BY <2>1, <2>2, <2>3, <2>4, <3>1 DEF OneInv, OneLive, On
  <2>5. ASSUME NEW f \in Files, SeedRetire(f) \/ SeedPut(f) \/ SeedInsert(f) PROVE OneInv'
    <3> DEFINE n == NameOf[active[f]]
    <3>1. active[f] \in Docs /\ n \in Names /\ active' = active /\ f # NoFile
      BY <2>5, LifecycleAssumption
         DEF SeedRetire, SeedPut, Recorded, SeedInsert, fileVars, LifeInv, TypeOK, Seeding, Present, Names
    <3>2. \A a \in Actors : ~ Busy(a)' /\ pc'[a] = "idle"
      BY <2>5 DEF SeedRetire, SeedPut, Recorded, SeedInsert, opVars, LifeInv, Working, Work, Seeding, Busy
    <3>3. CASE SeedRetire(f)
      <4>1. \A m : LiveRows(m)' \subseteq LiveRows(m)
        BY <1>0, <3>3, RetireKeepsRows, LenProperties DEF SeedRetire, LiveRows, RowName, HistoryTypeOK
      <4>2. n \notin clash => LiveRows(n)' = {}
        BY <1>0, <3>1, <3>3, RetireLeavesNone DEF SeedRetire, OneInv
      <4>3. at' = f
        BY <3>3 DEF SeedRetire
      <4>4. NameOf[active'[at']] \notin clash' => LiveRows(NameOf[active[at]])' = {}
        BY <2>2, <3>1, <4>2, <4>3
      <4> QED BY <2>2, <3>2, <4>1, <4>4 DEF OneInv, OneLive
    <3>4. CASE SeedInsert(f)
      <4>1. \A m : \/ LiveRows(m)' \subseteq LiveRows(m)
                   \/ m = n /\ LiveRows(m)' \subseteq LiveRows(m) \cup {Len(rows) + 1}
        <5>0. at = f /\ \A g \in Files : SeedInsert(g) => g = at
          BY <3>4 DEF SeedInsert
        <5>1. \A g \in Files : SeedInsert(g) => NameOf[active[g]] = n
          BY <5>0
        <5>2. ~ \E a \in Actors : Insert(a)
          BY <3>2, <3>4 DEF SeedInsert, Insert, opVars
        <5> QED BY <5>1, <5>2, LiveStep
      <4>2. n \notin clash => LiveRows(n) = {}
        BY <3>1, <3>4 DEF SeedInsert, OneInv
      <4>3. at' = NoFile
        BY <3>4 DEF SeedInsert
      <4>4. \A m \in Names \ clash' : OneLive(m)'
        BY <2>2, <4>1, <4>2 DEF OneInv, OneLive
      <4> QED BY <3>2, <4>3, <4>4 DEF OneInv
    <3>5. CASE SeedPut(f)
      <4>1. rows' = rows /\ at' = f /\ (n \notin clash => LiveRows(n) = {})
        BY <3>1, <3>5 DEF SeedPut, Recorded, OneInv, IsActive
      <4>2. \A m : LiveRows(m)' = LiveRows(m)
        BY <4>1 DEF LiveRows, RowName
      <4>3. NameOf[active'[at']] \notin clash' => LiveRows(NameOf[active[at]])' = {}
        BY <2>2, <3>1, <4>1, <4>2
      <4> QED BY <2>2, <3>2, <4>2, <4>3 DEF OneInv, OneLive
    <3> QED BY <2>5, <3>3, <3>4, <3>5
  <2> QED BY <1>3, <2>4, <2>5 DEF Rests
<1> QED BY <1>1, <1>2, <1>3, ActorSteps

\* A skill on which operations have never overlapped has at most one active row,
\* whatever fails, crashes or is edited by hand.
THEOREM OneVersionActive == Spec => []OneActiveVersion
<1>1. Init => OneInv
  BY DEF Init, OneInv, OneLive, LiveRows, Busy
<1>2. OneInv => OneActiveVersion
  <2> SUFFICES ASSUME OneInv, NEW n \in Names \ clash PROVE Cardinality(LiveRows(n)) <= 1
    BY DEF OneActiveVersion
  <2>1. CASE LiveRows(n) = {}
    BY <2>1, FS_EmptySet
  <2>2. ASSUME NEW i \in LiveRows(n) PROVE Cardinality(LiveRows(n)) <= 1
    <3>1. LiveRows(n) = {i}
      BY <2>2 DEF OneInv, OneLive
    <3> QED BY <3>1, FS_Singleton
  <2> QED BY <2>1, <2>2
<1> QED BY <1>1, <1>2, NextOne, LifeInvariant, PTL DEF Spec

-----------------------------------------------------------------------------
(* The AutoPromoter *)

\* A version that has just been promoted is active where operations have not
\* overlapped, and so its promoter is not ended.
ConfirmInv ==
    /\ \A a \in Actors, n \in Names \ clash : pc[a] = "confirm" /\ On(a) = n => IsActive(n)
    /\ PromoterSurvives

\* What retire_active does to the active versions.
LEMMA RetireTable ==
    ASSUME HistoryTypeOK, NEW m, RetireActive(m), NEW n, n # m
    PROVE  LiveRows(n)' = LiveRows(n) /\ ActiveDoc(n)' = ActiveDoc(n)
<1>1. CASE ~ IsActive(m)
  BY <1>1 DEF RetireActive, LiveRows, RowName, ActiveDoc, ActiveRow, IsActive
<1>2. CASE IsActive(m)
  <2>1. ActiveRow(m) \in LiveRows(m)
    BY <1>2, ActiveRowFound
  <2>2. PICK k : k = ActiveRow(m)
    OBVIOUS
  <2>3. rows' = [rows EXCEPT ![k].live = FALSE] /\ k \in DOMAIN rows /\ RowName(k) = m
    BY <1>2, <2>1, <2>2 DEF RetireActive, LiveRows
  <2>4. DOMAIN rows' = DOMAIN rows /\ \A i \in DOMAIN rows : i # k => rows'[i] = rows[i]
    BY <2>3
  <2>5. rows'[k].doc = rows[k].doc /\ rows' \in Seq(Row)
    BY <2>3, RetireKeepsRows, LenProperties DEF HistoryTypeOK
  <2>6. LiveRows(n)' = LiveRows(n)
    BY <2>3, <2>4, <2>5 DEF LiveRows, RowName
  <2>7. \A i \in LiveRows(n) : rows'[i] = rows[i]
    BY <2>3, <2>4 DEF LiveRows
  <2>8. (IsActive(n)' <=> IsActive(n)) /\ ActiveRow(n)' = ActiveRow(n)
    BY <2>6 DEF IsActive, ActiveRow
  <2>9. IsActive(n) => ActiveRow(n) \in LiveRows(n)
    BY ActiveRowFound
  <2> QED BY <2>6, <2>7, <2>8, <2>9 DEF ActiveDoc
<1> QED BY <1>1, <1>2

\* What promote does to them: the new row is the newest of its name.
LEMMA PromoteTable ==
    ASSUME HistoryTypeOK, NEW d \in Docs, NEW p \in Docs \cup {NoDoc}, Promote(d, p), NEW n
    PROVE  /\ n = NameOf[d] => IsActive(n)' /\ ActiveDoc(n)' = d
           /\ n # NameOf[d] => LiveRows(n)' = LiveRows(n) /\ ActiveDoc(n)' = ActiveDoc(n)
<1> DEFINE k == Len(rows) + 1
<1>0. /\ rows' \in Seq(Row) /\ Len(rows') = k /\ Len(rows) \in Nat
      /\ \A i \in 1 .. Len(rows) : rows'[i] = rows[i]
      /\ rows'[k] = [doc |-> d, parent |-> p, live |-> TRUE]
  BY PromoteAppends
<1>t. DOMAIN rows = 1 .. Len(rows) /\ DOMAIN rows' = 1 .. k
  BY <1>0, LenProperties DEF HistoryTypeOK
<1>1. /\ Len(rows) \in Nat /\ DOMAIN rows = 1 .. Len(rows) /\ DOMAIN rows' = 1 .. k
      /\ \A i \in 1 .. Len(rows) : rows'[i] = rows[i]
      /\ rows'[k].doc = d /\ rows'[k].live
  BY <1>0, <1>t
<1>2. CASE n = NameOf[d]
  <2>1. k \in LiveRows(n)' /\ \A j \in LiveRows(n)' : j <= k
    BY <1>1, <1>2 DEF LiveRows, RowName
  <2>2. IsActive(n)' /\ LiveRows(n)' \in SUBSET Nat
    BY <1>1, <2>1 DEF IsActive, LiveRows
  <2>3. \A i \in LiveRows(n)' : (\A j \in LiveRows(n)' : j <= i) => i = k
    BY <1>1, <2>1, <2>2
  <2>4. ActiveRow(n)' = k
    BY <2>1, <2>3 DEF ActiveRow
  <2> QED BY <1>1, <1>2, <2>2, <2>4 DEF ActiveDoc
<1>3. CASE n # NameOf[d]
  <2>1. LiveRows(n)' = LiveRows(n)
    BY <1>1, <1>3 DEF LiveRows, RowName
  <2>2. \A i \in LiveRows(n) : rows'[i] = rows[i]
    BY <1>1 DEF LiveRows
  <2>3. (IsActive(n)' <=> IsActive(n)) /\ ActiveRow(n)' = ActiveRow(n)
    BY <2>1 DEF IsActive, ActiveRow
  <2>4. IsActive(n) => ActiveRow(n) \in LiveRows(n)
    BY ActiveRowFound
  <2> QED BY <1>3, <2>1, <2>2, <2>3, <2>4 DEF ActiveDoc
<1> QED BY <1>2, <1>3

\* What is not a row's change leaves them alone.
LEMMA SameTable ==
    ASSUME rows' = rows, NEW n
    PROVE  /\ LiveRows(n)' = LiveRows(n) /\ (IsActive(n)' <=> IsActive(n))
           /\ ActiveDoc(n)' = ActiveDoc(n)
BY DEF LiveRows, RowName, IsActive, ActiveRow, ActiveDoc

\* An active version has a document of its name.
LEMMA ActiveOrNone ==
    ASSUME HistoryTypeOK, NEW n
    PROVE  /\ IsActive(n) => ActiveDoc(n) \in Docs /\ NameOf[ActiveDoc(n)] = n
           /\ ~ IsActive(n) => ActiveDoc(n) = NoDoc
BY ActiveRowFound DEF ActiveDoc, LiveRows, RowName

LEMMA NextConfirm == LifeInv /\ OneInv /\ ConfirmInv /\ [Next]_vars => ConfirmInv'
<1> SUFFICES ASSUME LifeInv, OneInv, ConfirmInv, [Next]_vars PROVE ConfirmInv'
  OBVIOUS
<1>0. HistoryTypeOK /\ pc \in [Actors -> PCs] /\ doc \in [Actors -> Docs \cup {NoDoc}]
      /\ parent \in [Actors -> Docs \cup {NoDoc}]
  BY DEF LifeInv, TypeOK
<1>1. ASSUME NEW a \in Actors, Begins(a) PROVE ConfirmInv'
  <2>1. PICK what, d, p, first :
          /\ Start(a, what, d, p, first) /\ first \notin {"confirm", "dead"} /\ rows' = rows
    BY <1>1 DEF Begins
  <2>2. /\ clash \subseteq clash' /\ pc'[a] = first
        /\ \A b \in Actors \ {a} : pc'[b] = pc[b] /\ doc'[b] = doc[b]
    BY <1>0, <2>1 DEF Start
  <2>3. ASSUME NEW b \in Actors, NEW n \in Names \ clash', pc'[b] = "confirm", On(b)' = n
        PROVE  IsActive(n)'
    <3>1. b # a /\ On(b) = n /\ pc[b] = "confirm" /\ n \notin clash
      BY <2>1, <2>2, <2>3 DEF On
    <3> QED BY <2>1, <3>1, SameTable DEF ConfirmInv
  <2>4. pc'[Promoter] = "dead" => pc[Promoter] = "dead"
    BY <2>1, <2>2 DEF Actors
  <2> QED BY <2>2, <2>3, <2>4 DEF ConfirmInv, PromoterSurvives
<1>2. ASSUME NEW a \in Actors, Proceeds(a) PROVE ConfirmInv'
  <2>1. ASSUME NEW b \in Actors, NEW n \in Names \ clash', pc'[b] = "confirm", On(b)' = n
        PROVE  IsActive(n)'
    <3>1. CASE b = a
      <4>1. Insert(a) /\ doc'[a] = doc[a]
        BY <1>2, <2>1, <3>1 DEF Proceeds, Busy
      <4>2. Promote(doc[a], parent[a]) /\ doc[a] \in Docs
        BY <4>1 DEF Insert, LifeInv, Working, Work, Busy
      <4>3. n = NameOf[doc[a]]
        BY <2>1, <3>1, <4>1 DEF On
      <4> QED BY <1>0, <4>2, <4>3, PromoteTable
    <3>2. CASE b # a
      <4>1. pc[b] = "confirm" /\ On(b) = n /\ n \notin clash /\ Busy(a) /\ Busy(b)
        BY <1>2, <2>1, <3>2 DEF Proceeds, On, Busy
      <4>2. On(a) # n /\ IsActive(n)
        BY <3>2, <4>1 DEF OneInv, ConfirmInv
      <4>4. CASE rows' = rows
        BY <4>2, <4>4, SameTable
      <4>5. CASE Drop(a)
        <5>1. LiveRows(n)' = LiveRows(n)
          BY <1>0, <4>2, <4>5, RetireTable DEF Drop
        <5> QED BY <4>2, <5>1 DEF IsActive
      <4>6. CASE Insert(a)
        <5>1. Promote(doc[a], parent[a]) /\ doc[a] \in Docs
          BY <4>6 DEF Insert, LifeInv, Working, Work, Busy
        <5>2. LiveRows(n)' = LiveRows(n)
          BY <1>0, <4>2, <5>1, PromoteTable DEF On
        <5> QED BY <4>2, <5>2 DEF IsActive
      <4> QED BY <1>2, <4>4, <4>5, <4>6 DEF Proceeds
    <3> QED BY <3>1, <3>2
  <2>2. ASSUME pc'[Promoter] = "dead" PROVE clash' # {}
    <3>1. CASE Promoter # a
      BY <1>2, <2>2, <3>1 DEF Proceeds, ConfirmInv, PromoterSurvives, Actors
    <3>2. CASE Promoter = a
      <4>1. Confirm(a) /\ clash' = clash
        BY <1>2, <2>2, <3>2 DEF Proceeds
      <4>2. pc[a] = "confirm" /\ ~ IsActive(On(a))
        BY <1>0, <2>2, <3>2, <4>1 DEF Confirm, Finished, GoTo
      <4>3. On(a) \in Names
        BY <4>2 DEF LifeInv, Working, Work, Busy, On, Names
      <4> QED BY <4>1, <4>2, <4>3 DEF ConfirmInv
    <3> QED BY <3>1, <3>2
  <2> QED BY <2>1, <2>2 DEF ConfirmInv, PromoterSurvives
<1>3. CASE Rests
  <2>1. ASSUME NEW b \in Actors, NEW n \in Names \ clash', pc'[b] = "confirm", On(b)' = n
        PROVE  IsActive(n)'
    <3>1. pc[b] = "confirm" /\ On(b) = n /\ n \notin clash
      BY <1>3, <2>1 DEF Rests, Busy, On
    <3>2. rows' = rows
      BY <1>3, <3>1, LifecycleAssumption
         DEF Rests, SeedRetire, SeedPut, SeedInsert, LifeInv, Working, Work, Seeding, tableVars
    <3> QED BY <3>1, <3>2, SameTable DEF ConfirmInv
  <2>2. pc'[Promoter] = "dead" => pc[Promoter] = "dead" /\ clash' = clash
    BY <1>3 DEF Rests, Actors
  <2> QED BY <2>1, <2>2 DEF ConfirmInv, PromoterSurvives
<1> QED BY <1>1, <1>2, <1>3, ActorSteps

\* PromoterSurvives: the panic of a promotion that finds its version not active
\* ends the AutoPromoter only after two operations have overlapped on a skill.
THEOREM PromoterLives == Spec => []PromoterSurvives
<1>1. Init => OneInv /\ ConfirmInv
  BY DEF Init, OneInv, OneLive, LiveRows, Busy, ConfirmInv, PromoterSurvives, Actors
<1>2. ConfirmInv => PromoterSurvives
  BY DEF ConfirmInv
<1> QED BY <1>1, <1>2, NextOne, NextConfirm, LifeInvariant, PTL DEF Spec

-----------------------------------------------------------------------------
(* Files and history *)

\* Names of files and documents.
LEMMA Apart ==
    /\ NoFile \notin Files
    /\ \A d \in Docs : d \in Files /\ NameOf[d] \in Names
    /\ \A n \in Names : FileOf[n] \in Files /\ FileOf[n] \notin Docs
BY LifecycleAssumption DEF Files, Names

\* A file that is named after a document, the file of a document in the store and
\* what an operation has read hold nothing of another skill.
NamesInv ==
    /\ \A f \in Docs : active[f] \in Docs => NameOf[active[f]] = NameOf[f]
    /\ \A d \in Docs : store[d] \in Docs => NameOf[store[d]] = NameOf[d]
    /\ \A a \in Actors : bytes[a] \in Docs => Busy(a) /\ NameOf[bytes[a]] = On(a)

LEMMA NextNames == LifeInv /\ NamesInv /\ [Next]_vars => NamesInv'
<1> SUFFICES ASSUME LifeInv, NamesInv, [Next]_vars PROVE NamesInv'
  OBVIOUS
<1>0. /\ active \in [Files -> Docs \cup {NoDoc, Junk}] /\ store \in [Docs -> Docs \cup {NoDoc, Junk}]
      /\ bytes \in [Actors -> Docs \cup {NoDoc, Junk}] /\ doc \in [Actors -> Docs \cup {NoDoc}]
      /\ pc \in [Actors -> PCs]
      /\ \A a \in Actors : Busy(a) => doc[a] \in Docs /\ On(a) \in Names
  BY DEF LifeInv, TypeOK, HistoryTypeOK, Working, Work, On, Names
\* Of the files, of the store, of what operations have read: each by itself.
<1> DEFINE Fine(f, c) == c \in Docs => NameOf[c] = NameOf[f]
<1>f. ASSUME \A f \in Docs : active'[f] \in {active[f], NoDoc, Junk} \/ Fine(f, active'[f])
      PROVE  \A f \in Docs : Fine(f, active'[f])
  BY <1>f DEF NamesInv
<1>s. ASSUME \A d \in Docs : store'[d] = store[d] \/ Fine(d, store'[d])
      PROVE  \A d \in Docs : Fine(d, store'[d])
  BY <1>s DEF NamesInv
<1>b. ASSUME NEW a \in Actors,
             \A b \in Actors \ {a} : pc'[b] = pc[b] /\ doc'[b] = doc[b] /\ bytes'[b] = bytes[b],
             bytes'[a] \in Docs => Busy(a)' /\ NameOf[bytes'[a]] = On(a)'
      PROVE  \A b \in Actors : bytes'[b] \in Docs => Busy(b)' /\ NameOf[bytes'[b]] = On(b)'
  BY <1>b DEF NamesInv, Busy, On
<1> DEFINE Same(a) == \A b \in Actors \ {a} : pc'[b] = pc[b] /\ doc'[b] = doc[b] /\ bytes'[b] = bytes[b]
           Good(a) == bytes'[a] \in Docs => Busy(a)' /\ NameOf[bytes'[a]] = On(a)'
<1>1. ASSUME NEW a \in Actors, NEW there \in {"idle", "dead"}, Finished(a, there) PROVE Same(a) /\ Good(a)
  BY <1>0, <1>1 DEF Finished, GoTo
<1>2. ASSUME NEW a \in Actors, Busy(a), NEW there \in PCs \ {"idle", "dead"}, GoTo(a, there), doc' = doc,
             NEW c, bytes' = [bytes EXCEPT ![a] = c], c \in Docs => NameOf[c] = On(a)
      PROVE  Same(a) /\ Good(a)
  BY <1>0, <1>2 DEF GoTo, Busy, On
<1>3. ASSUME NEW a \in Actors, Busy(a), NEW there \in PCs \ {"idle", "dead"}, GoTo(a, there),
             UNCHANGED <<doc, bytes>>
      PROVE  Same(a) /\ Good(a)
  BY <1>0, <1>3 DEF GoTo, Busy, On, NamesInv
<1>4. ASSUME NEW a \in Actors, Begins(a) PROVE NamesInv'
  <2>1. PICK what, d, p, first :
          /\ Start(a, what, d, p, first) /\ first \in PCs \ {"idle", "dead"} /\ d \in Docs
          /\ UNCHANGED <<store, active>>
          /\ bytes' = bytes \/ (store[d] \in Docs /\ bytes' = [bytes EXCEPT ![a] = store[d]])
    BY <1>4 DEF Begins, PCs
  <2>2. pc[a] = "idle" /\ pc' = [pc EXCEPT ![a] = first] /\ doc' = [doc EXCEPT ![a] = d]
    BY <2>1 DEF Start
  <2>3. bytes[a] \notin Docs
    BY <2>2 DEF NamesInv, Busy
  <2>4. Same(a) /\ Good(a)
    BY <1>0, <2>1, <2>2, <2>3 DEF NamesInv, Busy, On
  <2> QED BY <1>b, <2>1, <2>4 DEF NamesInv
<1>5. ASSUME NEW a \in Actors, Approve(a) PROVE NamesInv'
  <2>0. Busy(a) /\ doc[a] \in Docs /\ doc[a] \in Files /\ store' = store
    BY <1>0, <1>5, Apart DEF Approve, Busy, tableVars
  <2>1. CASE doc[a] \in proposed
    <3>1. PICK t \in Torn(doc[a]) : active' = [active EXCEPT ![doc[a]] = t]
      BY <1>5, <2>1 DEF Approve
    <3>2. \A f \in Docs : Fine(f, active'[f])
      BY <1>0, <1>f, <2>0, <3>1, TornType, Apart
    <3>3. Same(a) /\ Good(a)
      BY <1>3, <1>5, <2>0, <2>1 DEF Approve, PCs
    <3> QED BY <1>b, <2>0, <3>2, <3>3 DEF NamesInv
  <2>2. CASE doc[a] \notin proposed
    <3>1. Finished(a, "idle") /\ active' = active
      BY <1>5, <2>2 DEF Approve
    <3> QED BY <1>1, <1>b, <2>0, <3>1 DEF NamesInv
  <2> QED BY <2>1, <2>2
<1>6. ASSUME NEW a \in Actors, Write(a) PROVE NamesInv'
  <2>1. Busy(a) /\ doc[a] \in Docs /\ store' = store
    BY <1>0, <1>6 DEF Write, Busy, tableVars
  <2>2. \A f \in Docs : active'[f] = active[f] \/ (f = doc[a] /\ active'[f] = f)
    BY <1>0, <1>6, <2>1, Apart DEF Write, WriteFile
  <2>3. Same(a) /\ Good(a)
    BY <1>3, <1>6, <2>1 DEF Write, PCs
  <2> QED BY <1>b, <1>f, <2>1, <2>2, <2>3 DEF NamesInv
<1>7. ASSUME NEW a \in Actors, Unlink(a) \/ StoreNothing(a) \/ Parent(a) \/ Insert(a) \/ Confirm(a) \/ Fail(a) PROVE NamesInv'
  <2>1. Busy(a) /\ UNCHANGED <<store, active>>
    BY <1>7 DEF Unlink, StoreNothing, Parent, Insert, Confirm, Fail, Busy, fileVars, tableVars
  <2>2. \/ Finished(a, "idle") \/ Finished(a, "dead")
        \/ UNCHANGED <<doc, bytes>> /\ \E there \in PCs \ {"idle", "dead"} : GoTo(a, there)
    BY <1>7 DEF Unlink, StoreNothing, Parent, Insert, Confirm, Fail, PCs
  <2>3. Same(a) /\ Good(a)
    BY <1>1, <1>3, <2>1, <2>2
  <2> QED BY <1>b, <2>1, <2>3 DEF NamesInv
<1>8. ASSUME NEW a \in Actors, Drop(a) PROVE NamesInv'
  <2>1. Busy(a) /\ UNCHANGED <<store, active>>
    BY <1>8 DEF Drop, Busy, fileVars
  <2>2. op[a] \in {"promote", "rollback", "retire"}
    BY <1>8 DEF Drop, LifeInv, Working, Work
  <2>3. \/ Finished(a, "idle")
        \/ UNCHANGED <<doc, bytes>> /\ \E there \in PCs \ {"idle", "dead"} : GoTo(a, there)
    BY <1>8, <2>2 DEF Drop, PCs
  <2>4. Same(a) /\ Good(a)
    BY <1>1, <1>3, <2>1, <2>3
  <2> QED BY <1>b, <2>1, <2>4 DEF NamesInv
<1>9. ASSUME NEW a \in Actors, Store(a) PROVE NamesInv'
  <2>1. Busy(a) /\ doc[a] \in Docs /\ active' = active /\ Fine(doc[a], active[doc[a]])
    BY <1>0, <1>9 DEF Store, Busy, fileVars, NamesInv
  <2>2. CASE Stored(doc[a])
    <3>1. Same(a) /\ Good(a) /\ store' = store
      BY <1>3, <1>9, <2>1, <2>2 DEF Store, PCs
    <3> QED BY <1>b, <2>1, <3>1 DEF NamesInv
  <2>3. CASE ~ Stored(doc[a])
    <3>1. PICK t \in Torn(active[doc[a]]) : store' = [store EXCEPT ![doc[a]] = t]
      BY <1>9, <2>3 DEF Store, Create
    <3>2. \A d \in Docs : Fine(d, store'[d])
      BY <1>0, <1>s, <2>1, <3>1, TornType
    <3>3. bytes' = [bytes EXCEPT ![a] = active[doc[a]]] /\ GoTo(a, "storing") /\ doc' = doc
      BY <1>9, <2>3 DEF Store
    <3>4. active[doc[a]] \in Docs => NameOf[active[doc[a]]] = On(a)
      BY <2>1 DEF On
    <3>5. Same(a) /\ Good(a)
      BY <1>2, <2>1, <3>3, <3>4 DEF PCs
    <3> QED BY <1>b, <2>1, <3>2, <3>5 DEF NamesInv
  <2> QED BY <2>2, <2>3
<1>10. ASSUME NEW a \in Actors, StoreAll(a) PROVE NamesInv'
  <2>1. Busy(a) /\ doc[a] \in Docs /\ active' = active /\ Fine(doc[a], bytes[a])
    BY <1>0, <1>10 DEF StoreAll, Busy, fileVars, NamesInv, On
  <2>2. \A d \in Docs : Fine(d, store'[d])
    BY <1>0, <1>10, <1>s, <2>1 DEF StoreAll, Fill
  <2>3. bytes' = [bytes EXCEPT ![a] = NoDoc] /\ GoTo(a, "parent") /\ doc' = doc
    BY <1>10 DEF StoreAll
  <2>4. Same(a) /\ Good(a)
    BY <1>2, <2>1, <2>3 DEF PCs
  <2> QED BY <1>b, <2>1, <2>2, <2>4 DEF NamesInv
<1>w. ASSUME NEW n, NEW f \in Docs PROVE f \in Files /\ Without(n)[f] \in {active[f], NoDoc}
  BY Apart DEF Without
<1>11. ASSUME NEW a \in Actors, Place(a) PROVE NamesInv'
  <2>1. Busy(a) /\ store' = store /\ On(a) \in Names
    BY <1>0, <1>11 DEF Place, Busy, tableVars
  <2>2. PICK t \in Torn(bytes[a]) : active' = [Without(On(a)) EXCEPT ![FileOf[On(a)]] = t]
    BY <1>11 DEF Place
  <2>3. \A f \in Docs : active'[f] = Without(On(a))[f]
    BY <2>1, <2>2, Apart DEF Without
  <2>4. Same(a) /\ Good(a)
    BY <1>3, <1>11, <2>1 DEF Place, PCs
  <2> QED BY <1>b, <1>f, <1>w, <2>1, <2>3, <2>4 DEF NamesInv
<1>12. ASSUME NEW a \in Actors, PlaceAll(a) PROVE NamesInv'
  <2>1. Busy(a) /\ store' = store /\ On(a) \in Names
    BY <1>0, <1>12 DEF PlaceAll, Busy, tableVars
  <2>2. \A f \in Docs : active'[f] = active[f]
    BY <1>0, <1>12, <2>1, Apart DEF PlaceAll, WriteFile
  <2>3. bytes' = [bytes EXCEPT ![a] = NoDoc] /\ GoTo(a, "insert") /\ doc' = doc
    BY <1>12 DEF PlaceAll
  <2>4. Same(a) /\ Good(a)
    BY <1>2, <2>1, <2>3 DEF PCs
  <2> QED BY <1>b, <2>1, <2>2, <2>4 DEF NamesInv
<1>13. ASSUME NEW a \in Actors, Move(a) PROVE NamesInv'
  <2>1. Busy(a) /\ store' = store /\ active' = Without(On(a))
    BY <1>13 DEF Move, Busy, tableVars
  <2>2. Same(a) /\ Good(a)
    BY <1>3, <1>13, <2>1 DEF Move, PCs
  <2> QED BY <1>b, <1>f, <1>w, <2>1, <2>2 DEF NamesInv
<1>14. ASSUME NEW a \in Actors, NEW gone, FailMoving(a, gone) PROVE NamesInv'
  <2>1. Finished(a, "idle") /\ store' = store /\ \A f \in Docs : active'[f] \in {active[f], NoDoc}
    BY <1>14, Apart DEF FailMoving, tableVars
  <2> QED BY <1>1, <1>b, <1>f, <2>1 DEF NamesInv
<1>15. ASSUME NEW d \in Docs, NEW f \in Files, Edit(d, f) PROVE NamesInv'
  <2>1. active' = [active EXCEPT ![f] = d] /\ (f \in Docs => NameOf[f] = NameOf[d])
        /\ UNCHANGED <<store, pc, doc, bytes>>
    BY <1>15 DEF Edit, tableVars, opVars
  <2>2. \A g \in Docs : active'[g] = active[g] \/ Fine(g, active'[g])
    BY <1>0, <2>1, Apart
  <2> QED BY <1>f, <2>1, <2>2 DEF NamesInv, Busy, On
<1>16. ASSUME NEW f \in Files, SeedPut(f) \/ SeedPutAll(f) PROVE NamesInv'
  <2>1. active[f] \in Docs /\ UNCHANGED <<active, pc, doc, bytes>>
    BY <1>16, Apart DEF SeedPut, SeedPutAll, Recorded, LifeInv, Seeding, Present, fileVars, opVars
  <2>2. \A d \in Docs : store'[d] = store[d] \/ Fine(d, store'[d])
    <3>1. CASE store' = store
      BY <3>1
    <3>2. CASE Create(active[f], active[f])
      BY <1>0, <2>1, <3>2, TornType DEF Create
    <3>3. CASE Fill(active[f], active[f])
      BY <1>0, <2>1, <3>3 DEF Fill
    <3> QED BY <1>16, <3>1, <3>2, <3>3 DEF SeedPut, SeedPutAll
  <2> QED BY <1>s, <2>1, <2>2 DEF NamesInv, Busy, On
<1>17. CASE Restart
  BY <1>17 DEF Restart, NamesInv, fileVars, tableVars
<1>18. CASE \/ \E d \in Docs : Propose(d) \/ Reject(d)
            \/ Scan \/ Load \/ SeedFails \/ Up \/ UNCHANGED vars
            \/ \E f \in Files : SeedKnown(f) \/ SeedRetire(f) \/ SeedInsert(f)
  <2>1. UNCHANGED <<active, store, pc, doc, bytes>>
    BY <1>18 DEF Propose, Reject, Scan, Load, SeedFails, Up, SeedKnown, SeedRetire, SeedInsert,
                 vars, fileVars, opVars, tableVars
  <2> QED BY <2>1 DEF NamesInv, Busy, On
<1>19. ASSUME \/ \E d \in Docs : Sweep(d)
              \/ \E a \in Users, d \in Docs : ApproveByHand(a, d) \/ Rollback(a, d)
              \/ \E a \in Users, n \in Names : Retire(a, n)
              \/ \E n \in Names : Archive(n)
      PROVE  \E a \in Actors : Begins(a)
  BY <1>19, OperationsBegin
<1> QED BY <1>4, <1>5, <1>6, <1>7, <1>8, <1>9, <1>10, <1>11, <1>12, <1>13, <1>14, <1>15, <1>16, <1>17,
           <1>18, <1>19 DEF Next

\* The documents of a skill that files of active/ hold.
Kept(n) == {d \in Docs : NameOf[d] = n /\ \E f \in Files : active[f] = d}

\* There is no file and no active row, or the row's document is in a file.
Agree(n) == (Kept(n) = {} /\ ActiveDoc(n) = NoDoc) \/ ActiveDoc(n) \in Kept(n)

\* A file a skill's operation is writing: nothing of another skill is in it.
OwnFile(f, n) == active[f] # NoDoc /\ (active[f] \in Docs => NameOf[active[f]] = n)

\* What an operation on a skill n has done to its files: nothing yet, or all that
\* makes them agree with the row it is about to insert or to retire.
AtStep(a, n) ==
    /\ pc[a] \in {"approve", "confirm"} => Agree(n)
    /\ Opened(a) # NoFile => OwnFile(Opened(a), n)
    /\ op[a] = "promote" /\ pc[a] \in {"unlink", "store", "storing", "parent", "drop", "insert"}
         => active[doc[a]] = doc[a]
    /\ pc[a] = "storing" \/ (op[a] = "rollback" /\ pc[a] \in {"drop", "place", "placing"}) => bytes[a] = doc[a]
    /\ op[a] = "rollback" /\ pc[a] = "insert" => active[FileOf[n]] = doc[a]
    /\ op[a] = "retire" /\ pc[a] = "drop" => Kept(n) = {}

\* Before boot is over, files may have no row yet, but an active row has a file;
\* seeding leaves no skill that has files without an active row.
MatchInv ==
    \A n \in Names \ (clash \cup broken) :
        /\ phase # "up" => ActiveDoc(n) = NoDoc \/ ActiveDoc(n) \in Kept(n)
        /\ phase = "seed" /\ Kept(n) # {} =>
             ActiveDoc(n) # NoDoc \/ \E f \in todo : NameOf[active[f]] = n
        /\ Quiet(n) => Agree(n)
        /\ \A a \in Actors : Busy(a) /\ On(a) = n => AtStep(a, n)

\* A file in the store holds its document, or is being written and no row has the
\* document yet.
Unfilled(d) ==
    \/ \E a \in Actors : pc[a] = "storing" /\ doc[a] = d
    \/ stage = "fill" /\ active[at] = d

WholeStore ==
    \A d \in Docs : NameOf[d] \notin clash \cup broken =>
        \/ store[d] \in {NoDoc, d}
        \/ Unfilled(d) /\ \A i \in DOMAIN rows : rows[i].doc # d

\* A step that touches the files and rows of one skill only; skills that lose a
\* file to it are broken.
FilesElse(m) ==
    \A n \in Names \ {m} : n \notin broken' =>
        /\ \A f \in Files, d \in Docs : NameOf[d] = n => (active'[f] = d <=> active[f] = d)
        /\ \A b \in Actors : Opened(b) # NoFile /\ On(b) = n /\ OwnFile(Opened(b), n)
             => active'[Opened(b)] = active[Opened(b)]
RowsElse(m) == \A n : n # m => ActiveDoc(n)' = ActiveDoc(n)

\* Files and rows of the other skills are as they were.
LEMMA ElseKept ==
    ASSUME NEW m, FilesElse(m), RowsElse(m), NEW n \in Names, n # m, n \notin broken'
    PROVE  Kept(n)' = Kept(n) /\ ActiveDoc(n)' = ActiveDoc(n) /\ (Agree(n)' <=> Agree(n))
<1>1. Kept(n)' = Kept(n)
  BY DEF Kept, FilesElse
<1>2. ActiveDoc(n)' = ActiveDoc(n)
  BY DEF RowsElse
<1> QED BY <1>1, <1>2 DEF Agree

\* And their operations find them so.
LEMMA ElseAtStep ==
    ASSUME LifeInv, MatchInv, NEW m, FilesElse(m), RowsElse(m), NEW n \in Names, n # m,
           n \notin clash, n \notin broken, n \notin broken', NEW b \in Actors, Busy(b), On(b) = n,
           pc'[b] = pc[b], op'[b] = op[b], doc'[b] = doc[b], bytes'[b] = bytes[b]
    PROVE  AtStep(b, n)'
<1>1. AtStep(b, n) /\ doc[b] \in Docs /\ NameOf[doc[b]] = n
  BY DEF MatchInv, LifeInv, Working, Work, On
<1>2. Kept(n)' = Kept(n) /\ (Agree(n)' <=> Agree(n))
  BY ElseKept
<1>3. \A f \in Files : active[f] = doc[b] => active'[f] = doc[b]
  BY <1>1 DEF FilesElse
<1>4. doc[b] \in Files /\ FileOf[n] \in Files
  BY <1>1, Apart
<1>5. Opened(b)' = Opened(b)
  BY DEF Opened, On
<1>6. Opened(b) # NoFile => OwnFile(Opened(b), n)'
  <2>1. Opened(b) # NoFile => active'[Opened(b)] = active[Opened(b)]
    BY <1>1 DEF FilesElse, AtStep
  <2> QED BY <1>1, <1>5, <2>1 DEF AtStep, OwnFile
<1>7. /\ pc'[b] \in {"approve", "confirm"} => Agree(n)'
      /\ op'[b] = "promote" /\ pc'[b] \in {"unlink", "store", "storing", "parent", "drop", "insert"}
           => active'[doc'[b]] = doc'[b]
      /\ pc'[b] = "storing" \/ (op'[b] = "rollback" /\ pc'[b] \in {"drop", "place", "placing"}) => bytes'[b] = doc'[b]
      /\ op'[b] = "rollback" /\ pc'[b] = "insert" => active'[FileOf[n]] = doc'[b]
      /\ op'[b] = "retire" /\ pc'[b] = "drop" => Kept(n)' = {}
  BY <1>1, <1>2, <1>3, <1>4 DEF AtStep
<1>8. (Opened(b) # NoFile)' => OwnFile(Opened(b), n)'
  BY <1>5, <1>6
<1> QED BY <1>7, <1>8 DEF AtStep

\* A row of one skill is retired or added.
LEMMA ElseRows ==
    ASSUME HistoryTypeOK, NEW m,
           \/ rows' = rows
           \/ RetireActive(m)
           \/ \E d \in Docs, p \in Docs \cup {NoDoc} : NameOf[d] = m /\ Promote(d, p)
    PROVE  RowsElse(m)
<1>1. CASE rows' = rows
  BY <1>1, SameTable DEF RowsElse
<1>2. CASE RetireActive(m)
  BY <1>2, RetireTable DEF RowsElse
<1>3. ASSUME NEW d \in Docs, NEW p \in Docs \cup {NoDoc}, NameOf[d] = m, Promote(d, p) PROVE RowsElse(m)
  BY <1>3, PromoteTable DEF RowsElse
<1> QED BY <1>1, <1>2, <1>3

\* Neither files nor rows change.
LEMMA SameAgree ==
    ASSUME rows' = rows, active' = active, NEW n
    PROVE  Kept(n)' = Kept(n) /\ ActiveDoc(n)' = ActiveDoc(n) /\ (Agree(n)' <=> Agree(n))
<1>1. Kept(n)' = Kept(n)
  BY DEF Kept
<1>2. ActiveDoc(n)' = ActiveDoc(n)
  BY SameTable
<1> QED BY <1>1, <1>2 DEF Agree

\* An operation of actor a, on m, takes a step and leaves m's files as they should
\* be; the other skills do not notice.
LEMMA MatchProceeds ==
    ASSUME LifeInv, OneInv, MatchInv, NEW a \in Actors, NEW m, On(a) = m, Busy(a),
           UNCHANGED <<clash, phase>>, broken \subseteq broken',
           \A b \in Actors \ {a} : pc'[b] = pc[b] /\ op'[b] = op[b] /\ doc'[b] = doc[b] /\ bytes'[b] = bytes[b],
           Busy(a)' => doc'[a] = doc[a],
           FilesElse(m), RowsElse(m),
           m \notin clash \cup broken' => IF Busy(a)' THEN AtStep(a, m)' ELSE Agree(m)'
    PROVE  MatchInv'
<1>0. phase = "up" /\ doc[a] \in Docs /\ m \in Names
  BY DEF LifeInv, Working, Work, Busy, On, Names
<1> SUFFICES ASSUME NEW n \in Names, n \notin clash', n \notin broken'
             PROVE  /\ Quiet(n)' => Agree(n)'
                    /\ \A b \in Actors : Busy(b)' /\ On(b)' = n => AtStep(b, n)'
  BY <1>0 DEF MatchInv
<1>1. n \in Names \ (clash \cup broken)
  OBVIOUS
<1>2. CASE n = m
  <2>1. \A b \in Actors : Busy(b) /\ On(b) = n => b = a
    BY <1>1, <1>2 DEF OneInv
  <2>2. \A b \in Actors : Busy(b)' /\ On(b)' = n => b = a
    BY <2>1 DEF Busy, On
  <2>3. Quiet(n)' => ~ Busy(a)'
    BY <1>0, <1>2 DEF Quiet, On
  <2> QED BY <1>2, <2>2, <2>3
<1>3. CASE n # m
  <2>1. Agree(n)' <=> Agree(n)
    BY <1>3, ElseKept
  <2>2. Quiet(n)' => Quiet(n)
    BY <1>0, <1>3 DEF Quiet, Busy, On
  <2>3. ASSUME NEW b \in Actors, Busy(b)', On(b)' = n PROVE AtStep(b, n)'
    <3>1. b # a /\ Busy(b) /\ On(b) = n
      BY <1>3, <2>3 DEF Busy, On
    <3> QED BY <1>1, <1>3, <3>1, ElseAtStep
  <2> QED BY <1>1, <2>1, <2>2, <2>3 DEF MatchInv
<1> QED BY <1>2, <1>3

\* An operation under way writes a file it has opened.
LEMMA OpenedFile ==
    ASSUME LifeInv, NEW b \in Actors, Opened(b) # NoFile
    PROVE  /\ Busy(b) /\ doc[b] \in Docs /\ On(b) \in Names /\ Opened(b) \in Files
           /\ Opened(b) \in Docs => Opened(b) = doc[b]
<1>1. pc[b] \in {"write", "placing"} /\ Busy(b)
  BY DEF Opened, Busy
<1>2. doc[b] \in Docs /\ On(b) \in Names
  BY <1>1 DEF LifeInv, Working, Work, On, Names
<1> QED BY <1>1, <1>2, Apart DEF Opened

\* Files that change held, and hold, nothing but the skill's documents, or those of
\* skills that are broken by it.
LEMMA FilesChange ==
    ASSUME LifeInv, NEW m,
           \A f \in Files :
              \/ active'[f] = active[f]
              \/ /\ active[f] \in Docs => NameOf[active[f]] = m \/ NameOf[active[f]] \in broken'
                 /\ active'[f] \in Docs => NameOf[active'[f]] = m
                 /\ \/ active[f] \in Docs /\ NameOf[active[f]] = m
                    \/ \A b \in Actors : Opened(b) = f => On(b) = m \/ On(b) \in broken'
    PROVE  FilesElse(m)
<1> SUFFICES ASSUME NEW n \in Names, n # m, n \notin broken'
             PROVE  /\ \A f \in Files, d \in Docs : NameOf[d] = n => (active'[f] = d <=> active[f] = d)
                    /\ \A b \in Actors : Opened(b) # NoFile /\ On(b) = n /\ OwnFile(Opened(b), n)
                         => active'[Opened(b)] = active[Opened(b)]
  BY DEF FilesElse
<1>1. ASSUME NEW f \in Files, NEW d \in Docs, NameOf[d] = n PROVE active'[f] = d <=> active[f] = d
  BY <1>1
<1>2. ASSUME NEW b \in Actors, Opened(b) # NoFile, On(b) = n, OwnFile(Opened(b), n)
      PROVE  active'[Opened(b)] = active[Opened(b)]
  BY <1>2, OpenedFile DEF OwnFile
<1> QED BY <1>1, <1>2

\* A step that leaves the files alone.
LEMMA SameFiles ==
    ASSUME active' = active, NEW m
    PROVE  FilesElse(m) /\ Kept(m)' = Kept(m)
BY DEF FilesElse, Kept

\* An operation that ends.
LEMMA EndsAlone ==
    ASSUME TypeOK, NEW a \in Actors, NEW there \in {"idle", "dead"}, Finished(a, there)
    PROVE  /\ \A b \in Actors \ {a} : pc'[b] = pc[b] /\ op'[b] = op[b] /\ doc'[b] = doc[b] /\ bytes'[b] = bytes[b]
           /\ ~ Busy(a)'
BY DEF TypeOK, Finished, GoTo, Busy

\* An operation that goes on.
LEMMA GoesAlone ==
    ASSUME TypeOK, NEW a \in Actors, NEW there, GoTo(a, there), UNCHANGED <<op, doc>>,
           bytes' = bytes \/ \E c : bytes' = [bytes EXCEPT ![a] = c]
    PROVE  /\ \A b \in Actors \ {a} : pc'[b] = pc[b] /\ op'[b] = op[b] /\ doc'[b] = doc[b] /\ bytes'[b] = bytes[b]
           /\ pc'[a] = there /\ op'[a] = op[a] /\ doc'[a] = doc[a] /\ On(a)' = On(a)
BY DEF TypeOK, GoTo, On

\* What is written to the file that is named after an operation's document.
LEMMA OwnWritten ==
    ASSUME LifeInv, NamesInv, NEW a \in Actors, Busy(a), doc[a] \in Docs, NEW m, m = On(a),
           NEW t, t \in Docs => NameOf[t] = m,
           active' = active \/ active' = [active EXCEPT ![doc[a]] = t]
    PROVE  FilesElse(m)
<1>1. active \in [Files -> Docs \cup {NoDoc, Junk}] /\ doc[a] \in Files
  BY Apart DEF LifeInv, TypeOK
<1>2. active[doc[a]] \in Docs => NameOf[active[doc[a]]] = m
  BY DEF NamesInv, On
<1>3. \A b \in Actors : Opened(b) = doc[a] => On(b) = m
  <2>1. doc[a] # NoFile
    BY <1>1, Apart
  <2> QED BY <2>1, OpenedFile DEF On
<1>4. \A f \in Files : \/ active'[f] = active[f]
                       \/ f = doc[a] /\ active'[f] = t
  BY <1>1
<1> QED BY <1>2, <1>3, <1>4, FilesChange

\* Approval creates the file that is named after the proposal, or finds the
\* proposal gone and leaves the skill as it was.
LEMMA MatchApprove ==
    ASSUME LifeInv, OneInv, NamesInv, MatchInv, NEW a \in Actors, Approve(a)
    PROVE  MatchInv'
<1>m. PICK m : m = On(a)
  OBVIOUS
<1>0. TypeOK /\ Busy(a) /\ doc[a] \in Docs /\ m \in Names /\ NameOf[doc[a]] = m
  BY <1>m DEF LifeInv, Working, Work, Approve, Busy, On, Names
<1>1. UNCHANGED <<clash, phase, broken, rows>>
  BY DEF Approve, bootVars, tableVars, ghostVars
<1>2. RowsElse(m)
  BY <1>0, <1>1, ElseRows DEF TypeOK
<1>3. CASE doc[a] \in proposed
  <2>1. PICK t \in Torn(doc[a]) : active' = [active EXCEPT ![doc[a]] = t]
    BY <1>3 DEF Approve
  <2>2. GoTo(a, "write") /\ UNCHANGED <<op, doc, bytes>>
    BY <1>3 DEF Approve
  <2>3. t # NoDoc /\ (t \in Docs => NameOf[t] = m)
    BY <1>0, TornType
  <2>4. FilesElse(m)
    BY <1>m, <1>0, <2>1, <2>3, OwnWritten
  <2>5. active'[doc[a]] = t
    BY <1>0, <2>1, Apart DEF TypeOK
  <2>6. /\ pc'[a] = "write" /\ doc'[a] = doc[a] /\ Busy(a)'
        /\ \A b \in Actors \ {a} : pc'[b] = pc[b] /\ op'[b] = op[b] /\ doc'[b] = doc[b] /\ bytes'[b] = bytes[b]
    BY <1>0, <2>2, GoesAlone DEF Busy
  <2>7. Opened(a)' = doc[a] /\ OwnFile(doc[a], m)'
    BY <2>3, <2>5, <2>6 DEF Opened, OwnFile
  <2>8. AtStep(a, m)'
    BY <2>6, <2>7 DEF AtStep, OwnFile
  <2> QED BY <1>m, <1>0, <1>1, <1>2, <2>4, <2>6, <2>8, MatchProceeds
<1>4. CASE doc[a] \notin proposed
  <2>1. active' = active /\ Finished(a, "idle")
    BY <1>4 DEF Approve
  <2>2. m \notin clash \cup broken' => Agree(m)
    BY <1>m, <1>0, <1>1 DEF MatchInv, AtStep, Approve
  <2>3. m \notin clash \cup broken' => Agree(m)'
    BY <1>1, <2>1, <2>2, SameAgree
  <2>4. FilesElse(m)
    BY <2>1, SameFiles
  <2>5. /\ ~ Busy(a)'
        /\ \A b \in Actors \ {a} : pc'[b] = pc[b] /\ op'[b] = op[b] /\ doc'[b] = doc[b] /\ bytes'[b] = bytes[b]
    BY <1>0, <2>1, EndsAlone
  <2> QED BY <1>m, <1>0, <1>1, <1>2, <2>3, <2>4, <2>5, MatchProceeds
<1> QED BY <1>3, <1>4

\* It fills the file it has created.
LEMMA MatchWrite ==
    ASSUME LifeInv, OneInv, NamesInv, MatchInv, NEW a \in Actors, Write(a)
    PROVE  MatchInv'
<1>m. PICK m : m = On(a)
  OBVIOUS
<1>0. TypeOK /\ Busy(a) /\ doc[a] \in Docs /\ m \in Names /\ NameOf[doc[a]] = m /\ pc[a] = "write"
      /\ op[a] \in {"promote", "approve"} /\ doc[a] # NoFile
  BY <1>m, Apart DEF LifeInv, Working, Work, Write, Busy, On, Names
<1>1. UNCHANGED <<clash, phase, broken, rows, op, doc, bytes>> /\ GoTo(a, "unlink") /\ WriteFile(doc[a], doc[a])
  BY DEF Write, bootVars, tableVars, ghostVars
<1>2. RowsElse(m)
  BY <1>0, <1>1, ElseRows DEF TypeOK
<1>3. FilesElse(m)
  BY <1>m, <1>0, <1>1, OwnWritten DEF WriteFile
<1>4. /\ pc'[a] = "unlink" /\ op'[a] = op[a] /\ doc'[a] = doc[a] /\ Busy(a)'
      /\ \A b \in Actors \ {a} : pc'[b] = pc[b] /\ op'[b] = op[b] /\ doc'[b] = doc[b] /\ bytes'[b] = bytes[b]
  BY <1>0, <1>1, GoesAlone DEF Busy
<1>5. ASSUME m \notin clash \cup broken' PROVE AtStep(a, m)'
  <2>1. active[doc[a]] # NoDoc
    BY <1>m, <1>0, <1>1, <1>5 DEF MatchInv, AtStep, OwnFile, Opened
  <2>2. active'[doc[a]] = doc[a]
    BY <1>0, <1>1, <2>1, Apart DEF WriteFile, TypeOK
  <2>3. Opened(a)' = NoFile
    BY <1>4 DEF Opened
  <2> QED BY <1>0, <1>4, <2>2, <2>3 DEF AtStep
<1> QED BY <1>m, <1>0, <1>1, <1>2, <1>3, <1>4, <1>5, MatchProceeds

\* The steps that leave files and rows as they are: the proposal is removed, the
\* document stored, the parent looked up, the new version confirmed.
LEMMA MatchLooks ==
    ASSUME LifeInv, OneInv, MatchInv, NEW a \in Actors,
           Unlink(a) \/ Store(a) \/ StoreAll(a) \/ StoreNothing(a) \/ Parent(a) \/ Confirm(a)
    PROVE  MatchInv'
<1>m. PICK m : m = On(a)
  OBVIOUS
<1>0. TypeOK /\ Busy(a) /\ doc[a] \in Docs /\ m \in Names
  BY <1>m DEF LifeInv, Working, Work, Unlink, Store, StoreAll, StoreNothing, Parent, Confirm, Busy, On, Names
<1>1. UNCHANGED <<clash, phase, rows, active>> /\ broken \subseteq broken'
  BY DEF Unlink, Store, StoreAll, StoreNothing, Parent, Confirm, fileVars, bootVars, tableVars, ghostVars
<1>2. RowsElse(m) /\ FilesElse(m)
  BY <1>0, <1>1, ElseRows, SameFiles DEF TypeOK
<1>3. Agree(m)' <=> Agree(m)
  BY <1>1, SameAgree
<1>4. m \notin clash \cup broken' => AtStep(a, m)
  BY <1>m, <1>0, <1>1 DEF MatchInv
<1>5. ASSUME Finished(a, "idle") \/ Finished(a, "dead"), m \notin clash \cup broken' => Agree(m)'
      PROVE  MatchInv'
  <2>1. /\ ~ Busy(a)'
        /\ \A b \in Actors \ {a} : pc'[b] = pc[b] /\ op'[b] = op[b] /\ doc'[b] = doc[b] /\ bytes'[b] = bytes[b]
    BY <1>0, <1>5, EndsAlone
  <2> QED BY <1>m, <1>0, <1>1, <1>2, <1>5, <2>1, MatchProceeds
<1>6. ASSUME pc[a] \in {"unlink", "store", "storing", "parent"}, op[a] = "promote",
             NEW there \in {"store", "storing", "parent", "drop", "insert"}, GoTo(a, there), UNCHANGED <<op, doc>>,
             bytes' = bytes \/ \E c : bytes' = [bytes EXCEPT ![a] = c],
             there = "storing" => bytes'[a] = active[doc[a]]
      PROVE  MatchInv'
  <2>1. /\ \A b \in Actors \ {a} : pc'[b] = pc[b] /\ op'[b] = op[b] /\ doc'[b] = doc[b] /\ bytes'[b] = bytes[b]
        /\ pc'[a] = there /\ op'[a] = op[a] /\ doc'[a] = doc[a]
    BY <1>0, <1>6, GoesAlone
  <2>2. m \notin clash \cup broken' => active[doc[a]] = doc[a]
    BY <1>4, <1>6 DEF AtStep
  <2>3. Opened(a)' = NoFile
    BY <1>6, <2>1 DEF Opened
  <2>4. m \notin clash \cup broken' => AtStep(a, m)'
    BY <1>1, <1>6, <2>1, <2>2, <2>3 DEF AtStep
  <2>5. Busy(a)'
    BY <1>6, <2>1 DEF Busy
  <2> QED BY <1>m, <1>0, <1>1, <1>2, <2>1, <2>4, <2>5, MatchProceeds
<1>7. CASE Unlink(a)
  <2>1. CASE doc[a] \in proposed /\ op[a] = "promote"
    BY <1>6, <1>7, <2>1 DEF Unlink
  <2>2. CASE ~ (doc[a] \in proposed /\ op[a] = "promote")
    BY <1>m, <1>5, <1>7, <2>2 DEF Unlink
  <2> QED BY <2>1, <2>2
<1>8. CASE Store(a)
  <2>1. pc[a] = "store" /\ op[a] = "promote" /\ UNCHANGED <<op, doc>>
    BY <1>8 DEF Store, LifeInv, Working, Work
  <2>2. CASE Stored(doc[a])
    BY <1>6, <1>8, <2>1, <2>2 DEF Store
  <2>3. CASE ~ Stored(doc[a])
    <3>1. bytes' = [bytes EXCEPT ![a] = active[doc[a]]] /\ GoTo(a, "storing")
      BY <1>8, <2>3 DEF Store
    <3>2. bytes'[a] = active[doc[a]]
      BY <1>0, <3>1 DEF TypeOK
    <3> QED BY <1>6, <2>1, <3>1, <3>2
  <2> QED BY <2>2, <2>3
<1>9. CASE StoreAll(a)
  <2>1. pc[a] = "storing" /\ op[a] = "promote"
    BY <1>9 DEF StoreAll, LifeInv, Working, Work
  <2> QED BY <1>6, <1>9, <2>1 DEF StoreAll
<1>10. CASE StoreNothing(a)
  BY <1>m, <1>5, <1>10 DEF StoreNothing
<1>11. CASE Parent(a)
  <2>1. pc[a] = "parent" /\ op[a] = "promote"
    BY <1>11 DEF Parent, LifeInv, Working, Work
  <2> QED BY <1>6, <1>11, <2>1 DEF Parent
<1>12. CASE Confirm(a)
  <2>1. Finished(a, "idle") \/ Finished(a, "dead")
    BY <1>12 DEF Confirm
  <2> QED BY <1>3, <1>4, <1>5, <1>12, <2>1 DEF Confirm, AtStep
<1> QED BY <1>7, <1>8, <1>9, <1>10, <1>11, <1>12

\* retire_active: a retirement has removed the files before, a promotion and a
\* rollback go on.
LEMMA MatchDrop ==
    ASSUME LifeInv, OneInv, MatchInv, NEW a \in Actors, Drop(a)
    PROVE  MatchInv'
<1>m. PICK m : m = On(a)
  OBVIOUS
<1>0. TypeOK /\ HistoryTypeOK /\ Busy(a) /\ doc[a] \in Docs /\ m \in Names
  BY <1>m DEF LifeInv, TypeOK, Working, Work, Drop, Busy, On, Names
<1>1. UNCHANGED <<clash, phase, active, broken>> /\ RetireActive(m)
  BY <1>m DEF Drop, fileVars, bootVars, ghostVars
<1>2. RowsElse(m) /\ FilesElse(m) /\ Kept(m)' = Kept(m)
  BY <1>0, <1>1, ElseRows, SameFiles
<1>3. m \notin clash \cup broken' => AtStep(a, m)
  BY <1>m, <1>0, <1>1 DEF MatchInv
<1>4. ASSUME op[a] \in {"promote", "rollback"}, NEW there \in {"insert", "place"}, GoTo(a, there),
             UNCHANGED <<op, doc, bytes>>,
             op[a] = "promote" => there = "insert", op[a] = "rollback" => there = "place"
      PROVE  MatchInv'
  <2>1. /\ \A b \in Actors \ {a} : pc'[b] = pc[b] /\ op'[b] = op[b] /\ doc'[b] = doc[b] /\ bytes'[b] = bytes[b]
        /\ pc'[a] = there /\ op'[a] = op[a] /\ doc'[a] = doc[a]
    BY <1>0, <1>4, GoesAlone
  <2>2. Opened(a)' = NoFile
    BY <1>4, <2>1 DEF Opened
  <2>3. m \notin clash \cup broken' => AtStep(a, m)'
    BY <1>1, <1>3, <1>4, <2>1, <2>2 DEF AtStep, Drop
  <2>4. Busy(a)'
    BY <1>4, <2>1 DEF Busy
  <2> QED BY <1>m, <1>0, <1>1, <1>2, <2>1, <2>3, <2>4, MatchProceeds
<1>5. CASE op[a] = "retire"
  <2>1. Finished(a, "idle")
    BY <1>5 DEF Drop
  <2>2. /\ ~ Busy(a)'
        /\ \A b \in Actors \ {a} : pc'[b] = pc[b] /\ op'[b] = op[b] /\ doc'[b] = doc[b] /\ bytes'[b] = bytes[b]
    BY <1>0, <2>1, EndsAlone
  <2>3. ASSUME m \notin clash \cup broken' PROVE Agree(m)'
    <3>1. LiveRows(m)' = {}
      BY <1>0, <1>1, <2>3, RetireLeavesNone DEF OneInv
    <3>2. ActiveDoc(m)' = NoDoc
      BY <3>1 DEF ActiveDoc, IsActive
    <3>3. Kept(m) = {}
      BY <1>3, <1>5, <2>3 DEF AtStep, Drop
    <3> QED BY <1>2, <3>2, <3>3 DEF Agree
  <2> QED BY <1>m, <1>0, <1>1, <1>2, <2>2, <2>3, MatchProceeds
<1>6. op[a] \in {"promote", "rollback", "retire"}
  BY DEF Drop, LifeInv, Working, Work
<1>7. CASE op[a] = "promote"
  BY <1>4, <1>7 DEF Drop
<1>8. CASE op[a] = "rollback"
  BY <1>4, <1>8 DEF Drop
<1> QED BY <1>5, <1>6, <1>7, <1>8

\* The new row's document is in a file: the one it was promoted from, or the one
\* rollback has written.
LEMMA MatchInsert ==
    ASSUME LifeInv, OneInv, MatchInv, NEW a \in Actors, Insert(a)
    PROVE  MatchInv'
<1>m. PICK m : m = On(a)
  OBVIOUS
<1>0. TypeOK /\ HistoryTypeOK /\ Busy(a) /\ doc[a] \in Docs /\ parent[a] \in Docs \cup {NoDoc} /\ m \in Names
      /\ NameOf[doc[a]] = m /\ op[a] \in {"promote", "rollback"}
  BY <1>m DEF LifeInv, TypeOK, Working, Work, Insert, Busy, On, Names
<1>f. doc[a] \in Files /\ FileOf[m] \in Files
  BY <1>0, Apart
<1>1. UNCHANGED <<clash, phase, active, broken, op, doc, bytes>> /\ GoTo(a, "confirm") /\ Promote(doc[a], parent[a])
  BY DEF Insert, fileVars, bootVars, ghostVars
<1>2. RowsElse(m) /\ FilesElse(m) /\ Kept(m)' = Kept(m)
  BY <1>0, <1>1, ElseRows, SameFiles
<1>3. /\ \A b \in Actors \ {a} : pc'[b] = pc[b] /\ op'[b] = op[b] /\ doc'[b] = doc[b] /\ bytes'[b] = bytes[b]
      /\ pc'[a] = "confirm" /\ op'[a] = op[a] /\ doc'[a] = doc[a]
  BY <1>0, <1>1, GoesAlone
<1>4. Busy(a)' /\ Opened(a)' = NoFile
  BY <1>3 DEF Busy, Opened
<1>5. ASSUME m \notin clash \cup broken' PROVE AtStep(a, m)'
  <2>1. active[doc[a]] = doc[a] \/ active[FileOf[m]] = doc[a]
    BY <1>m, <1>0, <1>1, <1>5 DEF MatchInv, AtStep, Insert
  <2>2. doc[a] \in Kept(m)'
    BY <1>0, <1>f, <1>2, <2>1 DEF Kept
  <2>3. ActiveDoc(m)' = doc[a]
    BY <1>0, <1>1, PromoteTable
  <2> QED BY <1>3, <1>4, <2>2, <2>3 DEF AtStep, Agree
<1> QED BY <1>m, <1>0, <1>1, <1>2, <1>3, <1>4, <1>5, MatchProceeds

\* A retirement, and a rollback before it writes, remove the files of the skill.
LEMMA WithoutFiles ==
    ASSUME NEW m, NEW f \in Files
    PROVE  /\ ~ (active[f] \in Docs /\ NameOf[active[f]] = m) => Without(m)[f] = active[f]
           /\ Without(m)[f] \in {active[f], NoDoc}
           /\ Without(m)[f] \in Docs => NameOf[Without(m)[f]] # m
BY DEF Without, FilesOf, Present

LEMMA MatchMove ==
    ASSUME LifeInv, OneInv, MatchInv, NEW a \in Actors, Move(a)
    PROVE  MatchInv'
<1>m. PICK m : m = On(a)
  OBVIOUS
<1>0. TypeOK /\ Busy(a) /\ doc[a] \in Docs /\ m \in Names /\ NameOf[doc[a]] = m /\ op[a] = "retire"
  BY <1>m DEF LifeInv, Working, Work, Move, Busy, On, Names
<1>1. UNCHANGED <<clash, phase, rows, broken, op, doc, bytes>> /\ active' = Without(m) /\ GoTo(a, "drop")
  BY <1>m DEF Move, bootVars, tableVars, ghostVars
<1>2. RowsElse(m)
  BY <1>0, <1>1, ElseRows DEF TypeOK
<1>3. \A f \in Files : /\ ~ (active[f] \in Docs /\ NameOf[active[f]] = m) => active'[f] = active[f]
                       /\ active'[f] \in {active[f], NoDoc}
                       /\ active'[f] \in Docs => NameOf[active'[f]] # m
  BY <1>1, WithoutFiles
<1>4. FilesElse(m)
  BY <1>3, FilesChange
<1>5. Kept(m)' = {}
  BY <1>3 DEF Kept
<1>6. /\ \A b \in Actors \ {a} : pc'[b] = pc[b] /\ op'[b] = op[b] /\ doc'[b] = doc[b] /\ bytes'[b] = bytes[b]
      /\ pc'[a] = "drop" /\ op'[a] = op[a] /\ doc'[a] = doc[a]
  BY <1>0, <1>1, GoesAlone
<1>7. Busy(a)' /\ Opened(a)' = NoFile
  BY <1>6 DEF Busy, Opened
<1>8. AtStep(a, m)'
  BY <1>0, <1>5, <1>6, <1>7 DEF AtStep
<1> QED BY <1>m, <1>0, <1>1, <1>2, <1>4, <1>6, <1>7, <1>8, MatchProceeds

\* A rollback creates the canonical file of the skill ...
LEMMA MatchPlace ==
    ASSUME LifeInv, OneInv, NamesInv, MatchInv, NEW a \in Actors, Place(a)
    PROVE  MatchInv'
<1>m. PICK m : m = On(a)
  OBVIOUS
<1>0. TypeOK /\ Busy(a) /\ doc[a] \in Docs /\ m \in Names /\ NameOf[doc[a]] = m /\ op[a] = "rollback"
      /\ pc[a] = "place" /\ active \in [Files -> Docs \cup {NoDoc, Junk}]
  BY <1>m DEF LifeInv, TypeOK, Working, Work, Place, Busy, On, Names
<1>f. PICK g \in Files : g = FileOf[m]
  BY <1>0, Apart
<1>1. /\ UNCHANGED <<clash, phase, rows, op, doc, bytes>> /\ GoTo(a, "placing")
      /\ broken' = broken \cup Losers(g, m)
  BY <1>m, <1>f DEF Place, bootVars, tableVars
<1>t. PICK t \in Torn(bytes[a]) : active' = [Without(m) EXCEPT ![g] = t]
  BY <1>m, <1>f DEF Place
<1>2. RowsElse(m)
  BY <1>0, <1>1, ElseRows DEF TypeOK
<1>3. t # NoDoc /\ (t \in Docs => NameOf[t] = m)
  BY <1>m, TornType DEF NamesInv
<1>4. active'[g] = t /\ \A f \in Files \ {g} : active'[f] = Without(m)[f]
  BY <1>t DEF Without
<1>5. active[g] \in Docs => NameOf[active[g]] = m \/ NameOf[active[g]] \in broken'
  BY <1>1, Apart DEF Losers, FilesOf, Present
<1>6. \A b \in Actors : Opened(b) = g => On(b) = m \/ On(b) \in broken'
  <2>1. g # NoFile
    BY Apart
  <2> QED BY <1>1, <2>1, OpenedFile DEF Losers
<1>7. FilesElse(m)
  <2>1. \A f \in Files \ {g} : \/ active'[f] = active[f]
                               \/ active[f] \in Docs /\ NameOf[active[f]] = m /\ active'[f] = NoDoc
    BY <1>4, WithoutFiles
  <2>2. \A f \in Files : \/ active'[f] = active[f]
              \/ /\ active[f] \in Docs => NameOf[active[f]] = m \/ NameOf[active[f]] \in broken'
                 /\ active'[f] \in Docs => NameOf[active'[f]] = m
                 /\ \/ active[f] \in Docs /\ NameOf[active[f]] = m
                    \/ \A b \in Actors : Opened(b) = f => On(b) = m \/ On(b) \in broken'
    BY <1>3, <1>4, <1>5, <1>6, <2>1
  <2> QED BY <2>2, FilesChange
<1>8. /\ \A b \in Actors \ {a} : pc'[b] = pc[b] /\ op'[b] = op[b] /\ doc'[b] = doc[b] /\ bytes'[b] = bytes[b]
      /\ pc'[a] = "placing" /\ op'[a] = op[a] /\ doc'[a] = doc[a] /\ On(a)' = On(a)
  BY <1>0, <1>1, GoesAlone
<1>9. Busy(a)' /\ Opened(a)' = g /\ OwnFile(g, m)'
  BY <1>m, <1>f, <1>3, <1>4, <1>8 DEF Busy, Opened, OwnFile
<1>10. m \notin clash \cup broken' => bytes[a] = doc[a]
  BY <1>m, <1>0, <1>1 DEF MatchInv, AtStep
<1>11. m \notin clash \cup broken' => AtStep(a, m)'
  BY <1>0, <1>1, <1>8, <1>9, <1>10 DEF AtStep, OwnFile
<1> QED BY <1>m, <1>0, <1>1, <1>2, <1>7, <1>8, <1>9, <1>11, MatchProceeds

\* ... and fills it.
LEMMA MatchPlaceAll ==
    ASSUME LifeInv, OneInv, NamesInv, MatchInv, NEW a \in Actors, PlaceAll(a)
    PROVE  MatchInv'
<1>m. PICK m : m = On(a)
  OBVIOUS
<1>0. TypeOK /\ Busy(a) /\ doc[a] \in Docs /\ m \in Names /\ NameOf[doc[a]] = m /\ op[a] = "rollback"
      /\ pc[a] = "placing" /\ active \in [Files -> Docs \cup {NoDoc, Junk}]
  BY <1>m DEF LifeInv, TypeOK, Working, Work, PlaceAll, Busy, On, Names
<1>f. PICK g \in Files : g = FileOf[m] /\ g # NoFile
  BY <1>0, Apart
<1>1. /\ UNCHANGED <<clash, phase, rows, op, doc>> /\ GoTo(a, "insert")
      /\ broken' = broken \cup Losers(g, m) /\ WriteFile(g, bytes[a]) /\ bytes' = [bytes EXCEPT ![a] = NoDoc]
  BY <1>m, <1>f DEF PlaceAll, bootVars, tableVars
<1>2. RowsElse(m)
  BY <1>0, <1>1, ElseRows DEF TypeOK
<1>3. bytes[a] \in Docs => NameOf[bytes[a]] = m
  BY <1>m DEF NamesInv
<1>4. /\ active[g] # NoDoc => active'[g] = bytes[a]
      /\ \A f \in Files : active'[f] = active[f] \/ (f = g /\ active'[f] = bytes[a])
  BY <1>0, <1>1 DEF WriteFile
<1>5. active[g] \in Docs => NameOf[active[g]] = m \/ NameOf[active[g]] \in broken'
  BY <1>1, Apart DEF Losers, FilesOf, Present
<1>6. \A b \in Actors : Opened(b) = g => On(b) = m \/ On(b) \in broken'
  BY <1>f, <1>1, OpenedFile DEF Losers
<1>7. FilesElse(m)
  <2>1. \A f \in Files : \/ active'[f] = active[f]
              \/ /\ active[f] \in Docs => NameOf[active[f]] = m \/ NameOf[active[f]] \in broken'
                 /\ active'[f] \in Docs => NameOf[active'[f]] = m
                 /\ \/ active[f] \in Docs /\ NameOf[active[f]] = m
                    \/ \A b \in Actors : Opened(b) = f => On(b) = m \/ On(b) \in broken'
    BY <1>3, <1>4, <1>5, <1>6
  <2> QED BY <2>1, FilesChange
<1>8. /\ \A b \in Actors \ {a} : pc'[b] = pc[b] /\ op'[b] = op[b] /\ doc'[b] = doc[b] /\ bytes'[b] = bytes[b]
      /\ pc'[a] = "insert" /\ op'[a] = op[a] /\ doc'[a] = doc[a]
  BY <1>0, <1>1, GoesAlone
<1>9. Busy(a)' /\ Opened(a)' = NoFile
  BY <1>8 DEF Busy, Opened
<1>10. ASSUME m \notin clash \cup broken' PROVE AtStep(a, m)'
  <2>1. bytes[a] = doc[a] /\ active[g] # NoDoc
    BY <1>m, <1>f, <1>0, <1>1, <1>10 DEF MatchInv, AtStep, OwnFile, Opened
  <2>2. active'[g] = doc[a]
    BY <1>4, <2>1
  <2> QED BY <1>0, <1>f, <1>8, <1>9, <2>2 DEF AtStep
<1> QED BY <1>m, <1>0, <1>1, <1>2, <1>7, <1>8, <1>9, <1>10, MatchProceeds

\* A failure is an operation cut short.
LEMMA MatchFails ==
    ASSUME LifeInv, OneInv, MatchInv, NEW a \in Actors, Fail(a) \/ \E gone : FailMoving(a, gone)
    PROVE  MatchInv'
<1>m. PICK m : m = On(a)
  OBVIOUS
<1>0. TypeOK /\ Busy(a) /\ doc[a] \in Docs /\ m \in Names
  BY <1>m DEF LifeInv, Working, Work, Fail, FailMoving, Busy, On, Names
<1>1. UNCHANGED <<clash, phase, rows>> /\ broken' = broken \cup {m} /\ Finished(a, "idle")
  BY <1>m DEF Fail, FailMoving, fileVars, bootVars, tableVars
<1>2. RowsElse(m)
  BY <1>0, <1>1, ElseRows DEF TypeOK
<1>3. \A f \in Files : \/ active'[f] = active[f]
                       \/ active[f] \in Docs /\ NameOf[active[f]] = m /\ active'[f] = NoDoc
  BY <1>m DEF Fail, FailMoving, fileVars, FilesOf, Present
<1>4. FilesElse(m)
  BY <1>3, FilesChange
<1>5. /\ ~ Busy(a)'
      /\ \A b \in Actors \ {a} : pc'[b] = pc[b] /\ op'[b] = op[b] /\ doc'[b] = doc[b] /\ bytes'[b] = bytes[b]
  BY <1>0, <1>1, EndsAlone
<1> QED BY <1>m, <1>0, <1>1, <1>2, <1>4, <1>5, MatchProceeds

\* An operation begins on a skill that is quiet, or operations overlap.
LEMMA MatchBegins ==
    ASSUME LifeInv, OneInv, MatchInv, WholeStore, NEW a \in Actors, Begins(a)
    PROVE  MatchInv'
<1>1. PICK what, d, p, first :
        /\ Start(a, what, d, p, first) /\ d \in Docs
        /\ \/ what \in {"promote", "approve", "retire"} /\ first \in {"approve", "move"} /\ bytes' = bytes
           \/ /\ what = "rollback" /\ first \in {"drop", "place"}
              /\ store[d] \in Docs /\ bytes' = [bytes EXCEPT ![a] = store[d]]
        /\ UNCHANGED <<rows, active, phase, todo>> /\ broken \subseteq broken'
  BY DEF Begins
<1>2. TypeOK /\ phase = "up" /\ pc[a] = "idle" /\ clash \subseteq clash'
  BY <1>1 DEF Start, LifeInv
<1>3. /\ \A b \in Actors \ {a} : pc'[b] = pc[b] /\ op'[b] = op[b] /\ doc'[b] = doc[b] /\ bytes'[b] = bytes[b]
      /\ pc'[a] = first /\ op'[a] = what /\ doc'[a] = d
      /\ what = "rollback" => bytes'[a] = store[d]
  BY <1>1, <1>2 DEF Start, TypeOK
<1> SUFFICES ASSUME NEW n \in Names, n \notin clash', n \notin broken'
             PROVE  /\ Quiet(n)' => Agree(n)'
                    /\ \A b \in Actors : Busy(b)' /\ On(b)' = n => AtStep(b, n)'
  BY <1>1, <1>2 DEF MatchInv
<1>4. n \in Names \ (clash \cup broken)
  BY <1>1, <1>2
<1>5. Kept(n)' = Kept(n) /\ (Agree(n)' <=> Agree(n))
  BY <1>1, SameAgree
<1>6. ASSUME NEW b \in Actors, b # a, Busy(b)', On(b)' = n PROVE AtStep(b, n)'
  <2>1. Busy(b) /\ On(b) = n
    BY <1>3, <1>6 DEF Busy, On
  <2>2. AtStep(b, n)
    BY <1>4, <2>1 DEF MatchInv
  <2>3. Opened(b)' = Opened(b)
    BY <1>3, <1>6 DEF Opened, On
  <2> QED BY <1>1, <1>3, <1>5, <1>6, <2>2, <2>3 DEF AtStep, OwnFile
<1>7. CASE n = NameOf[d]
  <2>1. \A b \in Actors \ {a} : ~ (Busy(b) /\ On(b) = n)
    BY <1>1, <1>7 DEF Start
  <2>2. Quiet(n)
    BY <1>2, <2>1 DEF Quiet, Busy
  <2>3. Agree(n)
    BY <1>4, <2>2 DEF MatchInv
  <2>4. ~ Unfilled(d)
    <3>1. stage # "fill"
      BY <1>2, Apart DEF LifeInv, Seeding
    <3> QED BY <1>2, <1>7, <2>1, <3>1 DEF Unfilled, Busy, On
  <2>5. what = "rollback" => bytes'[a] = d
    BY <1>1, <1>3, <1>4, <1>7, <2>4 DEF WholeStore
  <2>6. Opened(a)' = NoFile
    BY <1>1, <1>3 DEF Opened
  <2>7. AtStep(a, n)'
    BY <1>1, <1>3, <1>5, <2>3, <2>5, <2>6 DEF AtStep
  <2> QED BY <1>5, <1>6, <2>3, <2>7
<1>8. CASE n # NameOf[d]
  <2>1. On(a)' # n
    BY <1>3, <1>8 DEF On
  <2>2. Quiet(n)' => Quiet(n)
    BY <1>2, <1>3 DEF Quiet, Busy, On
  <2> QED BY <1>4, <1>5, <1>6, <2>1, <2>2 DEF MatchInv
<1> QED BY <1>7, <1>8

\* Steps that leave files, rows and operations alone.
LEMMA MatchSame ==
    ASSUME MatchInv, UNCHANGED <<rows, active, phase, todo, opVars, clash, broken>>
    PROVE  MatchInv'
<1> SUFFICES ASSUME NEW n \in Names, n \notin clash, n \notin broken
             PROVE  /\ phase' # "up" => ActiveDoc(n)' = NoDoc \/ ActiveDoc(n)' \in Kept(n)'
                    /\ phase' = "seed" /\ Kept(n)' # {} =>
                         ActiveDoc(n)' # NoDoc \/ \E f \in todo' : NameOf[active'[f]] = n
                    /\ Quiet(n)' => Agree(n)'
                    /\ \A b \in Actors : Busy(b)' /\ On(b)' = n => AtStep(b, n)'
  BY DEF MatchInv
<1>1. Kept(n)' = Kept(n) /\ ActiveDoc(n)' = ActiveDoc(n) /\ (Agree(n)' <=> Agree(n))
  BY SameAgree
<1>2. Quiet(n)' <=> Quiet(n)
  BY DEF Quiet, Busy, On, opVars
<1>3. \A b \in Actors : (Busy(b)' <=> Busy(b)) /\ On(b)' = On(b) /\ (AtStep(b, n)' <=> AtStep(b, n))
  BY <1>1 DEF Busy, On, AtStep, Opened, OwnFile, opVars
<1> QED BY <1>1, <1>2, <1>3 DEF MatchInv

\* A user who writes a file goes behind the history's back, with that skill and with
\* the one whose file it was.
LEMMA MatchEdit ==
    ASSUME LifeInv, OneInv, MatchInv, NEW d \in Docs, NEW e \in Files, Edit(d, e)
    PROVE  MatchInv'
<1>m. PICK m : m = NameOf[d]
  OBVIOUS
<1>0. TypeOK /\ m \in Names /\ active \in [Files -> Docs \cup {NoDoc, Junk}] /\ e # NoFile
  BY <1>m, Apart DEF LifeInv, TypeOK
<1>1. UNCHANGED <<rows, phase, todo, op, pc, doc, bytes, clash>> /\ broken' = broken \cup {m} \cup Losers(e, m)
      /\ phase # "seed" /\ active' = [active EXCEPT ![e] = d]
  BY <1>m DEF Edit, bootVars, opVars, tableVars
<1>2. active'[e] = d /\ \A f \in Files \ {e} : active'[f] = active[f]
  BY <1>0, <1>1
<1>3. active[e] \in Docs => NameOf[active[e]] = m \/ NameOf[active[e]] \in broken'
  BY <1>1, Apart DEF Losers, FilesOf, Present
<1>4. \A b \in Actors : Opened(b) = e => On(b) = m \/ On(b) \in broken'
  BY <1>0, <1>1, OpenedFile DEF Losers
<1>5. FilesElse(m)
  <2>1. \A f \in Files : \/ active'[f] = active[f]
              \/ /\ active[f] \in Docs => NameOf[active[f]] = m \/ NameOf[active[f]] \in broken'
                 /\ active'[f] \in Docs => NameOf[active'[f]] = m
                 /\ \/ active[f] \in Docs /\ NameOf[active[f]] = m
                    \/ \A b \in Actors : Opened(b) = f => On(b) = m \/ On(b) \in broken'
    BY <1>m, <1>2, <1>3, <1>4
  <2> QED BY <2>1, FilesChange
<1>6. RowsElse(m)
  BY <1>0, <1>1, ElseRows DEF TypeOK
<1> SUFFICES ASSUME NEW n \in Names, n \notin clash, n \notin broken, n \notin broken', n # m
             PROVE  /\ phase # "up" => ActiveDoc(n)' = NoDoc \/ ActiveDoc(n)' \in Kept(n)'
                    /\ Quiet(n)' => Agree(n)'
                    /\ \A b \in Actors : Busy(b)' /\ On(b)' = n => AtStep(b, n)'
  BY <1>1 DEF MatchInv
<1>7. Kept(n)' = Kept(n) /\ ActiveDoc(n)' = ActiveDoc(n) /\ (Agree(n)' <=> Agree(n))
  BY <1>5, <1>6, ElseKept
<1>8. Quiet(n)' <=> Quiet(n)
  BY <1>1 DEF Quiet, Busy, On
<1>9. ASSUME NEW b \in Actors, Busy(b)', On(b)' = n PROVE AtStep(b, n)'
  <2>1. Busy(b) /\ On(b) = n /\ pc'[b] = pc[b] /\ op'[b] = op[b] /\ doc'[b] = doc[b] /\ bytes'[b] = bytes[b]
    BY <1>1, <1>9 DEF Busy, On
  <2> QED BY <1>5, <1>6, <2>1, ElseAtStep
<1> QED BY <1>7, <1>8, <1>9 DEF MatchInv

\* A restart cuts the operations that were under way short; the skills of the
\* others are as the operations left them.
LEMMA MatchRestart ==
    ASSUME LifeInv, MatchInv, Restart
    PROVE  MatchInv'
<1>1. UNCHANGED <<rows, active, clash>> /\ phase' = "load" /\ \A a \in Actors : ~ Busy(a)'
  BY DEF Restart, fileVars, tableVars, Busy
<1> SUFFICES ASSUME NEW n \in Names, n \notin clash, n \notin broken'
             PROVE  ActiveDoc(n)' = NoDoc \/ ActiveDoc(n)' \in Kept(n)'
  BY <1>1 DEF MatchInv, Quiet
<1>2. n \notin broken /\ \A a \in Actors : Busy(a) => On(a) # n
  BY DEF Restart, CutShort
<1>3. ActiveDoc(n) = NoDoc \/ ActiveDoc(n) \in Kept(n)
  BY <1>2 DEF MatchInv, Quiet, Agree
<1> QED BY <1>1, <1>3, SameAgree

\* Boot: what seeding has looked at has an active row, what it gives up on is cut
\* short.
LEMMA MatchBoot ==
    ASSUME LifeInv, OneInv, MatchInv,
           \/ Load \/ SeedFails \/ Up
           \/ \E f \in Files : SeedKnown(f) \/ SeedRetire(f) \/ SeedPut(f) \/ SeedPutAll(f) \/ SeedInsert(f)
    PROVE  MatchInv'
<1>0. TypeOK /\ HistoryTypeOK
  BY DEF LifeInv, TypeOK
<1>1. UNCHANGED <<active, clash, opVars>> /\ broken \subseteq broken' /\ phase # "up"
  BY Apart DEF Load, SeedFails, Up, SeedKnown, SeedRetire, SeedPut, SeedPutAll, SeedInsert, Recorded,
               LifeInv, Seeding, fileVars, ghostVars
<1>2. \A a \in Actors : ~ Busy(a) /\ ~ Busy(a)'
  BY <1>1 DEF LifeInv, Working, Work, Busy, opVars
<1> SUFFICES ASSUME NEW n \in Names, n \notin clash, n \notin broken'
             PROVE  /\ phase' # "up" => ActiveDoc(n)' = NoDoc \/ ActiveDoc(n)' \in Kept(n)'
                    /\ phase' = "seed" /\ Kept(n)' # {} =>
                         ActiveDoc(n)' # NoDoc \/ \E f \in todo' : NameOf[active'[f]] = n
                    /\ phase' = "up" => Agree(n)'
  BY <1>1, <1>2 DEF MatchInv, Quiet
<1>4. /\ ActiveDoc(n) = NoDoc \/ ActiveDoc(n) \in Kept(n)
      /\ phase = "seed" /\ Kept(n) # {} => ActiveDoc(n) # NoDoc \/ \E f \in todo : NameOf[active[f]] = n
  BY <1>1 DEF MatchInv
<1>5. Kept(n)' = Kept(n)
  BY <1>1, SameFiles
<1>6. rows' = rows => ActiveDoc(n)' = ActiveDoc(n)
  BY SameTable
<1>7. CASE Load
  <2>1. rows' = rows /\ phase' = "seed" /\ todo' = Present
    BY <1>7 DEF Load, tableVars
  <2>2. Kept(n) # {} => \E f \in Present : NameOf[active[f]] = n
    BY DEF Kept, Present
  <2> QED BY <1>1, <1>4, <1>5, <1>6, <2>1, <2>2
<1>8. CASE SeedFails \/ Up
  <2>1. rows' = rows /\ phase = "seed" /\ phase' = "up" /\ ~ \E f \in todo : NameOf[active[f]] = n
    BY <1>8 DEF SeedFails, Up, tableVars
  <2>2. Agree(n)'
    BY <1>4, <1>5, <1>6, <2>1 DEF Agree
  <2> QED BY <2>1, <2>2
<1>9. ASSUME NEW f \in Files, SeedKnown(f) PROVE phase' = "seed" /\ phase = "seed"
      /\ (ActiveDoc(n)' = NoDoc \/ ActiveDoc(n)' \in Kept(n))
      /\ (Kept(n) # {} => ActiveDoc(n)' # NoDoc \/ \E g \in todo' : NameOf[active[g]] = n)
  <2>1. rows' = rows /\ phase = "seed" /\ phase' = "seed" /\ todo' = todo \ {f} /\ f \in todo
        /\ ActiveDoc(NameOf[active[f]]) = active[f]
    BY <1>9 DEF SeedKnown, tableVars
  <2>2. active[f] # NoDoc
    BY <2>1 DEF LifeInv, Seeding, Present
  <2> QED BY <1>4, <1>6, <2>1, <2>2
<1>p. ASSUME NEW f \in Files, SeedPut(f) \/ SeedPutAll(f) PROVE phase' = "seed" /\ phase = "seed"
      /\ (ActiveDoc(n)' = NoDoc \/ ActiveDoc(n)' \in Kept(n))
      /\ (Kept(n) # {} => ActiveDoc(n)' # NoDoc \/ \E g \in todo' : NameOf[active[g]] = n)
  <2>1. rows' = rows /\ phase = "seed" /\ phase' = "seed" /\ todo' = todo
    BY <1>p, Apart DEF SeedPut, SeedPutAll, Recorded, LifeInv, Seeding
  <2> QED BY <1>4, <1>6, <2>1
<1>10. ASSUME NEW f \in Files, SeedRetire(f) PROVE phase' = "seed" /\ phase = "seed"
       /\ (ActiveDoc(n)' = NoDoc \/ ActiveDoc(n)' \in Kept(n))
       /\ (Kept(n) # {} => ActiveDoc(n)' # NoDoc \/ \E g \in todo' : NameOf[active[g]] = n)
  <2>m. PICK m : m = NameOf[active[f]]
    OBVIOUS
  <2>1. RetireActive(m) /\ phase = "seed" /\ phase' = "seed" /\ todo' = todo /\ f \in todo
    BY <1>10, <2>m DEF SeedRetire
  <2>2. CASE n # m
    BY <1>0, <1>4, <2>1, <2>2, RetireTable
  <2>3. CASE n = m
    <3>1. LiveRows(n)' = {}
      BY <1>0, <2>1, <2>3, RetireLeavesNone DEF OneInv
    <3> QED BY <2>m, <2>1, <2>3, <3>1 DEF ActiveDoc, IsActive
  <2> QED BY <2>2, <2>3
<1>11. ASSUME NEW f \in Files, SeedInsert(f) PROVE phase' = "seed" /\ phase = "seed"
       /\ (ActiveDoc(n)' = NoDoc \/ ActiveDoc(n)' \in Kept(n))
       /\ (Kept(n) # {} => ActiveDoc(n)' # NoDoc \/ \E g \in todo' : NameOf[active[g]] = n)
  <2>m. PICK m, d : m = NameOf[active[f]] /\ d = active[f]
    OBVIOUS
  <2>1. Promote(d, NoDoc) /\ phase = "seed" /\ phase' = "seed" /\ todo' = todo \ {f} /\ f \in todo
    BY <1>11, <2>m, Apart DEF SeedInsert, LifeInv, Seeding
  <2>2. d \in Docs /\ NameOf[d] = m
    BY <2>m, <2>1 DEF LifeInv, TypeOK, Seeding, Present
  <2>3. CASE n # m
    BY <1>0, <1>4, <2>m, <2>1, <2>2, <2>3, PromoteTable
  <2>4. CASE n = m
    <3>1. ActiveDoc(n)' = d
      BY <1>0, <2>1, <2>2, <2>4, PromoteTable
    <3>2. d \in Kept(n)
      BY <2>m, <2>2, <2>4 DEF Kept
    <3> QED BY <2>1, <2>2, <3>1, <3>2
  <2> QED BY <2>3, <2>4
<1>12. ASSUME NEW f \in Files, SeedKnown(f) \/ SeedRetire(f) \/ SeedPut(f) \/ SeedPutAll(f) \/ SeedInsert(f)
       PROVE  /\ phase' = "seed"
              /\ ActiveDoc(n)' = NoDoc \/ ActiveDoc(n)' \in Kept(n)
              /\ Kept(n) # {} => ActiveDoc(n)' # NoDoc \/ \E g \in todo' : NameOf[active[g]] = n
  BY <1>9, <1>p, <1>10, <1>11, <1>12
<1> QED BY <1>1, <1>5, <1>7, <1>8, <1>12

LEMMA NextMatch ==
    ASSUME LifeInv, OneInv, NamesInv, MatchInv, WholeStore, [Next]_vars
    PROVE  MatchInv'
<1>1. ASSUME NEW a \in Actors,
             \/ Approve(a) \/ Write(a) \/ Unlink(a) \/ Store(a) \/ StoreAll(a) \/ StoreNothing(a) \/ Parent(a)
             \/ Drop(a) \/ Insert(a) \/ Confirm(a) \/ Place(a) \/ PlaceAll(a) \/ Move(a) \/ Fail(a)
             \/ \E gone : FailMoving(a, gone)
      PROVE  MatchInv'
  BY <1>1, MatchApprove, MatchWrite, MatchLooks, MatchDrop, MatchInsert, MatchPlace, MatchPlaceAll, MatchMove,
     MatchFails
<1>2. ASSUME NEW d \in Docs, Propose(d) \/ Reject(d) PROVE MatchInv'
  BY <1>2, MatchSame DEF Propose, Reject, bootVars, opVars, tableVars, ghostVars
<1>3. ASSUME NEW d \in Docs, NEW f \in Files, Edit(d, f) PROVE MatchInv'
  BY <1>3, MatchEdit
<1>4. CASE Scan \/ UNCHANGED vars
  BY <1>4, MatchSame DEF Scan, vars, fileVars, bootVars, opVars, tableVars, ghostVars
<1>5. CASE Restart
  BY <1>5, MatchRestart
<1>6. CASE \/ Load \/ SeedFails \/ Up
           \/ \E f \in Files : SeedKnown(f) \/ SeedRetire(f) \/ SeedPut(f) \/ SeedPutAll(f) \/ SeedInsert(f)
  BY <1>6, MatchBoot
<1>7. ASSUME NEW a \in Actors, Begins(a) PROVE MatchInv'
  BY <1>7, MatchBegins
<1>8. ASSUME \/ \E d \in Docs : Sweep(d)
             \/ \E a \in Users, d \in Docs : ApproveByHand(a, d) \/ Rollback(a, d)
             \/ \E a \in Users, n \in Names : Retire(a, n)
             \/ \E n \in Names : Archive(n)
      PROVE  \E a \in Actors : Begins(a)
  BY <1>8, OperationsBegin
<1> QED BY <1>1, <1>2, <1>3, <1>4, <1>5, <1>6, <1>7, <1>8 DEF Next

\* Nothing is half recorded outside seeding, and no operation is under way in it.
LEMMA FillersApart ==
    ASSUME LifeInv, NEW d, Unfilled(d)
    PROVE  \/ phase = "up" /\ \E a \in Actors : pc[a] = "storing" /\ doc[a] = d
           \/ phase = "seed" /\ stage = "fill" /\ at \in todo /\ active[at] = d
BY Apart DEF Unfilled, LifeInv, Working, Work, Seeding

\* The operation of an actor which is not filling d's file takes a step that leaves
\* that file alone and gives d no row.
LEMMA WholeApart ==
    ASSUME LifeInv, WholeStore, NEW d \in Docs, NameOf[d] \notin clash \cup broken,
           NEW a \in Actors, ~ (pc[a] = "storing" /\ doc[a] = d), phase = "up",
           \A b \in Actors \ {a} : pc'[b] = pc[b] /\ doc'[b] = doc[b],
           store'[d] = store[d],
           \A i \in DOMAIN rows' : rows'[i].doc = d => \E j \in DOMAIN rows : rows[j].doc = d
    PROVE  \/ store'[d] \in {NoDoc, d}
           \/ Unfilled(d)' /\ \A i \in DOMAIN rows' : rows'[i].doc # d
<1>1. Unfilled(d) => Unfilled(d)'
  BY FillersApart DEF Unfilled
<1> QED BY <1>1 DEF WholeStore

\* A file in the store is whole, unless it is being written, or operations on its
\* skill overlapped or were cut short.
LEMMA NextWhole ==
    ASSUME LifeInv, OneInv, MatchInv, RowsHaveFiles, WholeStore, [Next]_vars
    PROVE  WholeStore'
<1> SUFFICES ASSUME NEW d \in Docs, NameOf[d] \notin clash', NameOf[d] \notin broken'
             PROVE  \/ store'[d] \in {NoDoc, d}
                    \/ Unfilled(d)' /\ \A i \in DOMAIN rows' : rows'[i].doc # d
  BY DEF WholeStore
<1> DEFINE Goal == \/ store'[d] \in {NoDoc, d}
                   \/ Unfilled(d)' /\ \A i \in DOMAIN rows' : rows'[i].doc # d
<1>t. /\ TypeOK /\ HistoryTypeOK /\ store \in [Docs -> Docs \cup {NoDoc, Junk}]
      /\ pc \in [Actors -> PCs] /\ doc \in [Actors -> Docs \cup {NoDoc}] /\ bytes \in [Actors -> Docs \cup {NoDoc, Junk}]
  BY DEF LifeInv, TypeOK, HistoryTypeOK
<1>n. NameOf[d] \in Names
  BY DEF Names
<1>u. \A b \in Actors : Busy(b) => phase = "up" /\ doc[b] \in Docs
  BY DEF LifeInv, Working, Work, Busy
<1>r. ~ Stored(d) => \A i \in DOMAIN rows : rows[i].doc # d
  BY DEF RowsHaveFiles
<1>w. ASSUME ~ Unfilled(d), store'[d] = store[d], clash \subseteq clash', broken \subseteq broken' PROVE Goal
  BY <1>w DEF WholeStore
<1>d. ASSUME NEW n, RetireActive(n)
      PROVE  \A i \in DOMAIN rows' : rows'[i].doc = d => \E j \in DOMAIN rows : rows[j].doc = d
  <2>1. /\ rows' \in Seq(Row) /\ Len(rows') = Len(rows)
        /\ \A i \in 1 .. Len(rows) : rows'[i].doc = rows[i].doc
    BY <1>t, <1>d, RetireKeepsRows
  <2>2. DOMAIN rows' = 1 .. Len(rows) /\ DOMAIN rows = 1 .. Len(rows)
    BY <1>t, <2>1, LenProperties DEF HistoryTypeOK
  <2> QED BY <2>1, <2>2
<1>p. ASSUME NEW e \in Docs, NEW p \in Docs \cup {NoDoc}, Promote(e, p), e # d
      PROVE  \A i \in DOMAIN rows' : rows'[i].doc = d => \E j \in DOMAIN rows : rows[j].doc = d
  <2>1. /\ rows' \in Seq(Row) /\ Len(rows') = Len(rows) + 1 /\ Len(rows) \in Nat
        /\ \A i \in 1 .. Len(rows) : rows'[i] = rows[i]
        /\ rows'[Len(rows) + 1] = [doc |-> e, parent |-> p, live |-> TRUE]
    BY <1>t, <1>p, PromoteAppends
  <2>3. rows'[Len(rows) + 1].doc = e
    BY <2>1
  <2>2. DOMAIN rows' = 1 .. Len(rows) + 1 /\ DOMAIN rows = 1 .. Len(rows)
    BY <1>t, <2>1, LenProperties DEF HistoryTypeOK
  <2> QED BY <1>p, <2>1, <2>2, <2>3
<1> HIDE DEF Goal
<1>1. ASSUME NEW a \in Actors,
             \/ Approve(a) \/ Write(a) \/ Unlink(a) \/ StoreNothing(a) \/ Parent(a) \/ Confirm(a)
             \/ Place(a) \/ PlaceAll(a) \/ Move(a) \/ Drop(a)
      PROVE  Goal
  <2>1. Busy(a) /\ pc[a] # "storing" /\ UNCHANGED <<store, clash>> /\ broken \subseteq broken'
    BY <1>1 DEF Approve, Write, Unlink, StoreNothing, Parent, Confirm, Place, PlaceAll, Move, Drop, Busy,
                tableVars, ghostVars
  <2>2. rows' = rows \/ RetireActive(On(a))
    BY <1>1 DEF Approve, Write, Unlink, StoreNothing, Parent, Confirm, Place, PlaceAll, Move, Drop, tableVars
  <2>3. \A b \in Actors \ {a} : pc'[b] = pc[b] /\ doc'[b] = doc[b]
    BY <1>1, OperationsProceed DEF Proceeds
  <2>4. \A i \in DOMAIN rows' : rows'[i].doc = d => \E j \in DOMAIN rows : rows[j].doc = d
    BY <1>d, <2>2
  <2> QED BY <1>u, <2>1, <2>3, <2>4, WholeApart DEF Goal
<1>2. ASSUME NEW a \in Actors, Fail(a) \/ \E gone : FailMoving(a, gone) PROVE Goal
  <2>1. Busy(a) /\ UNCHANGED <<store, rows, clash>> /\ broken' = broken \cup {On(a)}
    BY <1>2 DEF Fail, FailMoving, Busy, tableVars
  <2>2. doc[a] # d
    BY <2>1 DEF On
  <2>3. \A b \in Actors \ {a} : pc'[b] = pc[b] /\ doc'[b] = doc[b]
    BY <1>2, OperationsProceed DEF Proceeds
  <2> QED BY <1>u, <2>1, <2>2, <2>3, WholeApart DEF Goal
<1>3. ASSUME NEW a \in Actors, Begins(a) PROVE Goal
  <2>1. /\ pc[a] = "idle" /\ phase = "up" /\ UNCHANGED <<store, rows>> /\ clash \subseteq clash' /\ broken \subseteq broken'
        /\ \A b \in Actors \ {a} : pc'[b] = pc[b] /\ doc'[b] = doc[b]
    BY <1>3, <1>t DEF Begins, Start
  <2> QED BY <2>1, WholeApart DEF Goal
<1>4. ASSUME NEW a \in Actors, Store(a) PROVE Goal
  <2>1. Busy(a) /\ pc[a] = "store" /\ UNCHANGED <<rows, clash, broken>> /\ doc[a] \in Docs
        /\ \A b \in Actors \ {a} : pc'[b] = pc[b] /\ doc'[b] = doc[b]
    BY <1>4, <1>u, OperationsProceed DEF Store, Busy, ghostVars, Proceeds
  <2>2. CASE store'[d] = store[d]
    BY <1>u, <2>1, <2>2, WholeApart DEF Goal
  <2>3. CASE store'[d] # store[d]
    <3>1. Create(doc[a], active[doc[a]]) /\ GoTo(a, "storing") /\ doc' = doc
      BY <1>4, <2>3 DEF Store
    <3>2. doc[a] = d /\ ~ Stored(d)
      BY <1>t, <2>1, <2>3, <3>1 DEF Create
    <3>3. pc'[a] = "storing" /\ doc'[a] = d
      BY <1>t, <3>1, <3>2 DEF GoTo
    <3> QED BY <1>r, <2>1, <3>2, <3>3 DEF Goal, Unfilled
  <2> QED BY <2>2, <2>3
<1>5. ASSUME NEW a \in Actors, StoreAll(a) PROVE Goal
  <2>1. Busy(a) /\ pc[a] = "storing" /\ UNCHANGED <<rows, clash, broken>> /\ doc[a] \in Docs
        /\ store' = [store EXCEPT ![doc[a]] = bytes[a]]
        /\ \A b \in Actors \ {a} : pc'[b] = pc[b] /\ doc'[b] = doc[b]
    BY <1>5, <1>u, OperationsProceed DEF StoreAll, Busy, ghostVars, Proceeds, Fill
  <2>2. CASE doc[a] = d
    <3>1. bytes[a] = d
      BY <1>n, <2>1, <2>2 DEF MatchInv, AtStep, On
    <3> QED BY <1>t, <2>1, <2>2, <3>1 DEF Goal
  <2>3. CASE doc[a] # d
    <3>1. store'[d] = store[d]
      BY <1>t, <2>1, <2>3
    <3> QED BY <1>u, <2>1, <2>3, <3>1, WholeApart DEF Goal
  <2> QED BY <2>2, <2>3
<1>6. ASSUME NEW a \in Actors, Insert(a) PROVE Goal
  <2>1. Busy(a) /\ pc[a] = "insert" /\ UNCHANGED <<store, clash, broken>> /\ doc[a] \in Docs
        /\ Promote(doc[a], parent[a]) /\ parent[a] \in Docs \cup {NoDoc}
        /\ \A b \in Actors \ {a} : pc'[b] = pc[b] /\ doc'[b] = doc[b]
    BY <1>6, <1>u, OperationsProceed DEF Insert, Busy, ghostVars, Proceeds, LifeInv, TypeOK
  <2>2. CASE doc[a] = d
    <3>1. \A b \in Actors : Busy(b) /\ doc[b] = d => b = a
      BY <2>1, <2>2 DEF OneInv, On
    <3>2. ~ Unfilled(d)
      BY <1>u, <2>1, <3>1, FillersApart DEF Busy
    <3> QED BY <1>w, <2>1, <3>2
  <2>3. CASE doc[a] # d
    <3>1. \A i \in DOMAIN rows' : rows'[i].doc = d => \E j \in DOMAIN rows : rows[j].doc = d
      BY <1>p, <2>1, <2>3
    <3> QED BY <1>u, <2>1, <2>3, <3>1, WholeApart DEF Goal
  <2> QED BY <2>2, <2>3
<1>7. ASSUME \/ Load \/ Up \/ SeedFails \/ Restart
             \/ \E f \in Files : SeedKnown(f) \/ SeedRetire(f) \/ SeedInsert(f)
      PROVE  Goal
  <2>1. store' = store /\ clash \subseteq clash' /\ broken \subseteq broken'
    BY <1>7 DEF Load, Up, SeedFails, Restart, SeedKnown, SeedRetire, SeedInsert, tableVars, ghostVars
  <2>2. CASE Load \/ Up \/ \E f \in Files : SeedKnown(f) \/ SeedRetire(f) \/ SeedInsert(f)
    <3>1. phase # "up" /\ (stage # "fill" \/ phase # "seed" \/ todo = {})
      BY <2>2, Apart DEF Load, Up, SeedKnown, SeedRetire, SeedInsert, LifeInv, Seeding
    <3>2. ~ Unfilled(d)
      BY <3>1, FillersApart
    <3> QED BY <1>w, <2>1, <3>2
  <2>3. CASE SeedFails
    <3>1. \A f \in todo : active[f] # d
      BY <2>3 DEF SeedFails
    <3>2. ~ Unfilled(d)
      BY <2>3, <3>1, FillersApart DEF SeedFails
    <3> QED BY <1>w, <2>1, <3>2
  <2>4. CASE Restart
    <3>1. NameOf[d] \notin CutShort
      BY <2>4 DEF Restart
    <3>2. ~ Unfilled(d)
      BY <3>1 DEF CutShort, Unfilled, Busy, On
    <3> QED BY <1>w, <2>1, <3>2
  <2> QED BY <1>7, <2>2, <2>3, <2>4
<1>8. ASSUME NEW f \in Files, SeedPut(f) \/ SeedPutAll(f) PROVE Goal
  <2>1. UNCHANGED <<rows, active, clash, broken>> /\ phase = "seed" /\ at' = f
    BY <1>8, Apart DEF SeedPut, SeedPutAll, Recorded, fileVars, ghostVars, LifeInv, Seeding
  <2>2. CASE SeedPut(f)
    <3>1. ~ Unfilled(d)
      BY <2>1, <2>2, FillersApart DEF SeedPut, Recorded
    <3>2. CASE store'[d] = store[d]
      BY <1>w, <2>1, <3>1, <3>2
    <3>3. CASE store'[d] # store[d]
      <4>1. Create(active[f], active[f]) /\ stage' = "fill"
        BY <2>2, <3>3 DEF SeedPut
      <4>2. active[f] = d /\ ~ Stored(d)
        BY <1>t, <3>3, <4>1 DEF Create
      <4>3. Unfilled(d)'
        BY <2>1, <4>1, <4>2 DEF Unfilled
      <4> QED BY <1>r, <2>1, <4>2, <4>3 DEF Goal
    <3> QED BY <3>2, <3>3
  <2>3. CASE SeedPutAll(f)
    <3>1. store' = [store EXCEPT ![active[f]] = active[f]] /\ at = f
      BY <2>3 DEF SeedPutAll, Fill
    <3>2. CASE active[f] = d
      BY <1>t, <3>1, <3>2 DEF Goal
    <3>3. CASE active[f] # d
      <4>1. ~ Unfilled(d) /\ store'[d] = store[d]
        BY <1>t, <2>1, <3>1, <3>3, FillersApart
      <4> QED BY <1>w, <2>1, <4>1
    <3> QED BY <3>2, <3>3
  <2> QED BY <1>8, <2>2, <2>3
<1>9. ASSUME \/ \E e \in Docs : Propose(e) \/ Reject(e) \/ \E f \in Files : Edit(e, f)
             \/ Scan \/ UNCHANGED vars
      PROVE  Goal
  <2>1. UNCHANGED <<rows, store, pc, doc, at, stage, clash>> /\ broken \subseteq broken'
    BY <1>9 DEF Propose, Reject, Edit, Scan, vars, bootVars, opVars, tableVars, ghostVars
  <2>2. active' = active \/ phase # "seed"
    BY <1>9 DEF Propose, Reject, Edit, Scan, vars, fileVars
  <2>3. Unfilled(d) => Unfilled(d)'
    BY <2>1, <2>2, FillersApart DEF Unfilled
  <2> QED BY <2>1, <2>3 DEF Goal, WholeStore
<1>10. ASSUME \/ \E e \in Docs : Sweep(e)
              \/ \E a \in Users, e \in Docs : ApproveByHand(a, e) \/ Rollback(a, e)
              \/ \E a \in Users, n \in Names : Retire(a, n)
              \/ \E n \in Names : Archive(n)
       PROVE  \E a \in Actors : Begins(a)
  BY <1>10, OperationsBegin
<1> QED BY <1>1, <1>2, <1>3, <1>4, <1>5, <1>6, <1>7, <1>8, <1>9, <1>10 DEF Next, Goal

\* Everything at once: the store, and the skills' files with their rows.
LEMMA NextStoreAndFiles ==
    LifeInv /\ OneInv /\ NamesInv /\ MatchInv /\ RowsHaveFiles /\ WholeStore /\ [Next]_vars
      => OneInv' /\ NamesInv' /\ MatchInv' /\ RowsHaveFiles' /\ WholeStore'
BY NextOne, NextNames, NextMatch, NextHaveFiles, NextWhole

LEMMA StoreAndFiles ==
    Spec => [](OneInv /\ NamesInv /\ MatchInv /\ RowsHaveFiles /\ WholeStore)
<1>1. Init => OneInv /\ NamesInv /\ MatchInv /\ RowsHaveFiles /\ WholeStore
  <2> SUFFICES ASSUME Init PROVE OneInv /\ NamesInv /\ MatchInv /\ RowsHaveFiles /\ WholeStore
    OBVIOUS
  <2>1. OneInv
    BY DEF Init, OneInv, OneLive, LiveRows, Busy
  <2>2. NamesInv
    <3>1. ASSUME NEW f \in Docs PROVE active[f] = NoDoc
      <4>1. f \in Files /\ \A e \in Handwritten : FileOf[NameOf[e]] # f
        BY Apart, LifecycleAssumption
      <4> QED BY <4>1 DEF Init
    <3> QED BY <3>1 DEF Init, NamesInv
  <2>3. \A n : ActiveDoc(n) = NoDoc
    BY DEF Init, ActiveDoc, IsActive, LiveRows
  <2>4. phase = "load" /\ \A a \in Actors : ~ Busy(a)
    BY DEF Init, Busy
  <2>5. MatchInv
    BY <2>3, <2>4 DEF MatchInv, Quiet
  <2>6. RowsHaveFiles /\ WholeStore
    BY DEF Init, RowsHaveFiles, WholeStore
  <2> QED BY <2>1, <2>2, <2>5, <2>6
<1> QED BY <1>1, NextStoreAndFiles, LifeInvariant, PTL DEF Spec

\* RowsAreStored: whatever has been active has a file in the store, whichever step
\* of an operation was its last; and the file holds the document, bit for bit, except
\* where operations overlapped or were cut short, or a user bypassed them.
THEOREM RowsStayStored == Spec => []RowsAreStored
<1>1. LifeInv /\ RowsHaveFiles /\ WholeStore => RowsAreStored
  <2> SUFFICES ASSUME LifeInv, RowsHaveFiles, WholeStore, NEW i \in DOMAIN rows
               PROVE  /\ Stored(rows[i].doc)
                      /\ RowName(i) \notin clash \cup broken => store[rows[i].doc] = rows[i].doc
    BY DEF RowsAreStored
  <2>1. Stored(rows[i].doc)
    BY DEF RowsHaveFiles
  <2>2. rows[i].doc \in Docs
    <3>1. rows[i] \in Row
      BY ElementOfSeq, LenProperties DEF LifeInv, TypeOK, HistoryTypeOK
    <3> QED BY <3>1 DEF Row
  <2> QED BY <2>1, <2>2 DEF WholeStore, RowName, Stored
<1> QED BY <1>1, StoreAndFiles, LifeInvariant, PTL DEF Spec

\* FilesMatchHistory: between operations a skill has a file in active/ if and only
\* if it has an active row, and the row's document is in one of its files; except
\* where operations overlapped or were cut short, a user bypassed them, or a file was
\* overwritten with another skill's.
THEOREM FilesFollowHistory == Spec => []FilesMatchHistory
<1>1. LifeInv /\ MatchInv => FilesMatchHistory
  <2> SUFFICES ASSUME LifeInv, MatchInv, NEW n \in Names \ (clash \cup broken), Quiet(n)
               PROVE  /\ FilesOf(n) # {} <=> IsActive(n)
                      /\ IsActive(n) => \E f \in FilesOf(n) : active[f] = ActiveDoc(n)
    BY DEF FilesMatchHistory
  <2>1. TypeOK /\ HistoryTypeOK /\ Agree(n)
    BY DEF LifeInv, TypeOK, MatchInv
  <2>2. \A f \in FilesOf(n) : active[f] \in Kept(n)
    BY DEF FilesOf, Present, Kept
  <2>3. \A d \in Kept(n) : \E f \in FilesOf(n) : active[f] = d
    BY DEF FilesOf, Present, Kept
  <2>4. IsActive(n) <=> ActiveDoc(n) # NoDoc
    BY <2>1, ActiveOrNone
  <2>5. NoDoc \notin Kept(n)
    BY DEF Kept
  <2> QED BY <2>1, <2>2, <2>3, <2>4, <2>5 DEF Agree
<1> QED BY <1>1, StoreAndFiles, LifeInvariant, PTL DEF Spec

=============================================================================
