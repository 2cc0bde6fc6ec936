------------------------------ MODULE EventFeeds ------------------------------
(***************************************************************************)
(* The bus with both of its subscribers in the desktop program: the bridge  *)
(* to the webview and the checkpoint subscriber, which publishes on the bus *)
(* it reads from.                                                          *)
(***************************************************************************)
EXTENDS CheckpointFeed, DesktopFeed

vars == <<busVars, checkpointVars, desktopVars>>

\* Boot subscribes the checkpoints before anything is published; the bridge
\* subscribes when its task first runs.
Init == BusInit({Feed}) /\ CheckpointInit /\ DesktopInit

\* A publication other than that of a change.
Publish(p) ==
    /\ p # Feed /\ (p \in Tasks => done[p] = 0)
    /\ AppendRow(p, NoWrite)
    /\ UNCHANGED <<checkpointVars, desktopVars>>

Deliver(p) == Send(p) /\ UNCHANGED <<checkpointVars, desktopVars>>

Drop(p) ==
    /\ p # Feed /\ DropPublication(p)
    /\ dropped' = dropped \cup {unsent[p]}
    /\ UNCHANGED <<listening, wire, request, upto, gapless, shown, latest, erased>>

Checkpoints ==
    /\ \/ \E t \in Tasks : Write(t) \/ Announce(t)
       \/ FeedReceive \/ FeedLag \/ Commit \/ CommitFails \/ Report
       \/ \E i \in DOMAIN chain : Revert(i)
    /\ UNCHANGED desktopVars

Desktop ==
    /\ \/ BridgeStart \/ BridgeReceive \/ BridgeLag \/ Listen \/ Push
       \/ \E r \in Requests : Ask(r) \/ ReadBacklog(r) \/ Hydrate(r)
    /\ UNCHANGED checkpointVars

Next ==
    \/ \E p \in Publishers : Publish(p) \/ Deliver(p) \/ Drop(p)
    \/ Checkpoints \/ Desktop

Spec == Init /\ [][Next]_vars

\* Every variable stays in its type.
TypeOK == BusTypeOK /\ CheckpointTypeOK /\ DesktopTypeOK

=============================================================================
