------------------------------- MODULE MCFeeds -------------------------------
(***************************************************************************)
(* Small instances of EventFeeds for TLC: a worker and the checkpoint       *)
(* subscriber publish.                                                     *)
(***************************************************************************)
EXTENDS EventFeeds, TLC

CONSTANTS t1, r1, r2

BothSubscribers == {Feed, Bridge}
WorkerAndFeed == {t1, Feed}

\* The requests for the backlog are alike.
Symmetry == Permutations({r1, r2})

=============================================================================
