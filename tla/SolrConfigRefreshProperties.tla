-------------------- MODULE SolrConfigRefreshProperties --------------------
(***************************************************************************)
(* What a refresh of the Solr configuration promises: correctness          *)
(* properties of SolrConfigRefresh, and the abstract transaction its       *)
(* durable marker implements.                                              *)
(***************************************************************************)
EXTENDS SolrConfigRefresh

(* Type invariant.                                                         *)

RunRecords ==
    [gen : Trees \cup {None}, reindex : BOOLEAN, mark : Markers \cup {None},
     then : SwapLabels \cup {"activate"}, hadPrevious : BOOLEAN,
     recovering : BOOLEAN, runtimeDrift : BOOLEAN, started : BOOLEAN,
     updated : BOOLEAN, reindexed : BOOLEAN]

\* Every variable has its type; a run has locals while it holds the lock.
TypeOK ==
    /\ fs \in CoreDirectory
    /\ host \in Trees \cup {None}
    /\ loaded \in Dirs
    /\ drupal \in [generator : Trees, dirty : BOOLEAN, indexedUnder : Dirs]
    /\ waiting \in [Runs -> [gen : Trees, reindex : BOOLEAN] \cup {None}]
    /\ holder \in Runs \cup {None}
    /\ pc \in Labels
    /\ run \in RunRecords
    /\ base \in Trees \cup {None}
    /\ budget \in [Events -> Nat]
    /\ (holder = None) <=> (pc = "idle")

-----------------------------------------------------------------------------
(* Safety.                                                                 *)

\* Whatever fails and whenever a run dies, the tree to go back to is on disk,
\* as conf or as the previous directory, until Solr has accepted another one
\* and the marker records it.
RollbackAvailable == base # None => base \in {fs.conf, fs.previous}

\* Solr is never asked to create or reload a core from an incomplete tree, and
\* never while the swap of the directories is half done.  An edit of conf amid a
\* transaction (base = None) can have a rollback copy that is half removed
\* taken for the tree to go back to.
SolrReadsWholeTrees ==
    pc \in {"create", "reload"} /\ base # None => fs.conf \in Trees

\* A transaction marked as reconciled is live: conf holds the tree it accepted
\* and the core runs it, even after crashes and restarts of Solr.
AcceptedIsServed ==
    fs.marker # None /\ fs.marker.reconciled /\ base # None
        => fs.conf = fs.marker.desired /\ loaded = fs.marker.desired

\* A run that reports success leaves nothing pending and both copies at its
\* tree; if it says it updated the core or reindexed, the core runs the tree
\* and every item was indexed under it.
SuccessIsReal ==
    pc = "succeeded" =>
        /\ ~fs.pending /\ fs.conf = run.gen /\ host = run.gen
        /\ run.updated /\ base # None => loaded = run.gen
        /\ run.updated /\ run.reindexed /\ base # None
               => drupal.indexedUnder = run.gen

\* Reindex progress on disk is true of Drupal: a transaction is complete only
\* after every item was indexed under the tree it installed, which no retry
\* or superseding transaction may take over from an earlier tree.
ReindexProgressIsTrue ==
    fs.marker # None /\ fs.marker.complete /\ base # None
        => ValidMarker(fs.marker) /\ drupal.indexedUnder = fs.marker.desired

\* The error for a pending directory without a marker asks an operator to
\* remove it: by then nothing in it is needed, conf is the tree to keep.
MarkerlessPendingIsDisposable ==
    holder = None /\ fs.pending /\ fs.marker = None /\ base # None
        => fs.conf = base

OneFailure ==
    /\ \A event \in {"fault", "restart"} : budget[event] + 1 >= Budget[event]
    /\ \A event \in {"crash", "edit"} : budget[event] = Budget[event]

\* With one failing call, also amid a restart of Solr, but no crash and no edit
\* by hand, a failed run leaves the core with a complete configuration whenever
\* it found one.
OneFailureLeavesConf ==
    pc = "failed" /\ base # None /\ OneFailure => fs.conf \in Trees

\* A recorded request to reindex survives failures, crashes and superseding
\* runs until the reindex has completed.
ReindexRequestIsKept ==
    [][fs.marker # None /\ fs.marker.reindex /\ ~fs.marker.complete
          => fs'.marker # None /\ fs'.marker.reindex]_vars

-----------------------------------------------------------------------------
(* Liveness.                                                               *)

\* Once failures stop, repeated runs finish every marked transaction.
PendingCompletes == (fs.marker # None) ~> (fs.marker = None)

\* A core that lost its configuration in a half-done swap gets one back.
ConfRestored == (fs.conf = None /\ base # None) ~> (fs.conf # None)

\* Once failures and updates stop, repeated runs bring the tracked copy, the
\* running copy and the core to what Drupal generates, although a run that
\* generated its tree before the update may still have put back an older one.
Converges ==
    <>[](LET t == drupal.generator IN host = t /\ fs.conf = t /\ loaded = t)

-----------------------------------------------------------------------------
(* The marker implements the abstract transaction.                         *)

txnOf(marker) ==
    IF marker = None THEN None
    ELSE [desired |-> marker.desired, reindex |-> marker.reindex,
          phase |-> CASE marker.complete -> "indexed"
                      [] marker.reset /\ ~marker.complete -> "reset"
                      [] marker.reconciled /\ ~marker.reset /\ ~marker.complete -> "accepted"
                      [] OTHER -> "pending"]

Transaction == INSTANCE PendingTransaction WITH txn <- txnOf(fs.marker)

ASSUME TransactionsAssumption == None \notin Transaction!Transactions

\* The marker on disk goes only through the phases of PendingTransaction.
MarkerIsATransaction == Transaction!TxnSpec

=============================================================================
