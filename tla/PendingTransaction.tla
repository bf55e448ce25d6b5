------------------------- MODULE PendingTransaction -------------------------
(***************************************************************************)
(* What the durable marker of a Solr config refresh promises, whatever     *)
(* directories are moved to keep the promise: one transaction at a time    *)
(* goes from pending to accepted by Solr, then, if it was asked to         *)
(* reindex, over the reset of the trackers to the completed index, and     *)
(* only then disappears.  A superseding transaction starts from the        *)
(* beginning and inherits the request to reindex.                          *)
(***************************************************************************)
CONSTANTS Trees, None

VARIABLE txn

Phases == {"pending", "accepted", "reset", "indexed"}
Transactions == [desired : Trees, reindex : BOOLEAN, phase : Phases]

TxnInit == txn = None

Begin == /\ txn = None
         /\ \E t \in Trees, r \in BOOLEAN :
               txn' = [desired |-> t, reindex |-> r, phase |-> "pending"]

RequestReindex == /\ txn # None
                  /\ txn.phase \in {"pending", "accepted"}
                  /\ txn' = [txn EXCEPT !.reindex = TRUE]

Advance(from, to) == txn # None /\ txn.phase = from /\ txn' = [txn EXCEPT !.phase = to]

Accept == Advance("pending", "accepted")
ResetTrackers == Advance("accepted", "reset") /\ txn.reindex
Index == Advance("reset", "indexed")

Supersede == /\ txn # None
             /\ \E t \in Trees, r \in BOOLEAN :
                   /\ txn.reindex => r
                   /\ txn' = [desired |-> t, reindex |-> r, phase |-> "pending"]

Complete == /\ txn # None
            /\ IF txn.reindex THEN txn.phase = "indexed" ELSE txn.phase = "accepted"
            /\ txn' = None

TxnNext == Begin \/ RequestReindex \/ Accept \/ ResetTrackers \/ Index \/ Supersede \/ Complete

TxnSpec == TxnInit /\ [][TxnNext]_txn
=============================================================================
