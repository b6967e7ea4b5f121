---------------------------- MODULE MCSyncQueue ----------------------------
(***************************************************************************)
(* Instances of SyncQueue for TLC: a new account, and the inductive         *)
(* invariant of the runs the queue starts.                                  *)
(***************************************************************************)
EXTENDS SyncQueue, OrderSyncInv, TLC

WorkerSymmetry == Permutations(Workers)

NewAccount(happens) ==
    [source |-> "MERCADO_LIVRE", row |-> NULL, ids |-> {},
     syncedTo |-> NULL, syncedAt |-> NULL, events |-> happens]

NewAccounts == {NewAccount({"crash", "queue", "again"}),
                NewAccount({"crash", "queue", "relist"}),
                NewAccount({"disconnect", "relist"})}

\* A commit whose acknowledgement is lost.
Unacknowledged == {NewAccount({"lostack", "relist"})}

OneClosingTime == {-1}
=============================================================================
