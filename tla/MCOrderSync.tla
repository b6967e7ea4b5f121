---------------------------- MODULE MCOrderSync ----------------------------
(***************************************************************************)
(* Instances of OrderSync for TLC.                                          *)
(***************************************************************************)
EXTENDS OrderSync, TLC

WorkerSymmetry == Permutations(Workers)

\* A new installation: no checkpoint row.
NewAccount(source, happens) ==
    [source |-> source, row |-> NULL, ids |-> {}, syncedTo |-> NULL, syncedAt |-> NULL,
     events |-> happens]

\* A row as the code before the window columns left it.
Legacy(source, status, offset, total, ids, syncedAt, happens) ==
    [source |-> source,
     row |-> [status |-> status, lastError |-> NULL, nextOffset |-> offset,
              expectedTotal |-> total, completedPages |-> offset,
              paginationRestartCount |-> 0, windowFrom |-> NULL, windowTo |-> NULL],
     ids |-> ids, syncedTo |-> NULL, syncedAt |-> syncedAt, events |-> happens]

\* A first pass over no orders, completed in the hour before.
OnePassDone(happens) ==
    [source |-> "MERCADO_LIVRE",
     row |-> [status |-> "COMPLETE", lastError |-> NULL, nextOffset |-> 0,
              expectedTotal |-> 0, completedPages |-> 1,
              paginationRestartCount |-> 0,
              windowFrom |-> 0 - InitialWindow, windowTo |-> 0],
     ids |-> {}, syncedTo |-> 0, syncedAt |-> 0, events |-> happens]

\* Each kind of history with the events that threaten it.
AllHistories ==
    {NewAccount("MERCADO_LIVRE", {"provider", "relist"}),
     NewAccount("MERCADO_LIVRE", {"crash", "db", "lostack", "queue", "relist"}),
     OnePassDone({"time"}),
     OnePassDone({"amend"}),
     Legacy("MERCADO_LIVRE", "PARTIAL", 1, 2, {2}, NULL, {"relist"}),
     Legacy("MERCADO_LIVRE", "PARTIAL", 1, 2, {2}, NULL, {"disconnect"}),
     Legacy("MERCADO_LIVRE", "COMPLETE", 1, 1, {1}, -1, {"relist"}),
     Legacy("MERCADO_LIVRE", "FAILED", 0, NULL, {}, NULL, {"relist"}),
     Legacy("SIMULATED", "COMPLETE", 2, 2, {1, 2}, -1, {"disconnect"}),
     NewAccount("SIMULATED", {"disconnect"})}

\* A later pass whose orders move and change while it is read.
LaterPass == {OnePassDone({"amend", "relist"})}

OneClosingTime == {-1}
=============================================================================
