----------------------------- MODULE OrderSync -----------------------------
(***************************************************************************)
(* The resumable order synchronization of one Mercado Livre account:        *)
(* MlOrdersSyncService.syncRecentOrders with the page fetch of MlApiService. *)
(*                                                                          *)
(* Several runs of syncRecentOrders execute at once (queue jobs on several   *)
(* API processes, and inline runs).  Each one reads the persisted checkpoint, *)
(* fetches the page at its cursor and commits page and cursor in one          *)
(* transaction that first compares the stored checkpoint with the one the    *)
(* run observed (checkpointWhere).  Between any two awaits other runs, the   *)
(* marketplace, an administrator, the clock or a crash may act: each action  *)
(* below is the code between two awaits that touch shared state.             *)
(*                                                                          *)
(* How runs are started and retried is the queue's business: here a run may  *)
(* start at any time, and module SyncQueue narrows that to the jobs there are. *)
(***************************************************************************)
EXTENDS OrderWindow, FiniteSets

CONSTANTS
    Workers,        \* concurrent executions of syncRecentOrders
    Orders,         \* external order ids; a newer order has a larger id
    SimulatedIds,   \* the ids of the fixed page of a SIMULATED account
    PageSize,       \* DEFAULT_ORDER_PAGE_SIZE
    MaxRestarts,    \* MAX_PAGINATION_RESTARTS
    FetchErrors,    \* codes classifyError gives to a failed request or page
    Histories,      \* what the database may hold when the behaviour starts, and
                    \* which of "crash", "db", "lostack", "queue", "provider",
                    \* "disconnect", "time", "relist" and "amend" happen in it
    ClosingTimes,   \* date_closed values the marketplace uses
    MaxClock,       \* bound: last instant of the behaviour
    MaxVersion,     \* bound: revisions of an order on the marketplace
    MaxPages        \* bound: completedPages of a SIMULATED account, never reset

ASSUME SyncAssumption ==
    /\ IsFiniteSet(Orders)
    /\ Orders \subseteq Nat
    /\ SimulatedIds \subseteq Orders
    /\ PageSize \in Nat \ {0}
    /\ MaxRestarts \in Nat
    /\ ClosingTimes \subseteq Int

VARIABLES
    clock,
    \* the marketplace: date_closed (NULL: not listed) and revision of each order
    \* (and the exceptional events of the behaviour)
    closed, version, events,
    \* the account row and the rows of its orders (revision stored, 0: no row)
    account, stored,
    \* the marketplace_sync_states row: the columns checkpointWhere compares
    \* (NULL: no row yet), and the two it does not
    checkpoint, importedCount, lastSyncedWindowTo,
    \* each run: its place in the code, the clock value it last read, the window
    \* it computed, the checkpoint it observed, its page, its error code
    pc, time, win, obs, page, code,
    \* history: what other runs committed since a run observed its checkpoint,
    \* and whether the current pass read one unchanging listing
    overtaken, steady

remote == <<closed, version, events>>
row    == <<checkpoint, importedCount, lastSyncedWindowTo>>
db     == <<account, stored, row>>
run    == <<pc, time, win, obs, page, code>>
ghost  == <<overtaken, steady>>
vars   == <<clock, remote, db, run, ghost>>

Status    == {"PARTIAL", "COMPLETE", "FAILED"}
ErrorCode == {"INVALID_ORDER_DATA", "PAGINATION_TOTAL_CHANGED",
              "PAGINATION_INCOMPLETE", "AUTH_EXPIRED", "AUTH_FORBIDDEN",
              "RATE_LIMITED", "SYNC_ERROR"}

Checkpoint ==
    [status : Status, lastError : Nullable(ErrorCode), nextOffset : Nat,
     expectedTotal : Nullable(Nat), completedPages : Nat,
     paginationRestartCount : Nat,
     windowFrom : Nullable(Int), windowTo : Nullable(Int)]

\* OrderPage: the orders by id with their revision, and what the page says of the whole.
IsPage(p) ==
    \E S \in SUBSET Orders :
        p \in [results : [S -> Nat], total : Nat, nextOffset : Nat, complete : BOOLEAN]

\* The window has used up its restarts: only manual intervention moves it on.
Exhausted(c) ==
    /\ c.status = "FAILED"
    /\ c.lastError = "PAGINATION_TOTAL_CHANGED"
    /\ c.paginationRestartCount >= MaxRestarts

\* What the database and the code before it may have left behind: a row of the old
\* schema (no window) or one of this code, with the orders already stored.
WellFormed(c) ==
    /\ c.windowFrom = NULL <=> c.windowTo = NULL
    /\ c.expectedTotal = NULL => c.nextOffset = 0
    /\ c.expectedTotal # NULL => c.nextOffset <= c.expectedTotal
    /\ c.paginationRestartCount <= MaxRestarts

ASSUME HistoryAssumption ==
    /\ NULL \notin Checkpoint \cup Status \cup ErrorCode
    /\ ~IsPage(NULL)
    /\ FetchErrors \subseteq ErrorCode
    /\ \A h \in Histories :
         /\ h.source \in {"MERCADO_LIVRE", "SIMULATED"}
         /\ h.ids \subseteq Orders
         /\ h.row \in Nullable(Checkpoint)
         /\ h.syncedTo \in Nullable(Int)
         /\ h.syncedAt \in Nullable(Int)
         /\ h.row = NULL => h.syncedTo = NULL
         /\ h.row # NULL =>
              /\ WellFormed(h.row)
              /\ h.row.status = "COMPLETE" => h.row.nextOffset = h.row.expectedTotal
              /\ h.row.status = "COMPLETE" /\ h.source = "MERCADO_LIVRE" =>
                     h.syncedTo = h.row.windowTo
              /\ h.row.windowTo = NULL => h.syncedTo = NULL /\ ~Exhausted(h.row)
              /\ h.source = "MERCADO_LIVRE" /\ h.syncedTo # NULL =>
                     h.row.windowFrom <= h.syncedTo

\* What became of a run: returned, threw (to be retried), threw an
\* UnrecoverableError, or died with its process.
Ended == {"idle", "ok", "retry", "fatal", "dead"}

Place == Ended \cup {"read", "create", "reopen", "init", "fetch", "persist",
                     "restart", "fail", "exhaust", "enqueue"}

\* Runs that hold an observed checkpoint.
Holders == {v \in Workers : obs[v] # NULL}

StoredIds(s) == {o \in Orders : s[o] > 0}

Init ==
    \E h \in Histories :
        /\ clock = 0
        /\ closed \in [Orders -> Nullable(ClosingTimes)]
        /\ version = [o \in Orders |-> 1]
        /\ events = h.events
        /\ stored = [o \in Orders |-> IF o \in h.ids THEN 1 ELSE 0]
        /\ checkpoint = h.row
        /\ importedCount = Cardinality(h.ids)
        /\ lastSyncedWindowTo = h.syncedTo
        /\ account = [status |-> "ACTIVE", source |-> h.source,
                      lastSyncState |-> IF h.row = NULL THEN NULL ELSE h.row.status,
                      lastSyncError |-> IF h.row = NULL THEN NULL ELSE h.row.lastError,
                      lastSyncedAt |-> h.syncedAt]
        /\ pc = [w \in Workers |-> "idle"]
        /\ time = [w \in Workers |-> NULL]
        /\ win = [w \in Workers |-> NULL]
        /\ obs = [w \in Workers |-> NULL]
        /\ page = [w \in Workers |-> NULL]
        /\ code = [w \in Workers |-> NULL]
        /\ overtaken = [w \in Workers |-> {}]
        /\ steady = (h.row = NULL)
-----------------------------------------------------------------------------
\* Control flow of a run.

Goto(w, place) == pc' = [pc EXCEPT ![w] = place]

\* The run is past the code that uses its locals.
End(w, place) ==
    /\ Goto(w, place)
    /\ time' = [time EXCEPT ![w] = NULL]
    /\ win' = [win EXCEPT ![w] = NULL]
    /\ obs' = [obs EXCEPT ![w] = NULL]
    /\ page' = [page EXCEPT ![w] = NULL]
    /\ code' = [code EXCEPT ![w] = NULL]

\* A commit of the given kind ("page", "restart", "reopen") overtakes every other
\* run that holds a checkpoint; one that also holds a response when the window is
\* restarted is "late".
Overtake(w, kind) ==
    overtaken' = [v \in Workers |->
        CASE v = w -> {}
          [] v \in Holders \ {w} ->
               overtaken[v] \cup {kind}
                 \cup (IF kind = "restart" /\ page[v] # NULL THEN {"late"} ELSE {})
          [] OTHER -> overtaken[v]]

Forget(w) == overtaken' = [overtaken EXCEPT ![w] = {}] /\ UNCHANGED steady

\* Mutant: the where clause compares the cursor only.
checkpointWhereOffset(w) == checkpoint.nextOffset = obs[w].nextOffset

\* The stored row is still the one the run observed.
checkpointWhere(w) == checkpoint = obs[w]

\* Mutant: an exhausted window is resumed.
ProceedAlways(w, c) ==
    /\ Goto(w, "fetch")
    /\ obs' = [obs EXCEPT ![w] = c]
    /\ time' = [time EXCEPT ![w] = clock]
    /\ win' = [win EXCEPT ![w] = NULL]
    /\ UNCHANGED <<page, code>>

\* With the state in hand: take attemptAt, refuse an exhausted window, or go on.
Proceed(w, c) ==
    IF Exhausted(c)
      THEN End(w, "fatal")
      ELSE /\ Goto(w, "fetch")
           /\ obs' = [obs EXCEPT ![w] = c]
           /\ time' = [time EXCEPT ![w] = clock]
           /\ win' = [win EXCEPT ![w] = NULL]
           /\ UNCHANGED <<page, code>>

FailWith(w, c, place) ==
    /\ Goto(w, place)
    /\ code' = [code EXCEPT ![w] = c]
    /\ page' = [page EXCEPT ![w] = NULL]
    /\ UNCHANGED <<time, win, obs>>
-----------------------------------------------------------------------------
\* syncRecentOrders up to the page: account, clock, checkpoint, window.

\* The account must be ACTIVE; currentWindowTo is read before the checkpoint.
Start(w) ==
    /\ pc[w] \in Ended
    /\ account.status = "ACTIVE"
    /\ account.source = "SIMULATED" /\ checkpoint # NULL =>
           checkpoint.completedPages < MaxPages
    /\ Goto(w, "read")
    /\ time' = [time EXCEPT ![w] = floorToUtcHour(clock)]
    /\ UNCHANGED <<win, obs, page, code, clock, remote, db, ghost>>

\* findFirstOrThrow outside the try block: nothing is written.
StartRefused(w) ==
    /\ pc[w] \in Ended
    /\ account.status # "ACTIVE"
    /\ End(w, "retry")
    /\ UNCHANGED <<clock, remote, db, ghost>>

\* A COMPLETE state starts a fresh pass; PARTIAL and FAILED states resume.
Reopens(c) == c.status = "COMPLETE" /\ account.source # "SIMULATED"

ReadCheckpoint(w) ==
    /\ pc[w] = "read"
    /\ overtaken' = [overtaken EXCEPT ![w] = {}]
    /\ UNCHANGED <<clock, remote, db, steady>>
    /\ \/ /\ checkpoint = NULL
          /\ Goto(w, "create")
          /\ win' = [win EXCEPT ![w] = createOrderSyncWindow(time[w], NULL)]
          /\ UNCHANGED <<time, obs, page, code>>
       \/ /\ checkpoint # NULL
          /\ Reopens(checkpoint)
          /\ Goto(w, "reopen")
          /\ obs' = [obs EXCEPT ![w] = checkpoint]
          /\ win' = [win EXCEPT ![w] = createOrderSyncWindow(time[w],
                         Coalesce(lastSyncedWindowTo,
                             Coalesce(checkpoint.windowTo, account.lastSyncedAt)))]
          /\ UNCHANGED <<time, page, code>>
       \/ /\ checkpoint # NULL
          /\ ~Reopens(checkpoint)
          /\ NULL \in {checkpoint.windowFrom, checkpoint.windowTo}
          /\ Goto(w, "init")
          /\ obs' = [obs EXCEPT ![w] = checkpoint]
          /\ win' = [win EXCEPT ![w] = createOrderSyncWindow(time[w],
                         Coalesce(lastSyncedWindowTo, account.lastSyncedAt))]
          /\ UNCHANGED <<time, page, code>>
       \/ /\ checkpoint # NULL
          /\ ~Reopens(checkpoint)
          /\ NULL \notin {checkpoint.windowFrom, checkpoint.windowTo}
          /\ Proceed(w, checkpoint)

FreshCheckpoint(window) ==
    [status |-> "PARTIAL", lastError |-> NULL, nextOffset |-> 0,
     expectedTotal |-> NULL, completedPages |-> 0, paginationRestartCount |-> 0,
     windowFrom |-> window.from, windowTo |-> window.to]

\* The unique key lets one of two concurrent creations through; the other throws.
CreateState(w) ==
    /\ pc[w] = "create"
    /\ UNCHANGED <<clock, remote, account, stored>>
    /\ \/ /\ checkpoint = NULL
          /\ checkpoint' = FreshCheckpoint(win[w])
          /\ importedCount' = 0
          /\ lastSyncedWindowTo' = NULL
          /\ Proceed(w, checkpoint')
          /\ overtaken' = [overtaken EXCEPT ![w] = {}]
          /\ steady' = TRUE
       \/ /\ checkpoint # NULL
          /\ End(w, "retry")
          /\ UNCHANGED <<row, ghost>>

\* Mutant: the orders go with their count.
ReopenWindowClearing(w) ==
    /\ pc[w] = "reopen"
    /\ UNCHANGED <<clock, remote, account, lastSyncedWindowTo>>
    /\ checkpointWhere(w)
    /\ checkpoint' = FreshCheckpoint(win[w])
    /\ importedCount' = 0
    /\ stored' = [o \in Orders |-> 0]
    /\ Proceed(w, checkpoint')
    /\ Overtake(w, "reopen")
    /\ steady' = TRUE

\* A COMPLETE checkpoint is reopened for a new pass.
ReopenWindow(w) ==
    /\ pc[w] = "reopen"
    /\ UNCHANGED <<clock, remote, account, stored, lastSyncedWindowTo>>
    /\ \/ /\ checkpointWhere(w)
          /\ checkpoint' = FreshCheckpoint(win[w])
          /\ importedCount' = 0
          /\ Proceed(w, checkpoint')
          /\ Overtake(w, "reopen")
          /\ steady' = TRUE
       \/ /\ ~checkpointWhere(w)
          /\ End(w, "ok")
          /\ Forget(w)
          /\ UNCHANGED <<checkpoint, importedCount>>

\* A row older than the window columns is given its window once.
InitializeWindow(w) ==
    /\ pc[w] = "init"
    /\ UNCHANGED <<clock, remote, account, stored, importedCount,
                   lastSyncedWindowTo>>
    /\ \/ /\ checkpointWhere(w)
          /\ checkpoint' = [checkpoint EXCEPT !.windowFrom = win[w].from,
                                              !.windowTo = win[w].to]
          /\ Proceed(w, checkpoint')
          /\ Forget(w)
       \/ /\ ~checkpointWhere(w)
          /\ End(w, "ok")
          /\ Forget(w)
          /\ UNCHANGED checkpoint
-----------------------------------------------------------------------------
\* The page: MlApiService.fetchSellerOrdersPage against the marketplace.

\* The orders a search for closing dates from..to finds, and the place of one
\* of them in the result (sort=date_desc).
InWindow(from, to) ==
    {o \in Orders : closed[o] # NULL /\ from <= closed[o] /\ closed[o] <= to}

Position(o, found) == Cardinality({p \in found : p > o})

Found(c) == InWindow(c.windowFrom, c.windowTo)

Slice(found, offset, n) ==
    {o \in found : offset <= Position(o, found) /\ Position(o, found) < offset + n}

\* Mutants: a page is taken to be full; the last page is taken one order early.
OrderPageFull(found, offset, n) ==
    [results |-> [o \in Slice(found, offset, n) |-> version[o]],
     total |-> Cardinality(found),
     nextOffset |-> IF offset + PageSize < Cardinality(found)
                      THEN offset + PageSize ELSE Cardinality(found),
     complete |-> offset + PageSize >= Cardinality(found)]

OrderPageEarly(found, offset, n) ==
    [results |-> [o \in Slice(found, offset, n) |-> version[o]],
     total |-> Cardinality(found),
     nextOffset |-> offset + n,
     complete |-> offset + n + 1 >= Cardinality(found)]

OrderPage(found, offset, n) ==
    [results |-> [o \in Slice(found, offset, n) |-> version[o]],
     total |-> Cardinality(found),
     nextOffset |-> offset + n,
     complete |-> offset + n >= Cardinality(found)]

\* The request can be made: account still ACTIVE, window in order.
Requestable(w) ==
    /\ account.status = "ACTIVE"
    /\ obs[w].windowFrom <= obs[w].windowTo

\* Mutant: one restart too many.
TotalChangedOnceMore(w, found) ==
    IF obs[w].paginationRestartCount > MaxRestarts
      THEN FailWith(w, "PAGINATION_TOTAL_CHANGED", "exhaust")
      ELSE /\ Goto(w, "restart")
           /\ page' = [page EXCEPT ![w] = OrderPage(found, 0, 0)]
           /\ UNCHANGED <<time, win, obs, code>>

\* MlOrderPaginationTotalChangedError: restart the window or, out of restarts,
\* fail it for good.
TotalChanged(w, found) ==
    IF obs[w].paginationRestartCount >= MaxRestarts
      THEN FailWith(w, "PAGINATION_TOTAL_CHANGED", "exhaust")
      ELSE /\ Goto(w, "restart")
           /\ page' = [page EXCEPT ![w] = OrderPage(found, 0, 0)]
           /\ UNCHANGED <<time, win, obs, code>>

\* One request and its answer.  The marketplace may return fewer orders than asked.
FetchPage(w) ==
    /\ pc[w] = "fetch"
    /\ account.source = "MERCADO_LIVRE"
    /\ Requestable(w)
    /\ UNCHANGED <<clock, remote, db, ghost>>
    /\ LET found  == Found(obs[w])
           total  == Cardinality(found)
           offset == obs[w].nextOffset
       IN  \/ /\ offset > total
              /\ TotalChanged(w, found)
           \/ \E n \in 0..PageSize :
                /\ offset + n <= total
                /\ \/ /\ n = 0
                      /\ offset < total
                      /\ FailWith(w, "PAGINATION_INCOMPLETE", "fail")
                   \/ /\ n > 0 \/ offset = total
                      /\ obs[w].expectedTotal \notin {NULL, total}
                      /\ TotalChanged(w, found)
                   \/ /\ n > 0 \/ offset = total
                      /\ obs[w].expectedTotal \in {NULL, total}
                      /\ Goto(w, "persist")
                      /\ page' = [page EXCEPT ![w] = OrderPage(found, offset, n)]
                      /\ UNCHANGED <<time, win, obs, code>>

\* No usable page: account disconnected meanwhile, window out of order, HTTP
\* error (after the one token refresh of a 401), malformed paging, or an order
\* persistPage refuses before its transaction.
FetchFails(w) ==
    /\ pc[w] = "fetch"
    /\ account.source = "MERCADO_LIVRE"
    /\ \/ ~Requestable(w) /\ FailWith(w, "SYNC_ERROR", "fail")
       \/ "provider" \in events /\ Requestable(w) /\ \E c \in FetchErrors : FailWith(w, c, "fail")
    /\ UNCHANGED <<clock, remote, db, ghost>>

\* A SIMULATED account has one fixed page and no marketplace.
SimulatePage(w) ==
    /\ pc[w] = "fetch"
    /\ account.source = "SIMULATED"
    /\ Goto(w, "persist")
    /\ page' = [page EXCEPT ![w] =
                   [results |-> [o \in SimulatedIds |-> 1],
                    total |-> Cardinality(SimulatedIds),
                    nextOffset |-> Cardinality(SimulatedIds),
                    complete |-> TRUE]]
    /\ UNCHANGED <<time, win, obs, code, clock, remote, db, ghost>>
-----------------------------------------------------------------------------
\* The transactions.  Each starts with updateMany(checkpointWhere): a run whose
\* observed checkpoint is no longer the stored one changes nothing and returns.

Superseded(w) ==
    /\ ~checkpointWhere(w)
    /\ End(w, "ok")
    /\ Forget(w)
    /\ UNCHANGED <<clock, remote, db>>

\* Mutant: the count adds up the pages, replayed ones too.
CountPages(s, p) == importedCount + Cardinality(DOMAIN p.results)

\* tx.order.count after the upserts of page p left the orders s.
CountOrders(s, p) == Cardinality(StoredIds(s))

PageStatus(p) == IF p.complete THEN "COMPLETE" ELSE "PARTIAL"

\* The checkpoint columns after page p.
Persisted(c, p) ==
    [c EXCEPT !.status = PageStatus(p), !.lastError = NULL, !.nextOffset = p.nextOffset,
              !.expectedTotal = p.total, !.completedPages = @ + 1]

\* persistPage: cursor, orders, count and account in one transaction.
PersistTx(w) ==
    LET p == page[w]
    IN  /\ checkpointWhere(w)
        /\ checkpoint' = Persisted(obs[w], p)
        /\ lastSyncedWindowTo' = IF p.complete THEN obs[w].windowTo
                                               ELSE lastSyncedWindowTo
        /\ stored' = [o \in Orders |-> IF o \in DOMAIN p.results
                                         THEN p.results[o] ELSE stored[o]]
        /\ importedCount' = CountOrders(stored', p)
        /\ account' = [account EXCEPT
               !.lastSyncState = PageStatus(p), !.lastSyncError = NULL,
               !.lastSyncedAt = IF p.complete THEN time[w] ELSE @]
        /\ steady' = (steady /\ "reopen" \notin overtaken[w])
        /\ Overtake(w, "page")
        /\ UNCHANGED <<clock, remote>>

PersistPage(w) ==
    /\ pc[w] = "persist"
    /\ \/ /\ PersistTx(w)
          /\ End(w, IF page[w].complete THEN "ok" ELSE "enqueue")
       \/ Superseded(w)

\* Mutant: a restart is not counted.
RestartedUncounted(c, total) ==
    [c EXCEPT !.status = "PARTIAL", !.nextOffset = 0, !.expectedTotal = total,
              !.completedPages = 0, !.lastError = "PAGINATION_TOTAL_CHANGED"]

\* Mutant: a restart reads only the overlap again.
RestartedRecent(c, total) ==
    [c EXCEPT !.status = "PARTIAL", !.nextOffset = 0, !.expectedTotal = total,
              !.completedPages = 0, !.paginationRestartCount = @ + 1,
              !.lastError = "PAGINATION_TOTAL_CHANGED", !.windowFrom = c.windowTo - Overlap]

\* The checkpoint columns after a restart that saw the given total.
Restarted(c, total) ==
    [c EXCEPT !.status = "PARTIAL", !.nextOffset = 0, !.expectedTotal = total,
              !.completedPages = 0, !.paginationRestartCount = @ + 1,
              !.lastError = "PAGINATION_TOTAL_CHANGED"]

\* restartWindow: back to the first page of the same window.
RestartTx(w) ==
    /\ checkpointWhere(w)
    /\ checkpoint' = Restarted(obs[w], page[w].total)
    /\ account' = [account EXCEPT !.lastSyncState = "PARTIAL",
                                  !.lastSyncError = "PAGINATION_TOTAL_CHANGED"]
    /\ steady' = TRUE
    /\ Overtake(w, "restart")
    /\ UNCHANGED <<clock, remote, stored, importedCount, lastSyncedWindowTo>>

RestartWindow(w) ==
    /\ pc[w] = "restart"
    /\ \/ RestartTx(w) /\ End(w, "enqueue")
       \/ Superseded(w)

\* Mutant: the account is marked even when the checkpoint has moved on.
FailPassUnclaimed(w) ==
    /\ pc[w] \in {"fail", "exhaust"}
    /\ checkpoint' = IF checkpointWhere(w)
                       THEN [obs[w] EXCEPT !.status = "FAILED", !.lastError = code[w]]
                       ELSE checkpoint
    /\ account' = [account EXCEPT !.lastSyncState = "FAILED", !.lastSyncError = code[w]]
    /\ End(w, IF pc[w] = "exhaust" THEN "fatal" ELSE "retry")
    /\ Forget(w)
    /\ UNCHANGED <<clock, remote, stored, importedCount, lastSyncedWindowTo>>

\* The outer catch: FAILED with its code, cursor untouched, then rethrow.
FailPass(w) ==
    /\ pc[w] \in {"fail", "exhaust"}
    /\ \/ /\ checkpointWhere(w)
          /\ checkpoint' = [obs[w] EXCEPT !.status = "FAILED", !.lastError = code[w]]
          /\ account' = [account EXCEPT !.lastSyncState = "FAILED",
                                        !.lastSyncError = code[w]]
          /\ End(w, IF pc[w] = "exhaust" THEN "fatal" ELSE "retry")
          /\ Forget(w)
          /\ UNCHANGED <<clock, remote, stored, importedCount, lastSyncedWindowTo>>
       \/ Superseded(w)

\* The continuation job, outside the try block.
EnqueueContinuation(w) ==
    /\ pc[w] = "enqueue"
    /\ End(w, "ok")
    /\ UNCHANGED <<clock, remote, db, ghost>>

EnqueueFails(w) ==
    /\ "queue" \in events
    /\ pc[w] = "enqueue"
    /\ End(w, "retry")
    /\ UNCHANGED <<clock, remote, db, ghost>>

\* The database refuses a statement or rolls a transaction back.  Inside the try
\* block that becomes a SYNC_ERROR to record, elsewhere the run throws.
DatabaseFails(w) ==
    /\ "db" \in events
    /\ \/ /\ pc[w] \in {"read", "create", "reopen", "init", "fail", "exhaust"}
          /\ End(w, "retry")
          /\ Forget(w)
       \/ /\ pc[w] \in {"persist", "restart"}
          /\ FailWith(w, "SYNC_ERROR", "fail")
          /\ UNCHANGED ghost
    /\ UNCHANGED <<clock, remote, db>>

\* The transaction commits but its acknowledgement is lost, so the run sees an
\* error and goes on to record it.
CommitUnacknowledged(w) ==
    /\ "lostack" \in events
    /\ \/ pc[w] = "persist" /\ PersistTx(w)
       \/ pc[w] = "restart" /\ RestartTx(w)
    /\ FailWith(w, "SYNC_ERROR", "fail")

\* The process dies; a transaction in progress is rolled back.
Crash(w) ==
    /\ "crash" \in events
    /\ pc[w] \notin Ended
    /\ End(w, "dead")
    /\ Forget(w)
    /\ UNCHANGED <<clock, remote, db>>
-----------------------------------------------------------------------------
\* Everything else that happens meanwhile.

Tick ==
    /\ "time" \in events
    /\ clock < MaxClock
    /\ clock' = clock + 1
    /\ UNCHANGED <<remote, db, run, ghost>>

\* An order enters the listing, possibly late (date_closed in the past), leaves
\* it, or moves in it.
Relist(o) ==
    /\ "relist" \in events
    /\ account.source = "MERCADO_LIVRE"
    /\ \E t \in Nullable({u \in ClosingTimes : u <= clock}) :
         /\ t # closed[o]
         /\ closed' = [closed EXCEPT ![o] = t]
    /\ UNCHANGED <<clock, version, events, db, run, overtaken>>
    /\ steady' = (/\ steady
                  /\ \/ checkpoint = NULL
                     \/ Found(checkpoint)' = Found(checkpoint))

\* An order changes (paid, cancelled, amount) without moving.
Amend(o) ==
    /\ account.source = "MERCADO_LIVRE"
    /\ closed[o] # NULL
    /\ "amend" \in events
    /\ version[o] < MaxVersion
    /\ version' = [version EXCEPT ![o] = @ + 1]
    /\ UNCHANGED <<clock, closed, events, db, run, ghost>>

\* IntegrationsService.disconnect
Disconnect ==
    /\ "disconnect" \in events
    /\ account.status = "ACTIVE"
    /\ account' = [account EXCEPT !.status = "DISCONNECTED"]
    /\ UNCHANGED <<clock, remote, stored, row, run, ghost>>

\* The account upsert that ends MlOAuthService.exchangeCode
Reconnect ==
    /\ account.status = "DISCONNECTED"
    /\ account.source = "MERCADO_LIVRE"
    /\ account' = [account EXCEPT !.status = "ACTIVE"]
    /\ UNCHANGED <<clock, remote, stored, row, run, ghost>>

\* The steps of a run that the code takes by itself.
Step(w) ==
    \/ ReadCheckpoint(w)
    \/ CreateState(w)
    \/ ReopenWindow(w)
    \/ InitializeWindow(w)
    \/ FetchPage(w)
    \/ FetchFails(w)
    \/ SimulatePage(w)
    \/ PersistPage(w)
    \/ RestartWindow(w)
    \/ FailPass(w)

Fault(w) ==
    \/ DatabaseFails(w)
    \/ CommitUnacknowledged(w)
    \/ Crash(w)

Environment ==
    \/ Tick
    \/ \E o \in Orders : Relist(o) \/ Amend(o)
    \/ Disconnect
    \/ Reconnect

Next ==
    \/ \E w \in Workers :
          \/ Start(w)
          \/ StartRefused(w)
          \/ Step(w)
          \/ EnqueueContinuation(w)
          \/ EnqueueFails(w)
          \/ Fault(w)
    \/ Environment

Spec == Init /\ [][Next]_vars
-----------------------------------------------------------------------------
\* Properties.

RowTypeOK ==
    /\ clock \in Nat
    /\ closed \in [Orders -> Nullable(Int)]
    /\ version \in [Orders -> Nat]
    /\ stored \in [Orders -> Nat]
    /\ account \in [status : {"ACTIVE", "DISCONNECTED"},
                    source : {"MERCADO_LIVRE", "SIMULATED"},
                    lastSyncState : Nullable(Status),
                    lastSyncError : Nullable(ErrorCode),
                    lastSyncedAt : Nullable(Int)]
    /\ checkpoint \in Nullable(Checkpoint)
    /\ importedCount \in Nat
    /\ lastSyncedWindowTo \in Nullable(Int)
    /\ steady \in BOOLEAN

RunTypeOK ==
    /\ pc \in [Workers -> Place]
    /\ time \in [Workers -> Nullable(Int)]
    /\ win \in [Workers -> Nullable([from : Int, to : Int])]
    /\ obs \in [Workers -> Nullable(Checkpoint)]
    /\ DOMAIN page = Workers
    /\ \A w \in Workers : page[w] = NULL \/ IsPage(page[w])
    /\ code \in [Workers -> Nullable(ErrorCode)]
    /\ overtaken \in [Workers -> SUBSET {"page", "restart", "reopen", "late"}]

\* Type invariant of the database rows, the marketplace and the runs.
TypeOK == RowTypeOK /\ RunTypeOK

\* Some other run committed a page or a restart since w observed its checkpoint.
Stale(w) == overtaken[w] \cap {"page", "restart"} # {}

\* checkpointWhere fences: within one pass, a run whose checkpoint another run's
\* page or restart has overtaken never matches the stored row again, whatever
\* errors, retries and restarts come between.  So of the runs that fetch the same
\* page at most one commits it, and a restart invalidates every page in flight.
FencedWithinPass ==
    \A w \in Holders :
        Stale(w) /\ "reopen" \notin overtaken[w] => ~checkpointWhere(w)

\* A persisted order never goes back to an older revision, except through a run
\* that a reopening of the window overtook between its read and its commit.
RollbackOnlyAcrossReopen ==
    [][\A o \in Orders :
          stored'[o] < stored[o] =>
              \E w \in Workers : /\ pc[w] = "persist"
                                 /\ pc'[w] # "persist"
                                 /\ "reopen" \in overtaken[w]]_vars

\* "a retry cannot advance the cursor without its data": while the listing of the
\* window has not moved under the pass, every order ranked before the stored
\* cursor is stored, so a COMPLETE pass holds the whole window.
CursorCovered ==
    checkpoint # NULL /\ steady /\ account.source = "MERCADO_LIVRE" =>
        LET found == Found(checkpoint)
        IN  \A o \in found :
              Position(o, found) < checkpoint.nextOffset => stored[o] > 0

\* COMPLETE is only ever reached at the end of the listing, and the boundary the
\* next pass of a real account starts from is the one of the pass that completed.
CompleteIsWhole ==
    checkpoint # NULL /\ checkpoint.status = "COMPLETE" =>
        /\ checkpoint.nextOffset = checkpoint.expectedTotal
        /\ account.source = "MERCADO_LIVRE" => lastSyncedWindowTo = checkpoint.windowTo

\* A pass restarts at most MaxRestarts times, counting the concurrent runs that
\* each see the total change.
RestartBudget ==
    checkpoint # NULL => checkpoint.paginationRestartCount <= MaxRestarts

\* "Exhausted windows require manual intervention, including after a worker
\* restart": no run, also none that was in flight, moves an exhausted checkpoint.
ExhaustedIsFinal ==
    [][checkpoint # NULL /\ Exhausted(checkpoint) => checkpoint' = checkpoint]_vars

\* "a retry keeps the same window instead of moving its boundary": a window moves
\* only when a COMPLETE pass is reopened or a row without one is given its first.
WindowIsFixed ==
    [][checkpoint # NULL /\ checkpoint.status # "COMPLETE"
         /\ checkpoint.windowTo # NULL =>
           /\ checkpoint'.windowFrom = checkpoint.windowFrom
           /\ checkpoint'.windowTo = checkpoint.windowTo]_vars

\* Successive windows leave no gap: the window being read starts at or before the
\* last completed boundary, also when several runs reopen at once.
NoGap ==
    checkpoint # NULL /\ lastSyncedWindowTo # NULL /\ account.source = "MERCADO_LIVRE" =>
        checkpoint.windowFrom <= lastSyncedWindowTo

\* The number shown beside a known total ("armazenados no histórico") is the number
\* of orders stored: it is never shown between the reset of a reopening and the
\* recount of the first page.
ShownCountIsStored ==
    checkpoint # NULL /\ checkpoint.expectedTotal # NULL =>
        importedCount = Cardinality(StoredIds(stored))

\* The failure the report and the account list show is the checkpoint's: the
\* account row never claims a failure the checkpoint has left, nor hides one.
AccountMirrorsFailure ==
    checkpoint # NULL =>
        /\ checkpoint.status = "FAILED" => /\ account.lastSyncState = "FAILED"
                                           /\ account.lastSyncError = checkpoint.lastError
        /\ account.lastSyncState = "FAILED" => checkpoint.status = "FAILED"

\* "A late response from before a restart cannot advance the cursor or overwrite
\* confirmed data": a run that fetched its page before some other run restarted
\* the window commits nothing.
LateResponseIsRejected ==
    [][\A w \in Workers :
          pc[w] = "persist" /\ pc'[w] # "persist" /\ "late" \in overtaken[w] =>
              UNCHANGED <<checkpoint, stored>>]_vars
=============================================================================
