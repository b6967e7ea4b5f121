-------------------------- MODULE OrderSyncCursor --------------------------
(***************************************************************************)
(* Proof that the stored cursor never passes an order that is not stored,    *)
(* while the listing of the window does not move under the pass.             *)
(***************************************************************************)
EXTENDS OrderSyncProofs

\* What the provers may take for a step.
USE SMTT(30), ZenonT(30)

\* The place of an order in a listing is a natural number.
LEMMA PositionNat ==
    ASSUME NEW found \in SUBSET Orders, NEW o
    PROVE  Position(o, found) \in Nat
BY Zenon, CardinalityNat DEF Position

\* Of two places in a listing, one that is not at or behind the other is before it.
LEMMA NotBehind == ASSUME NEW i \in Nat, NEW j \in Nat, ~(j <= i) PROVE i < j
OBVIOUS

\* A search returns orders.
LEMMA FoundOrders == ASSUME NEW c PROVE Found(c) \in SUBSET Orders
BY Zenon DEF Found, InWindow
-----------------------------------------------------------------------------
\* What a step does to one run.

\* A run that has no page, and is not about to ask for one, holds nothing.
LEMMA CursorIdle ==
    ASSUME NEW w \in Workers, page'[w] = NULL, pc'[w] \notin {"fetch", "persist"}
    PROVE  CursorRun(w)'
BY Zenon DEF CursorRun, RunTracks, RunCovers, RunHasRevisions

\* A run that goes on with the checkpoint it has just read or written tracks it.
LEMMA CursorProceeds ==
    ASSUME NEW w \in Workers, RunTypeOK, page[w] = NULL, checkpoint' # NULL,
           Proceed(w, checkpoint')
    PROVE  CursorRun(w)'
<1>1. page'[w] = NULL /\ pc'[w] # "persist"
  BY Zenon DEF Proceed, End, Goto, RunTypeOK
<1>2. pc'[w] = "fetch" => obs'[w] = checkpoint'
  BY Zenon DEF Proceed, End, Goto, RunTypeOK
<1> QED
  BY Zenon, <1>1, <1>2 DEF CursorRun, RunTracks, RunCovers, RunHasRevisions

\* A run that does not move is not affected while window, cursor and listing stay.
LEMMA CursorUnmoved ==
    ASSUME NEW v \in Workers, CursorRun(v), SameRun(v), overtaken'[v] = overtaken[v],
           steady' => steady, account'.source = account.source, UNCHANGED closed,
           checkpoint'.windowFrom = checkpoint.windowFrom,
           checkpoint'.windowTo = checkpoint.windowTo,
           checkpoint'.nextOffset = checkpoint.nextOffset
    PROVE  CursorRun(v)'
<1>1. SamePass(v)' = SamePass(v)
  BY Zenon DEF SamePass, Stale
<1>2. RunTracks(v)'
  BY Zenon, <1>1 DEF CursorRun, RunTracks, SameRun
<1>3. Found(obs[v])' = Found(obs[v])
  BY Zenon DEF Found, InWindow, SameRun
<1>4. RunCovers(v)'
  BY Zenon, <1>1, <1>3 DEF CursorRun, RunCovers, SameRun, Real, Position
<1>5. RunHasRevisions(v)'
  BY Zenon DEF CursorRun, RunHasRevisions, SameRun
<1> QED
  BY Zenon, <1>2, <1>4, <1>5 DEF CursorRun

\* A run that a commit has overtaken is no longer of the pass.
LEMMA CursorOvertaken ==
    ASSUME NEW v \in Workers, RunKnows(v), CursorRun(v), SameRun(v),
           NEW kind \in {"page", "restart", "reopen"},
           obs[v] # NULL => kind \in overtaken'[v]
    PROVE  CursorRun(v)'
<1>1. pc'[v] \in {"fetch", "persist"} => ~SamePass(v)'
  BY Zenon DEF RunKnows, SameRun, SamePass, Stale, Holding, Trying
<1>2. RunHasRevisions(v)'
  BY Zenon DEF CursorRun, RunHasRevisions, SameRun
<1> QED
  BY Zenon, <1>1, <1>2 DEF CursorRun, RunTracks, RunCovers
-----------------------------------------------------------------------------
\* Steps that commit nothing.

\* A step of w that touches neither rows nor marketplace.
LEMMA CursorLocal ==
    ASSUME IInv, CursorInv, NEW w \in Workers, UNCHANGED <<clock, remote, db>>, steady' => steady,
           \A v \in Workers \ {w} : SameRun(v) /\ overtaken'[v] = overtaken[v],
           CursorRun(w)'
    PROVE  CursorInv'
<1>1. UNCHANGED <<closed, version, checkpoint, stored, account>>
  BY Zenon DEF remote, db, row
<1>2. ASSUME NEW v \in Workers PROVE CursorRun(v)'
  BY Zenon, <1>1, CursorUnmoved DEF CursorInv
<1>3. CursorCovered'
  BY Zenon, <1>1 DEF CursorInv, CursorCovered, Found, InWindow, Position
<1> QED
  BY Zenon, <1>1, <1>2, <1>3 DEF CursorInv, Windowed

\* The run ends or records an error, and has no page any more.
LEMMA CursorEnd ==
    ASSUME RunTypeOK, NEW w \in Workers, NEW place \in Place \ {"fetch", "persist"},
           End(w, place) \/ (\E c \in ErrorCode : FailWith(w, c, place))
    PROVE  /\ CursorRun(w)'
           /\ \A v \in Workers \ {w} : SameRun(v)
<1>1. page'[w] = NULL /\ pc'[w] \notin {"fetch", "persist"}
  BY Zenon DEF End, FailWith, Goto, RunTypeOK
<1>2. \A v \in Workers \ {w} : SameRun(v)
  BY Zenon DEF End, FailWith, Goto, RunTypeOK, SameRun
<1> QED
  BY Zenon, <1>1, <1>2, CursorIdle

\* A run that ends, with or without an error, leaves the cursor alone.
LEMMA CursorGivesUp ==
    ASSUME IInv, CursorInv, NEW w \in Workers, NEW place \in Place \ {"fetch", "persist"},
           End(w, place) \/ (\E c \in ErrorCode : FailWith(w, c, place)),
           UNCHANGED <<clock, remote, db>>, Forget(w) \/ UNCHANGED ghost
    PROVE  CursorInv'
<1>1. RunTypeOK
  BY Zenon DEF IInv, TypeOK
<1>2. steady' = steady /\ \A v \in Workers \ {w} : overtaken'[v] = overtaken[v]
  BY Zenon, <1>1 DEF Forget, ghost, RunTypeOK
<1> QED
  BY Zenon, <1>1, <1>2, CursorEnd, CursorLocal

\* A run without an answer, or one that was superseded, crashed or refused.
LEMMA CursorQuits ==
    ASSUME IInv, CursorInv, NEW w \in Workers,
           StartRefused(w) \/ EnqueueContinuation(w) \/ EnqueueFails(w) \/ Superseded(w)
             \/ DatabaseFails(w) \/ Crash(w) \/ FetchFails(w)
    PROVE  CursorInv'
<1>1. "SYNC_ERROR" \in ErrorCode /\ FetchErrors \subseteq ErrorCode
  BY Zenon, HistoryAssumption DEF ErrorCode
<1>2. {"ok", "retry", "dead", "fail"} \subseteq Place \ {"fetch", "persist"}
  BY Zenon DEF Place, Ended
<1>3. \E place \in Place \ {"fetch", "persist"} :
         End(w, place) \/ (\E c \in ErrorCode : FailWith(w, c, place))
  BY Zenon, <1>1, <1>2 DEF StartRefused, EnqueueContinuation, EnqueueFails, Superseded,
                    DatabaseFails, Crash, FetchFails
<1>4. UNCHANGED <<clock, remote, db>> /\ (Forget(w) \/ UNCHANGED ghost)
  BY Zenon DEF StartRefused, EnqueueContinuation, EnqueueFails, Superseded, DatabaseFails, Crash,
               FetchFails
<1> QED
  BY Zenon, <1>3, <1>4, CursorGivesUp

\* A new run has no page.
LEMMA CursorStart ==
    ASSUME IInv, CursorInv, NEW w \in Workers, Start(w)
    PROVE  CursorInv'
<1>1. RunTypeOK /\ RunKnows(w)
  BY Zenon DEF IInv, TypeOK, RunInv
<1>2. page'[w] = NULL /\ pc'[w] = "read"
  BY Zenon, <1>1 DEF Start, Goto, RunTypeOK, RunKnows, Ended
<1>3. \A v \in Workers \ {w} : SameRun(v)
  BY Zenon, <1>1 DEF Start, Goto, RunTypeOK, SameRun
<1> QED
  BY Zenon, <1>2, <1>3, CursorIdle, CursorLocal DEF Start, ghost

\* A run that goes on with the stored checkpoint reads on at the stored cursor.
LEMMA CursorRead ==
    ASSUME IInv, CursorInv, NEW w \in Workers, ReadCheckpoint(w)
    PROVE  CursorInv'
<1>1. RunTypeOK /\ RunKnows(w)
  BY Zenon DEF IInv, TypeOK, RunInv
<1>2. page[w] = NULL
  BY Zenon, <1>1 DEF RunKnows, ReadCheckpoint
<1>3. UNCHANGED <<clock, remote, db, steady>> /\ UNCHANGED checkpoint
      /\ \A v \in Workers \ {w} : overtaken'[v] = overtaken[v]
  BY Zenon, <1>1 DEF ReadCheckpoint, RunTypeOK, db, row
<1>4. CASE checkpoint # NULL /\ Proceed(w, checkpoint)
  <2>1. CursorRun(w)'
    BY Zenon, <1>1, <1>2, <1>3, <1>4, CursorProceeds
  <2>2. \A v \in Workers \ {w} : SameRun(v)
    BY Zenon, <1>1, <1>4 DEF Proceed, End, Goto, RunTypeOK, SameRun
  <2> QED
    BY Zenon, <1>3, <2>1, <2>2, CursorLocal
<1>5. CASE ~(checkpoint # NULL /\ Proceed(w, checkpoint))
  <2>1. pc'[w] \in {"create", "reopen", "init"} /\ page' = page
    BY Zenon, <1>1, <1>5 DEF ReadCheckpoint, Goto, RunTypeOK
  <2>2. \A v \in Workers \ {w} : SameRun(v)
    BY Zenon, <1>1, <1>5 DEF ReadCheckpoint, Goto, RunTypeOK, SameRun
  <2>3. CursorRun(w)'
    BY Zenon, <1>2, <2>1, CursorIdle
  <2> QED
    BY Zenon, <1>3, <2>2, <2>3, CursorLocal
<1> QED
  BY Zenon, <1>4, <1>5
-----------------------------------------------------------------------------
\* The answer of the marketplace.

\* A page shows revisions its orders had on the marketplace.
LEMMA PageHasRevisions ==
    ASSUME RowTypeOK, CursorInv, NEW found \in SUBSET Orders, NEW offset \in Nat, NEW n \in Nat
    PROVE  \A o \in DOMAIN OrderPage(found, offset, n).results :
             OrderPage(found, offset, n).results[o] > 0
<1>1. \A o \in Orders : version[o] > 0
  BY Zenon DEF CursorInv
<1> QED
  BY Zenon, <1>1, OrderPageTypes

\* The page fetched from the cursor has every order between it and the next one.
LEMMA CursorFetch ==
    ASSUME IInv, CursorInv, NEW w \in Workers, FetchPage(w)
    PROVE  CursorInv'
<1> DEFINE found == Found(obs[w])
           offset == obs[w].nextOffset
<1>1. RunTypeOK /\ RowTypeOK /\ RunKnows(w) /\ CursorRun(w)
  BY Zenon DEF IInv, TypeOK, RunInv, CursorInv
<1>2. /\ UNCHANGED <<clock, remote, db, ghost>> /\ pc[w] = "fetch"
      /\ UNCHANGED <<closed, version, checkpoint, steady, overtaken>>
  BY Zenon DEF FetchPage, remote, db, row, ghost
<1>3. obs[w] \in Checkpoint /\ offset \in Nat /\ found \in SUBSET Orders
  BY Zenon, <1>1, <1>2, FoundOrders DEF RunKnows, RunTypeOK, Nullable, Holding, Trying, Checkpoint
<1>4. CASE \E c \in ErrorCode : \E place \in {"exhaust", "fail"} : FailWith(w, c, place)
  BY Zenon, <1>2, <1>4, CursorGivesUp DEF Place
<1>5. CASE /\ Goto(w, "restart") /\ page' = [page EXCEPT ![w] = OrderPage(found, 0, 0)]
           /\ UNCHANGED <<time, win, obs, code>>
  <2>1. \A v \in Workers \ {w} : SameRun(v)
    BY Zenon, <1>1, <1>5 DEF Goto, RunTypeOK, SameRun
  <2>2. pc'[w] = "restart" /\ page'[w] = OrderPage(found, 0, 0)
    BY Zenon, <1>1, <1>5 DEF Goto, RunTypeOK
  <2>3. \A o \in DOMAIN page'[w].results : page'[w].results[o] > 0
    BY Zenon, <1>1, <1>3, <2>2, PageHasRevisions
  <2>4. CursorRun(w)'
    BY Zenon, <2>2, <2>3 DEF CursorRun, RunTracks, RunCovers, RunHasRevisions
  <2> QED
    BY Zenon, <1>2, <2>1, <2>4, CursorLocal
<1>6. ASSUME NEW n \in 0..PageSize, Goto(w, "persist"),
             page' = [page EXCEPT ![w] = OrderPage(found, offset, n)],
             UNCHANGED <<time, win, obs, code>>
      PROVE  CursorInv'
  <2>1. \A v \in Workers \ {w} : SameRun(v)
    BY Zenon, <1>1, <1>6 DEF Goto, RunTypeOK, SameRun
  <2>2. pc'[w] = "persist" /\ page'[w] = OrderPage(found, offset, n)
    BY Zenon, <1>1, <1>6 DEF Goto, RunTypeOK
  <2>3. n \in Nat
    BY SyncAssumption
  <2>4. \A o \in DOMAIN page'[w].results : page'[w].results[o] > 0
    BY Zenon, <1>1, <1>3, <2>2, <2>3, PageHasRevisions
  <2>5. RunTracks(w)'
    BY Zenon, <1>1, <1>2, <1>6 DEF CursorRun, RunTracks, SamePass, Stale
  <2>6. DOMAIN page'[w].results = Slice(found, offset, n) /\ page'[w].nextOffset = offset + n
    BY <2>2 DEF OrderPage
  <2>7. Found(obs[w])' = found
    BY Zenon, <1>2, <1>6 DEF Found, InWindow
  <2>8. RunCovers(w)'
    BY Zenon, <1>6, <2>6, <2>7 DEF RunCovers, Slice
  <2>9. CursorRun(w)'
    BY Zenon, <2>4, <2>5, <2>8 DEF CursorRun, RunHasRevisions
  <2> QED
    BY Zenon, <1>2, <2>1, <2>9, CursorLocal
<1>7. {"PAGINATION_TOTAL_CHANGED", "PAGINATION_INCOMPLETE"} \subseteq ErrorCode
  BY Zenon DEF ErrorCode
<1> QED
  BY Zenon, <1>4, <1>5, <1>6, <1>7 DEF FetchPage, TotalChanged

\* A simulated page vouches for no order of the marketplace.
LEMMA CursorSimulate ==
    ASSUME IInv, CursorInv, NEW w \in Workers, SimulatePage(w)
    PROVE  CursorInv'
<1>1. RunTypeOK /\ CursorRun(w)
  BY Zenon DEF IInv, TypeOK, CursorInv
<1>2. /\ UNCHANGED <<clock, remote, db, ghost>> /\ pc[w] = "fetch" /\ ~Real'
      /\ UNCHANGED <<checkpoint, steady, overtaken, obs>>
  BY Zenon DEF SimulatePage, remote, db, row, ghost, Real
<1>3. \A v \in Workers \ {w} : SameRun(v)
  BY Zenon, <1>1 DEF SimulatePage, Goto, RunTypeOK, SameRun
<1>4. \A o \in DOMAIN page'[w].results : page'[w].results[o] > 0
  <2>1. page'[w].results = [o \in SimulatedIds |-> 1]
    BY Zenon, <1>1 DEF SimulatePage, RunTypeOK
  <2>2. 1 > 0
    OBVIOUS
  <2> QED
    BY Zenon, <2>1, <2>2
<1>5. CursorRun(w)'
  BY Zenon, <1>1, <1>2, <1>4 DEF CursorRun, RunTracks, RunCovers, RunHasRevisions, SamePass, Stale
<1> QED
  BY Zenon, <1>2, <1>3, <1>5, CursorLocal
-----------------------------------------------------------------------------
\* Steps that commit.

\* A cursor at the start of its window has passed no order.
LEMMA CursorAtStart ==
    ASSUME checkpoint'.nextOffset = 0
    PROVE  CursorCovered'
<1>1. Found(checkpoint)' \in SUBSET Orders
  BY Zenon DEF Found, InWindow
<1>2. \A o : Position(o, Found(checkpoint)') \in Nat
  BY Zenon, <1>1, PositionNat
<1>3. \A o : (Position(o, Found(checkpoint)) \in Nat)'
  BY Zenon, <1>2 DEF Position
<1> QED
  BY <1>3 DEF CursorCovered

\* The run that creates the row finds no run in flight.
LEMMA CursorCreate ==
    ASSUME IInv, CursorInv, NEW w \in Workers, CreateState(w)
    PROVE  CursorInv'
<1>1. RunTypeOK /\ RunKnows(w) /\ page[w] = NULL
  <2>1. RunTypeOK /\ RunKnows(w)
    BY Zenon DEF IInv, TypeOK, RunInv
  <2>2. pc[w] = "create"
    BY Zenon DEF CreateState
  <2> QED
    BY Zenon, <2>1, <2>2 DEF RunKnows
<1>2. CASE checkpoint # NULL
  BY Zenon, <1>2, CursorGivesUp DEF CreateState, db, Place, Ended
<1>3. CASE checkpoint = NULL
  <2>1. /\ pc[w] = "create" /\ checkpoint' = FreshCheckpoint(win[w]) /\ Proceed(w, checkpoint')
        /\ UNCHANGED <<closed, version>>
    BY Zenon, <1>3 DEF CreateState, remote
  <2>2. win[w] \in [from : Int, to : Int]
    BY Zenon, <1>1, <2>1 DEF RunTypeOK, RunKnows, Nullable
  <2>3. checkpoint' # NULL /\ Windowed(checkpoint') /\ checkpoint'.nextOffset = 0
    BY Zenon, <2>1, <2>2, FreshTypes, NullApart DEF FreshCheckpoint
  <2>4. ASSUME NEW v \in Workers PROVE CursorRun(v)'
    <3>1. CASE v = w
      BY Zenon, <1>1, <2>1, <2>3, <3>1, CursorProceeds
    <3>2. CASE v # w
      <4>1. SameRun(v)
        BY Zenon, <1>1, <2>1, <3>2 DEF Proceed, End, Goto, RunTypeOK, SameRun
      <4>2. RunKnows(v) /\ obs[v] = NULL /\ CursorRun(v)
        BY Zenon, <1>3 DEF IInv, RunInv, RunKnows, CursorInv
      <4> QED
        BY Zenon, <4>1, <4>2, CursorOvertaken
    <3> QED
      BY Zenon, <3>1, <3>2
  <2> QED
    BY Zenon, <2>1, <2>3, <2>4, CursorAtStart DEF CursorInv, Windowed
<1> QED
  BY Zenon, <1>2, <1>3

\* A new window begins at offset 0, and overtakes the runs of the old one.
LEMMA CursorReopen ==
    ASSUME IInv, CursorInv, NEW w \in Workers, ReopenWindow(w)
    PROVE  CursorInv'
<1>1. RunTypeOK /\ RunKnows(w) /\ page[w] = NULL /\ pc[w] = "reopen"
  <2>1. RunTypeOK /\ RunKnows(w)
    BY Zenon DEF IInv, TypeOK, RunInv
  <2>2. pc[w] = "reopen"
    BY Zenon DEF ReopenWindow
  <2> QED
    BY Zenon, <2>1, <2>2 DEF RunKnows
<1>2. CASE ~checkpointWhere(w)
  <2>1. Superseded(w)
    BY Zenon, <1>2 DEF ReopenWindow, Superseded, db, row
  <2> QED
    BY Zenon, <2>1, CursorQuits
<1>3. CASE checkpointWhere(w)
  <2>1. /\ checkpoint' = FreshCheckpoint(win[w]) /\ Proceed(w, checkpoint')
        /\ Overtake(w, "reopen") /\ UNCHANGED <<closed, version>>
    BY Zenon, <1>3 DEF ReopenWindow, remote
  <2>2. win[w] \in [from : Int, to : Int]
    BY Zenon, <1>1 DEF RunTypeOK, RunKnows, Nullable
  <2>3. checkpoint' # NULL /\ Windowed(checkpoint') /\ checkpoint'.nextOffset = 0
    BY Zenon, <2>1, <2>2, FreshTypes, NullApart DEF FreshCheckpoint
  <2>4. ASSUME NEW v \in Workers PROVE CursorRun(v)'
    <3>1. CASE v = w
      BY Zenon, <1>1, <2>1, <2>3, <3>1, CursorProceeds
    <3>2. CASE v # w
      <4>1. SameRun(v)
        BY Zenon, <1>1, <2>1, <3>2 DEF Proceed, End, Goto, RunTypeOK, SameRun
      <4>2. RunKnows(v) /\ CursorRun(v)
        BY Zenon DEF IInv, RunInv, CursorInv
      <4>3. obs[v] # NULL => "reopen" \in overtaken'[v]
        BY Zenon, <1>1, <2>1, <3>2, OvertakeFacts
      <4> QED
        BY Zenon, <4>1, <4>2, <4>3, CursorOvertaken
    <3> QED
      BY Zenon, <3>1, <3>2
  <2> QED
    BY Zenon, <2>1, <2>3, <2>4, CursorAtStart DEF CursorInv, Windowed
<1> QED
  BY Zenon, <1>2, <1>3

\* A first window is given to a row whose cursor vouches for nothing.
LEMMA CursorInitialize ==
    ASSUME IInv, CursorInv, NEW w \in Workers, InitializeWindow(w)
    PROVE  CursorInv'
<1>1. RunTypeOK /\ RunKnows(w) /\ page[w] = NULL /\ pc[w] = "init"
  <2>1. RunTypeOK /\ RunKnows(w)
    BY Zenon DEF IInv, TypeOK, RunInv
  <2>2. pc[w] = "init"
    BY Zenon DEF InitializeWindow
  <2> QED
    BY Zenon, <2>1, <2>2 DEF RunKnows
<1>2. CASE ~checkpointWhere(w)
  <2>1. Superseded(w)
    BY Zenon, <1>2 DEF InitializeWindow, Superseded, db, row
  <2> QED
    BY Zenon, <2>1, CursorQuits
<1>3. CASE checkpointWhere(w)
  <2>1. /\ checkpoint = obs[w] /\ Proceed(w, checkpoint') /\ UNCHANGED <<closed, version>>
        /\ checkpoint' = [checkpoint EXCEPT !.windowFrom = win[w].from, !.windowTo = win[w].to]
        /\ overtaken' = [overtaken EXCEPT ![w] = {}] /\ steady' = steady
    BY Zenon, <1>3 DEF InitializeWindow, checkpointWhere, remote, Forget
  <2>2. checkpoint \in Checkpoint /\ win[w] \in [from : Int, to : Int] /\ ~Windowed(checkpoint)
    BY Zenon, <1>1, <2>1 DEF RunTypeOK, RunKnows, Nullable, Holding
  <2>3. ~steady
    BY Zenon, <2>2, NullApart DEF CursorInv
  <2>4. checkpoint' # NULL
    BY Zenon, <2>1, <2>2, NullApart DEF Checkpoint, Nullable
  <2>5. ASSUME NEW v \in Workers PROVE CursorRun(v)'
    <3>1. CASE v = w
      BY Zenon, <1>1, <2>1, <2>4, <3>1, CursorProceeds
    <3>2. CASE v # w
      <4>1. SameRun(v) /\ overtaken'[v] = overtaken[v]
        BY Zenon, <1>1, <2>1, <3>2 DEF Proceed, End, Goto, RunTypeOK, SameRun
      <4>2. RunKnows(v) /\ CursorRun(v)
        BY Zenon DEF IInv, RunInv, CursorInv
      <4>3. ~(pc[v] \in {"fetch", "persist"} /\ SamePass(v))
        BY Zenon, <2>2, <4>2 DEF CursorRun, RunTracks, RunKnows, Windowed, Trying
      <4> QED
        BY Zenon, <4>1, <4>2, <4>3
           DEF CursorRun, RunTracks, RunCovers, RunHasRevisions, SameRun, SamePass, Stale
    <3> QED
      BY Zenon, <3>1, <3>2
  <2> QED
    BY Zenon, <2>1, <2>3, <2>5 DEF CursorInv, CursorCovered
<1> QED
  BY Zenon, <1>2, <1>3

\* A recorded failure keeps window and cursor.
LEMMA CursorFail ==
    ASSUME IInv, CursorInv, NEW w \in Workers, FailPass(w)
    PROVE  CursorInv'
<1>1. RunTypeOK /\ RowTypeOK /\ RunKnows(w) /\ pc[w] \in {"fail", "exhaust"}
  BY Zenon DEF IInv, TypeOK, RunInv, FailPass
<1>2. CASE Superseded(w)
  BY Zenon, <1>2, CursorQuits
<1>3. CASE ~Superseded(w)
  <2>1. /\ checkpoint = obs[w] /\ UNCHANGED <<closed, version, stored>>
        /\ checkpoint' = [obs[w] EXCEPT !.status = "FAILED", !.lastError = code[w]]
        /\ account' = [account EXCEPT !.lastSyncState = "FAILED", !.lastSyncError = code[w]]
        /\ End(w, IF pc[w] = "exhaust" THEN "fatal" ELSE "retry") /\ Forget(w)
    BY Zenon, <1>3 DEF FailPass, checkpointWhere, remote
  <2>2. checkpoint \in Checkpoint
    BY Zenon, <1>1, <2>1 DEF RunTypeOK, RunKnows, Nullable, Holding, Trying
  <2>3. /\ checkpoint'.windowFrom = checkpoint.windowFrom
        /\ checkpoint'.windowTo = checkpoint.windowTo
        /\ checkpoint'.nextOffset = checkpoint.nextOffset
    BY Zenon, <2>1, <2>2 DEF Checkpoint
  <2>4. account'.source = account.source
    BY Zenon, <1>1, <2>1 DEF RowTypeOK
  <2>5. CursorRun(w)' /\ \A v \in Workers \ {w} : SameRun(v)
    BY Zenon, <1>1, <2>1, CursorEnd DEF Place, Ended
  <2>6. steady' = steady /\ \A v \in Workers \ {w} : overtaken'[v] = overtaken[v]
    BY Zenon, <1>1, <2>1 DEF Forget, RunTypeOK
  <2>7. ASSUME NEW v \in Workers PROVE CursorRun(v)'
    BY Zenon, <2>1, <2>3, <2>4, <2>5, <2>6, CursorUnmoved DEF CursorInv
  <2>8. Found(checkpoint)' = Found(checkpoint)
    BY Zenon, <2>1, <2>3 DEF Found, InWindow
  <2>9. CursorCovered'
    BY Zenon, <2>1, <2>2, <2>3, <2>4, <2>6, <2>8, NullApart DEF CursorInv, CursorCovered, Position
  <2> QED
    BY Zenon, <2>1, <2>2, <2>3, <2>6, <2>7, <2>9, NullApart DEF CursorInv, Windowed
<1> QED
  BY Zenon, <1>2, <1>3

\* What a page or a restart does to the runs: its own ends, the others are overtaken.
LEMMA CursorCommitRuns ==
    ASSUME IInv, CursorInv, NEW w \in Workers, NEW kind \in {"page", "restart"},
           NEW place \in {"ok", "enqueue"}, Overtake(w, kind),
           End(w, place) \/ FailWith(w, "SYNC_ERROR", "fail")
    PROVE  \A v \in Workers : CursorRun(v)'
<1>1. RunTypeOK
  BY Zenon DEF IInv, TypeOK
<1>2. CursorRun(w)' /\ \A v \in Workers \ {w} : SameRun(v)
  BY Zenon, <1>1, CursorEnd DEF Place, Ended, ErrorCode
<1>3. \A v \in Workers \ {w} : obs[v] # NULL => kind \in overtaken'[v]
  BY <1>1, OvertakeFacts
<1>4. ASSUME NEW v \in Workers \ {w} PROVE CursorRun(v)'
  <2>1. RunKnows(v) /\ CursorRun(v)
    BY Zenon DEF IInv, RunInv, CursorInv
  <2> QED
    BY Zenon, <1>2, <1>3, <2>1, CursorOvertaken
<1> QED
  BY Zenon, <1>2, <1>4

\* A restart puts the cursor back to 0.
LEMMA CursorRestart ==
    ASSUME IInv, CursorInv, NEW w \in Workers, pc[w] = "restart", RestartTx(w),
           End(w, "enqueue") \/ FailWith(w, "SYNC_ERROR", "fail")
    PROVE  CursorInv'
<1>1. /\ checkpoint = obs[w] /\ checkpoint' = Restarted(obs[w], page[w].total)
      /\ Overtake(w, "restart") /\ UNCHANGED <<closed, version>>
  BY Zenon DEF RestartTx, checkpointWhere, remote
<1>2. checkpoint \in Checkpoint /\ Windowed(checkpoint) /\ page[w].total \in Nat
  BY Zenon, <1>1 DEF IInv, TypeOK, RunTypeOK, RunInv, RunKnows, Nullable, Holding, Trying, IsPage
<1>3. checkpoint'.nextOffset = 0 /\ Windowed(checkpoint')
  BY Zenon, <1>1, <1>2, RestartedTypes DEF Windowed
<1>4. \A v \in Workers : CursorRun(v)'
  BY Zenon, <1>1, CursorCommitRuns
<1> QED
  BY Zenon, <1>1, <1>3, <1>4, CursorAtStart DEF CursorInv, Windowed

\* The cursor moves together with the orders of its page, and only from where the
\* page was asked for.
LEMMA CursorPersist ==
    ASSUME IInv, CursorInv, NEW w \in Workers, pc[w] = "persist", PersistTx(w),
           NEW place \in {"ok", "enqueue"},
           End(w, place) \/ FailWith(w, "SYNC_ERROR", "fail")
    PROVE  CursorInv'
<1> DEFINE p == page[w]
<1>1. /\ checkpoint = obs[w] /\ checkpoint' = Persisted(obs[w], p)
      /\ Overtake(w, "page") /\ UNCHANGED <<closed, version>>
      /\ stored' = [o \in Orders |-> IF o \in DOMAIN p.results THEN p.results[o] ELSE stored[o]]
      /\ steady' = (steady /\ "reopen" \notin overtaken[w])
  BY Zenon DEF PersistTx, checkpointWhere, remote
<1>2. checkpoint \in Checkpoint /\ Windowed(checkpoint) /\ IsPage(p)
  <2>1. RunTypeOK /\ RunKnows(w)
    BY Zenon DEF IInv, TypeOK, RunInv
  <2> QED
    BY Zenon, <1>1, <2>1 DEF RunTypeOK, RunKnows, Nullable, Holding, Trying
<1>3. /\ checkpoint'.nextOffset = p.nextOffset
      /\ checkpoint'.windowFrom = checkpoint.windowFrom
      /\ checkpoint'.windowTo = checkpoint.windowTo
  BY Zenon, <1>1, <1>2, PersistedTypes
<1>4. \A v \in Workers : CursorRun(v)'
  BY Zenon, <1>1, CursorCommitRuns
<1>5. account'.source = account.source
  BY Zenon DEF PersistTx, IInv, TypeOK, RowTypeOK
<1>6. CursorCovered'
  <2>1. SUFFICES ASSUME steady', Real', NEW o \in Found(checkpoint)',
                        (Position(o, Found(checkpoint)) < checkpoint.nextOffset)'
                 PROVE  stored'[o] > 0
    BY Zenon DEF CursorCovered, Real
  <2>2. Found(checkpoint)' = Found(checkpoint) /\ Found(checkpoint) \in SUBSET Orders
    BY Zenon, <1>1, <1>3 DEF Found, InWindow
  <2>3. o \in Orders /\ o \in Found(checkpoint) /\ Position(o, Found(checkpoint)) \in Nat
        /\ Position(o, Found(checkpoint)) < p.nextOffset
    BY Zenon, <1>3, <2>1, <2>2, PositionNat DEF Position
  <2>4. SamePass(w)
    BY Zenon, <1>1, <1>2, <2>1, FencedNow, NullApart
       DEF FencedWithinPass, Holders, checkpointWhere, SamePass
  <2>5. CASE o \in DOMAIN p.results
    BY Zenon, <1>1, <1>2, <2>3, <2>5, NullApart DEF CursorInv, CursorRun, RunHasRevisions
  <2>6. CASE o \notin DOMAIN p.results
    <3>1. RunCovers(w) /\ steady /\ Real
      BY Zenon, <1>1, <1>5, <2>1 DEF CursorInv, CursorRun, Real
    <3>2. ~(obs[w].nextOffset <= Position(o, Found(checkpoint)))
      BY Zenon, <1>1, <2>3, <2>4, <2>6, <3>1 DEF RunCovers
    <3>3. Position(o, Found(checkpoint)) < checkpoint.nextOffset
      <4>1. checkpoint.nextOffset \in Nat
        BY Zenon, <1>2 DEF Checkpoint
      <4> QED
        BY Zenon, <1>1, <2>3, <3>2, <4>1, NotBehind
    <3>4. stored[o] > 0
      BY Zenon, <1>2, <2>3, <3>1, <3>3, NullApart DEF CursorInv, CursorCovered, Real
    <3> QED
      BY Zenon, <1>1, <2>3, <2>6, <3>4
  <2> QED
    BY Zenon, <2>5, <2>6
<1>7. Windowed(checkpoint')
  BY Zenon, <1>2, <1>3 DEF Windowed
<1> QED
  BY Zenon, <1>1, <1>4, <1>6, <1>7 DEF CursorInv, Windowed

\* Acknowledged or not, a commit keeps the cursor covered.
LEMMA CursorCommits ==
    ASSUME IInv, CursorInv, NEW w \in Workers,
           PersistPage(w) \/ RestartWindow(w) \/ CommitUnacknowledged(w)
    PROVE  CursorInv'
<1>1. CASE PersistPage(w)
  BY Zenon, <1>1, CursorPersist, CursorQuits DEF PersistPage
<1>2. CASE RestartWindow(w)
  BY Zenon, <1>2, CursorRestart, CursorQuits DEF RestartWindow
<1>3. CASE CommitUnacknowledged(w)
  BY Zenon, <1>3, CursorPersist, CursorRestart DEF CommitUnacknowledged
<1> QED
  BY Zenon, <1>1, <1>2, <1>3
-----------------------------------------------------------------------------
\* The marketplace, the clock and the account.

\* A listing that moves ends the claim; one that does not is read as before.
LEMMA CursorRelist ==
    ASSUME IInv, CursorInv, NEW x \in Orders, Relist(x)
    PROVE  CursorInv'
<1>1. /\ UNCHANGED <<version, db, run, overtaken, checkpoint, stored, account>>
      /\ steady' => steady /\ (checkpoint = NULL \/ Found(checkpoint)' = Found(checkpoint))
  BY Zenon DEF Relist, db, row
<1>2. ASSUME NEW v \in Workers PROVE CursorRun(v)'
  <2>1. CursorRun(v) /\ RunKnows(v) /\ SameRun(v) /\ SamePass(v)' = SamePass(v)
    BY Zenon, <1>1 DEF CursorInv, IInv, RunInv, SameRun, run, SamePass, Stale
  <2>2. RunTracks(v)' /\ RunHasRevisions(v)'
    BY Zenon, <1>1, <2>1 DEF CursorRun, RunTracks, RunHasRevisions, SameRun
  <2>3. RunCovers(v)'
    <3>1. SUFFICES ASSUME pc[v] = "persist", steady', SamePass(v), Real PROVE RunCovers(v)'
      BY Zenon, <1>1, <2>1 DEF RunCovers, SameRun, Real
    <3>2. checkpoint # NULL
      BY Zenon, <2>1, <3>1 DEF RunKnows, Holding, Trying
    <3>3. /\ obs[v].windowFrom = checkpoint.windowFrom
          /\ obs[v].windowTo = checkpoint.windowTo
      BY Zenon, <2>1, <3>1 DEF CursorRun, RunTracks
    <3>4. Found(obs[v]) = Found(checkpoint)
      BY Zenon, <3>3 DEF Found
    <3>5. Found(obs[v])' = Found(checkpoint)'
      BY Zenon, <1>1, <2>1, <3>3 DEF Found, InWindow, SameRun
    <3>6. Found(obs[v])' = Found(obs[v])
      BY Zenon, <1>1, <3>1, <3>2, <3>4, <3>5
    <3> QED
      BY Zenon, <1>1, <2>1, <3>1, <3>6 DEF CursorRun, RunCovers, SameRun, Position
  <2> QED
    BY Zenon, <2>2, <2>3 DEF CursorRun
<1>3. CursorCovered'
  BY Zenon, <1>1 DEF CursorInv, CursorCovered, Position
<1> QED
  BY Zenon, <1>1, <1>2, <1>3 DEF CursorInv, Windowed

\* So do new orders, new revisions and the clock.
LEMMA CursorEnvironment ==
    ASSUME IInv, CursorInv, Environment \/ UNCHANGED vars
    PROVE  CursorInv'
<1>1. CASE \E o \in Orders : Relist(o)
  BY Zenon, <1>1, CursorRelist
<1>2. CASE ~\E o \in Orders : Relist(o)
  <2>1. /\ UNCHANGED <<closed, checkpoint, stored, run, overtaken, steady>>
    BY Zenon, <1>2 DEF Environment, Tick, Amend, Disconnect, Reconnect, remote, db, row, ghost, vars
  <2>2. account'.source = account.source
    BY Zenon DEF Environment, Tick, Relist, Amend, Disconnect, Reconnect, db, vars, IInv, TypeOK, RowTypeOK
  <2>3. \A o \in Orders : version'[o] > 0
    <3>1. UNCHANGED version \/ \E o \in Orders : Amend(o)
      BY Zenon DEF Environment, Tick, Relist, Disconnect, Reconnect, remote, vars
    <3>2. \A o \in Orders : version[o] \in Nat /\ version[o] > 0
      BY Zenon DEF IInv, TypeOK, RowTypeOK, CursorInv
    <3> QED
      BY <3>1, <3>2 DEF Amend, IInv, TypeOK, RowTypeOK
  <2>4. ASSUME NEW v \in Workers PROVE CursorRun(v)'
    <3>1. SameRun(v) /\ CursorRun(v)
      BY Zenon, <2>1 DEF SameRun, run, CursorInv
    <3> QED
      BY Zenon, <2>1, <2>2, <3>1, CursorUnmoved
  <2>5. CursorCovered'
    BY Zenon, <2>1, <2>2 DEF CursorInv, CursorCovered, Found, InWindow, Position
  <2> QED
    BY Zenon, <2>1, <2>3, <2>4, <2>5 DEF CursorInv, Windowed
<1> QED
  BY Zenon, <1>1, <1>2
-----------------------------------------------------------------------------
\* The cursor is covered at first: it is at 0, or an older version left it.
LEMMA CursorInit == Init => CursorInv
<1>1. SUFFICES ASSUME Init PROVE CursorInv
  BY Zenon
<1>2. \A o \in Orders : version[o] > 0
  BY <1>1 DEF Init
<1>3. checkpoint # NULL => ~steady
  BY Zenon, <1>1 DEF Init
<1>4. ASSUME NEW w \in Workers PROVE CursorRun(w)
  BY Zenon, <1>1 DEF Init, CursorRun, RunTracks, RunCovers, RunHasRevisions
<1> QED
  BY Zenon, <1>2, <1>3, <1>4 DEF CursorInv, CursorCovered

\* Every step keeps the cursor covered.
LEMMA CursorNext ==
    ASSUME IInv, CursorInv, [Next]_vars
    PROVE  CursorInv'
<1>1. ASSUME NEW w \in Workers, Step(w) PROVE CursorInv'
  BY Zenon, <1>1, CursorRead, CursorCreate, CursorReopen, CursorInitialize, CursorFetch, CursorQuits,
     CursorSimulate, CursorCommits, CursorFail DEF Step
<1>2. ASSUME NEW w \in Workers, Fault(w) PROVE CursorInv'
  BY Zenon, <1>2, CursorQuits, CursorCommits DEF Fault
<1> QED
  BY Zenon, <1>1, <1>2, CursorStart, CursorQuits, CursorEnvironment DEF Next

\* "a retry cannot advance the cursor without its data" (persistPage), for any number
\* of runs, orders, page sizes and faults: as long as the listing has not moved under the
\* pass, every order ranked before the stored cursor is stored.
THEOREM CursorNeverSkips == Spec => []CursorCovered
<1>1. CursorInv => CursorCovered
  BY Zenon DEF CursorInv
<1> QED
  BY <1>1, CursorInit, CursorNext, Invariance, PTL DEF Spec
=============================================================================
