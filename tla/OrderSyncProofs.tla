-------------------------- MODULE OrderSyncProofs --------------------------
(***************************************************************************)
(* Proofs that the properties of OrderSync hold for every number of runs,    *)
(* orders, pages, restarts and faults.                                       *)
(***************************************************************************)
EXTENDS OrderSyncInv, FiniteSetTheorems, TLAPS

\* What the provers may take for a step.
USE SMTT(30), ZenonT(30)

\* Of two revisions, the smaller is neither the other nor above it.
LEMMA LessIsNotMore == ASSUME NEW i \in Nat, NEW j \in Nat, i < j PROVE i # j /\ ~(j <= i)
OBVIOUS

\* A search over finitely many orders has a natural number of results.
LEMMA CardinalityNat ==
    ASSUME NEW S \in SUBSET Orders
    PROVE  Cardinality(S) \in Nat
BY Zenon, SyncAssumption, FS_Subset, FS_CardinalityType
\* NULL is no checkpoint, status, code or page.
LEMMA NullApart ==
    NULL \notin Checkpoint /\ NULL \notin Status /\ NULL \notin ErrorCode /\ ~IsPage(NULL)
BY Zenon, HistoryAssumption
-----------------------------------------------------------------------------
\* What a step leaves alone.

SameRun(v) ==
    /\ pc'[v] = pc[v] /\ time'[v] = time[v] /\ win'[v] = win[v]
    /\ obs'[v] = obs[v] /\ page'[v] = page[v] /\ code'[v] = code[v]

\* A run that does not move, while the rows and revisions it depends on do not
\* change, still knows what it knew.
LEMMA RunFrame ==
    ASSUME NEW v \in Workers, RunInv(v), SameRun(v),
           overtaken'[v] = overtaken[v],
           UNCHANGED <<version, checkpoint, stored>>,
           account'.source = account.source
    PROVE  RunInv(v)'
<1>1. RunKnows(v)'
  BY DEF RunInv, RunKnows, SameRun, Real, Windowed, WellFormed, Exhausted
<1>2. RunFenced(v)'
  BY Zenon DEF RunInv, RunFenced, SameRun, AtLeast, Beyond, Stale
<1>3. RunCurrent(v)' /\ RunNotAhead(v)'
  BY Zenon DEF RunInv, RunCurrent, RunNotAhead, SameRun, Stale
<1> QED
  BY Zenon, <1>1, <1>2, <1>3 DEF RunInv

\* A run past the use of its locals knows nothing.
LEMMA RunEnded ==
    ASSUME NEW w \in Workers, NEW place \in Ended \cup {"enqueue"},
           RunTypeOK, End(w, place)
    PROVE  RunInv(w)'
BY Zenon, NullApart DEF RunTypeOK, End, Goto, RunInv, RunKnows, RunFenced, RunCurrent, RunNotAhead,
       Holding, Trying, Ended

\* The end of a run keeps the types.
LEMMA EndTypes ==
    ASSUME NEW w \in Workers, NEW place \in Place, RunTypeOK, End(w, place),
           overtaken' \in [Workers -> SUBSET {"page", "restart", "reopen", "late"}]
    PROVE  /\ RunTypeOK'
           /\ \A v \in Workers \ {w} : SameRun(v)
BY Zenon DEF RunTypeOK, End, Goto, Nullable, SameRun, IsPage

\* The rows agree as long as none of them changes.
LEMMA RowsFrame ==
    ASSUME RowsAgree, UNCHANGED row, UNCHANGED stored,
           account'.source = account.source,
           account'.lastSyncState = account.lastSyncState,
           account'.lastSyncError = account.lastSyncError
    PROVE  RowsAgree'
BY Zenon DEF RowsAgree, row, CompleteIsWhole, NoGap, ShownCountIsStored, AccountMirrorsFailure,
       StoredIds, WellFormed, Exhausted

\* What is known of the orders depends on the orders alone.
LEMMA OrdersFrame ==
    ASSUME OrdersAgree, UNCHANGED <<stored, version>>, account'.source = account.source
    PROVE  OrdersAgree'
BY Zenon DEF OrdersAgree, Real

\* A step of run w that touches no row.
LEMMA LocalStep ==
    ASSUME IInv, NEW w \in Workers, UNCHANGED <<clock, remote, db>>, steady' \in BOOLEAN,
           RunTypeOK', RunInv(w)',
           \A v \in Workers \ {w} : SameRun(v) /\ overtaken'[v] = overtaken[v]
    PROVE  IInv'
<1>1. RowTypeOK'
  BY Zenon DEF IInv, TypeOK, RowTypeOK, remote, db, row
<1>2. ASSUME NEW v \in Workers PROVE RunInv(v)'
  BY Zenon, RunFrame DEF IInv, remote, db, row
<1>3. RowsAgree'
  BY Zenon, RowsFrame DEF IInv, db
<1>4. OrdersAgree'
  BY Zenon, OrdersFrame DEF IInv, db, remote
<1> QED
  BY Zenon, <1>1, <1>2, <1>3, <1>4 DEF IInv, TypeOK
-----------------------------------------------------------------------------
\* What a commit of another run does to a run.

\* A page or a restart moves the checkpoint beyond what every other run observed.
LEMMA RunOvertaken ==
    ASSUME NEW v \in Workers, RunTypeOK, RunInv(v), SameRun(v),
           checkpoint \in Checkpoint, checkpoint' \in Checkpoint,
           Beyond(checkpoint', checkpoint),
           NEW kind \in {"page", "restart"},
           obs[v] # NULL => overtaken[v] \cup {kind} \subseteq overtaken'[v],
           UNCHANGED version, account'.source = account.source
    PROVE  RunInv(v)'
<1> USE NullApart
<1>1. RunKnows(v)'
  BY Zenon DEF RunInv, RunKnows, SameRun, Real, Windowed, WellFormed, Exhausted
<1>2. RunFenced(v)'
  BY DEF RunInv, RunTypeOK, RunFenced, SameRun, AtLeast, Beyond, Stale, Checkpoint, Nullable
<1>3. RunCurrent(v)'
  BY Zenon DEF RunInv, RunKnows, RunCurrent, SameRun, Stale, Holding, Trying
<1>4. RunNotAhead(v)'
  BY Zenon DEF RunInv, RunNotAhead, SameRun
<1> QED
  BY Zenon, <1>1, <1>2, <1>3, <1>4 DEF RunInv

\* A reopening marks every other run; the stored orders stay.
LEMMA RunReopened ==
    ASSUME NEW v \in Workers, RunInv(v), SameRun(v),
           checkpoint' # NULL,
           obs[v] # NULL => overtaken'[v] = overtaken[v] \cup {"reopen"},
           obs[v] = NULL => overtaken'[v] = overtaken[v],
           UNCHANGED <<version, stored>>, account'.source = account.source
    PROVE  RunInv(v)'
<1>1. RunKnows(v)'
  BY Zenon DEF RunInv, RunKnows, SameRun, Real, Windowed, WellFormed, Exhausted
<1>2. RunFenced(v)'
  BY Zenon DEF RunInv, RunFenced, SameRun
<1>3. RunCurrent(v)'
  BY Zenon DEF RunInv, RunCurrent, SameRun, Stale
<1>4. RunNotAhead(v)'
  BY Zenon DEF RunInv, RunNotAhead, SameRun
<1> QED
  BY Zenon, <1>1, <1>2, <1>3, <1>4 DEF RunInv

\* A recorded failure or a first window leaves restarts and pages as they are.
LEMMA RunPassedBy ==
    ASSUME NEW v \in Workers, RunInv(v), SameRun(v),
           checkpoint' # NULL,
           checkpoint'.paginationRestartCount = checkpoint.paginationRestartCount,
           checkpoint'.completedPages = checkpoint.completedPages,
           overtaken'[v] = overtaken[v],
           UNCHANGED <<version, stored>>, account'.source = account.source
    PROVE  RunInv(v)'
<1>1. RunKnows(v)'
  BY DEF RunInv, RunKnows, SameRun, Real, Windowed, WellFormed, Exhausted
<1>2. RunFenced(v)'
  BY Zenon DEF RunInv, RunFenced, SameRun, AtLeast, Beyond, Stale
<1>3. RunCurrent(v)' /\ RunNotAhead(v)'
  BY Zenon DEF RunInv, RunCurrent, RunNotAhead, SameRun, Stale
<1> QED
  BY Zenon, <1>1, <1>2, <1>3 DEF RunInv
-----------------------------------------------------------------------------
\* Steps that touch no row.

\* A run that starts keeps the invariant.
LEMMA StartIInv ==
    ASSUME IInv, NEW w \in Workers, Start(w)
    PROVE  IInv'
<1> USE WindowAssumption
<1>1. RunTypeOK'
  BY DEF IInv, TypeOK, RunTypeOK, RowTypeOK, Start, Goto, Nullable, floorToUtcHour, Place, Ended,
         IsPage, ghost
<1>2. RunInv(w)'
  <2>1. /\ pc[w] \in Ended /\ pc'[w] = "read" /\ time'[w] = floorToUtcHour(clock)
        /\ obs'[w] = obs[w] /\ page'[w] = page[w]
    BY Zenon DEF IInv, TypeOK, RunTypeOK, Start, Goto
  <2>2. floorToUtcHour(clock) # NULL
    BY DEF IInv, TypeOK, RowTypeOK, floorToUtcHour
  <2>3. obs[w] = NULL /\ page[w] = NULL
    BY Zenon, <2>1 DEF IInv, RunInv, RunKnows, Holding, Trying, Ended
  <2> QED
    BY Zenon, <2>1, <2>2, <2>3
       DEF RunInv, RunKnows, RunFenced, RunCurrent, RunNotAhead, Holding, Trying
<1> QED
  BY Zenon, <1>1, <1>2, LocalStep DEF IInv, TypeOK, RunTypeOK, RowTypeOK, Start, Goto, SameRun, ghost

\* So does a run that is refused at its start.
LEMMA StartRefusedIInv ==
    ASSUME IInv, NEW w \in Workers, StartRefused(w)
    PROVE  IInv'
<1>1. RunTypeOK' /\ \A v \in Workers \ {w} : SameRun(v)
  BY Zenon, EndTypes DEF IInv, TypeOK, RunTypeOK, StartRefused, ghost, Place, Ended
<1>2. RunInv(w)'
  BY Zenon, RunEnded DEF IInv, TypeOK, StartRefused, Ended
<1> QED
  BY Zenon, <1>1, <1>2, LocalStep DEF IInv, TypeOK, RowTypeOK, StartRefused, ghost

\* So does the continuation, added or not.
LEMMA EnqueueIInv ==
    ASSUME IInv, NEW w \in Workers, EnqueueContinuation(w) \/ EnqueueFails(w)
    PROVE  IInv'
<1>0. PICK place \in {"ok", "retry"} : End(w, place)
  BY Zenon DEF EnqueueContinuation, EnqueueFails
<1>1. RunTypeOK' /\ \A v \in Workers \ {w} : SameRun(v)
  BY Zenon, <1>0, EndTypes
     DEF IInv, TypeOK, RunTypeOK, EnqueueContinuation, EnqueueFails, ghost, Place, Ended
<1>2. RunInv(w)'
  BY Zenon, <1>0, RunEnded DEF IInv, TypeOK, Ended
<1> QED
  BY Zenon, <1>1, <1>2, LocalStep
     DEF IInv, TypeOK, RowTypeOK, EnqueueContinuation, EnqueueFails, ghost

\* A run that leaves the code and forgets what overtook it.
LEMMA EndForget ==
    ASSUME IInv, NEW w \in Workers, NEW place \in Ended, End(w, place), Forget(w),
           UNCHANGED <<clock, remote, db>>
    PROVE  IInv'
<1>1. RunTypeOK' /\ \A v \in Workers \ {w} : SameRun(v)
  BY Zenon, EndTypes DEF IInv, TypeOK, RunTypeOK, Forget, Place
<1>2. RunInv(w)'
  BY Zenon, RunEnded DEF IInv, TypeOK
<1> QED
  BY Zenon, <1>1, <1>2, LocalStep DEF IInv, TypeOK, RowTypeOK, RunTypeOK, Forget

\* So does a run that finds its checkpoint superseded.
LEMMA SupersededIInv ==
    ASSUME IInv, NEW w \in Workers, Superseded(w)
    PROVE  IInv'
BY Zenon, EndForget DEF Superseded, Ended

\* So does a crash of the worker.
LEMMA CrashIInv ==
    ASSUME IInv, NEW w \in Workers, Crash(w)
    PROVE  IInv'
BY Zenon, EndForget DEF Crash, Ended

\* A run that goes on to record an error.
LEMMA FailWithIInv ==
    ASSUME IInv, NEW w \in Workers, pc[w] \in Trying, NEW c \in ErrorCode,
           NEW place \in {"fail", "exhaust"}, FailWith(w, c, place),
           UNCHANGED <<clock, remote, db, ghost>>
    PROVE  IInv'
<1> USE NullApart
<1>1. RunTypeOK'
  BY Zenon DEF IInv, TypeOK, RunTypeOK, FailWith, Goto, Nullable, Place, IsPage, ghost
<1>2. RunInv(w)'
  <2>1. RunKnows(w)'
    BY Zenon DEF IInv, TypeOK, RunTypeOK, FailWith, Goto, Nullable, db, row, RunInv, RunKnows,
           Holding, Trying, Real, Windowed, WellFormed, Exhausted
  <2>2. RunFenced(w)'
    BY Zenon DEF IInv, FailWith, db, row, ghost, RunInv, RunFenced, AtLeast, Beyond, Stale
  <2>3. RunCurrent(w)' /\ RunNotAhead(w)'
    BY Zenon DEF IInv, TypeOK, RunTypeOK, FailWith, Goto, RunCurrent, RunNotAhead
  <2> QED
    BY Zenon, <2>1, <2>2, <2>3 DEF RunInv
<1> QED
  BY Zenon, <1>1, <1>2, LocalStep
     DEF IInv, TypeOK, RowTypeOK, RunTypeOK, FailWith, Goto, SameRun, ghost

\* So does a failed statement.
LEMMA DatabaseFailsIInv ==
    ASSUME IInv, NEW w \in Workers, DatabaseFails(w)
    PROVE  IInv'
BY Zenon, EndForget, FailWithIInv DEF DatabaseFails, Ended, Trying, ErrorCode

\* So does a failed search.
LEMMA FetchFailsIInv ==
    ASSUME IInv, NEW w \in Workers, FetchFails(w)
    PROVE  IInv'
BY Zenon, FailWithIInv, HistoryAssumption DEF FetchFails, Trying, ErrorCode

\* Flooring never moves an instant forward.
LEMMA FloorBound ==
    ASSUME NEW t \in Int
    PROVE  floorToUtcHour(t) \in Int /\ floorToUtcHour(t) <= t
BY WindowAssumption DEF floorToUtcHour

\* The ends of a window are times, and it begins no later than the last pass ended.
LEMMA WindowTypes ==
    ASSUME NEW to \in Int, NEW last \in Nullable(Int)
    PROVE  /\ createOrderSyncWindow(to, last) \in [from : Int, to : Int]
           /\ last # NULL => createOrderSyncWindow(to, last).from <= last
<1>1. CASE last = NULL
  BY <1>1, WindowAssumption DEF createOrderSyncWindow
<1>2. CASE last # NULL
  BY <1>2, FloorBound, WindowAssumption DEF createOrderSyncWindow, Nullable
<1> QED
  BY Zenon, <1>1, <1>2

\* A nullable number with its default is one.
LEMMA CoalesceTypes ==
    ASSUME NEW a \in Nullable(Int), NEW b \in Nullable(Int)
    PROVE  Coalesce(a, b) \in Nullable(Int)
BY Zenon DEF Coalesce

\* A run that has just read a checkpoint with a window, or written one.
LEMMA ProceedRun ==
    ASSUME NEW w \in Workers, NEW c \in Checkpoint, RunTypeOK, pc[w] \notin Trying, RunInv(w),
           clock \in Nat,
           Proceed(w, c), overtaken'[w] \cap {"page", "restart"} = {},
           overtaken' \in [Workers -> SUBSET {"page", "restart", "reopen", "late"}],
           checkpoint' = c, WellFormed(c), Windowed(c),
           c.status = "COMPLETE" => account'.source # "MERCADO_LIVRE"
    PROVE  /\ RunTypeOK' /\ RunInv(w)'
           /\ \A v \in Workers \ {w} : SameRun(v)
<1> USE NullApart
<1>1. CASE Exhausted(c)
  <2>1. End(w, "fatal")
    BY Zenon, <1>1 DEF Proceed
  <2> QED
    BY Zenon, <2>1, RunEnded, EndTypes DEF Ended, Place
<1>2. CASE ~Exhausted(c)
  <2>1. /\ pc' = [pc EXCEPT ![w] = "fetch"]
        /\ obs' = [obs EXCEPT ![w] = c]
        /\ time' = [time EXCEPT ![w] = clock]
        /\ win' = [win EXCEPT ![w] = NULL]
        /\ UNCHANGED <<page, code>>
    BY Zenon, <1>2 DEF Proceed, Goto
  <2>2. RunTypeOK'
    BY <2>1 DEF RunTypeOK, Nullable, Place, IsPage
  <2>3. RunKnows(w)'
    <3>1. pc'[w] = "fetch" /\ obs'[w] = c /\ time'[w] = clock /\ page'[w] = page[w]
      BY Zenon, <2>1 DEF RunTypeOK
    <3>2. page[w] = NULL
      BY Zenon DEF RunInv, RunKnows, Trying
    <3>3. clock # NULL /\ c # NULL
      BY WindowAssumption
    <3> QED
      BY Zenon, <1>2, <3>1, <3>2, <3>3 DEF RunKnows, Holding, Trying, Real, Windowed, WellFormed, Exhausted
  <2>4. RunFenced(w)'
    BY <2>1 DEF RunTypeOK, RunFenced, AtLeast, Stale, Checkpoint
  <2>5. RunCurrent(w)' /\ RunNotAhead(w)'
    BY Zenon, <2>1 DEF RunTypeOK, RunCurrent, RunNotAhead, RunInv, RunKnows, Trying
  <2>6. \A v \in Workers \ {w} : SameRun(v)
    BY Zenon, <2>1 DEF RunTypeOK, SameRun
  <2> QED
    BY Zenon, <2>2, <2>3, <2>4, <2>5, <2>6 DEF RunInv
<1> QED
  BY Zenon, <1>1, <1>2

\* A run that goes on with a checkpoint it is still to replace.
LEMMA HoldRun ==
    ASSUME NEW w \in Workers, NEW place \in {"reopen", "init"}, NEW win0 \in [from : Int, to : Int],
           RunTypeOK, RowTypeOK, RunInv(w), pc[w] = "read", checkpoint # NULL, Goto(w, place),
           obs' = [obs EXCEPT ![w] = checkpoint], win' = [win EXCEPT ![w] = win0],
           overtaken' = [overtaken EXCEPT ![w] = {}],
           UNCHANGED <<time, page, code, checkpoint, account>>, WellFormed(checkpoint),
           place = "reopen" => /\ Real
                               /\ checkpoint.status = "COMPLETE"
                               /\ checkpoint.windowTo # NULL => win0.from <= checkpoint.windowTo,
           place = "init" => /\ checkpoint.status = "COMPLETE" => ~Real
                             /\ ~Windowed(checkpoint)
    PROVE  /\ RunTypeOK' /\ RunInv(w)'
           /\ \A v \in Workers \ {w} : SameRun(v) /\ overtaken'[v] = overtaken[v]
<1> USE NullApart
<1>0. win0 # NULL
  BY Zenon, WindowAssumption
<1>1. RunTypeOK'
  BY Zenon DEF RunTypeOK, RowTypeOK, Goto, Nullable, Place, IsPage
<1>2. RunKnows(w)'
  <2>1. /\ pc'[w] = place /\ obs'[w] = checkpoint /\ win'[w] = win0 /\ page'[w] = page[w]
        /\ checkpoint' = checkpoint /\ account' = account
    BY Zenon DEF RunTypeOK, Goto
  <2>2. page[w] = NULL
    BY Zenon DEF RunInv, RunKnows
  <2> QED
    BY Zenon, <1>0, <2>1, <2>2 DEF RunKnows, Holding, Trying, Real, Windowed, WellFormed
<1>3. RunFenced(w)'
  BY DEF RunTypeOK, RowTypeOK, Nullable, RunFenced, AtLeast, Stale, Checkpoint
<1>4. RunCurrent(w)' /\ RunNotAhead(w)'
  BY Zenon DEF RunTypeOK, RunInv, RunKnows, Goto, RunCurrent, RunNotAhead
<1>5. \A v \in Workers \ {w} : SameRun(v) /\ overtaken'[v] = overtaken[v]
  BY Zenon DEF RunTypeOK, Goto, SameRun
<1> QED
  BY Zenon, <1>1, <1>2, <1>3, <1>4, <1>5 DEF RunInv

\* The read of the checkpoint keeps the invariant.
LEMMA ReadCheckpointIInv ==
    ASSUME IInv, NEW w \in Workers, ReadCheckpoint(w)
    PROVE  IInv'
<1> USE NullApart
<1>1. /\ RowTypeOK /\ RunTypeOK /\ RunInv(w) /\ time[w] \in Int /\ pc[w] = "read"
      /\ checkpoint # NULL => checkpoint \in Checkpoint /\ WellFormed(checkpoint)
      /\ lastSyncedWindowTo \in Nullable(Int) /\ account.lastSyncedAt \in Nullable(Int)
      /\ UNCHANGED <<clock, remote, db, steady>> /\ checkpoint' = checkpoint /\ account' = account
      /\ overtaken' = [overtaken EXCEPT ![w] = {}]
  <2>1. RowTypeOK /\ RunTypeOK /\ RunInv(w) /\ RowsAgree
    BY Zenon DEF IInv, TypeOK
  <2>2. /\ pc[w] = "read" /\ overtaken' = [overtaken EXCEPT ![w] = {}]
        /\ UNCHANGED <<clock, remote, db, steady>>
    BY Zenon DEF ReadCheckpoint
  <2>3. time[w] \in Int
    BY Zenon, <2>1, <2>2 DEF RunTypeOK, RunInv, RunKnows, Nullable
  <2>4. /\ checkpoint # NULL => checkpoint \in Checkpoint /\ WellFormed(checkpoint)
        /\ lastSyncedWindowTo \in Nullable(Int) /\ account.lastSyncedAt \in Nullable(Int)
    BY Zenon, <2>1 DEF RowTypeOK, RowsAgree, Nullable
  <2> QED
    BY Zenon, <2>1, <2>2, <2>3, <2>4 DEF db, row
<1>2. SUFFICES /\ RunTypeOK' /\ RunInv(w)'
               /\ \A v \in Workers \ {w} : SameRun(v) /\ overtaken'[v] = overtaken[v]
  BY Zenon, <1>1, LocalStep DEF RowTypeOK
<1>3. \A v \in Workers \ {w} : overtaken'[v] = overtaken[v]
  BY Zenon, <1>1 DEF RunTypeOK
<1>4. overtaken' \in [Workers -> SUBSET {"page", "restart", "reopen", "late"}] /\ overtaken'[w] = {}
  BY Zenon, <1>1 DEF RunTypeOK
<1>5. CASE checkpoint = NULL
  <2>1. /\ Goto(w, "create")
        /\ win' = [win EXCEPT ![w] = createOrderSyncWindow(time[w], NULL)]
        /\ UNCHANGED <<time, obs, page, code>>
    BY Zenon, <1>5 DEF ReadCheckpoint
  <2>2. createOrderSyncWindow(time[w], NULL) \in [from : Int, to : Int]
    BY Zenon, <1>1, WindowTypes DEF Nullable
  <2>3. RunTypeOK'
    BY Zenon, <1>1, <1>4, <2>1, <2>2 DEF RunTypeOK, Goto, Nullable, Place, IsPage
  <2>4. RunKnows(w)'
    BY Zenon, <1>1, <2>1, <2>2, WindowAssumption DEF RunTypeOK, RunInv, RunKnows, Goto, Holding, Trying
  <2>5. RunFenced(w)' /\ RunCurrent(w)' /\ RunNotAhead(w)'
    BY Zenon, <1>1, <2>1, <2>4 DEF RunTypeOK, RunKnows, Goto, Holding, Trying, RunFenced, RunCurrent, RunNotAhead
  <2>6. \A v \in Workers \ {w} : SameRun(v)
    BY Zenon, <1>1, <2>1 DEF RunTypeOK, Goto, SameRun
  <2> QED
    BY Zenon, <1>3, <2>3, <2>4, <2>5, <2>6 DEF RunInv
<1>6. CASE checkpoint # NULL /\ Reopens(checkpoint)
  <2> DEFINE last == Coalesce(lastSyncedWindowTo,
                              Coalesce(checkpoint.windowTo, account.lastSyncedAt))
  <2> DEFINE win0 == createOrderSyncWindow(time[w], last)
  <2>1. /\ Goto(w, "reopen")
        /\ obs' = [obs EXCEPT ![w] = checkpoint]
        /\ win' = [win EXCEPT ![w] = win0]
        /\ UNCHANGED <<time, page, code>>
    BY Zenon, <1>6 DEF ReadCheckpoint
  <2>2. Real /\ checkpoint.status = "COMPLETE"
    BY Zenon, <1>1, <1>6 DEF Reopens, Real, RowTypeOK
  <2>3. last \in Nullable(Int)
    BY Zenon, <1>1, <1>6, CoalesceTypes DEF Checkpoint
  <2>4. win0 \in [from : Int, to : Int] /\ (last # NULL => win0.from <= last)
    BY Zenon, <1>1, <2>3, WindowTypes
  <2>5. checkpoint.windowTo # NULL => last = checkpoint.windowTo
    BY Zenon, <1>6, <2>2 DEF IInv, RowsAgree, CompleteIsWhole, Coalesce, Real
  <2>6. checkpoint.windowTo # NULL => win0.from <= checkpoint.windowTo
    BY Zenon, <2>4, <2>5
  <2> HIDE DEF win0
  <2> QED
    BY Zenon, <1>1, <1>6, <2>1, <2>2, <2>4, <2>6, HoldRun
<1>7. CASE checkpoint # NULL /\ ~Reopens(checkpoint) /\ ~Windowed(checkpoint)
  <2> DEFINE last == Coalesce(lastSyncedWindowTo, account.lastSyncedAt)
  <2> DEFINE win0 == createOrderSyncWindow(time[w], last)
  <2>1. /\ Goto(w, "init")
        /\ obs' = [obs EXCEPT ![w] = checkpoint]
        /\ win' = [win EXCEPT ![w] = win0]
        /\ UNCHANGED <<time, page, code>>
    BY Zenon, <1>7 DEF ReadCheckpoint, Windowed
  <2>2. checkpoint.status = "COMPLETE" => ~Real
    BY Zenon, <1>7 DEF Reopens, Real
  <2>3. win0 \in [from : Int, to : Int]
    BY Zenon, <1>1, CoalesceTypes, WindowTypes
  <2> HIDE DEF win0
  <2> QED
    BY Zenon, <1>1, <1>7, <2>1, <2>2, <2>3, HoldRun
<1>8. CASE checkpoint # NULL /\ ~Reopens(checkpoint) /\ Windowed(checkpoint)
  <2>1. Proceed(w, checkpoint)
    BY Zenon, <1>8 DEF ReadCheckpoint, Windowed
  <2>2. checkpoint.status = "COMPLETE" => account'.source # "MERCADO_LIVRE"
    BY Zenon, <1>1, <1>8 DEF Reopens
  <2> QED
    BY Zenon, <1>1, <1>3, <1>4, <1>8, <2>1, <2>2, ProceedRun DEF RowTypeOK, Trying
<1> QED
  BY Zenon, <1>5, <1>6, <1>7, <1>8

\* A page of a listing is a page.
LEMMA OrderPageTypes ==
    ASSUME RowTypeOK, NEW found \in SUBSET Orders, NEW offset \in Nat, NEW n \in Nat
    PROVE  /\ IsPage(OrderPage(found, offset, n))
           /\ DOMAIN OrderPage(found, offset, n).results \subseteq Orders
           /\ \A o \in DOMAIN OrderPage(found, offset, n).results :
                OrderPage(found, offset, n).results[o] = version[o]
<1> DEFINE S == Slice(found, offset, n)
<1>1. S \in SUBSET Orders
  BY Zenon DEF Slice
<1> HIDE DEF S
<1>2. [o \in S |-> version[o]] \in [S -> Nat]
  BY Zenon, <1>1 DEF RowTypeOK
<1>3. OrderPage(found, offset, n) =
        [results |-> [o \in S |-> version[o]], total |-> Cardinality(found),
         nextOffset |-> offset + n, complete |-> offset + n >= Cardinality(found)]
  BY Zenon DEF OrderPage, S
<1>4. Cardinality(found) \in Nat
  BY Zenon, CardinalityNat
<1> QED
  BY <1>1, <1>2, <1>3, <1>4 DEF IsPage

\* A run that has a response: a page to persist or a listing whose total changed.
LEMMA AnswerIInv ==
    ASSUME IInv, NEW w \in Workers, pc[w] = "fetch", NEW place \in {"persist", "restart"},
           NEW p, IsPage(p), Goto(w, place), page' = [page EXCEPT ![w] = p],
           UNCHANGED <<time, win, obs, code, clock, remote, db, ghost>>,
           DOMAIN p.results \subseteq Orders,
           \A o \in DOMAIN p.results : p.results[o] = version[o],
           place = "restart" => /\ Real
                                /\ obs[w].paginationRestartCount < MaxRestarts
                                /\ obs[w].expectedTotal # NULL,
           place = "persist" => /\ Real => obs[w].windowFrom <= obs[w].windowTo
                                /\ p.nextOffset <= p.total
                                /\ p.complete => p.nextOffset = p.total
    PROVE  IInv'
<1> USE NullApart
<1>0. p # NULL
  BY Zenon
<1>1. RunTypeOK'
  BY Zenon DEF IInv, TypeOK, RunTypeOK, Goto, Nullable, Place, ghost
<1>2. RunKnows(w)'
  BY Zenon, <1>0 DEF IInv, TypeOK, RunTypeOK, RunInv, RunKnows, Goto, Holding, Trying, Real, Windowed,
              WellFormed, Exhausted, db, row
<1>3. RunFenced(w)'
  BY Zenon DEF IInv, db, row, ghost, RunInv, RunFenced, AtLeast, Beyond, Stale
<1>4. RunCurrent(w)' /\ RunNotAhead(w)'
  <2>1. page'[w] = p
    BY Zenon DEF IInv, TypeOK, RunTypeOK
  <2>2. \A o \in DOMAIN p.results : stored'[o] <= p.results[o] /\ p.results[o] <= version'[o]
    BY DEF IInv, TypeOK, RowTypeOK, OrdersAgree, db, remote
  <2> QED
    BY Zenon, <2>1, <2>2 DEF RunCurrent, RunNotAhead
<1>5. \A v \in Workers \ {w} : SameRun(v) /\ overtaken'[v] = overtaken[v]
  BY Zenon DEF IInv, TypeOK, RunTypeOK, Goto, SameRun, ghost
<1> QED
  BY Zenon, <1>1, <1>2, <1>3, <1>4, <1>5, LocalStep DEF IInv, TypeOK, RowTypeOK, RunInv, ghost

\* A page whose total moved keeps the invariant.
LEMMA TotalChangedIInv ==
    ASSUME IInv, NEW w \in Workers, pc[w] = "fetch", Real, NEW found \in SUBSET Orders,
           TotalChanged(w, found), obs[w].expectedTotal # NULL,
           UNCHANGED <<clock, remote, db, ghost>>
    PROVE  IInv'
<1>1. obs[w] \in Checkpoint
  BY Zenon, NullApart
     DEF IInv, TypeOK, RunTypeOK, RunInv, RunKnows, Holding, Trying, Nullable
<1>2. CASE obs[w].paginationRestartCount >= MaxRestarts
  BY Zenon, <1>2, FailWithIInv DEF TotalChanged, Trying, ErrorCode
<1>3. CASE ~(obs[w].paginationRestartCount >= MaxRestarts)
  <2>1. obs[w].paginationRestartCount < MaxRestarts
    BY <1>1, <1>3, SyncAssumption DEF Checkpoint
  <2> DEFINE p == OrderPage(found, 0, 0)
  <2>2. Goto(w, "restart") /\ page' = [page EXCEPT ![w] = p] /\ UNCHANGED <<time, win, obs, code>>
    BY Zenon, <1>3 DEF TotalChanged
  <2>3. IsPage(p) /\ DOMAIN p.results \subseteq Orders
        /\ \A o \in DOMAIN p.results : p.results[o] = version[o]
    BY Zenon, OrderPageTypes DEF IInv, TypeOK
  <2> HIDE DEF p
  <2> QED
    BY Zenon, <2>1, <2>2, <2>3, AnswerIInv
<1> QED
  BY Zenon, <1>2, <1>3

\* So does a page that was fetched.
LEMMA FetchPageIInv ==
    ASSUME IInv, NEW w \in Workers, FetchPage(w)
    PROVE  IInv'
<1> DEFINE found  == Found(obs[w])
           total  == Cardinality(found)
           offset == obs[w].nextOffset
<1>1. found \in SUBSET Orders
  BY Zenon DEF Found, InWindow
<1>2. total \in Nat
  BY Zenon, <1>1, CardinalityNat
<1>3. obs[w] \in Checkpoint /\ WellFormed(obs[w]) /\ offset \in Nat
  BY Zenon, NullApart
     DEF IInv, TypeOK, RunTypeOK, RunInv, RunKnows, Holding, Trying, Nullable, FetchPage, Checkpoint
<1>4. /\ pc[w] = "fetch" /\ Real /\ Requestable(w) /\ UNCHANGED <<clock, remote, db, ghost>>
      /\ \/ offset > total /\ TotalChanged(w, found)
         \/ \E n \in 0..PageSize :
              /\ offset + n <= total
              /\ \/ FailWith(w, "PAGINATION_INCOMPLETE", "fail")
                 \/ obs[w].expectedTotal \notin {NULL, total} /\ TotalChanged(w, found)
                 \/ /\ Goto(w, "persist")
                    /\ page' = [page EXCEPT ![w] = OrderPage(found, offset, n)]
                    /\ UNCHANGED <<time, win, obs, code>>
  BY Zenon DEF FetchPage, Real
<1> HIDE DEF found, total
<1>5. CASE offset > total /\ TotalChanged(w, found)
  <2>1. obs[w].expectedTotal # NULL
    BY <1>2, <1>3, <1>5 DEF WellFormed
  <2> QED
    BY Zenon, <1>1, <1>4, <1>5, <2>1, TotalChangedIInv
<1>6. ASSUME NEW n \in 0..PageSize, offset + n <= total,
             \/ FailWith(w, "PAGINATION_INCOMPLETE", "fail")
             \/ obs[w].expectedTotal \notin {NULL, total} /\ TotalChanged(w, found)
             \/ /\ Goto(w, "persist")
                /\ page' = [page EXCEPT ![w] = OrderPage(found, offset, n)]
                /\ UNCHANGED <<time, win, obs, code>>
      PROVE  IInv'
  <2>1. CASE FailWith(w, "PAGINATION_INCOMPLETE", "fail")
    BY Zenon, <1>4, <2>1, FailWithIInv DEF Trying, ErrorCode
  <2>2. CASE obs[w].expectedTotal \notin {NULL, total} /\ TotalChanged(w, found)
    BY Zenon, <1>1, <1>4, <2>2, TotalChangedIInv
  <2>3. CASE /\ Goto(w, "persist")
             /\ page' = [page EXCEPT ![w] = OrderPage(found, offset, n)]
             /\ UNCHANGED <<time, win, obs, code>>
    <3> DEFINE p == OrderPage(found, offset, n)
    <3>1. n \in Nat
      BY SyncAssumption
    <3>2. IsPage(p) /\ DOMAIN p.results \subseteq Orders
          /\ \A o \in DOMAIN p.results : p.results[o] = version[o]
      BY Zenon, <1>1, <1>3, <3>1, OrderPageTypes DEF IInv, TypeOK
    <3>3. p.nextOffset <= p.total /\ (p.complete => p.nextOffset = p.total)
      <4>1. p.nextOffset = offset + n /\ p.total = total /\ (p.complete <=> offset + n >= total)
        BY Zenon DEF OrderPage, total
      <4>2. offset + n <= total
        BY Zenon, <1>6
      <4> HIDE DEF p, offset
      <4> QED
        BY <1>2, <1>3, <3>1, <4>1, <4>2
    <3>4. page' = [page EXCEPT ![w] = p]
      BY Zenon, <2>3
    <3>5. obs[w].windowFrom <= obs[w].windowTo
      BY Zenon, <1>4 DEF Requestable
    <3> HIDE DEF p
    <3> QED
      BY Zenon, <1>4, <2>3, <3>2, <3>3, <3>4, <3>5, AnswerIInv
  <2> QED
    BY Zenon, <1>6, <2>1, <2>2, <2>3
<1> QED
  BY Zenon, <1>4, <1>5, <1>6

\* So does a simulated page.
LEMMA SimulatePageIInv ==
    ASSUME IInv, NEW w \in Workers, SimulatePage(w)
    PROVE  IInv'
<1> DEFINE p == [results |-> [o \in SimulatedIds |-> 1], total |-> Cardinality(SimulatedIds),
                 nextOffset |-> Cardinality(SimulatedIds), complete |-> TRUE]
<1>1. Cardinality(SimulatedIds) \in Nat
  BY Zenon, SyncAssumption, CardinalityNat
<1>2. IsPage(p) /\ DOMAIN p.results \subseteq Orders
  BY Zenon, <1>1, SyncAssumption DEF IsPage
<1>3. p.nextOffset <= p.total /\ (p.complete => p.nextOffset = p.total)
  BY <1>1
<1>4. ~Real /\ pc[w] = "fetch"
  BY Zenon DEF SimulatePage, Real
<1>5. \A o \in DOMAIN p.results : p.results[o] = version[o]
  BY Zenon, <1>4, SyncAssumption DEF IInv, OrdersAgree
<1>6. /\ Goto(w, "persist") /\ page' = [page EXCEPT ![w] = p]
      /\ UNCHANGED <<time, win, obs, code, clock, remote, db, ghost>>
  BY Zenon DEF SimulatePage
<1> HIDE DEF p
<1> QED
  BY Zenon, <1>2, <1>3, <1>4, <1>5, <1>6, AnswerIInv
-----------------------------------------------------------------------------
\* Steps that commit.

\* A new window that has yet to read its first page.
LEMMA FreshTypes ==
    ASSUME NEW window \in [from : Int, to : Int]
    PROVE  /\ FreshCheckpoint(window) \in Checkpoint
           /\ WellFormed(FreshCheckpoint(window))
           /\ Windowed(FreshCheckpoint(window))
BY WindowAssumption, SyncAssumption
   DEF FreshCheckpoint, Checkpoint, Status, Nullable, WellFormed, Windowed

\* So does the creation of the checkpoint.
LEMMA CreateStateIInv ==
    ASSUME IInv, NEW w \in Workers, CreateState(w)
    PROVE  IInv'
<1> USE NullApart
<1>1. CASE checkpoint # NULL
  <2>1. End(w, "retry") /\ UNCHANGED <<clock, remote, db, ghost>>
    BY Zenon, <1>1 DEF CreateState, db, row
  <2>2. RunTypeOK' /\ \A v \in Workers \ {w} : SameRun(v)
    BY Zenon, <2>1, EndTypes DEF IInv, TypeOK, RunTypeOK, ghost, Place, Ended
  <2>3. RunInv(w)'
    BY Zenon, <2>1, RunEnded DEF IInv, TypeOK, Ended
  <2> QED
    BY Zenon, <2>1, <2>2, <2>3, LocalStep DEF IInv, TypeOK, RowTypeOK, ghost
<1>2. CASE checkpoint = NULL
  <2> DEFINE c == FreshCheckpoint(win[w])
  <2>1. /\ pc[w] = "create" /\ checkpoint' = c /\ importedCount' = 0 /\ lastSyncedWindowTo' = NULL
        /\ Proceed(w, c) /\ overtaken' = [overtaken EXCEPT ![w] = {}] /\ steady' = TRUE
        /\ UNCHANGED <<clock, remote, account, stored>>
    BY Zenon, <1>2 DEF CreateState
  <2>2. win[w] \in [from : Int, to : Int]
    BY Zenon, <2>1 DEF IInv, TypeOK, RunTypeOK, RunInv, RunKnows, Nullable
  <2>3. c \in Checkpoint /\ WellFormed(c) /\ Windowed(c)
    BY Zenon, <2>2, FreshTypes
  <2>4. /\ c.status = "PARTIAL" /\ c.expectedTotal = NULL
    BY Zenon DEF FreshCheckpoint
  <2> HIDE DEF c
  <2>5. RowTypeOK'
    BY Zenon, <2>1, <2>3 DEF IInv, TypeOK, RowTypeOK, Nullable, remote
  <2>6. overtaken' \in [Workers -> SUBSET {"page", "restart", "reopen", "late"}] /\ overtaken'[w] = {}
    BY Zenon, <2>1 DEF IInv, TypeOK, RunTypeOK
  <2>7. /\ RunTypeOK' /\ RunInv(w)'
        /\ \A v \in Workers \ {w} : SameRun(v)
    BY Zenon, <2>1, <2>3, <2>4, <2>6, ProceedRun DEF IInv, TypeOK, RowTypeOK, Trying
  <2>8. ASSUME NEW v \in Workers \ {w} PROVE RunInv(v)'
    <3>1. obs[v] = NULL /\ RunInv(v) /\ SameRun(v)
      BY Zenon, <1>2, <2>7 DEF IInv, RunInv, RunKnows
    <3>2. RunKnows(v)' /\ RunFenced(v)' /\ RunCurrent(v)' /\ RunNotAhead(v)'
      BY Zenon, <3>1, <2>1
         DEF RunInv, RunKnows, RunFenced, RunCurrent, RunNotAhead, SameRun, Holding, Trying, remote
    <3> QED
      BY Zenon, <3>2 DEF RunInv
  <2>9. RowsAgree'
    BY Zenon, <1>2, <2>1, <2>3, <2>4, WindowAssumption
       DEF IInv, RowsAgree, CompleteIsWhole, NoGap, ShownCountIsStored, AccountMirrorsFailure, Windowed,
           WellFormed, Exhausted, Status
  <2>10. OrdersAgree'
    BY Zenon, <2>1, OrdersFrame DEF IInv, remote
  <2> QED
    BY Zenon, <2>5, <2>7, <2>8, <2>9, <2>10 DEF IInv, TypeOK
<1> QED
  BY Zenon, <1>1, <1>2

\* What Overtake records.
LEMMA OvertakeFacts ==
    ASSUME RunTypeOK, NEW w \in Workers, NEW kind \in {"page", "restart", "reopen"},
           Overtake(w, kind)
    PROVE  /\ overtaken' \in [Workers -> SUBSET {"page", "restart", "reopen", "late"}]
           /\ overtaken'[w] = {}
           /\ \A v \in Workers \ {w} :
                /\ obs[v] # NULL => overtaken[v] \cup {kind} \subseteq overtaken'[v]
                /\ obs[v] # NULL /\ kind = "reopen" => overtaken'[v] = overtaken[v] \cup {"reopen"}
                /\ obs[v] = NULL => overtaken'[v] = overtaken[v]
<1>1. \A v \in Workers : overtaken[v] \in SUBSET {"page", "restart", "reopen", "late"}
  BY Zenon DEF RunTypeOK
<1>2. overtaken' = [v \in Workers |->
          IF v = w THEN {}
          ELSE IF obs[v] # NULL
               THEN overtaken[v] \cup {kind}
                      \cup (IF kind = "restart" /\ page[v] # NULL THEN {"late"} ELSE {})
               ELSE overtaken[v]]
  BY Zenon DEF Overtake, Holders
<1> QED
  BY Zenon, <1>1, <1>2

\* So does the reopening of a completed pass.
LEMMA ReopenWindowIInv ==
    ASSUME IInv, NEW w \in Workers, ReopenWindow(w)
    PROVE  IInv'
<1> USE NullApart
<1>1. CASE ~checkpointWhere(w)
  BY Zenon, <1>1, EndForget DEF ReopenWindow, Ended, db, row
<1>2. CASE checkpointWhere(w)
  <2> DEFINE c == FreshCheckpoint(win[w])
  <2>1. /\ pc[w] = "reopen" /\ checkpoint' = c /\ importedCount' = 0
        /\ Proceed(w, c) /\ Overtake(w, "reopen") /\ steady' = TRUE
        /\ UNCHANGED <<clock, remote, account, stored, lastSyncedWindowTo>>
    BY Zenon, <1>2 DEF ReopenWindow
  <2>2. /\ win[w] \in [from : Int, to : Int] /\ checkpoint # NULL /\ Real
        /\ checkpoint.status = "COMPLETE"
        /\ checkpoint.windowTo # NULL => win[w].from <= checkpoint.windowTo
    BY Zenon, <1>2, <2>1 DEF IInv, TypeOK, RunTypeOK, RunInv, RunKnows, Nullable, Holding, checkpointWhere
  <2>3. c \in Checkpoint /\ WellFormed(c) /\ Windowed(c)
    BY Zenon, <2>2, FreshTypes
  <2>4. c.status = "PARTIAL" /\ c.expectedTotal = NULL /\ c.windowFrom = win[w].from
    BY Zenon DEF FreshCheckpoint
  <2> HIDE DEF c
  <2>5. RowTypeOK'
    BY Zenon, <2>1, <2>3 DEF IInv, TypeOK, RowTypeOK, Nullable, remote
  <2>6. /\ overtaken' \in [Workers -> SUBSET {"page", "restart", "reopen", "late"}]
        /\ overtaken'[w] = {}
        /\ \A v \in Workers \ {w} :
             /\ obs[v] # NULL => overtaken'[v] = overtaken[v] \cup {"reopen"}
             /\ obs[v] = NULL => overtaken'[v] = overtaken[v]
    BY Zenon, <2>1, OvertakeFacts DEF IInv, TypeOK
  <2>7. /\ RunTypeOK' /\ RunInv(w)'
        /\ \A v \in Workers \ {w} : SameRun(v)
    BY Zenon, <2>1, <2>3, <2>4, <2>6, ProceedRun DEF IInv, TypeOK, RowTypeOK, Trying
  <2>8. ASSUME NEW v \in Workers \ {w} PROVE RunInv(v)'
    BY Zenon, <2>1, <2>3, <2>6, <2>7, RunReopened DEF IInv, remote
  <2>9. CompleteIsWhole' /\ ShownCountIsStored'
    BY Zenon, <2>1, <2>4 DEF CompleteIsWhole, ShownCountIsStored
  <2>10. AccountMirrorsFailure'
    BY Zenon, <2>1, <2>2, <2>4 DEF IInv, RowsAgree, AccountMirrorsFailure
  <2>11. lastSyncedWindowTo = checkpoint.windowTo
    BY Zenon, <2>2 DEF IInv, RowsAgree, CompleteIsWhole, Real
  <2>12. NoGap'
    BY Zenon, <2>1, <2>2, <2>4, <2>11 DEF NoGap
  <2>13. RowsAgree'
    BY Zenon, <2>1, <2>3, <2>9, <2>10, <2>12, WindowAssumption DEF RowsAgree, Windowed, WellFormed, Exhausted
  <2>14. OrdersAgree'
    BY Zenon, <2>1, OrdersFrame DEF IInv, remote
  <2> QED
    BY Zenon, <2>5, <2>7, <2>8, <2>13, <2>14 DEF IInv, TypeOK
<1> QED
  BY Zenon, <1>1, <1>2

\* So does the initialization of a window.
LEMMA InitializeWindowIInv ==
    ASSUME IInv, NEW w \in Workers, InitializeWindow(w)
    PROVE  IInv'
<1> USE NullApart
<1>1. CASE ~checkpointWhere(w)
  BY Zenon, <1>1, EndForget DEF InitializeWindow, Ended, db, row
<1>2. CASE checkpointWhere(w)
  <2> DEFINE c == [checkpoint EXCEPT !.windowFrom = win[w].from, !.windowTo = win[w].to]
  <2>1. /\ pc[w] = "init" /\ checkpoint' = c /\ Proceed(w, c) /\ Forget(w)
        /\ UNCHANGED <<clock, remote, account, stored, importedCount, lastSyncedWindowTo>>
    BY Zenon, <1>2 DEF InitializeWindow
  <2>2. /\ win[w] \in [from : Int, to : Int] /\ checkpoint \in Checkpoint /\ WellFormed(checkpoint)
        /\ checkpoint.windowTo = NULL
        /\ checkpoint.status = "COMPLETE" => ~Real
    BY Zenon, <1>2, <2>1 DEF IInv, TypeOK, RunTypeOK, RunInv, RunKnows, Nullable, Holding, checkpointWhere,
                      Windowed, WellFormed
  <2>3. /\ c \in Checkpoint
        /\ c.status = checkpoint.status /\ c.lastError = checkpoint.lastError
        /\ c.nextOffset = checkpoint.nextOffset /\ c.expectedTotal = checkpoint.expectedTotal
        /\ c.completedPages = checkpoint.completedPages
        /\ c.paginationRestartCount = checkpoint.paginationRestartCount
        /\ c.windowFrom = win[w].from /\ c.windowTo = win[w].to
    BY Zenon, <2>2 DEF Checkpoint, Nullable
  <2>4. WellFormed(c) /\ Windowed(c)
    BY Zenon, <2>2, <2>3, WindowAssumption DEF WellFormed, Windowed
  <2> HIDE DEF c
  <2>5. RowTypeOK'
    BY Zenon, <2>1, <2>3 DEF IInv, TypeOK, RowTypeOK, Nullable, remote, Forget
  <2>6. /\ overtaken' \in [Workers -> SUBSET {"page", "restart", "reopen", "late"}]
        /\ overtaken'[w] = {}
        /\ \A v \in Workers \ {w} : overtaken'[v] = overtaken[v]
    BY Zenon, <2>1 DEF IInv, TypeOK, RunTypeOK, Forget
  <2>7. /\ RunTypeOK' /\ RunInv(w)'
        /\ \A v \in Workers \ {w} : SameRun(v)
    BY Zenon, <2>1, <2>2, <2>3, <2>4, <2>6, ProceedRun DEF IInv, TypeOK, RowTypeOK, Trying, Real
  <2>8. ASSUME NEW v \in Workers \ {w} PROVE RunInv(v)'
    BY Zenon, <2>1, <2>3, <2>6, <2>7, RunPassedBy DEF IInv, remote
  <2>9. lastSyncedWindowTo = NULL
    BY Zenon, <2>2 DEF IInv, RowsAgree
  <2>10. CompleteIsWhole' /\ NoGap'
    BY Zenon, <2>1, <2>2, <2>3, <2>9 DEF IInv, RowsAgree, CompleteIsWhole, NoGap, Real
  <2>11. ShownCountIsStored' /\ AccountMirrorsFailure'
    BY Zenon, <2>1, <2>2, <2>3 DEF IInv, RowsAgree, ShownCountIsStored, AccountMirrorsFailure
  <2>12. RowsAgree'
    BY Zenon, <2>1, <2>3, <2>4, <2>10, <2>11, WindowAssumption DEF RowsAgree, Windowed, WellFormed
  <2>13. OrdersAgree'
    BY Zenon, <2>1, OrdersFrame DEF IInv, remote
  <2> QED
    BY Zenon, <2>5, <2>7, <2>8, <2>12, <2>13 DEF IInv, TypeOK
<1> QED
  BY Zenon, <1>1, <1>2

\* So does the recorded failure of a pass.
LEMMA FailPassIInv ==
    ASSUME IInv, NEW w \in Workers, FailPass(w)
    PROVE  IInv'
<1> USE NullApart
<1>1. CASE Superseded(w)
  BY Zenon, <1>1, SupersededIInv
<1>2. CASE ~Superseded(w)
  <2> DEFINE c == [obs[w] EXCEPT !.status = "FAILED", !.lastError = code[w]]
  <2>1. /\ pc[w] \in {"fail", "exhaust"} /\ checkpoint = obs[w] /\ checkpoint' = c /\ Forget(w)
        /\ account' = [account EXCEPT !.lastSyncState = "FAILED", !.lastSyncError = code[w]]
        /\ UNCHANGED <<clock, remote, stored, importedCount, lastSyncedWindowTo>>
    BY Zenon, <1>2 DEF FailPass, checkpointWhere
  <2>2. PICK place \in {"fatal", "retry"} : End(w, place)
    BY Zenon, <1>2 DEF FailPass
  <2>3. /\ code[w] \in ErrorCode /\ checkpoint \in Checkpoint /\ WellFormed(checkpoint)
        /\ Windowed(checkpoint)
    BY Zenon, <2>1 DEF IInv, TypeOK, RunTypeOK, RunInv, RunKnows, Nullable, Holding, Trying
  <2>4. /\ c \in Checkpoint
        /\ c.status = "FAILED" /\ c.lastError = code[w]
        /\ c.nextOffset = checkpoint.nextOffset /\ c.expectedTotal = checkpoint.expectedTotal
        /\ c.completedPages = checkpoint.completedPages
        /\ c.paginationRestartCount = checkpoint.paginationRestartCount
        /\ c.windowFrom = checkpoint.windowFrom /\ c.windowTo = checkpoint.windowTo
    BY Zenon, <2>1, <2>3 DEF Checkpoint, Nullable, Status
  <2> HIDE DEF c
  <2>5. account' \in [status : {"ACTIVE", "DISCONNECTED"}, source : {"MERCADO_LIVRE", "SIMULATED"},
                      lastSyncState : Nullable(Status), lastSyncError : Nullable(ErrorCode),
                      lastSyncedAt : Nullable(Int)]
        /\ account'.source = account.source /\ account'.lastSyncState = "FAILED"
        /\ account'.lastSyncError = code[w]
    BY Zenon, <2>1, <2>3 DEF IInv, TypeOK, RowTypeOK, Nullable, Status
  <2>6. RowTypeOK'
    BY Zenon, <2>1, <2>4, <2>5 DEF IInv, TypeOK, RowTypeOK, Nullable, remote, Forget
  <2>7. /\ overtaken' \in [Workers -> SUBSET {"page", "restart", "reopen", "late"}]
        /\ \A v \in Workers \ {w} : overtaken'[v] = overtaken[v]
    BY Zenon, <2>1 DEF IInv, TypeOK, RunTypeOK, Forget
  <2>8. RunTypeOK' /\ RunInv(w)' /\ \A v \in Workers \ {w} : SameRun(v)
    BY Zenon, <2>2, <2>7, EndTypes, RunEnded DEF IInv, TypeOK, Ended, Place
  <2>9. ASSUME NEW v \in Workers \ {w} PROVE RunInv(v)'
    BY Zenon, <2>1, <2>4, <2>5, <2>7, <2>8, RunPassedBy DEF IInv, remote
  <2>10. CompleteIsWhole' /\ NoGap' /\ ShownCountIsStored' /\ AccountMirrorsFailure'
    BY Zenon, <2>1, <2>3, <2>4, <2>5
       DEF IInv, RowsAgree, CompleteIsWhole, NoGap, ShownCountIsStored, AccountMirrorsFailure
  <2>11. RowsAgree'
    BY Zenon, <2>1, <2>3, <2>4, <2>10 DEF RowsAgree, Windowed, WellFormed
  <2>12. OrdersAgree'
    BY Zenon, <2>1, <2>5, OrdersFrame DEF IInv, remote
  <2> QED
    BY Zenon, <2>6, <2>8, <2>9, <2>11, <2>12 DEF IInv, TypeOK
<1> QED
  BY Zenon, <1>1, <1>2

\* The run whose transaction committed: it ends, or has not heard of its commit.
LEMMA OwnCommit ==
    ASSUME IInv, NEW w \in Workers, pc[w] \in {"persist", "restart"}, checkpoint = obs[w],
           checkpoint' \in Checkpoint, Beyond(checkpoint', checkpoint),
           NEW kind \in {"page", "restart"}, Overtake(w, kind), account'.source = account.source,
           \/ \E place \in {"ok", "enqueue"} : End(w, place)
           \/ FailWith(w, "SYNC_ERROR", "fail")
    PROVE  RunTypeOK' /\ RunInv(w)' /\ \A v \in Workers \ {w} : SameRun(v)
<1> USE NullApart
<1>0. /\ overtaken' \in [Workers -> SUBSET {"page", "restart", "reopen", "late"}]
      /\ overtaken'[w] = {}
  BY Zenon, OvertakeFacts DEF IInv, TypeOK
<1>1. ASSUME NEW place \in {"ok", "enqueue"}, End(w, place)
      PROVE  RunTypeOK' /\ RunInv(w)' /\ \A v \in Workers \ {w} : SameRun(v)
  BY Zenon, <1>0, <1>1, EndTypes, RunEnded DEF IInv, TypeOK, Ended, Place
<1>2. CASE FailWith(w, "SYNC_ERROR", "fail")
  <2>1. RunTypeOK'
    BY Zenon, <1>0, <1>2 DEF IInv, TypeOK, RunTypeOK, FailWith, Goto, Nullable, Place, IsPage, ErrorCode
  <2>2. RunKnows(w)'
    <3>1. /\ pc'[w] = "fail" /\ obs'[w] = obs[w] /\ page'[w] = NULL /\ code'[w] = "SYNC_ERROR"
          /\ account'.source = account.source
      BY Zenon, <1>2 DEF IInv, TypeOK, RunTypeOK, FailWith, Goto
    <3>2. code'[w] # NULL /\ checkpoint' # NULL
      BY Zenon, <3>1 DEF ErrorCode
    <3>3. RunKnows(w)
      BY Zenon DEF IInv, RunInv
    <3> QED
      BY Zenon, <3>1, <3>2, <3>3 DEF RunKnows, Holding, Trying, Real, Windowed, WellFormed, Exhausted
  <2>3. RunFenced(w)'
    <3>1. obs'[w] = checkpoint /\ ~Stale(w)'
      BY Zenon, <1>0, <1>2 DEF FailWith, Stale
    <3>2. checkpoint \in Checkpoint
      BY Zenon DEF IInv, TypeOK, RowTypeOK, Nullable, RunInv, RunKnows, Holding, Trying
    <3>3. AtLeast(checkpoint', checkpoint)
      BY <3>2 DEF AtLeast, Beyond, Checkpoint
    <3> QED
      BY Zenon, <3>1, <3>3 DEF RunFenced, AtLeast
  <2>4. RunCurrent(w)' /\ RunNotAhead(w)'
    BY Zenon, <1>2 DEF IInv, TypeOK, RunTypeOK, FailWith, Goto, RunCurrent, RunNotAhead
  <2>5. \A v \in Workers \ {w} : SameRun(v)
    BY Zenon, <1>2 DEF IInv, TypeOK, RunTypeOK, FailWith, Goto, SameRun
  <2> QED
    BY Zenon, <2>1, <2>2, <2>3, <2>4, <2>5 DEF RunInv
<1> QED
  BY Zenon, <1>1, <1>2

\* The columns each commit writes.
LEMMA RestartedTypes ==
    ASSUME NEW r \in Checkpoint, NEW t \in Nat
    PROVE  LET c == Restarted(r, t)
           IN  /\ c \in Checkpoint
               /\ c.status = "PARTIAL" /\ c.nextOffset = 0 /\ c.expectedTotal = t
               /\ c.paginationRestartCount = r.paginationRestartCount + 1
               /\ c.windowFrom = r.windowFrom /\ c.windowTo = r.windowTo
<1> DEFINE r2 == [r EXCEPT !.status = "PARTIAL", !.nextOffset = 0]
           r4 == [r2 EXCEPT !.expectedTotal = t, !.completedPages = 0]
           r5 == [r4 EXCEPT !.paginationRestartCount = @ + 1]
           r6 == [r5 EXCEPT !.lastError = "PAGINATION_TOTAL_CHANGED"]
<1>1. /\ r2 \in Checkpoint /\ r2.status = "PARTIAL" /\ r2.nextOffset = 0
      /\ r2.paginationRestartCount = r.paginationRestartCount
      /\ r2.windowFrom = r.windowFrom /\ r2.windowTo = r.windowTo
  BY Zenon DEF Checkpoint, Status
<1>2. Restarted(r, t) = r6
  BY Zenon DEF Restarted
<1> HIDE DEF r2
<1>3. /\ r4 \in Checkpoint /\ r4.status = "PARTIAL" /\ r4.nextOffset = 0 /\ r4.expectedTotal = t
      /\ r4.paginationRestartCount = r.paginationRestartCount
      /\ r4.windowFrom = r.windowFrom /\ r4.windowTo = r.windowTo
  BY Zenon, <1>1 DEF Checkpoint, Nullable
<1> HIDE DEF r4
<1>4. /\ r5 \in Checkpoint /\ r5.status = "PARTIAL" /\ r5.nextOffset = 0 /\ r5.expectedTotal = t
      /\ r5.paginationRestartCount = r.paginationRestartCount + 1
      /\ r5.windowFrom = r.windowFrom /\ r5.windowTo = r.windowTo
  BY <1>3 DEF Checkpoint
<1> HIDE DEF r5
<1>5. "PAGINATION_TOTAL_CHANGED" \in Nullable(ErrorCode)
  BY Zenon DEF Nullable, ErrorCode
<1> QED
  BY Zenon, <1>2, <1>4, <1>5 DEF Checkpoint

\* What a page transaction stores has its type.
LEMMA PersistedTypes ==
    ASSUME NEW r \in Checkpoint, NEW p, IsPage(p)
    PROVE  LET c == Persisted(r, p)
           IN  /\ c \in Checkpoint
               /\ c.status = PageStatus(p) /\ c.nextOffset = p.nextOffset /\ c.expectedTotal = p.total
               /\ c.completedPages = r.completedPages + 1
               /\ c.paginationRestartCount = r.paginationRestartCount
               /\ c.windowFrom = r.windowFrom /\ c.windowTo = r.windowTo
<1> DEFINE s  == PageStatus(p)
           r2 == [r EXCEPT !.status = s, !.lastError = NULL]
           r4 == [r2 EXCEPT !.nextOffset = p.nextOffset, !.expectedTotal = p.total]
           r5 == [r4 EXCEPT !.completedPages = @ + 1]
<1>0. s \in Status /\ p.nextOffset \in Nat /\ p.total \in Nat
  BY Zenon DEF PageStatus, Status, IsPage
<1>2. Persisted(r, p) = r5
  BY Zenon DEF Persisted
<1> HIDE DEF s
<1>1. /\ r2 \in Checkpoint /\ r2.status = s /\ r2.completedPages = r.completedPages
      /\ r2.paginationRestartCount = r.paginationRestartCount
      /\ r2.windowFrom = r.windowFrom /\ r2.windowTo = r.windowTo
  BY Zenon, <1>0 DEF Checkpoint, Nullable
<1> HIDE DEF r2
<1>3. /\ r4 \in Checkpoint /\ r4.status = s /\ r4.completedPages = r.completedPages
      /\ r4.nextOffset = p.nextOffset /\ r4.expectedTotal = p.total
      /\ r4.paginationRestartCount = r.paginationRestartCount
      /\ r4.windowFrom = r.windowFrom /\ r4.windowTo = r.windowTo
  BY Zenon, <1>0, <1>1 DEF Checkpoint, Nullable
<1> HIDE DEF r4
<1> QED
  BY <1>2, <1>3 DEF Checkpoint, s

\* The restart of a pass keeps the invariant.
LEMMA RestartTxIInv ==
    ASSUME IInv, NEW w \in Workers, pc[w] = "restart", RestartTx(w),
           End(w, "enqueue") \/ FailWith(w, "SYNC_ERROR", "fail")
    PROVE  IInv'
<1> USE NullApart
<1> DEFINE c == Restarted(obs[w], page[w].total)
<1>1. /\ checkpoint = obs[w] /\ checkpoint' = c /\ steady' = TRUE /\ Overtake(w, "restart")
      /\ account' = [account EXCEPT !.lastSyncState = "PARTIAL",
                                    !.lastSyncError = "PAGINATION_TOTAL_CHANGED"]
      /\ UNCHANGED <<clock, remote, stored, importedCount, lastSyncedWindowTo>>
  BY Zenon DEF RestartTx, checkpointWhere
<1>2. /\ checkpoint \in Checkpoint /\ WellFormed(checkpoint) /\ Windowed(checkpoint)
      /\ checkpoint.paginationRestartCount < MaxRestarts /\ checkpoint.expectedTotal # NULL
      /\ page[w].total \in Nat
  BY Zenon, <1>1 DEF IInv, TypeOK, RunTypeOK, RunInv, RunKnows, Nullable, Holding, Trying, IsPage
<1>3. /\ c \in Checkpoint
      /\ c.status = "PARTIAL" /\ c.nextOffset = 0 /\ c.expectedTotal = page[w].total
      /\ c.paginationRestartCount = checkpoint.paginationRestartCount + 1
      /\ c.windowFrom = checkpoint.windowFrom /\ c.windowTo = checkpoint.windowTo
  BY Zenon, <1>1, <1>2, RestartedTypes
<1> HIDE DEF c
<1>4. account' \in [status : {"ACTIVE", "DISCONNECTED"}, source : {"MERCADO_LIVRE", "SIMULATED"},
                    lastSyncState : Nullable(Status), lastSyncError : Nullable(ErrorCode),
                    lastSyncedAt : Nullable(Int)]
      /\ account'.source = account.source /\ account'.lastSyncState = "PARTIAL"
  BY Zenon, <1>1 DEF IInv, TypeOK, RowTypeOK, Nullable, Status, ErrorCode
<1>5. RowTypeOK'
  BY Zenon, <1>1, <1>3, <1>4 DEF IInv, TypeOK, RowTypeOK, Nullable, remote
<1>6. Beyond(checkpoint', checkpoint)
  BY <1>1, <1>2, <1>3 DEF Beyond, Checkpoint
<1>7. RunTypeOK' /\ RunInv(w)' /\ \A v \in Workers \ {w} : SameRun(v)
  BY Zenon, <1>1, <1>3, <1>4, <1>6, OwnCommit
<1>8. ASSUME NEW v \in Workers \ {w} PROVE RunInv(v)'
  BY Zenon, <1>1, <1>2, <1>3, <1>4, <1>6, <1>7, RunOvertaken, OvertakeFacts DEF IInv, TypeOK, remote
<1>9. CompleteIsWhole' /\ NoGap' /\ ShownCountIsStored' /\ AccountMirrorsFailure'
  BY Zenon, <1>1, <1>2, <1>3, <1>4
     DEF IInv, RowsAgree, CompleteIsWhole, NoGap, ShownCountIsStored, AccountMirrorsFailure
<1>10. WellFormed(c)
  BY <1>2, <1>3, SyncAssumption, WindowAssumption DEF WellFormed, Checkpoint
<1>11. RowsAgree'
  <2>1. checkpoint' # NULL /\ checkpoint'.windowTo # NULL
    BY Zenon, <1>1, <1>2, <1>3 DEF Windowed
  <2>2. WellFormed(checkpoint)'
    BY Zenon, <1>1, <1>10 DEF WellFormed
  <2> QED
    BY Zenon, <1>9, <2>1, <2>2 DEF RowsAgree
<1>12. OrdersAgree'
  BY Zenon, <1>1, <1>4, OrdersFrame DEF IInv, remote
<1> QED
  BY Zenon, <1>5, <1>7, <1>8, <1>11, <1>12 DEF IInv, TypeOK

\* So does the transaction of a page.
LEMMA PersistTxIInv ==
    ASSUME IInv, NEW w \in Workers, pc[w] = "persist", PersistTx(w),
           (\E place \in {"ok", "enqueue"} : End(w, place)) \/ FailWith(w, "SYNC_ERROR", "fail")
    PROVE  IInv'
<1> USE NullApart
<1> DEFINE p == page[w]
           c == Persisted(obs[w], p)
<1>1. /\ checkpoint = obs[w] /\ checkpoint' = c /\ Overtake(w, "page")
      /\ steady' = (steady /\ "reopen" \notin overtaken[w])
      /\ lastSyncedWindowTo' = IF p.complete THEN obs[w].windowTo ELSE lastSyncedWindowTo
      /\ stored' = [o \in Orders |-> IF o \in DOMAIN p.results THEN p.results[o] ELSE stored[o]]
      /\ importedCount' = Cardinality(StoredIds(stored'))
      /\ account' = [account EXCEPT !.lastSyncState = PageStatus(p), !.lastSyncError = NULL,
                                    !.lastSyncedAt = IF p.complete THEN time[w] ELSE @]
      /\ UNCHANGED <<clock, remote>>
  BY Zenon DEF PersistTx, checkpointWhere, CountOrders
<1>2. /\ checkpoint \in Checkpoint /\ WellFormed(checkpoint) /\ Windowed(checkpoint)
      /\ IsPage(p) /\ time[w] \in Int
      /\ Real => checkpoint.windowFrom <= checkpoint.windowTo
      /\ p.nextOffset <= p.total /\ (p.complete => p.nextOffset = p.total)
      /\ \A o \in DOMAIN p.results : p.results[o] <= version[o]
  BY Zenon, <1>1 DEF IInv, TypeOK, RunTypeOK, RunInv, RunKnows, RunNotAhead, Nullable, Holding, Trying
<1>3. /\ c \in Checkpoint
      /\ c.status = PageStatus(p) /\ c.nextOffset = p.nextOffset /\ c.expectedTotal = p.total
      /\ c.completedPages = checkpoint.completedPages + 1
      /\ c.paginationRestartCount = checkpoint.paginationRestartCount
      /\ c.windowFrom = checkpoint.windowFrom /\ c.windowTo = checkpoint.windowTo
  BY Zenon, <1>1, <1>2, PersistedTypes
<1>4. p.nextOffset \in Nat /\ p.total \in Nat /\ p.complete \in BOOLEAN
      /\ \A o \in DOMAIN p.results : p.results[o] \in Nat
  BY Zenon, <1>2 DEF IsPage
<1>5. PageStatus(p) \in Status /\ PageStatus(p) # "FAILED" /\ (PageStatus(p) = "COMPLETE" <=> p.complete)
  BY Zenon, <1>4 DEF PageStatus, Status
<1> HIDE DEF c, p
<1>6. account' \in [status : {"ACTIVE", "DISCONNECTED"}, source : {"MERCADO_LIVRE", "SIMULATED"},
                    lastSyncState : Nullable(Status), lastSyncError : Nullable(ErrorCode),
                    lastSyncedAt : Nullable(Int)]
      /\ account'.source = account.source /\ account'.lastSyncState = PageStatus(p)
  <2> DEFINE at == IF p.complete THEN time[w] ELSE account.lastSyncedAt
             a2 == [account EXCEPT !.lastSyncState = PageStatus(p), !.lastSyncError = NULL]
             a3 == [a2 EXCEPT !.lastSyncedAt = at]
  <2>1. account' = [account EXCEPT !.lastSyncState = PageStatus(p), !.lastSyncError = NULL,
                                   !.lastSyncedAt = at]
    BY Zenon, <1>1
  <2>2. account' = a3
    BY <2>1, Zenon
  <2>3. at \in Nullable(Int)
    BY Zenon, <1>2 DEF IInv, TypeOK, RowTypeOK, Nullable
  <2> HIDE DEF at
  <2>4. a2 \in [status : {"ACTIVE", "DISCONNECTED"}, source : {"MERCADO_LIVRE", "SIMULATED"},
                lastSyncState : Nullable(Status), lastSyncError : Nullable(ErrorCode),
                lastSyncedAt : Nullable(Int)]
        /\ a2.source = account.source /\ a2.lastSyncState = PageStatus(p)
    BY Zenon, <1>5 DEF IInv, TypeOK, RowTypeOK, Nullable
  <2> HIDE DEF a2
  <2> QED
    BY Zenon, <2>2, <2>3, <2>4
<1>7. stored' \in [Orders -> Nat] /\ importedCount' \in Nat
  <2>1. stored' \in [Orders -> Nat]
    BY Zenon, <1>1, <1>4 DEF IInv, TypeOK, RowTypeOK
  <2>2. StoredIds(stored') \in SUBSET Orders
    BY Zenon DEF StoredIds
  <2> QED
    BY Zenon, <1>1, <2>1, <2>2, CardinalityNat
<1>8. lastSyncedWindowTo' \in Nullable(Int)
  BY Zenon, <1>1, <1>2 DEF IInv, TypeOK, RowTypeOK, Checkpoint
<1>9. RowTypeOK'
  BY Zenon, <1>1, <1>3, <1>6, <1>7, <1>8 DEF IInv, TypeOK, RowTypeOK, Nullable, remote
<1>10. Beyond(checkpoint', checkpoint)
  BY <1>1, <1>2, <1>3 DEF Beyond, Checkpoint
<1>11. RunTypeOK' /\ RunInv(w)' /\ \A v \in Workers \ {w} : SameRun(v)
  BY Zenon, <1>1, <1>3, <1>6, <1>10, OwnCommit
<1>12. ASSUME NEW v \in Workers \ {w} PROVE RunInv(v)'
  BY Zenon, <1>1, <1>2, <1>3, <1>6, <1>10, <1>11, RunOvertaken, OvertakeFacts DEF IInv, TypeOK, remote
<1>13. CompleteIsWhole' /\ ShownCountIsStored' /\ AccountMirrorsFailure'
  BY Zenon, <1>1, <1>2, <1>3, <1>5, <1>6 DEF CompleteIsWhole, ShownCountIsStored, AccountMirrorsFailure
<1>14. NoGap'
  BY Zenon, <1>1, <1>2, <1>3, <1>6 DEF IInv, RowsAgree, NoGap, Real
<1>15. WellFormed(c)
  BY <1>2, <1>3, <1>4, WindowAssumption DEF WellFormed, Windowed
<1>16. RowsAgree'
  BY Zenon, <1>1, <1>2, <1>3, <1>13, <1>14, <1>15 DEF RowsAgree, Windowed, WellFormed
<1>17. OrdersAgree'
  BY Zenon, <1>1, <1>2, <1>6 DEF IInv, OrdersAgree, Real, remote
<1> QED
  BY Zenon, <1>9, <1>11, <1>12, <1>16, <1>17 DEF IInv, TypeOK

\* So does a commit, its acknowledgement lost or not.
LEMMA CommitIInv ==
    ASSUME IInv, NEW w \in Workers, PersistPage(w) \/ RestartWindow(w) \/ CommitUnacknowledged(w)
    PROVE  IInv'
BY Zenon, PersistTxIInv, RestartTxIInv, SupersededIInv DEF PersistPage, RestartWindow, CommitUnacknowledged
-----------------------------------------------------------------------------
\* Steps of the environment.

\* A step that leaves the runs and the rows of the sync alone keeps the invariant.
LEMMA EnvironmentFrame ==
    ASSUME IInv, RowTypeOK', UNCHANGED <<stored, row, run, overtaken, version>>,
           account'.source = account.source, account'.lastSyncState = account.lastSyncState,
           account'.lastSyncError = account.lastSyncError
    PROVE  IInv'
<1>1. RunTypeOK'
  BY Zenon DEF IInv, TypeOK, RunTypeOK, run, IsPage
<1>2. ASSUME NEW v \in Workers PROVE RunInv(v)'
  BY Zenon, RunFrame DEF IInv, row, run, SameRun
<1>3. RowsAgree' /\ OrdersAgree'
  BY Zenon, RowsFrame, OrdersFrame DEF IInv
<1> QED
  BY Zenon, <1>1, <1>2, <1>3 DEF IInv, TypeOK

\* A new revision of an order keeps the invariant.
LEMMA AmendIInv ==
    ASSUME IInv, NEW o \in Orders, Amend(o)
    PROVE  IInv'
<1>1. /\ account.source = "MERCADO_LIVRE" /\ version' = [version EXCEPT ![o] = @ + 1]
      /\ UNCHANGED <<clock, closed, db, run, ghost>>
  BY Zenon DEF Amend
<1>2. \A q \in Orders : version'[q] \in Nat /\ version[q] <= version'[q]
  BY <1>1 DEF IInv, TypeOK, RowTypeOK
<1>3. TypeOK'
  <2>1. version' \in [Orders -> Nat]
    BY <1>1 DEF IInv, TypeOK, RowTypeOK
  <2>2. RowTypeOK'
    BY Zenon, <1>1, <2>1 DEF IInv, TypeOK, RowTypeOK, db, row, ghost
  <2>3. RunTypeOK'
    BY Zenon, <1>1 DEF IInv, TypeOK, RunTypeOK, run, ghost, IsPage
  <2> QED
    BY Zenon, <2>2, <2>3 DEF TypeOK
<1>4. ASSUME NEW v \in Workers PROVE RunInv(v)'
  <2>1. RunInv(v)
    BY Zenon DEF IInv
  <2>2. RunKnows(v)'
    BY Zenon, <1>1, <2>1 DEF RunInv, RunKnows, db, row, run, Real, Windowed, WellFormed, Exhausted
  <2>3. RunFenced(v)' /\ RunCurrent(v)'
    BY Zenon, <1>1, <2>1 DEF RunInv, RunFenced, RunCurrent, AtLeast, Beyond, Stale, db, row, run, ghost
  <2>4. RunNotAhead(v)'
    <3>1. SUFFICES ASSUME page[v] # NULL, NEW q \in DOMAIN page[v].results
                   PROVE  page[v].results[q] <= version'[q]
      BY Zenon, <1>1 DEF RunNotAhead, run
    <3>2. page[v].results[q] <= version[q]
      BY Zenon, <2>1, <3>1 DEF RunInv, RunNotAhead
    <3>3. q \in Orders /\ page[v].results[q] \in Nat
      BY Zenon, <3>1 DEF IInv, TypeOK, RunTypeOK, IsPage
    <3>4. version[q] \in Nat /\ version'[q] \in Nat /\ version[q] <= version'[q]
      BY Zenon, <1>2, <3>3 DEF IInv, TypeOK, RowTypeOK
    <3> QED
      BY <3>2, <3>3, <3>4
  <2> QED
    BY Zenon, <2>2, <2>3, <2>4 DEF RunInv
<1>5. RowsAgree'
  BY Zenon, <1>1, RowsFrame DEF IInv, db
<1>6. OrdersAgree'
  BY <1>1, <1>2 DEF IInv, TypeOK, RowTypeOK, OrdersAgree, Real, db
<1> QED
  BY Zenon, <1>3, <1>4, <1>5, <1>6 DEF IInv

\* So does an order that enters or leaves the listing.
LEMMA RelistIInv ==
    ASSUME IInv, NEW o \in Orders, Relist(o)
    PROVE  IInv'
<1>1. PICK t \in Nullable({u \in ClosingTimes : u <= clock}) : closed' = [closed EXCEPT ![o] = t]
  BY Zenon DEF Relist
<1>2. t \in Nullable(Int)
  BY Zenon, SyncAssumption DEF Nullable
<1>3. steady' \in BOOLEAN
  BY Zenon DEF Relist
<1>4. UNCHANGED <<clock, version, db, run, overtaken>>
  BY Zenon DEF Relist
<1>5. RowTypeOK'
  BY Zenon, <1>1, <1>2, <1>3, <1>4 DEF IInv, TypeOK, RowTypeOK, db, row
<1> QED
  BY Zenon, <1>4, <1>5, EnvironmentFrame DEF db

\* So does every step of the environment.
LEMMA EnvironmentIInv ==
    ASSUME IInv, Environment
    PROVE  IInv'
<1>1. CASE Tick
  <2>1. clock' = clock + 1 /\ UNCHANGED <<remote, db, run, ghost>>
    BY Zenon, <1>1 DEF Tick
  <2>2. RowTypeOK'
    BY <2>1 DEF IInv, TypeOK, RowTypeOK, remote, db, row, ghost
  <2> QED
    BY Zenon, <2>1, <2>2, EnvironmentFrame DEF remote, db, ghost
<1>2. CASE Disconnect \/ Reconnect
  <2>1. PICK status \in {"ACTIVE", "DISCONNECTED"} :
          /\ account' = [account EXCEPT !.status = status]
          /\ UNCHANGED <<clock, remote, stored, row, run, ghost>>
    BY Zenon, <1>2 DEF Disconnect, Reconnect
  <2>2. /\ RowTypeOK' /\ account'.source = account.source
        /\ account'.lastSyncState = account.lastSyncState
        /\ account'.lastSyncError = account.lastSyncError
    BY Zenon, <2>1 DEF IInv, TypeOK, RowTypeOK, remote, row, ghost
  <2> QED
    BY Zenon, <2>1, <2>2, EnvironmentFrame DEF remote, ghost
<1> QED
  BY Zenon, <1>1, <1>2, RelistIInv, AmendIInv DEF Environment
-----------------------------------------------------------------------------
\* The invariant.

\* The invariant holds initially.
LEMMA InitIInv ==
    ASSUME Init
    PROVE  IInv
<1> USE NullApart
<1>1. PICK h \in Histories :
        /\ clock = 0
        /\ closed \in [Orders -> Nullable(ClosingTimes)]
        /\ version = [o \in Orders |-> 1]
        /\ stored = [o \in Orders |-> IF o \in h.ids THEN 1 ELSE 0]
        /\ checkpoint = h.row /\ importedCount = Cardinality(h.ids) /\ lastSyncedWindowTo = h.syncedTo
        /\ account = [status |-> "ACTIVE", source |-> h.source,
                      lastSyncState |-> IF h.row = NULL THEN NULL ELSE h.row.status,
                      lastSyncError |-> IF h.row = NULL THEN NULL ELSE h.row.lastError,
                      lastSyncedAt |-> h.syncedAt]
        /\ pc = [w \in Workers |-> "idle"]
        /\ time = [w \in Workers |-> NULL] /\ win = [w \in Workers |-> NULL]
        /\ obs = [w \in Workers |-> NULL] /\ page = [w \in Workers |-> NULL]
        /\ code = [w \in Workers |-> NULL] /\ overtaken = [w \in Workers |-> {}]
        /\ steady = (h.row = NULL)
  BY Zenon DEF Init
<1>2. /\ h.source \in {"MERCADO_LIVRE", "SIMULATED"} /\ h.ids \in SUBSET Orders
      /\ h.row \in Nullable(Checkpoint) /\ h.syncedTo \in Nullable(Int)
      /\ h.syncedAt \in Nullable(Int)
      /\ h.row = NULL => h.syncedTo = NULL
      /\ h.row # NULL =>
           /\ WellFormed(h.row)
           /\ h.row.status = "COMPLETE" => h.row.nextOffset = h.row.expectedTotal
           /\ h.row.status = "COMPLETE" /\ h.source = "MERCADO_LIVRE" => h.syncedTo = h.row.windowTo
           /\ h.row.windowTo = NULL => h.syncedTo = NULL /\ ~Exhausted(h.row)
           /\ h.source = "MERCADO_LIVRE" /\ h.syncedTo # NULL => h.row.windowFrom <= h.syncedTo
  BY Zenon, HistoryAssumption
<1>3. Cardinality(h.ids) \in Nat
  BY Zenon, <1>2, CardinalityNat
<1>4. account \in [status : {"ACTIVE", "DISCONNECTED"}, source : {"MERCADO_LIVRE", "SIMULATED"},
                   lastSyncState : Nullable(Status), lastSyncError : Nullable(ErrorCode),
                   lastSyncedAt : Nullable(Int)]
  BY Zenon, <1>1, <1>2 DEF Nullable, Checkpoint
<1>5. closed \in [Orders -> Nullable(Int)]
  BY Zenon, <1>1, SyncAssumption DEF Nullable
<1>6. RowTypeOK
  BY Zenon, <1>1, <1>2, <1>3, <1>4, <1>5 DEF RowTypeOK
<1>7. RunTypeOK
  BY Zenon, <1>1 DEF RunTypeOK, Nullable, Place, Ended
<1>8. ASSUME NEW w \in Workers PROVE RunInv(w)
  BY Zenon, <1>1 DEF RunInv, RunKnows, RunFenced, RunCurrent, RunNotAhead, Holding, Trying
<1>9. StoredIds(stored) = h.ids
  <2> DEFINE ids == h.ids
  <2>1. stored = [o \in Orders |-> IF o \in ids THEN 1 ELSE 0]
    BY Zenon, <1>1
  <2>2. ids \subseteq Orders
    BY Zenon, <1>2
  <2> HIDE DEF ids
  <2>3. StoredIds(stored) = ids
    BY <2>1, <2>2 DEF StoredIds
  <2> QED
    BY Zenon, <2>3 DEF ids
<1>10. CompleteIsWhole /\ NoGap /\ ShownCountIsStored
  BY Zenon, <1>1, <1>2, <1>9 DEF CompleteIsWhole, NoGap, ShownCountIsStored
<1>11. AccountMirrorsFailure
  BY Zenon, <1>1 DEF AccountMirrorsFailure
<1>12. RowsAgree
  BY Zenon, <1>1, <1>2, <1>10, <1>11 DEF RowsAgree
<1>13. OrdersAgree
  <2>1. /\ stored = [o \in Orders |-> IF o \in h.ids THEN 1 ELSE 0]
        /\ version = [o \in Orders |-> 1]
    BY Zenon, <1>1
  <2>2. \A o \in Orders : stored[o] \in {0, 1} /\ version[o] = 1
    BY Zenon, <2>1
  <2> QED
    BY <2>2 DEF OrdersAgree
<1> QED
  BY Zenon, <1>6, <1>7, <1>8, <1>12, <1>13 DEF IInv, TypeOK

\* Every step keeps the invariant.
LEMMA NextIInv ==
    ASSUME IInv, [Next]_vars
    PROVE  IInv'
<1>1. CASE Environment
  BY Zenon, <1>1, EnvironmentIInv
<1>2. ASSUME NEW w \in Workers, Step(w) PROVE IInv'
  BY Zenon, <1>2, ReadCheckpointIInv, CreateStateIInv, ReopenWindowIInv, InitializeWindowIInv,
     FetchPageIInv, FetchFailsIInv, SimulatePageIInv, CommitIInv, FailPassIInv DEF Step
<1>3. ASSUME NEW w \in Workers, Fault(w) PROVE IInv'
  BY Zenon, <1>3, DatabaseFailsIInv, CommitIInv, CrashIInv DEF Fault
<1>4. CASE UNCHANGED vars
  <2>1. RowTypeOK'
    BY Zenon, <1>4 DEF vars, IInv, TypeOK, RowTypeOK, remote, db, row, ghost
  <2> QED
    BY Zenon, <1>4, <2>1, EnvironmentFrame DEF vars, remote, db, ghost
<1> QED
  BY Zenon, <1>1, <1>2, <1>3, <1>4, StartIInv, StartRefusedIInv, EnqueueIInv DEF Next

\* Every reachable state of the synchronization satisfies the inductive invariant.
THEOREM Invariance == Spec => []IInv
BY InitIInv, NextIInv, PTL DEF Spec

\* The rows, the marketplace and the runs keep their types.
THEOREM TypeCorrect == Spec => []TypeOK
<1>1. IInv => TypeOK
  BY Zenon DEF IInv
<1> QED
  BY <1>1, Invariance, PTL

\* A stored checkpoint that is beyond the observed one does not match it.
LEMMA FencedNow == IInv => FencedWithinPass
<1>1. SUFFICES ASSUME IInv, NEW w \in Holders, Stale(w), "reopen" \notin overtaken[w],
                      checkpoint = obs[w]
               PROVE  FALSE
  BY Zenon DEF FencedWithinPass, checkpointWhere
<1>2. w \in Workers /\ obs[w] # NULL
  BY Zenon DEF Holders
<1>3. Beyond(obs[w], obs[w])
  BY Zenon, <1>1, <1>2 DEF IInv, RunInv, RunFenced
<1>4. obs[w] \in Checkpoint
  BY Zenon, <1>1, <1>2 DEF IInv, TypeOK, RunTypeOK, Nullable
<1> QED
  BY <1>3, <1>4 DEF Beyond, Checkpoint

\* The fence of checkpointWhere holds for any number of runs, orders, pages and
\* restarts, under crashes, database errors and lost acknowledgements: within a pass a
\* run that another run's page or restart has overtaken cannot commit.
THEOREM Fencing == Spec => []FencedWithinPass
BY FencedNow, Invariance, PTL

\* No number of concurrent runs restarts a window more often than MaxRestarts.
THEOREM RestartsBounded == Spec => []RestartBudget
<1>1. IInv => RestartBudget
  BY Zenon DEF IInv, RowsAgree, RestartBudget, WellFormed
<1> QED
  BY <1>1, Invariance, PTL

\* The checkpoint, account and order rows agree with one another in every state.

\* COMPLETE is written only at the end of the listing, together with the boundary the
\* next pass starts from (persistPage).
THEOREM CompletePassIsWhole == Spec => []CompleteIsWhole
<1>1. IInv => CompleteIsWhole
  BY Zenon DEF IInv, RowsAgree
<1> QED
  BY <1>1, Invariance, PTL

\* Successive windows overlap or touch, whichever of several runs reopens (reopenWindow).
THEOREM WindowsMeet == Spec => []NoGap
<1>1. IInv => NoGap
  BY Zenon DEF IInv, RowsAgree
<1> QED
  BY <1>1, Invariance, PTL

\* The count shown beside a total is the number of order rows (persistPage's recount).
THEOREM CountIsStored == Spec => []ShownCountIsStored
<1>1. IInv => ShownCountIsStored
  BY Zenon DEF IInv, RowsAgree
<1> QED
  BY <1>1, Invariance, PTL

\* The account row shows the failure of the checkpoint and no other (the outer catch of
\* syncRecentOrders).
THEOREM AccountMirrors == Spec => []AccountMirrorsFailure
<1>1. IInv => AccountMirrorsFailure
  BY Zenon DEF IInv, RowsAgree
<1> QED
  BY <1>1, Invariance, PTL
-----------------------------------------------------------------------------
\* What a step may do.

\* An existing checkpoint is changed by a run that still holds it, and outside
\* reopening and the first window the boundaries stay.
LEMMA CheckpointSteps ==
    ASSUME IInv, [Next]_vars, checkpoint # NULL, checkpoint' # checkpoint
    PROVE  \E w \in Workers :
             /\ checkpoint = obs[w]
             /\ \/ pc[w] \in {"reopen", "init"}
                \/ /\ pc[w] \in Trying
                   /\ checkpoint'.windowFrom = checkpoint.windowFrom
                   /\ checkpoint'.windowTo = checkpoint.windowTo
<1> DEFINE Changes(w) ==
       /\ checkpoint = obs[w]
       /\ \/ pc[w] \in {"reopen", "init"}
          \/ /\ pc[w] \in Trying
             /\ checkpoint'.windowFrom = checkpoint.windowFrom
             /\ checkpoint'.windowTo = checkpoint.windowTo
<1>0. checkpoint \in Checkpoint
  BY Zenon DEF IInv, TypeOK, RowTypeOK, Nullable
<1>1. ASSUME NEW w \in Workers, pc[w] = "persist", PersistTx(w) PROVE Changes(w)
  <2>1. IsPage(page[w]) /\ checkpoint = obs[w] /\ checkpoint' = Persisted(obs[w], page[w])
    BY Zenon, <1>1 DEF IInv, TypeOK, RunTypeOK, RunInv, RunKnows, PersistTx, checkpointWhere
  <2> QED
    BY Zenon, <1>0, <1>1, <2>1, PersistedTypes DEF Trying
<1>2. ASSUME NEW w \in Workers, pc[w] = "restart", RestartTx(w) PROVE Changes(w)
  <2>1. page[w].total \in Nat /\ checkpoint = obs[w]
        /\ checkpoint' = Restarted(obs[w], page[w].total)
    BY Zenon, <1>2 DEF IInv, TypeOK, RunTypeOK, RunInv, RunKnows, RestartTx, checkpointWhere, IsPage
  <2> QED
    BY Zenon, <1>0, <1>2, <2>1, RestartedTypes DEF Trying
<1>3. ASSUME NEW w \in Workers, FailPass(w) PROVE Changes(w)
  <2>1. /\ pc[w] \in {"fail", "exhaust"} /\ checkpoint = obs[w]
        /\ checkpoint' = [obs[w] EXCEPT !.status = "FAILED", !.lastError = code[w]]
    BY Zenon, <1>3 DEF FailPass, Superseded, checkpointWhere, db, row
  <2> QED
    BY Zenon, <1>0, <2>1 DEF Trying, Checkpoint
<1>4. ASSUME NEW w \in Workers, ReopenWindow(w) \/ InitializeWindow(w) PROVE Changes(w)
  BY Zenon, <1>4 DEF ReopenWindow, InitializeWindow, checkpointWhere
<1>5. ~(UNCHANGED vars) /\ ~Environment
  BY Zenon DEF Environment, Tick, Relist, Amend, Disconnect, Reconnect, vars, db, row
<1>6. ASSUME NEW w \in Workers,
             Start(w) \/ StartRefused(w) \/ ReadCheckpoint(w) \/ CreateState(w) \/ FetchPage(w)
               \/ FetchFails(w) \/ SimulatePage(w) \/ EnqueueContinuation(w) \/ EnqueueFails(w)
               \/ DatabaseFails(w) \/ Crash(w) \/ Superseded(w)
      PROVE  FALSE
  BY Zenon, <1>6 DEF Start, StartRefused, ReadCheckpoint, CreateState, FetchPage, FetchFails, SimulatePage,
              EnqueueContinuation, EnqueueFails, DatabaseFails, Crash, Superseded, db, row
<1> HIDE DEF Changes
<1>7. \E w \in Workers : Changes(w)
  BY Zenon, <1>1, <1>2, <1>3, <1>4, <1>5, <1>6
     DEF Next, Step, Fault, PersistPage, RestartWindow, CommitUnacknowledged
<1> QED
  BY Zenon, <1>7 DEF Changes

\* An exhausted window stays as it is whatever runs are in flight or start later.
THEOREM ExhaustedStays == Spec => ExhaustedIsFinal
<1>1. IInv /\ [Next]_vars =>
        [checkpoint # NULL /\ Exhausted(checkpoint) => checkpoint' = checkpoint]_vars
  <2>1. SUFFICES ASSUME IInv, [Next]_vars, checkpoint # NULL, Exhausted(checkpoint),
                        checkpoint' # checkpoint
                 PROVE  FALSE
    BY Zenon
  <2>2. PICK w \in Workers : checkpoint = obs[w] /\ pc[w] \in {"reopen", "init"} \cup Trying
    BY Zenon, <2>1, CheckpointSteps
  <2>3. RunKnows(w)
    BY Zenon, <2>1 DEF IInv, RunInv
  <2>4. CASE pc[w] = "reopen"
    BY Zenon, <2>1, <2>2, <2>3, <2>4 DEF RunKnows, Exhausted
  <2>5. CASE pc[w] = "init"
    BY Zenon, <2>1, <2>2, <2>3, <2>5 DEF IInv, RowsAgree, RunKnows, Windowed, WellFormed
  <2>6. CASE pc[w] \in Trying
    BY Zenon, <2>1, <2>2, <2>3, <2>6 DEF RunKnows
  <2> QED
    BY Zenon, <2>2, <2>4, <2>5, <2>6
<1> QED
  BY <1>1, Invariance, PTL DEF Spec, ExhaustedIsFinal

\* A window keeps its boundaries through every retry, restart, failure and crash.
THEOREM WindowStays == Spec => WindowIsFixed
<1>1. IInv /\ [Next]_vars =>
        [checkpoint # NULL /\ checkpoint.status # "COMPLETE" /\ checkpoint.windowTo # NULL =>
           /\ checkpoint'.windowFrom = checkpoint.windowFrom
           /\ checkpoint'.windowTo = checkpoint.windowTo]_vars
  <2>1. SUFFICES ASSUME IInv, [Next]_vars, checkpoint # NULL, checkpoint.status # "COMPLETE",
                        checkpoint.windowTo # NULL, checkpoint' # checkpoint
                 PROVE  /\ checkpoint'.windowFrom = checkpoint.windowFrom
                        /\ checkpoint'.windowTo = checkpoint.windowTo
    BY Zenon
  <2>2. PICK w \in Workers :
             /\ checkpoint = obs[w]
             /\ \/ pc[w] \in {"reopen", "init"}
                \/ /\ pc[w] \in Trying
                   /\ checkpoint'.windowFrom = checkpoint.windowFrom
                   /\ checkpoint'.windowTo = checkpoint.windowTo
    BY Zenon, <2>1, CheckpointSteps
  <2>3. pc[w] \notin {"reopen", "init"}
    BY Zenon, <2>1, <2>2 DEF IInv, RunInv, RunKnows, RowsAgree, Windowed, WellFormed
  <2> QED
    BY Zenon, <2>2, <2>3
<1> QED
  BY <1>1, Invariance, PTL DEF Spec, WindowIsFixed

\* A stored order goes back to an older revision only through a run that a reopening
\* of the window overtook.
THEOREM RollbackNeedsReopen == Spec => RollbackOnlyAcrossReopen
<1> DEFINE Rollback ==
       \A o \in Orders :
          stored'[o] < stored[o] =>
              \E w \in Workers : /\ pc[w] = "persist"
                                 /\ pc'[w] # "persist"
                                 /\ "reopen" \in overtaken[w]
<1>1. IInv /\ FencedWithinPass /\ [Next]_vars => [Rollback]_vars
  <2>1. SUFFICES ASSUME IInv, FencedWithinPass, [Next]_vars, NEW o \in Orders, stored'[o] < stored[o]
                 PROVE  \E w \in Workers : /\ pc[w] = "persist"
                                           /\ pc'[w] # "persist"
                                           /\ "reopen" \in overtaken[w]
    BY Zenon
  <2>2. stored' # stored
    BY <2>1 DEF IInv, TypeOK, RowTypeOK
  <2>3. ~(UNCHANGED vars) /\ ~Environment
    BY Zenon, <2>2 DEF Environment, Tick, Relist, Amend, Disconnect, Reconnect, vars, db, row
  <2>4. ASSUME NEW w \in Workers,
               Start(w) \/ StartRefused(w) \/ ReadCheckpoint(w) \/ CreateState(w) \/ ReopenWindow(w)
                 \/ InitializeWindow(w) \/ FetchPage(w) \/ FetchFails(w) \/ SimulatePage(w)
                 \/ EnqueueContinuation(w) \/ EnqueueFails(w) \/ DatabaseFails(w) \/ Crash(w)
                 \/ Superseded(w) \/ FailPass(w) \/ RestartTx(w)
        PROVE  FALSE
    BY Zenon, <2>2, <2>4 DEF Start, StartRefused, ReadCheckpoint, CreateState, ReopenWindow,
              InitializeWindow, FetchPage, FetchFails, SimulatePage, EnqueueContinuation,
              EnqueueFails, DatabaseFails, Crash, Superseded, FailPass, RestartTx, db
  <2>5. PICK w \in Workers :
          /\ pc[w] = "persist" /\ PersistTx(w)
          /\ \/ End(w, IF page[w].complete THEN "ok" ELSE "enqueue")
             \/ FailWith(w, "SYNC_ERROR", "fail")
    BY Zenon, <2>1, <2>3, <2>4 DEF Next, Step, Fault, PersistPage, RestartWindow, CommitUnacknowledged
  <2>6. pc'[w] # "persist"
    BY Zenon, <2>1, <2>5 DEF IInv, TypeOK, RunTypeOK, End, FailWith, Goto
  <2>7. o \in DOMAIN page[w].results /\ stored'[o] = page[w].results[o] /\ checkpoint = obs[w]
    <3>1. /\ stored' = [x \in Orders |-> IF x \in DOMAIN page[w].results
                                            THEN page[w].results[x] ELSE stored[x]]
          /\ checkpoint = obs[w]
      BY Zenon, <2>5 DEF PersistTx, checkpointWhere
    <3>2. stored[o] \in Nat
      BY Zenon, <2>1 DEF IInv, TypeOK, RowTypeOK
    <3>3. stored'[o] # stored[o]
      BY Zenon, <2>1, <3>2, LessIsNotMore
    <3> QED
      BY Zenon, <2>1, <3>1, <3>3
  <2>8. stored[o] \in Nat /\ stored'[o] \in Nat
    BY Zenon, <2>1, <2>5, <2>7 DEF IInv, TypeOK, RowTypeOK, RunTypeOK, RunInv, RunKnows, IsPage
  <2>9. Stale(w)
    <3>1. RunCurrent(w)
      BY Zenon, <2>1 DEF IInv, RunInv
    <3>2. stored'[o] < stored[o]
      BY Zenon, <2>1
    <3>3. ~(stored[o] <= stored'[o])
      BY Zenon, <2>8, <3>2, LessIsNotMore
    <3> QED
      BY Zenon, <2>5, <2>7, <3>1, <3>3 DEF RunCurrent
  <2>10. w \in Holders
    BY Zenon, <2>1, <2>5 DEF IInv, RunInv, RunKnows, Holding, Trying, Holders
  <2>11. "reopen" \in overtaken[w]
    BY Zenon, <2>1, <2>7, <2>9, <2>10 DEF FencedWithinPass, checkpointWhere
  <2> QED
    BY Zenon, <2>5, <2>6, <2>11
<1> QED
  BY <1>1, Invariance, Fencing, PTL DEF Spec, RollbackOnlyAcrossReopen
=============================================================================
