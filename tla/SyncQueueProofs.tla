--------------------------- MODULE SyncQueueProofs ---------------------------
(***************************************************************************)
(* Proofs about the synchronization driven by its queue: what holds of the    *)
(* runs alone holds of the runs the queue starts, and no unfinished pass is   *)
(* forgotten in silence.                                                      *)
(***************************************************************************)
EXTENDS SyncQueue, OrderSyncCursor

\* What the provers may take for a step.
USE SMTT(30), ZenonT(30)

QueueTypes ==
    /\ waiting \in [Kind -> Nat]
    /\ job \in [Workers -> Kind \cup {NULL}]
    /\ abandoned \in BOOLEAN

\* The run will come to an end at which the queue sees to it that the pass goes on: it
\* will read the checkpoint, holds the stored one, has a continuation to add, or threw.
InCharge(w) ==
    /\ job[w] # NULL
    /\ \/ pc[w] \in {"read", "create", "enqueue", "retry", "fatal", "dead"}
       \/ obs[w] # NULL /\ obs[w] = checkpoint

\* Only jobs run, and an unfinished pass has a job that waits or a run in charge.
StrandInv ==
    /\ QueueTypes
    /\ "lostack" \notin events
    /\ \A w \in Workers : job[w] = NULL => pc[w] \in Ended
    /\ Partial => abandoned \/ JobsWaiting # {} \/ \E w \in Workers : InCharge(w)
-----------------------------------------------------------------------------
\* The runs of the queue are runs.

\* Each step with the queue is a step of the runs, or leaves them alone.
LEMMA QueueSteps ==
    ASSUME [QueueNext]_QueueVars
    PROVE  [Next]_vars
<1>1. CASE ScheduleSync \/ (\E w \in Workers : Settle(w)) \/ UNCHANGED QueueVars
  BY Zenon, <1>1 DEF ScheduleSync, Settle, QueueVars
<1>2. ASSUME NEW w \in Workers, ScheduleInline(w) \/ Process(w) PROVE Next
  BY Zenon, <1>2 DEF ScheduleInline, Process, Next
<1>3. ASSUME NEW w \in Workers, RunStep(w) \/ Continue(w) PROVE Next
  BY Zenon, <1>3 DEF RunStep, Continue, Next
<1>4. CASE Disturbance
  BY Zenon, <1>4 DEF Disturbance, Next
<1> QED
  BY Zenon, <1>1, <1>2, <1>3, <1>4 DEF QueueNext

\* Whatever jobs, retries, stalls and inline runs there are, the queue starts no run
\* that the synchronization does not allow for (MarketplaceSyncProcessor.process).
THEOREM QueueImplementsRuns == QueueSpec => Spec
<1>1. QueueInit => Init
  BY Zenon DEF QueueInit
<1>2. [QueueNext]_QueueVars => [Next]_vars
  BY Zenon, QueueSteps
<1> QED
  BY <1>1, <1>2, PTL DEF QueueSpec, Spec

\* The inductive invariant of the runs holds under the queue.
THEOREM QueueInvariance == QueueSpec => []IInv
BY QueueImplementsRuns, Invariance, PTL

\* Nor does the cursor of a synchronization driven by the queue skip an order.
THEOREM QueueNeverSkips == QueueSpec => []CursorCovered
BY QueueImplementsRuns, CursorNeverSkips, PTL
-----------------------------------------------------------------------------
\* Who is in charge after a step of a run.

SamePlace(v) == pc'[v] = pc[v] /\ obs'[v] = obs[v]

\* A step of w leaves the others where they are, and w is in charge afterwards if it
\* was or if it moved the checkpoint, unless the pass is over.
Carries(w) ==
    /\ \A v \in Workers \ {w} : SamePlace(v)
    /\ Partial' /\ (checkpoint' # checkpoint \/ InCharge(w)) => InCharge(w)'

\* A run that threw, died or has a continuation to add is in charge.
LEMMA CarriesEnd ==
    ASSUME RunTypeOK, NEW w \in Workers, NEW place \in {"enqueue", "retry", "fatal", "dead"},
           End(w, place), job[w] # NULL, UNCHANGED job
    PROVE  Carries(w)
<1>1. pc'[w] = place /\ \A v \in Workers \ {w} : SamePlace(v)
  BY Zenon DEF RunTypeOK, End, Goto, SamePlace
<1> QED
  BY Zenon, <1>1 DEF Carries, InCharge

\* A run that goes on with the stored checkpoint is in charge.
LEMMA CarriesProceed ==
    ASSUME RunTypeOK, NEW w \in Workers, checkpoint' # NULL, Proceed(w, checkpoint'),
           job[w] # NULL, UNCHANGED job
    PROVE  Carries(w)
<1>1. CASE Exhausted(checkpoint')
  BY Zenon, <1>1, CarriesEnd DEF Proceed
<1>2. CASE ~Exhausted(checkpoint')
  <2>1. obs'[w] = checkpoint' /\ \A v \in Workers \ {w} : SamePlace(v)
    BY Zenon, <1>2 DEF RunTypeOK, Proceed, Goto, SamePlace
  <2> QED
    BY Zenon, <2>1 DEF Carries, InCharge
<1> QED
  BY Zenon, <1>1, <1>2

\* A run that goes on with the checkpoint it holds.
LEMMA CarriesOn ==
    ASSUME RunTypeOK, NEW w \in Workers, NEW place, Goto(w, place),
           pc[w] \in {"fetch", "persist", "restart"}, UNCHANGED <<obs, checkpoint, job>>
    PROVE  Carries(w)
<1>1. \A v \in Workers \ {w} : SamePlace(v)
  BY Zenon DEF RunTypeOK, Goto, SamePlace
<1> QED
  BY Zenon, <1>1 DEF Carries, InCharge

\* A superseded run was not in charge.
LEMMA CarriesNothing ==
    ASSUME RunTypeOK, NEW w \in Workers, End(w, "ok"), ~checkpointWhere(w),
           pc[w] \in Holding, UNCHANGED checkpoint
    PROVE  Carries(w)
<1>1. \A v \in Workers \ {w} : SamePlace(v)
  BY Zenon DEF RunTypeOK, End, Goto, SamePlace
<1>2. ~InCharge(w)
  BY Zenon DEF InCharge, checkpointWhere, Holding, Trying
<1> QED
  BY Zenon, <1>1, <1>2 DEF Carries

\* A commit after which the pass is over.
LEMMA CarriesOver ==
    ASSUME RunTypeOK, NEW w \in Workers, NEW place, End(w, place), ~Partial'
    PROVE  Carries(w)
BY Zenon DEF RunTypeOK, End, Goto, SamePlace, Carries
-----------------------------------------------------------------------------
\* Reading the checkpoint leaves the run in charge.
LEMMA ReadCarries ==
    ASSUME IInv, NEW w \in Workers, ReadCheckpoint(w), job[w] # NULL, UNCHANGED job
    PROVE  Carries(w)
<1>1. RunTypeOK /\ UNCHANGED checkpoint
  BY Zenon DEF IInv, TypeOK, ReadCheckpoint, db, row
<1>2. CASE checkpoint # NULL /\ Proceed(w, checkpoint)
  BY Zenon, <1>1, <1>2, CarriesProceed
<1>3. CASE ~(checkpoint # NULL /\ Proceed(w, checkpoint))
  <2>1. \/ Goto(w, "create") /\ UNCHANGED obs
        \/ /\ checkpoint # NULL /\ obs' = [obs EXCEPT ![w] = checkpoint]
           /\ Goto(w, "reopen") \/ Goto(w, "init")
    BY Zenon, <1>3 DEF ReadCheckpoint
  <2>2. \A v \in Workers \ {w} : SamePlace(v)
    BY Zenon, <1>1, <2>1 DEF RunTypeOK, Goto, SamePlace
  <2>3. pc'[w] = "create" \/ (obs'[w] # NULL /\ obs'[w] = checkpoint')
    BY Zenon, <1>1, <2>1 DEF RunTypeOK, Goto
  <2> QED
    BY Zenon, <2>2, <2>3 DEF Carries, InCharge
<1> QED
  BY Zenon, <1>2, <1>3

\* So does the creation, reopening or initialization of a window.
LEMMA OpenCarries ==
    ASSUME IInv, NEW w \in Workers, CreateState(w) \/ ReopenWindow(w) \/ InitializeWindow(w),
           job[w] # NULL, UNCHANGED job
    PROVE  Carries(w)
<1>1. RunTypeOK /\ RunKnows(w)
  BY Zenon DEF IInv, TypeOK, RunInv
<1>2. CASE CreateState(w)
  <2>1. CASE checkpoint # NULL
    BY Zenon, <1>1, <1>2, <2>1, CarriesEnd DEF CreateState
  <2>2. CASE checkpoint = NULL
    <3>1. win[w] \in [from : Int, to : Int]
      BY Zenon, <1>1, <1>2 DEF RunKnows, RunTypeOK, CreateState, Nullable
    <3>2. checkpoint' # NULL /\ Proceed(w, checkpoint')
      BY Zenon, <1>2, <2>2, <3>1, FreshTypes, NullApart DEF CreateState
    <3> QED
      BY Zenon, <1>1, <3>2, CarriesProceed
  <2> QED
    BY Zenon, <2>1, <2>2
<1>3. CASE ReopenWindow(w)
  <2>1. CASE ~checkpointWhere(w)
    BY Zenon, <1>1, <1>3, <2>1, CarriesNothing DEF ReopenWindow, Holding
  <2>2. CASE checkpointWhere(w)
    <3>1. win[w] \in [from : Int, to : Int]
      BY Zenon, <1>1, <1>3 DEF RunKnows, RunTypeOK, ReopenWindow, Nullable
    <3>2. checkpoint' # NULL /\ Proceed(w, checkpoint')
      BY Zenon, <1>3, <2>2, <3>1, FreshTypes, NullApart DEF ReopenWindow
    <3> QED
      BY Zenon, <1>1, <3>2, CarriesProceed
  <2> QED
    BY Zenon, <2>1, <2>2
<1>4. CASE InitializeWindow(w)
  <2>1. CASE ~checkpointWhere(w)
    BY Zenon, <1>1, <1>4, <2>1, CarriesNothing DEF InitializeWindow, Holding
  <2>2. CASE checkpointWhere(w)
    <3>1. win[w] \in [from : Int, to : Int] /\ obs[w] \in Checkpoint
      BY Zenon, <1>1, <1>4 DEF RunKnows, RunTypeOK, InitializeWindow, Nullable, Holding
    <3>2. /\ Proceed(w, checkpoint')
          /\ checkpoint' = [obs[w] EXCEPT !.windowFrom = win[w].from, !.windowTo = win[w].to]
      BY Zenon, <1>4, <2>2 DEF InitializeWindow, checkpointWhere
    <3>3. checkpoint' # NULL
      BY Zenon, <3>1, <3>2, NullApart DEF Checkpoint, Nullable
    <3> QED
      BY Zenon, <1>1, <3>2, <3>3, CarriesProceed
  <2> QED
    BY Zenon, <2>1, <2>2
<1> QED
  BY Zenon, <1>2, <1>3, <1>4

\* So does a page, or the failure to get one.
LEMMA PageCarries ==
    ASSUME IInv, NEW w \in Workers, FetchPage(w) \/ FetchFails(w) \/ SimulatePage(w), UNCHANGED job
    PROVE  Carries(w)
<1>1. RunTypeOK /\ pc[w] = "fetch" /\ UNCHANGED checkpoint
  BY Zenon DEF IInv, TypeOK, FetchPage, FetchFails, SimulatePage, db, row
<1>2. UNCHANGED obs /\ \E place \in Place : Goto(w, place)
  BY Zenon DEF FetchPage, FetchFails, SimulatePage, TotalChanged, FailWith, Place
<1> QED
  BY Zenon, <1>1, <1>2, CarriesOn

\* So does a commit that leaves the pass unfinished.
LEMMA CommitCarries ==
    ASSUME IInv, NEW w \in Workers, PersistPage(w) \/ RestartWindow(w) \/ FailPass(w),
           job[w] # NULL, UNCHANGED job
    PROVE  Carries(w)
<1>1. RunTypeOK /\ RunKnows(w) /\ pc[w] \in Trying
  BY Zenon DEF IInv, TypeOK, RunInv, PersistPage, RestartWindow, FailPass, Trying
<1>2. CASE Superseded(w)
  BY Zenon, <1>1, <1>2, CarriesNothing DEF Superseded, Holding, db, row
<1>3. ASSUME PersistPage(w), ~Superseded(w) PROVE Carries(w)
  <2>1. /\ PersistTx(w) /\ End(w, IF page[w].complete THEN "ok" ELSE "enqueue")
        /\ checkpoint' = Persisted(obs[w], page[w])
    BY Zenon, <1>3 DEF PersistPage, PersistTx
  <2>2. obs[w] \in Checkpoint /\ IsPage(page[w])
    BY Zenon, <1>1, <1>3 DEF RunTypeOK, RunKnows, Nullable, PersistPage, Holding, Trying
  <2>3. CASE page[w].complete
    <3>1. checkpoint'.status = "COMPLETE"
      BY Zenon, <2>1, <2>2, <2>3, PersistedTypes DEF PageStatus
    <3> QED
      BY Zenon, <1>1, <2>1, <3>1, CarriesOver DEF Partial
  <2>4. CASE ~page[w].complete
    BY Zenon, <1>1, <2>1, <2>4, CarriesEnd
  <2> QED
    BY Zenon, <2>3, <2>4
<1>4. ASSUME RestartWindow(w), ~Superseded(w) PROVE Carries(w)
  BY Zenon, <1>1, <1>4, CarriesEnd DEF RestartWindow
<1>5. ASSUME FailPass(w), ~Superseded(w) PROVE Carries(w)
  <2>1. /\ checkpoint' = [obs[w] EXCEPT !.status = "FAILED", !.lastError = code[w]]
        /\ End(w, IF pc[w] = "exhaust" THEN "fatal" ELSE "retry")
    BY Zenon, <1>5 DEF FailPass
  <2>2. obs[w] \in Checkpoint
    BY Zenon, <1>1 DEF RunTypeOK, RunKnows, Nullable, Holding
  <2>3. checkpoint'.status = "FAILED"
    BY Zenon, <2>1, <2>2 DEF Checkpoint
  <2> QED
    BY Zenon, <1>1, <2>1, <2>3, CarriesOver DEF Partial
<1> QED
  BY Zenon, <1>2, <1>3, <1>4, <1>5

\* So does a failure of the database, of the queue or of the process.
LEMMA FaultCarries ==
    ASSUME IInv, NEW w \in Workers, DatabaseFails(w) \/ Crash(w) \/ EnqueueFails(w),
           job[w] # NULL, UNCHANGED job
    PROVE  Carries(w)
<1>1. RunTypeOK /\ UNCHANGED checkpoint
  BY Zenon DEF IInv, TypeOK, DatabaseFails, Crash, EnqueueFails, db, row
<1>2. CASE End(w, "retry") \/ End(w, "dead")
  BY Zenon, <1>1, <1>2, CarriesEnd
<1>3. CASE pc[w] \in {"persist", "restart"} /\ FailWith(w, "SYNC_ERROR", "fail")
  BY Zenon, <1>1, <1>3, CarriesOn DEF FailWith
<1> QED
  BY Zenon, <1>2, <1>3 DEF DatabaseFails, Crash, EnqueueFails
-----------------------------------------------------------------------------
\* The queue.

\* A job that was added waits.
LEMMA JobWaits ==
    ASSUME waiting \in [Kind -> Nat], NEW k \in Kind, waiting' = Added(k)
    PROVE  waiting' \in [Kind -> Nat] /\ JobsWaiting' # {}
<1>1. waiting' \in [Kind -> Nat] /\ waiting'[k] > 0
  BY DEF Added
<1> QED
  BY Zenon, <1>1 DEF JobsWaiting

\* A new job and an inline run are kinds of jobs, and no job is not.
LEMMA Kinds == NewJob \in Kind /\ Inline \in Kind /\ NULL \notin Kind
<1>1. NewJob \in Kind /\ Inline \in Kind
  BY QueueAssumption DEF NewJob, Inline, Kind
<1>2. Kind \subseteq [attempts : Nat, stalls : Nat]
  BY QueueAssumption DEF Kind
<1> QED
  BY Zenon, <1>1, <1>2, QueueAssumption

\* A step of a run that leaves the queue alone.
LEMMA StrandRun ==
    ASSUME IInv, StrandInv, UNCHANGED queue, NEW w \in Workers,
           Step(w) \/ Fault(w) \/ EnqueueFails(w)
    PROVE  StrandInv'
<1>1. UNCHANGED <<waiting, job, abandoned>>
  BY Zenon DEF queue
<1>2. ~CommitUnacknowledged(w)
  BY Zenon DEF StrandInv, CommitUnacknowledged
<1>3. pc[w] \notin Ended
  BY Zenon, <1>2 DEF Step, Fault, ReadCheckpoint, CreateState, ReopenWindow, InitializeWindow, FetchPage,
              FetchFails, SimulatePage, PersistPage, RestartWindow, FailPass, DatabaseFails, Crash,
              EnqueueFails, Ended
<1>4. job[w] # NULL
  BY Zenon, <1>3 DEF StrandInv
<1>5. Carries(w)
  BY Zenon, <1>1, <1>2, <1>4, ReadCarries, OpenCarries, PageCarries, CommitCarries, FaultCarries
     DEF Step, Fault
<1>6. UNCHANGED events
  <2>1. UNCHANGED remote
    BY Zenon, <1>2 DEF Step, Fault, ReadCheckpoint, CreateState, ReopenWindow, InitializeWindow,
              FetchPage, FetchFails, SimulatePage, PersistPage, PersistTx, RestartWindow, RestartTx,
              FailPass, DatabaseFails, Crash, EnqueueFails, Superseded
  <2> QED
    BY Zenon, <2>1 DEF remote
<1>7. \A v \in Workers : job'[v] = NULL => pc'[v] \in Ended
  BY Zenon, <1>1, <1>4, <1>5 DEF StrandInv, Carries, SamePlace
<1>8. ASSUME Partial' PROVE abandoned' \/ JobsWaiting' # {} \/ \E v \in Workers : InCharge(v)'
  <2>1. CASE checkpoint' # checkpoint
    BY Zenon, <1>5, <1>8, <2>1 DEF Carries
  <2>2. CASE checkpoint' = checkpoint
    <3>1. Partial
      BY Zenon, <1>8, <2>2 DEF Partial
    <3>2. ASSUME NEW v \in Workers, InCharge(v) PROVE InCharge(v)'
      BY Zenon, <1>1, <1>5, <1>8, <2>2, <3>2 DEF Carries, SamePlace, InCharge
    <3> QED
      BY Zenon, <1>1, <3>1, <3>2 DEF StrandInv, JobsWaiting
  <2> QED
    BY Zenon, <2>1, <2>2
<1> QED
  BY Zenon, <1>1, <1>6, <1>7, <1>8 DEF StrandInv, QueueTypes

\* What happens around the runs.
LEMMA StrandEnvironment ==
    ASSUME StrandInv, UNCHANGED queue, Environment \/ UNCHANGED vars
    PROVE  StrandInv'
<1>1. UNCHANGED <<waiting, job, abandoned>>
  BY Zenon DEF queue
<1>2. UNCHANGED <<pc, obs, checkpoint, events>>
  BY Zenon DEF Environment, Tick, Relist, Amend, Disconnect, Reconnect, vars, run, db, row, remote
<1> QED
  BY Zenon, <1>1, <1>2 DEF StrandInv, QueueTypes, Partial, JobsWaiting, InCharge

\* A job is taken, or a request runs inline: the run is about to read, or has thrown.
LEMMA StrandTake ==
    ASSUME IInv, StrandInv, NEW w \in Workers, job[w] = NULL, Start(w) \/ StartRefused(w),
           NEW k \in Kind, job' = [job EXCEPT ![w] = k], waiting' \in [Kind -> Nat],
           UNCHANGED abandoned
    PROVE  StrandInv'
<1>1. pc'[w] \in {"read", "retry"} /\ \A v \in Workers \ {w} : SamePlace(v)
  BY Zenon DEF Start, StartRefused, End, Goto, IInv, TypeOK, RunTypeOK, SamePlace
<1>2. UNCHANGED <<checkpoint, events>>
  BY Zenon DEF Start, StartRefused, db, row, remote
<1>3. /\ job' \in [Workers -> Kind \cup {NULL}] /\ job'[w] # NULL
      /\ \A v \in Workers \ {w} : job'[v] = job[v]
  BY Zenon, Kinds DEF StrandInv, QueueTypes
<1>4. InCharge(w)'
  BY Zenon, <1>1, <1>3 DEF InCharge
<1>5. \A v \in Workers : job'[v] = NULL => pc'[v] \in Ended
  BY Zenon, <1>1, <1>3 DEF StrandInv, SamePlace
<1> QED
  BY Zenon, <1>2, <1>3, <1>4, <1>5 DEF StrandInv, QueueTypes

\* A run is over: who was in charge leaves a job or has it recorded as failed.
LEMMA StrandSettle ==
    ASSUME IInv, StrandInv, NEW w \in Workers, Settle(w)
    PROVE  StrandInv'
<1>1. /\ job[w] \in Kind /\ UNCHANGED <<pc, obs, checkpoint, events>>
      /\ pc[w] \in Ended
      /\ \A v \in Workers \ {w} : job'[v] = job[v]
      /\ job' \in [Workers -> Kind \cup {NULL}]
  <2>1. UNCHANGED vars /\ job[w] # NULL /\ job' = [job EXCEPT ![w] = NULL]
        /\ pc[w] \in {"ok", "retry", "dead", "fatal"}
    BY Zenon DEF Settle, Retried, StalledPutBack, Failed
  <2> QED
    BY Zenon, <2>1 DEF vars, run, db, row, remote, StrandInv, QueueTypes, Ended
<1>2. \A v \in Workers : job'[v] = NULL => pc'[v] \in Ended
  BY Zenon, <1>1 DEF StrandInv
<1>3. \A v \in Workers \ {w} : InCharge(v) => InCharge(v)'
  BY Zenon, <1>1 DEF InCharge
<1>4. CASE pc[w] = "ok" /\ UNCHANGED <<waiting, abandoned>>
  <2>1. obs[w] = NULL
    BY Zenon, <1>4 DEF IInv, RunInv, RunKnows, Holding, Trying
  <2>2. ~InCharge(w)
    BY Zenon, <1>4, <2>1 DEF InCharge
  <2> QED
    BY Zenon, <1>1, <1>2, <1>3, <1>4, <2>2 DEF StrandInv, QueueTypes, Partial, JobsWaiting
<1>5. ASSUME NEW k \in Kind, Requeue(k) PROVE StrandInv'
  <2>1. waiting' \in [Kind -> Nat] /\ JobsWaiting' # {} /\ UNCHANGED abandoned
    BY Zenon, <1>5, JobWaits DEF Requeue, StrandInv, QueueTypes
  <2> QED
    BY Zenon, <1>1, <1>2, <2>1 DEF StrandInv, QueueTypes
<1>6. CASE Failed(w)
  BY Zenon, <1>1, <1>2, <1>6 DEF Failed, GiveUp, StrandInv, QueueTypes
<1>7. CASE Retried(w)
  <2>1. [job[w] EXCEPT !.attempts = @ + 1] \in Kind
    BY <1>1, <1>7, QueueAssumption DEF Retried, Kind
  <2> QED
    BY Zenon, <1>5, <1>7, <2>1 DEF Retried
<1>8. CASE StalledPutBack(w)
  <2>1. [job[w] EXCEPT !.stalls = @ + 1] \in Kind
    BY <1>1, <1>8, QueueAssumption DEF StalledPutBack, Kind
  <2> QED
    BY Zenon, <1>5, <1>8, <2>1 DEF StalledPutBack
<1> QED
  BY Zenon, <1>4, <1>6, <1>7, <1>8 DEF Settle

\* A continuation or a job a user asks for waits.
LEMMA StrandAdd ==
    ASSUME IInv, StrandInv, ScheduleSync \/ \E w \in Workers : Continue(w)
    PROVE  StrandInv'
<1>1. waiting' \in [Kind -> Nat] /\ JobsWaiting' # {}
  BY Zenon, Kinds, JobWaits DEF ScheduleSync, Continue, StrandInv, QueueTypes
<1>2. UNCHANGED job /\ abandoned' \in BOOLEAN /\ UNCHANGED events
  BY Zenon DEF ScheduleSync, Continue, EnqueueContinuation, StrandInv, QueueTypes, vars, remote
<1>3. ASSUME NEW v \in Workers, pc[v] \in Ended PROVE pc'[v] \in Ended
  BY Zenon, <1>3 DEF ScheduleSync, Continue, EnqueueContinuation, End, Goto, vars, run, IInv, TypeOK,
              RunTypeOK, Ended
<1> QED
  BY Zenon, <1>1, <1>2, <1>3 DEF StrandInv, QueueTypes

\* Every step keeps a job or a run in charge of an unfinished pass.
LEMMA StrandNext ==
    ASSUME IInv, StrandInv, [QueueNext]_QueueVars
    PROVE  StrandInv'
<1>1. ASSUME NEW w \in Workers, RunStep(w) PROVE StrandInv'
  BY Zenon, <1>1, StrandRun DEF RunStep
<1>2. CASE Disturbance
  BY Zenon, <1>2, StrandRun, StrandEnvironment DEF Disturbance
<1>3. CASE UNCHANGED QueueVars
  BY Zenon, <1>3, StrandEnvironment DEF QueueVars
<1>4. ASSUME NEW w \in Workers, ScheduleInline(w) PROVE StrandInv'
  BY Zenon, <1>4, Kinds, StrandTake DEF ScheduleInline, StrandInv, QueueTypes
<1>5. ASSUME NEW w \in Workers, Process(w) PROVE StrandInv'
  <2>1. PICK k \in JobsWaiting : job' = [job EXCEPT ![w] = k] /\ waiting' = Removed(k)
    BY Zenon, <1>5 DEF Process
  <2>2. k \in Kind /\ waiting' \in [Kind -> Nat]
    BY <2>1 DEF JobsWaiting, Removed, StrandInv, QueueTypes
  <2> QED
    BY Zenon, <1>5, <2>1, <2>2, StrandTake DEF Process
<1> QED
  BY Zenon, <1>1, <1>2, <1>3, <1>4, <1>5, StrandSettle, StrandAdd DEF QueueNext

\* An unfinished pass is not forgotten in silence, for any number of runs, jobs, tries
\* and stalls, crashes and queue errors included: while the checkpoint is PARTIAL a job
\* waits or runs, or one was given up aloud.  It is assumed that no acknowledgement of a
\* commit is lost, which does strand a pass, and that the queue does not begin beside a
\* pass whose job it has never seen (enqueueContinuation, MarketplaceSyncProcessor).
THEOREM NothingStranded ==
    ASSUME \A h \in Histories : /\ "lostack" \notin h.events
                                /\ h.row # NULL => h.row.status # "PARTIAL"
    PROVE  QueueSpec => []NoSilentStrand
<1>1. QueueInit => StrandInv
  <2>1. SUFFICES ASSUME QueueInit PROVE StrandInv
    BY Zenon
  <2>2. "lostack" \notin events /\ ~Partial /\ \A w \in Workers : pc[w] \in Ended
    <3>1. Init
      BY Zenon, <2>1 DEF QueueInit
    <3>2. "lostack" \notin events /\ ~Partial
      BY Zenon, <3>1 DEF Init, Partial
    <3>3. \A w \in Workers : pc[w] \in Ended
      BY Zenon, <3>1 DEF Init, Ended
    <3> QED
      BY Zenon, <3>2, <3>3
  <2>3. QueueTypes
    BY Zenon, <2>1 DEF QueueInit, QueueTypes
  <2> QED
    BY Zenon, <2>2, <2>3 DEF StrandInv
<1>2. IInv /\ StrandInv /\ [QueueNext]_QueueVars => StrandInv'
  BY Zenon, StrandNext
<1>3. StrandInv => NoSilentStrand
  BY Zenon DEF StrandInv, NoSilentStrand, Pending, Running, InCharge
<1> QED
  BY <1>1, <1>2, <1>3, QueueInvariance, PTL DEF QueueSpec
=============================================================================
