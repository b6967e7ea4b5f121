----------------------------- MODULE SyncQueue -----------------------------
(***************************************************************************)
(* The order synchronization driven by its BullMQ queue: the jobs that       *)
(* IntegrationsService schedules, the continuation jobs the runs add, the     *)
(* worker of MarketplaceSyncProcessor that takes them, and what BullMQ does   *)
(* with a job whose run returned, threw or died with its process.             *)
(*                                                                          *)
(* Jobs of one account differ only in how often they were tried and found     *)
(* stalled.  The waiting ones are a bag: delayed retries, several processes   *)
(* and stalled jobs put back let any of them run next.                        *)
(***************************************************************************)
EXTENDS OrderSync, FiniteSetsExt

CONSTANTS
    MaxAttempts,    \* the attempts option of every job
    MaxStalls,      \* BullMQ's maxStalledCount
    MaxJobs         \* bound: jobs and runs there may be once a user has asked, if
                    \* the event "again" lets them ask before the last one ended

ASSUME QueueAssumption ==
    /\ MaxAttempts \in Nat \ {0}
    /\ MaxStalls \in Nat
    /\ MaxJobs \in Nat
    /\ NULL \notin [attempts : Nat, stalls : Nat]

VARIABLES
    waiting,    \* how many jobs of each kind wait in Redis
    job,        \* the job each worker runs (NULL: none)
    abandoned   \* a job failed for good, or an inline run threw, since the last trigger

queue == <<waiting, job, abandoned>>

Kind == [attempts : 0 .. MaxAttempts - 1, stalls : 0 .. MaxStalls]

NewJob == [attempts |-> 0, stalls |-> 0]

\* A run inside a request: like a job on its last try, nobody repeats it.
Inline == [attempts |-> MaxAttempts - 1, stalls |-> MaxStalls]

Added(k)   == [waiting EXCEPT ![k] = @ + 1]
Removed(k) == [waiting EXCEPT ![k] = @ - 1]

JobsWaiting == {k \in Kind : waiting[k] > 0}
Running     == {w \in Workers : job[w] # NULL}
Outstanding == MapThenSumSet(LAMBDA k : waiting[k], Kind) + Cardinality(Running)
MayAsk == Outstanding < IF "again" \in events THEN MaxJobs ELSE 1

QueueInit ==
    /\ Init
    /\ waiting = [k \in Kind |-> 0]
    /\ job = [w \in Workers |-> NULL]
    /\ abandoned = FALSE
-----------------------------------------------------------------------------
\* triggerOrdersSync and scheduleInitialSync: the job is queued.
ScheduleSync ==
    /\ MayAsk
    /\ waiting' = Added(NewJob)
    /\ abandoned' = FALSE
    /\ UNCHANGED <<vars, job>>

\* The queue is unavailable: the request runs the synchronization itself.
ScheduleInline(w) ==
    /\ "queue" \in events
    /\ MayAsk
    /\ job[w] = NULL
    /\ job' = [job EXCEPT ![w] = Inline]
    /\ Start(w) \/ StartRefused(w)
    /\ UNCHANGED <<waiting, abandoned>>

\* MarketplaceSyncProcessor.process
Process(w) ==
    /\ job[w] = NULL
    /\ \E k \in JobsWaiting : job' = [job EXCEPT ![w] = k] /\ waiting' = Removed(k)
    /\ Start(w) \/ StartRefused(w)
    /\ UNCHANGED abandoned

\* Mutant: the continuation has a job id per offset, which a job of an earlier pass
\* still holds, so that BullMQ ignores it.
ContinueIgnored(w) ==
    /\ EnqueueContinuation(w)
    /\ UNCHANGED queue

\* enqueueContinuation: a fresh job that starts its attempts anew.
Continue(w) ==
    /\ EnqueueContinuation(w)
    /\ waiting' = Added(NewJob)
    /\ UNCHANGED <<job, abandoned>>

\* A job gets no further try: it stays in the failed set, nobody takes it again.
GiveUp == abandoned' = TRUE /\ UNCHANGED waiting

Requeue(k) == waiting' = Added(k) /\ UNCHANGED abandoned

StalledPutBack(w) ==
    /\ pc[w] = "dead"
    /\ job[w].stalls < MaxStalls
    /\ Requeue([job[w] EXCEPT !.stalls = @ + 1])

Retried(w) ==
    /\ pc[w] = "retry"
    /\ job[w].attempts + 1 < MaxAttempts
    /\ Requeue([job[w] EXCEPT !.attempts = @ + 1])

Failed(w) ==
    /\ \/ pc[w] = "fatal"
       \/ pc[w] = "retry" /\ job[w].attempts + 1 = MaxAttempts
       \/ pc[w] = "dead" /\ job[w].stalls = MaxStalls
    /\ GiveUp

\* The run is over: BullMQ completes, retries, puts back or fails its job.
Settle(w) ==
    /\ job[w] # NULL
    /\ job' = [job EXCEPT ![w] = NULL]
    /\ UNCHANGED vars
    /\ \/ pc[w] = "ok" /\ UNCHANGED <<waiting, abandoned>>
       \/ Retried(w)
       \/ StalledPutBack(w)
       \/ Failed(w)

\* The steps of a run, and of everything around it, leave the queue alone.
RunStep(w) == Step(w) /\ UNCHANGED queue

Disturbance ==
    /\ Environment \/ \E w \in Workers : Fault(w) \/ EnqueueFails(w)
    /\ UNCHANGED queue

QueueNext ==
    \/ ScheduleSync
    \/ \E w \in Workers :
          \/ ScheduleInline(w)
          \/ Process(w)
          \/ RunStep(w)
          \/ Continue(w)
          \/ Settle(w)
    \/ Disturbance

QueueVars == <<vars, queue>>

\* Workers keep taking jobs and a run that can go on does; faults, users and the
\* marketplace owe nothing.
Fairness ==
    \A w \in Workers :
        WF_QueueVars(Process(w) \/ RunStep(w) \/ Continue(w) \/ Settle(w))

QueueSpec == QueueInit /\ [][QueueNext]_QueueVars /\ Fairness
-----------------------------------------------------------------------------
Partial == checkpoint # NULL /\ checkpoint.status = "PARTIAL"

\* Somebody will come back to the checkpoint: a job waits or a run is on its way.
Pending == JobsWaiting # {} \/ Running # {}

\* An unfinished pass is never forgotten in silence: while the checkpoint is PARTIAL a
\* job waits or runs, unless a job failed for good or an inline run threw.  Runs that
\* lose the race for the checkpoint return without a continuation and rely on the
\* winner's; crashes and queue errors come between commit and enqueue.
NoSilentStrand == Partial => Pending \/ abandoned

\* Every pass ends: a PARTIAL checkpoint becomes COMPLETE or FAILED, or the queue gives
\* up aloud, even when the listing never stops changing.
PassEnds == Partial ~> (~Partial \/ abandoned)

\* "At least one source has partial coverage; the continuation job is still pending."
PartialIsPending == Partial => Pending
=============================================================================
