----------------------------- MODULE QueuePoller -----------------------------
(***************************************************************************)
(* The queue poller (pkg/queue/poller.go): a loop reads batches of jobs    *)
(* from a queue and hands them to a pool of workers; a worker calls the    *)
(* handler and then releases or deletes each job of its batch.  The queue  *)
(* makes a job that is read invisible until it is released, is deleted, or *)
(* its visibility times out.                                               *)
(*                                                                         *)
(* The queue and the pool are not in this repository: they are modelled    *)
(* from how the poller uses them.  What the handler does is left open      *)
(* here; AdvertQueue fills it in for advertisements.                       *)
(***************************************************************************)
EXTENDS Naturals, Sequences, FiniteSets, SequencesExt

CONSTANTS
  Jobs,          \* bound: the jobs that are ever queued
  Workers,
  BatchSize,     \* jobBatchSize
  Buffer,        \* bound: the batches handed to the pool that no worker has received
  Flaky,         \* may calls of the queue fail?
  EarlyTimeout,  \* may a job's visibility time out while the poller holds it?
  MayCrash,      \* may the process stop, and be started again?
  MayStop        \* may Stop be called?

ASSUME BatchSizeAssumption == BatchSize \in Nat \ {0}
ASSUME BufferAssumption == Buffer \in Nat \ {0}
ASSUME PollerModeAssumption ==
  {Flaky, EarlyTimeout, MayCrash, MayStop} \subseteq BOOLEAN

VARIABLES
  single,   \* is the handler a JobHandler, rather than a BatchJobHandler?
  status,   \* status[j]: what the queue knows of j
  loop,     \* what the polling goroutine does next
  got,      \* the jobs it read and has not handed over
  handed,   \* the batches in the pool that no worker has received, oldest first
  wpc,      \* wpc[w]: what worker w does next
  work,     \* work[w]: the jobs of w's batch that are not settled
  result,   \* result[w]: what the handler made of the jobs of w's batch
  stop,     \* the call of Stop
  finished  \* history: the jobs that a handler did, or timed out on

vars == <<single, status, loop, got, handed, wpc, work, result, stop, finished>>

Outcome == {"ok", "error", "timeout"}

TypeOK ==
  /\ single \in BOOLEAN
  /\ status \in [Jobs -> {"none", "visible", "invisible", "deleted"}]
  /\ loop \in {"new", "read", "handOver", "stopped"}
  /\ got \in Seq(Jobs)
  /\ handed \in Seq(Seq(Jobs)) /\ Len(handed) <= Buffer
  /\ wpc \in [Workers -> {"idle", "handle", "settle"}]
  /\ work \in [Workers -> Seq(Jobs)]
  /\ result \in [Workers -> [Jobs -> Outcome]]
  /\ stop \in {"no", "waiting", "returned"}
  /\ finished \subseteq Jobs
  /\ \A w \in Workers : wpc[w] = "settle" => work[w] # <<>>

NoResult == [j \in Jobs |-> "ok"]

ProcessInit ==
  /\ loop = "new"
  /\ got = <<>>
  /\ handed = <<>>
  /\ wpc = [w \in Workers |-> "idle"]
  /\ work = [w \in Workers |-> <<>>]
  /\ result = [w \in Workers |-> NoResult]
  /\ stop = "no"

Init ==
  /\ single \in BOOLEAN
  /\ status = [j \in Jobs |-> "none"]
  /\ ProcessInit
  /\ finished = {}

-----------------------------------------------------------------------------
(* The queue *)

Visible == {j \in Jobs : status[j] = "visible"}

\* The times that j is in the poller's hands.
Copies(j) ==
  {<<"loop", k>> : k \in {n \in DOMAIN got : got[n] = j}}
  \cup (UNION {{<<"pool", n, k>> : k \in {m \in DOMAIN handed[n] : handed[n][m] = j}}
                 : n \in DOMAIN handed})
  \cup (UNION {{<<w, k>> : k \in {n \in DOMAIN work[w] : work[w][n] = j}} : w \in Workers})

\* QueueQueuer.Queue.
Queue(j) ==
  /\ status[j] = "none"
  /\ status' = [status EXCEPT ![j] = "visible"]
  /\ UNCHANGED <<single, loop, got, handed, wpc, work, result, stop, finished>>

\* The visibility of a job that was read times out: while the poller holds it
\* only where EarlyTimeout holds.
TimeOutVisibility(j) ==
  /\ status[j] = "invisible"
  /\ EarlyTimeout \/ Copies(j) = {}
  /\ status' = [status EXCEPT ![j] = "visible"]
  /\ UNCHANGED <<single, loop, got, handed, wpc, work, result, stop, finished>>

-----------------------------------------------------------------------------
(* Start, Stop and the polling loop *)

Started == loop # "new"

\* The root context is cancelled.
Cancelled == stop # "no"

\* Start, which runs once.
Start ==
  /\ loop = "new" /\ stop = "no"
  /\ loop' = "read"
  /\ UNCHANGED <<single, status, got, handed, wpc, work, result, stop, finished>>

\* Stop cancels the root context and waits for the loop to end.  It is called
\* on a poller that was started: on another it would wait for ever.
Stop ==
  /\ MayStop /\ stop = "no"
  /\ Started
  /\ stop' = "waiting"
  /\ UNCHANGED <<single, status, loop, got, handed, wpc, work, result, finished>>

\* Shutdown of the pool, with a context that is cancelled by then, does not wait.
StopReturns ==
  /\ stop = "waiting" /\ loop = "stopped"
  /\ stop' = "returned"
  /\ UNCHANGED <<single, status, loop, got, handed, wpc, work, result, finished>>

LoopEnds ==
  /\ loop = "read" /\ Cancelled
  /\ loop' = "stopped"
  /\ UNCHANGED <<single, status, got, handed, wpc, work, result, stop, finished>>

\* What Read may return.
Batch == {s \in BoundedSeq(Visible, BatchSize) : IsInjective(s)}

Read ==
  /\ loop = "read" /\ ~Cancelled
  /\ \E s \in Batch :
       /\ got' = s
       /\ status' = [j \in Jobs |-> IF j \in Range(s) THEN "invisible" ELSE status[j]]
  /\ loop' = "handOver"
  /\ UNCHANGED <<single, handed, wpc, work, result, stop, finished>>

\* Variant: the loop ends at an error.
ReadFailsForGood ==
  /\ loop = "read" /\ ~Cancelled /\ Flaky
  /\ loop' = "stopped"
  /\ UNCHANGED <<single, status, got, handed, wpc, work, result, stop, finished>>

\* Read returns an error: nothing was read, or what was is lost on the way.
ReadFails ==
  /\ loop = "read" /\ ~Cancelled /\ Flaky
  /\ \E s \in Batch :
       status' = [j \in Jobs |-> IF j \in Range(s) THEN "invisible" ELSE status[j]]
  /\ UNCHANGED <<single, loop, got, handed, wpc, work, result, stop, finished>>

\* Queue of a batchJobQueue: the whole batch, an empty one too.
HandOverBatch ==
  /\ loop = "handOver" /\ ~single /\ Len(handed) < Buffer
  /\ handed' = Append(handed, got)
  /\ got' = <<>>
  /\ loop' = "read"
  /\ UNCHANGED <<single, status, wpc, work, result, stop, finished>>

\* Queue of a singleJobQueue: one job after the other.
HandOverJob ==
  /\ loop = "handOver" /\ single /\ got # <<>> /\ Len(handed) < Buffer
  /\ handed' = Append(handed, <<Head(got)>>)
  /\ got' = Tail(got)
  /\ UNCHANGED <<single, status, loop, wpc, work, result, stop, finished>>

AllHandedOver ==
  /\ loop = "handOver" /\ single /\ got = <<>>
  /\ loop' = "read"
  /\ UNCHANGED <<single, status, got, handed, wpc, work, result, stop, finished>>

\* Variant: a full pool is left only once the pool shuts down.
HandOverFailsLate ==
  /\ loop = "handOver" /\ stop = "returned"
  /\ got' = <<>>
  /\ loop' = "read"
  /\ UNCHANGED <<single, status, handed, wpc, work, result, stop, finished>>

\* The context is cancelled: the jobs not handed over are dropped, neither
\* released nor deleted.
HandOverFails ==
  /\ loop = "handOver" /\ Cancelled
  /\ got' = <<>>
  /\ loop' = "read"
  /\ UNCHANGED <<single, status, handed, wpc, work, result, stop, finished>>

-----------------------------------------------------------------------------
(* The workers *)

Receive(w) ==
  /\ wpc[w] = "idle" /\ handed # <<>>
  /\ work' = [work EXCEPT ![w] = Head(handed)]
  /\ handed' = Tail(handed)
  /\ wpc' = [wpc EXCEPT ![w] = "handle"]
  /\ UNCHANGED <<single, status, loop, got, result, stop, finished>>

\* The handler returns with a result for each job.
Return(w, r) ==
  /\ wpc[w] = "handle"
  /\ result' = [result EXCEPT ![w] = r]
  /\ finished' = finished \cup {j \in Range(work[w]) : r[j] # "error"}
  /\ wpc' = [wpc EXCEPT ![w] = IF work[w] = <<>> THEN "idle" ELSE "settle"]
  /\ UNCHANGED <<single, status, loop, got, handed, work, stop>>

Handle(w) ==
  \E r \in [Jobs -> Outcome] :
    /\ \A j \in Jobs \ Range(work[w]) : r[j] = "ok"
    /\ Return(w, r)

\* Variant: the last job of the batch is not told from the others.
NextJobUnended(w) ==
  /\ work' = [work EXCEPT ![w] = Tail(@)]
  /\ UNCHANGED <<single, wpc, result, loop, got, handed, stop, finished>>

\* The next job of the batch.
NextJob(w) ==
  /\ work' = [work EXCEPT ![w] = Tail(@)]
  /\ wpc' = [wpc EXCEPT ![w] = IF Len(work[w]) = 1 THEN "idle" ELSE "settle"]
  /\ result' = [result EXCEPT ![w] = IF Len(work[w]) = 1 THEN NoResult ELSE @]
  /\ UNCHANGED <<single, loop, got, handed, stop, finished>>

\* Variant: one job's error releases what is left of the batch.
ReleaseJobs(w) ==
  /\ wpc[w] = "settle" /\ result[w][Head(work[w])] = "error"
  /\ status' = [j \in Jobs |-> IF j \in Range(work[w]) THEN "visible" ELSE status[j]]
  /\ NextJob(w)

\* An error other than a timeout: the job is released, to be tried again.
\* Releasing it may fail, and is not tried again.
ReleaseJob(w) ==
  /\ wpc[w] = "settle"
  /\ LET j == Head(work[w])
     IN  /\ result[w][j] = "error"
         /\ \/ status' = [status EXCEPT ![j] = IF @ = "invisible" THEN "visible" ELSE @]
            \/ Flaky /\ UNCHANGED status
  /\ NextJob(w)

\* Variant: a batch is deleted as a whole when one job is done.
DeleteJobs(w) ==
  /\ wpc[w] = "settle" /\ result[w][Head(work[w])] # "error"
  /\ status' = [j \in Jobs |-> IF j \in Range(work[w]) THEN "deleted" ELSE status[j]]
  /\ NextJob(w)

\* The job is done, or timed out and is not to hold up the queue.
DeleteJob(w) ==
  /\ wpc[w] = "settle"
  /\ LET j == Head(work[w])
     IN  /\ result[w][j] # "error"
         /\ \/ status' = [status EXCEPT ![j] = "deleted"]
            \/ Flaky /\ UNCHANGED status
  /\ NextJob(w)

-----------------------------------------------------------------------------

\* The process stops, in the middle of anything or after Stop, and a new one
\* begins: what the old one held is with the queue alone.
Crash ==
  /\ MayCrash
  /\ loop' = "new" /\ got' = <<>> /\ handed' = <<>> /\ stop' = "no"
  /\ wpc' = [w \in Workers |-> "idle"]
  /\ work' = [w \in Workers |-> <<>>]
  /\ result' = [w \in Workers |-> NoResult]
  /\ UNCHANGED <<single, status, finished>>

Poll ==
  \/ LoopEnds \/ Read \/ ReadFails
  \/ HandOverBatch \/ HandOverJob \/ AllHandedOver \/ HandOverFails

Work(w) == Receive(w) \/ Handle(w) \/ ReleaseJob(w) \/ DeleteJob(w)

Next ==
  \/ \E j \in Jobs : Queue(j) \/ TimeOutVisibility(j)
  \/ Start \/ Stop \/ StopReturns \/ Poll \/ Crash
  \/ \E w \in Workers : Work(w)

Spec == Init /\ [][Next]_vars

-----------------------------------------------------------------------------
(* Properties *)

\* A job leaves the queue only after a handler did it or timed out on it: every
\* other error "make[s] the job visible so that it can be retried" (poller.go,
\* toJobQueue), though jobs of one batch fare differently, calls of the queue
\* fail, jobs are dropped while stopping, and processes stop.
NoJobLost == \A j \in Jobs : status[j] = "deleted" => j \in finished

\* Provided no visibility times out under the poller's hands, a job is in one
\* place at a time, and the queue shows to nobody a job that is still to be
\* handled or settled: no two workers ever have the same job.
OneHolder ==
  \A j \in Jobs :
    /\ Cardinality(Copies(j)) <= 1
    /\ Copies(j) # {} => status[j] = "invisible"

-----------------------------------------------------------------------------
(* Liveness *)

\* The polling goroutine and Stop run; nothing is said of the handlers, which
\* may never return, nor of the workers.
PollFairness == WF_vars(Poll) /\ WF_vars(StopReturns)

FairSpec == Spec /\ PollFairness

\* "Stop stops the polling loop and waits for it to finish" (poller.go): Stop
\* returns, or the process stops, though every worker is busy for ever and the
\* pool is full.
StopEnds == stop = "waiting" ~> stop # "waiting"

\* What can fail does not fail for ever: the process stops finitely often, the
\* poller is started, visibilities time out, a visible job is among the jobs of a
\* Read that succeeds, its handler does not always return an error, and it can be
\* deleted.
JobFairness ==
  /\ <>[][~Crash]_vars
  /\ WF_vars(Start)
  /\ \A w \in Workers : WF_vars(Work(w))
  /\ \A j \in Jobs :
       /\ WF_vars(TimeOutVisibility(j))
       /\ SF_vars(Read /\ j \in Range(got'))
       /\ SF_vars(\E w \in Workers :
                    Handle(w) /\ j \in Range(work[w]) /\ result'[w][j] # "error")
       /\ SF_vars(\E w \in Workers :
                    DeleteJob(w) /\ status'[j] = "deleted" /\ status[j] # "deleted")

\* Every job that is queued is deleted in the end, unless the poller is stopped:
\* a lost answer to Read, a failed release and a failed delete only delay it.
EveryJobDone ==
  JobFairness =>
    \A j \in Jobs : status[j] = "visible" ~> (status[j] = "deleted" \/ stop # "no")
=============================================================================
