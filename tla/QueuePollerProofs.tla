-------------------------- MODULE QueuePollerProofs --------------------------
(***************************************************************************)
(* Theorems about QueuePoller, for any jobs, workers and bounds.           *)
(***************************************************************************)
EXTENDS QueuePoller, SequenceTheorems, FiniteSetTheorems, TLAPS

-----------------------------------------------------------------------------
(* What is left of a list once its head is taken. *)

\* The head and the tail of a sequence that is not empty.
LEMMA HeadTail ==
  ASSUME NEW S, NEW s \in Seq(S), s # <<>>
  PROVE  /\ Head(s) \in S /\ Head(s) \in Range(s)
         /\ Tail(s) \in Seq(S) /\ Len(Tail(s)) = Len(s) - 1 /\ Len(s) >= 1
         /\ Range(Tail(s)) \subseteq Range(s)
<1>1. Len(s) \in Nat /\ Len(s) >= 1 /\ DOMAIN s = 1..Len(s)
  BY EmptySeq, LenProperties
<1>2. Head(s) \in S /\ Head(s) = s[1]
  BY <1>1, HeadTailProperties
<1>3. Tail(s) \in Seq(S) /\ Len(Tail(s)) = Len(s) - 1
      /\ \A i \in 1..Len(Tail(s)) : Tail(s)[i] = s[i + 1]
  BY <1>1, HeadTailProperties
<1>4. DOMAIN Tail(s) = 1..Len(Tail(s))
  BY <1>3, LenProperties
<1>5. \A i \in 1..Len(Tail(s)) : i + 1 \in 1..Len(s)
  BY <1>1, <1>3
<1> QED
  BY <1>1, <1>2, <1>3, <1>4, <1>5 DEF Range

LEMMA TailEmpty ==
  ASSUME NEW S, NEW s \in Seq(S), s # <<>>, Len(s) # 1
  PROVE  Tail(s) # <<>>
<1>1. Tail(s) \in Seq(S) /\ Len(Tail(s)) = Len(s) - 1 /\ Len(s) >= 1
  BY HeadTail
<1>2. Len(s) \in Nat
  BY LenProperties
<1>3. Len(Tail(s)) # 0
  BY <1>1, <1>2
<1> QED
  BY <1>3, EmptySeq

\* What is left of a sequence without repetitions.
LEMMA InjectiveTail ==
  ASSUME NEW S, NEW s \in Seq(S), s # <<>>, IsInjective(s)
  PROVE  /\ IsInjective(Tail(s)) /\ Head(s) \notin Range(Tail(s))
         /\ Range(s) = {Head(s)} \cup Range(Tail(s))
<1>1. Len(s) \in Nat /\ Len(s) >= 1 /\ DOMAIN s = 1..Len(s)
  BY EmptySeq, LenProperties
<1>2. Head(s) = s[1]
  BY <1>1, HeadTailProperties
<1>3. /\ Tail(s) \in Seq(S) /\ Len(Tail(s)) = Len(s) - 1
      /\ \A k \in 1..Len(Tail(s)) : Tail(s)[k] = s[k + 1]
  BY <1>1, HeadTailProperties
<1>4. DOMAIN Tail(s) = 1..(Len(s) - 1)
  BY <1>3, LenProperties
<1>5. \A k \in 1..(Len(s) - 1) : Tail(s)[k] = s[k + 1] /\ k + 1 \in 1..Len(s) /\ k + 1 # 1
  BY <1>1, <1>3
<1>6. \A k, m \in 1..Len(s) : s[k] = s[m] => k = m
  BY <1>1 DEF IsInjective
<1>7. IsInjective(Tail(s))
  <2> SUFFICES ASSUME NEW k \in 1..(Len(s) - 1), NEW m \in 1..(Len(s) - 1), Tail(s)[k] = Tail(s)[m]
               PROVE  k = m
    BY <1>4 DEF IsInjective
  <2>1. k + 1 = m + 1
    BY <1>5, <1>6
  <2> QED
    BY <2>1, <1>1
<1>8. Head(s) \notin Range(Tail(s))
  <2> SUFFICES ASSUME NEW k \in 1..(Len(s) - 1), Tail(s)[k] = Head(s) PROVE FALSE
    BY <1>4 DEF Range
  <2>1. 1 \in 1..Len(s)
    BY <1>1
  <2> QED
    BY <1>2, <1>5, <1>6, <2>1
<1>9. ASSUME NEW k \in 1..Len(s), k # 1 PROVE s[k] \in Range(Tail(s))
  <2>1. k - 1 \in 1..(Len(s) - 1) /\ (k - 1) + 1 = k
    BY <1>1, <1>9
  <2>2. Tail(s)[k - 1] = s[k]
    BY <1>5, <2>1
  <2> QED
    BY <1>4, <2>1, <2>2 DEF Range
<1>10. Head(s) \in Range(s) /\ Range(Tail(s)) \subseteq Range(s)
  BY HeadTail
<1>11. Range(s) \subseteq {Head(s)} \cup Range(Tail(s))
  BY <1>1, <1>2, <1>9 DEF Range
<1> QED
  BY <1>7, <1>8, <1>10, <1>11

-----------------------------------------------------------------------------

\* What Read returns is a sequence of jobs.
LEMMA BatchType == \A s \in Batch : s \in Seq(Jobs) /\ Range(s) \subseteq Visible
<1> SUFFICES ASSUME NEW s \in Batch PROVE s \in Seq(Jobs) /\ Range(s) \subseteq Visible
  OBVIOUS
<1>1. PICK m \in 0..BatchSize : s \in [1..m -> Visible]
  BY BatchSizeAssumption DEF Batch, BoundedSeq, SeqOf
<1>2. m \in Nat
  BY BatchSizeAssumption
<1>3. s \in [1..m -> Jobs]
  BY <1>1 DEF Visible
<1> QED
  BY <1>1, <1>2, <1>3 DEF Range

-----------------------------------------------------------------------------
(* What the steps of a worker leave well formed. *)

LEMMA NextJobType ==
  ASSUME TypeOK, NEW w \in Workers, wpc[w] = "settle", NextJob(w),
         status' \in [Jobs -> {"none", "visible", "invisible", "deleted"}]
  PROVE  TypeOK'
<1>1. work[w] \in Seq(Jobs) /\ work[w] # <<>>
  BY DEF TypeOK
<1>2. Tail(work[w]) \in Seq(Jobs)
  BY <1>1, HeadTail
<1>3. Len(work[w]) # 1 => Tail(work[w]) # <<>>
  BY <1>1, TailEmpty
<1>4. work' \in [Workers -> Seq(Jobs)]
  BY <1>2 DEF NextJob, TypeOK
<1>5. result' \in [Workers -> [Jobs -> Outcome]]
  BY DEF NextJob, TypeOK, NoResult, Outcome
<1>6. wpc' \in [Workers -> {"idle", "handle", "settle"}]
  BY DEF NextJob, TypeOK
<1>7. \A v \in Workers : wpc'[v] = "settle" => work'[v] # <<>>
  <2> SUFFICES ASSUME NEW v \in Workers, wpc'[v] = "settle" PROVE work'[v] # <<>>
    OBVIOUS
  <2>1. CASE v = w
    BY <2>1, <1>3 DEF NextJob, TypeOK
  <2>2. CASE v # w
    BY <2>2 DEF NextJob, TypeOK
  <2> QED
    BY <2>1, <2>2
<1> QED
  BY <1>4, <1>5, <1>6, <1>7 DEF NextJob, TypeOK

LEMMA TypeStep == TypeOK /\ [Next]_vars => TypeOK'
<1> SUFFICES ASSUME TypeOK, [Next]_vars PROVE TypeOK'
  OBVIOUS
<1>1. ASSUME NEW j \in Jobs, Queue(j) \/ TimeOutVisibility(j) PROVE TypeOK'
  BY <1>1 DEF Queue, TimeOutVisibility, TypeOK
<1>2. ASSUME Start \/ Stop \/ StopReturns \/ LoopEnds \/ AllHandedOver PROVE TypeOK'
  BY <1>2 DEF Start, Stop, StopReturns, LoopEnds, AllHandedOver, TypeOK
<1>3. CASE Read
  BY <1>3, BatchType DEF Read, TypeOK
<1>4. CASE ReadFails
  BY <1>4 DEF ReadFails, TypeOK
<1>5. CASE HandOverBatch
  <2>1. handed' \in Seq(Seq(Jobs)) /\ Len(handed') = Len(handed) + 1
    BY <1>5, AppendProperties DEF HandOverBatch, TypeOK
  <2>2. Len(handed') <= Buffer
    BY <1>5, <2>1, LenProperties, BufferAssumption DEF HandOverBatch, TypeOK
  <2>3. got' \in Seq(Jobs)
    BY <1>5, EmptySeq DEF HandOverBatch
  <2> QED
    BY <1>5, <2>1, <2>2, <2>3 DEF HandOverBatch, TypeOK
<1>6. CASE HandOverJob
  <2>1. Head(got) \in Jobs /\ Tail(got) \in Seq(Jobs)
    BY <1>6, HeadTail DEF HandOverJob, TypeOK
  <2>2. <<Head(got)>> \in Seq(Jobs)
    BY <2>1
  <2>3. handed' \in Seq(Seq(Jobs)) /\ Len(handed') = Len(handed) + 1
    BY <1>6, <2>2, AppendProperties DEF HandOverJob, TypeOK
  <2>4. Len(handed') <= Buffer
    BY <1>6, <2>3, LenProperties, BufferAssumption DEF HandOverJob, TypeOK
  <2> QED
    BY <1>6, <2>1, <2>3, <2>4 DEF HandOverJob, TypeOK
<1>7. CASE HandOverFails
  <2>1. got' \in Seq(Jobs)
    BY <1>7, EmptySeq DEF HandOverFails
  <2> QED
    BY <1>7, <2>1 DEF HandOverFails, TypeOK
<1>8. ASSUME NEW w \in Workers, Receive(w) PROVE TypeOK'
  <2>1. Head(handed) \in Seq(Jobs) /\ Tail(handed) \in Seq(Seq(Jobs))
        /\ Len(Tail(handed)) = Len(handed) - 1 /\ Len(handed) >= 1
    BY <1>8, HeadTail DEF Receive, TypeOK
  <2>2. Len(handed') <= Buffer
    BY <1>8, <2>1, LenProperties, BufferAssumption DEF Receive, TypeOK
  <2> QED
    BY <1>8, <2>1, <2>2 DEF Receive, TypeOK
<1>9. ASSUME NEW w \in Workers, Handle(w) PROVE TypeOK'
  <2>1. PICK r \in [Jobs -> Outcome] : Return(w, r)
    BY <1>9 DEF Handle
  <2>2. Range(work[w]) \subseteq Jobs
    BY RangeOfSeq DEF TypeOK, Range
  <2> QED
    BY <2>1, <2>2 DEF Return, TypeOK
<1>10. ASSUME NEW w \in Workers, ReleaseJob(w) \/ DeleteJob(w) PROVE TypeOK'
  <2>1. wpc[w] = "settle" /\ NextJob(w)
    BY <1>10 DEF ReleaseJob, DeleteJob
  <2>2. status' \in [Jobs -> {"none", "visible", "invisible", "deleted"}]
    BY <1>10 DEF ReleaseJob, DeleteJob, TypeOK
  <2> QED
    BY <2>1, <2>2, NextJobType
<1>11. CASE Crash
  <2>1. <<>> \in Seq(Jobs) /\ <<>> \in Seq(Seq(Jobs)) /\ Len(<<>>) <= Buffer
    BY EmptySeq, BufferAssumption
  <2>2. result' \in [Workers -> [Jobs -> Outcome]]
    BY <1>11 DEF Crash, NoResult, Outcome
  <2> QED
    BY <1>11, <2>1, <2>2 DEF Crash, TypeOK
<1>12. CASE UNCHANGED vars
  BY <1>12 DEF TypeOK, vars
<1> QED
  BY <1>1, <1>2, <1>3, <1>4, <1>5, <1>6, <1>7, <1>8, <1>9, <1>10, <1>11, <1>12
  DEF Next, Poll, Work

LEMMA TypeInit == Init => TypeOK
<1>1. <<>> \in Seq(Jobs) /\ <<>> \in Seq(Seq(Jobs)) /\ Len(<<>>) <= Buffer
  BY EmptySeq, BufferAssumption
<1> QED
  BY <1>1 DEF Init, ProcessInit, TypeOK, NoResult, Outcome

\* Every state is well formed; a worker that settles a batch has jobs to settle.
THEOREM TypeCorrect == Spec => []TypeOK
  BY TypeInit, TypeStep, PTL DEF Spec

-----------------------------------------------------------------------------
(* No job is lost.  What a worker is about to delete was finished when the  *)
(* handler returned, which is what the invariant has to remember.           *)

SettledAreFinished ==
  \A w \in Workers : wpc[w] = "settle" =>
    \A j \in Range(work[w]) : result[w][j] # "error" => j \in finished

JobsInv == TypeOK /\ NoJobLost /\ SettledAreFinished

\* NextJob only shortens w's batch.
LEMMA NextJobSettled ==
  ASSUME TypeOK, SettledAreFinished, NEW w \in Workers, wpc[w] = "settle", NextJob(w)
  PROVE  SettledAreFinished'
<1> SUFFICES ASSUME NEW v \in Workers, wpc'[v] = "settle",
                    NEW j \in Range(work'[v]), result'[v][j] # "error"
             PROVE  j \in finished'
  BY DEF SettledAreFinished
<1>1. work[w] \in Seq(Jobs) /\ work[w] # <<>>
  BY DEF TypeOK
<1>2. Range(Tail(work[w])) \subseteq Range(work[w])
  BY <1>1, HeadTail
<1>3. wpc[v] = "settle" /\ result'[v] = result[v]
  BY DEF NextJob, TypeOK
<1>4. j \in Range(work[v])
  BY <1>2 DEF NextJob, TypeOK
<1> QED
  BY <1>3, <1>4 DEF SettledAreFinished, NextJob

LEMMA JobsStep == JobsInv /\ [Next]_vars => JobsInv'
<1> SUFFICES ASSUME JobsInv, [Next]_vars PROVE NoJobLost' /\ SettledAreFinished'
  BY TypeStep DEF JobsInv
<1> USE DEF JobsInv
<1>1. ASSUME NEW j \in Jobs, Queue(j) \/ TimeOutVisibility(j)
      PROVE  NoJobLost' /\ SettledAreFinished'
  BY <1>1 DEF Queue, TimeOutVisibility, TypeOK, NoJobLost, SettledAreFinished
<1>2. CASE Start \/ Stop \/ StopReturns \/ LoopEnds \/ AllHandedOver \/ HandOverBatch
           \/ HandOverJob \/ HandOverFails
  BY <1>2 DEF Start, Stop, StopReturns, LoopEnds, AllHandedOver, HandOverBatch,
              HandOverJob, HandOverFails, NoJobLost, SettledAreFinished
<1>3. CASE Read \/ ReadFails
  BY <1>3 DEF Read, ReadFails, NoJobLost, SettledAreFinished
<1>4. ASSUME NEW w \in Workers, Receive(w) PROVE NoJobLost' /\ SettledAreFinished'
  BY <1>4 DEF Receive, TypeOK, NoJobLost, SettledAreFinished
<1>5. ASSUME NEW w \in Workers, Handle(w) PROVE NoJobLost' /\ SettledAreFinished'
  <2>1. PICK r \in [Jobs -> Outcome] : Return(w, r)
    BY <1>5 DEF Handle
  <2>2. NoJobLost'
    BY <2>1 DEF Return, NoJobLost
  <2>3. ASSUME NEW v \in Workers, wpc'[v] = "settle",
               NEW j \in Range(work'[v]), result'[v][j] # "error"
        PROVE  j \in finished'
    <3>1. CASE v = w
      BY <2>1, <2>3, <3>1 DEF Return, TypeOK
    <3>2. CASE v # w
      BY <2>1, <2>3, <3>2 DEF Return, TypeOK, SettledAreFinished
    <3> QED
      BY <3>1, <3>2
  <2> QED
    BY <2>2, <2>3 DEF SettledAreFinished
<1>6. ASSUME NEW w \in Workers, ReleaseJob(w) PROVE NoJobLost' /\ SettledAreFinished'
  <2>1. wpc[w] = "settle" /\ NextJob(w)
    BY <1>6 DEF ReleaseJob
  <2>2. NoJobLost'
    BY <1>6 DEF ReleaseJob, NextJob, TypeOK, NoJobLost
  <2> QED
    BY <2>1, <2>2, NextJobSettled
<1>7. ASSUME NEW w \in Workers, DeleteJob(w) PROVE NoJobLost' /\ SettledAreFinished'
  <2>1. wpc[w] = "settle" /\ NextJob(w)
    BY <1>7 DEF DeleteJob
  <2>2. Head(work[w]) \in Range(work[w])
    BY <2>1, HeadTail DEF TypeOK
  <2>3. Head(work[w]) \in finished
    BY <1>7, <2>1, <2>2 DEF DeleteJob, SettledAreFinished
  <2>4. NoJobLost'
    BY <1>7, <2>3 DEF DeleteJob, NextJob, TypeOK, NoJobLost
  <2> QED
    BY <2>1, <2>4, NextJobSettled
<1>8. CASE Crash
  BY <1>8 DEF Crash, NoJobLost, SettledAreFinished
<1>9. CASE UNCHANGED vars
  BY <1>9 DEF vars, NoJobLost, SettledAreFinished
<1> QED
  BY <1>1, <1>2, <1>3, <1>4, <1>5, <1>6, <1>7, <1>8, <1>9 DEF Next, Poll, Work

\* A job is deleted only after a handler did it, or timed out on it, however
\* the jobs of its batch fare, whatever fails, and whenever the process stops.
THEOREM NoJobIsLost == Spec => []NoJobLost
<1>1. Init => JobsInv
  BY TypeInit DEF Init, ProcessInit, JobsInv, NoJobLost, SettledAreFinished
<1>2. JobsInv => NoJobLost
  BY DEF JobsInv
<1> QED
  BY <1>1, <1>2, JobsStep, PTL DEF Spec

-----------------------------------------------------------------------------
(* The jobs that the poller holds *)

\* The jobs of the list s were queued.
Queued(s) == \A k \in DOMAIN s : s[k] \in Jobs /\ status[s[k]] # "none"

\* Whatever the poller holds was queued, even where the queue shows or deletes it
\* meanwhile.
HeldQueued ==
  /\ Queued(got)
  /\ \A b \in DOMAIN handed : Queued(handed[b])
  /\ \A w \in Workers : Queued(work[w])

\* No step takes a job that was queued back.
LEMMA StaysQueued ==
  ASSUME TypeOK, [Next]_vars
  PROVE  \A j \in Jobs : status[j] # "none" => status'[j] # "none"
<1> DEFINE Q == \A j \in Jobs : status[j] # "none" => status'[j] # "none"
<1>t. status \in [Jobs -> {"none", "visible", "invisible", "deleted"}]
  BY DEF TypeOK
<1>1. ASSUME NEW j \in Jobs, Queue(j) \/ TimeOutVisibility(j) PROVE Q
  BY <1>1, <1>t DEF Queue, TimeOutVisibility
<1>2. ASSUME Start \/ Stop \/ StopReturns \/ Poll PROVE Q
  BY <1>2, <1>t DEF Start, Stop, StopReturns, Poll, LoopEnds, Read, ReadFails, HandOverBatch,
                   HandOverJob, AllHandedOver, HandOverFails
<1>3. ASSUME NEW w \in Workers, Work(w) PROVE Q
  BY <1>3, <1>t DEF Work, Receive, Handle, Return, ReleaseJob, DeleteJob
<1>4. ASSUME Crash \/ UNCHANGED vars PROVE Q
  BY <1>4, <1>t DEF Crash, vars
<1> QED
  BY <1>1, <1>2, <1>3, <1>4 DEF Next

LEMMA HeldQueuedInit == Init => HeldQueued
<1> SUFFICES ASSUME Init PROVE HeldQueued
  OBVIOUS
<1>1. DOMAIN <<>> = {}
  BY EmptySeq, LenProperties
<1> QED
  BY <1>1 DEF Init, ProcessInit, HeldQueued, Queued

LEMMA HeldQueuedStep == TypeOK /\ HeldQueued /\ [Next]_vars => HeldQueued'
<1> SUFFICES ASSUME TypeOK, HeldQueued, [Next]_vars PROVE HeldQueued'
  OBVIOUS
<1> DEFINE Q(s) == \A k \in DOMAIN s : s[k] \in Jobs /\ status'[s[k]] # "none"
<1>s. \A j \in Jobs : status[j] # "none" => status'[j] # "none"
  BY StaysQueued
<1>t. /\ got \in Seq(Jobs) /\ handed \in Seq(Seq(Jobs)) /\ work \in [Workers -> Seq(Jobs)]
      /\ status \in [Jobs -> {"none", "visible", "invisible", "deleted"}]
  BY DEF TypeOK
<1>q. \A s : Queued(s) => Q(s)
  BY <1>s DEF Queued
<1>d. Q(got') /\ (\A b \in DOMAIN handed' : Q(handed'[b])) /\ (\A w \in Workers : Q(work'[w]))
      => HeldQueued'
  BY DEF HeldQueued, Queued
<1>e. Q(<<>>)
  <2>1. DOMAIN <<>> = {}
    BY EmptySeq, LenProperties
  <2> QED
    BY <2>1
<1>i. Q(got) /\ (\A b \in DOMAIN handed : Q(handed[b])) /\ (\A w \in Workers : Q(work[w]))
  BY <1>q DEF HeldQueued
<1>tail. ASSUME NEW s \in Seq(Jobs), s # <<>>, Q(s) PROVE Q(Tail(s)) /\ Q(<<Head(s)>>)
  <2>1. /\ Len(s) \in Nat /\ DOMAIN s = 1..Len(s) /\ Len(s) >= 1 /\ Head(s) = s[1]
        /\ Len(Tail(s)) = Len(s) - 1 /\ DOMAIN Tail(s) = 1..(Len(s) - 1)
        /\ \A k \in 1..(Len(s) - 1) : Tail(s)[k] = s[k + 1]
    BY <1>tail, EmptySeq, LenProperties, HeadTailProperties
  <2>2. \A k \in 1..(Len(s) - 1) : k + 1 \in DOMAIN s
    BY <2>1
  <2>3. 1 \in DOMAIN s /\ DOMAIN <<Head(s)>> = {1} /\ <<Head(s)>>[1] = s[1]
    BY <2>1
  <2> QED
    BY <1>tail, <2>1, <2>2, <2>3
<1> HIDE DEF Q
<1>u. ASSUME UNCHANGED <<got, handed, work>> PROVE HeldQueued'
  BY <1>u, <1>d, <1>i
<1>1. ASSUME NEW j \in Jobs, Queue(j) \/ TimeOutVisibility(j) PROVE HeldQueued'
  BY <1>1, <1>u DEF Queue, TimeOutVisibility
<1>2. CASE Start \/ Stop \/ StopReturns \/ LoopEnds \/ AllHandedOver \/ ReadFails
  BY <1>2, <1>u DEF Start, Stop, StopReturns, LoopEnds, AllHandedOver, ReadFails
<1>3. CASE Read
  <2>1. PICK s \in Batch :
          /\ got' = s
          /\ status' = [j \in Jobs |-> IF j \in Range(s) THEN "invisible" ELSE status[j]]
    BY <1>3 DEF Read
  <2>2. s \in Seq(Jobs) /\ DOMAIN s = 1..Len(s)
    BY BatchType, LenProperties
  <2>3. Q(s)
    BY <2>1, <2>2, ElementOfSeq DEF Q, Range
  <2> QED
    BY <1>3, <1>d, <1>i, <2>1, <2>3 DEF Read
<1>append. ASSUME NEW s \in Seq(Jobs), Q(s), handed' = Append(handed, s)
           PROVE  \A b \in DOMAIN handed' : Q(handed'[b])
  <2>1. /\ DOMAIN handed = 1..Len(handed) /\ Len(handed) \in Nat
        /\ DOMAIN handed' = 1..(Len(handed) + 1) /\ handed'[Len(handed) + 1] = s
        /\ \A b \in 1..Len(handed) : handed'[b] = handed[b]
    BY <1>t, <1>append, LenProperties, AppendProperties
  <2> QED
    BY <1>append, <1>i, <2>1
<1>4. CASE HandOverBatch
  BY <1>4, <1>d, <1>e, <1>i, <1>t, <1>append DEF HandOverBatch
<1>5. CASE HandOverJob
  <2>1. Q(Tail(got)) /\ Q(<<Head(got)>>) /\ <<Head(got)>> \in Seq(Jobs)
    BY <1>5, <1>i, <1>t, <1>tail, HeadTail DEF HandOverJob
  <2> QED
    BY <1>5, <1>d, <1>i, <1>append, <2>1 DEF HandOverJob
<1>6. CASE HandOverFails
  BY <1>6, <1>d, <1>e, <1>i DEF HandOverFails
<1>7. ASSUME NEW w \in Workers, Receive(w) PROVE HeldQueued'
  <2>1. handed # <<>> /\ handed' = Tail(handed) /\ work' = [work EXCEPT ![w] = Head(handed)]
        /\ UNCHANGED got
    BY <1>7 DEF Receive
  <2>2. /\ DOMAIN handed = 1..Len(handed) /\ Len(handed) \in Nat /\ Len(handed) >= 1
        /\ Head(handed) = handed[1] /\ DOMAIN handed' = 1..(Len(handed) - 1)
        /\ \A b \in 1..(Len(handed) - 1) : handed'[b] = handed[b + 1]
    BY <1>t, <2>1, EmptySeq, LenProperties, HeadTailProperties
  <2>3. \A b \in 1..(Len(handed) - 1) : b + 1 \in DOMAIN handed
    BY <2>2
  <2>4. 1 \in DOMAIN handed
    BY <2>2
  <2>5. \A b \in DOMAIN handed' : Q(handed'[b])
    BY <1>i, <2>2, <2>3
  <2>6. \A v \in Workers : Q(work'[v])
    BY <1>i, <1>t, <2>1, <2>2, <2>4
  <2> QED
    BY <1>d, <1>i, <2>1, <2>5, <2>6
<1>8. ASSUME NEW w \in Workers, Handle(w) PROVE HeldQueued'
  BY <1>8, <1>u DEF Handle, Return
<1>9. ASSUME NEW w \in Workers, ReleaseJob(w) \/ DeleteJob(w) PROVE HeldQueued'
  <2>1. wpc[w] = "settle" /\ work' = [work EXCEPT ![w] = Tail(@)] /\ UNCHANGED <<got, handed>>
    BY <1>9 DEF ReleaseJob, DeleteJob, NextJob
  <2>2. work[w] # <<>>
    BY <2>1 DEF TypeOK
  <2>3. \A v \in Workers : Q(work'[v])
    BY <1>i, <1>t, <1>tail, <2>1, <2>2
  <2> QED
    BY <1>d, <1>i, <2>1, <2>3
<1>10. CASE Crash
  <2>1. got' = <<>> /\ handed' = <<>> /\ work' = [w \in Workers |-> <<>>]
    BY <1>10 DEF Crash
  <2>2. DOMAIN handed' = {}
    BY <2>1, EmptySeq, LenProperties
  <2> QED
    BY <1>d, <1>e, <2>1, <2>2
<1>11. CASE UNCHANGED vars
  BY <1>11, <1>u DEF vars
<1> QED
  BY <1>1, <1>2, <1>3, <1>4, <1>5, <1>6, <1>7, <1>8, <1>9, <1>10, <1>11 DEF Next, Poll, Work

-----------------------------------------------------------------------------
(* One holder.  The batches of the pool and those of the workers are kept   *)
(* apart from each other, from one another and from the one that was read,  *)
(* and whatever is in one of them is invisible.                             *)

\* The jobs of the batches b, a sequence or a function of sequences.
JobsIn(b) == UNION {Range(b[n]) : n \in DOMAIN b}

\* No job is in two of them, or twice in one.
Apart(b) ==
  /\ \A n \in DOMAIN b : IsInjective(b[n])
  /\ \A n, m \in DOMAIN b : n # m => Range(b[n]) \cap Range(b[m]) = {}

Held == Range(got) \cup JobsIn(handed) \cup JobsIn(work)

HeldApart ==
  /\ IsInjective(got) /\ Apart(handed) /\ Apart(work)
  /\ Range(got) \cap JobsIn(handed) = {}
  /\ Range(got) \cap JobsIn(work) = {}
  /\ JobsIn(handed) \cap JobsIn(work) = {}

HeldInvisible == \A j \in Held : status[j] = "invisible"

HoldInv == TypeOK /\ HeldApart /\ HeldInvisible

LEMMA EmptyApart ==
  /\ IsInjective(<<>>) /\ Range(<<>>) = {}
  /\ Apart(<<>>) /\ JobsIn(<<>>) = {}
<1>1. DOMAIN <<>> = {}
  BY EmptySeq, LenProperties
<1> QED
  BY <1>1 DEF IsInjective, Range, Apart, JobsIn

\* A batch more in the pool.
LEMMA AppendApart ==
  ASSUME NEW b \in Seq(Seq(Jobs)), NEW s \in Seq(Jobs), Apart(b), IsInjective(s),
         Range(s) \cap JobsIn(b) = {}
  PROVE  Apart(Append(b, s)) /\ JobsIn(Append(b, s)) = JobsIn(b) \cup Range(s)
<1> DEFINE t == Append(b, s)
<1>1. /\ Len(b) \in Nat /\ DOMAIN b = 1..Len(b) /\ Len(t) = Len(b) + 1 /\ t \in Seq(Seq(Jobs))
      /\ \A n \in 1..Len(b) : t[n] = b[n]
      /\ t[Len(b) + 1] = s
  BY LenProperties, AppendProperties
<1>2. DOMAIN t = 1..(Len(b) + 1)
  BY <1>1, LenProperties
<1> HIDE DEF t
<1>3. \A n \in DOMAIN t : \/ n = Len(b) + 1 /\ t[n] = s
                          \/ n \in DOMAIN b /\ t[n] = b[n]
  BY <1>1, <1>2
<1>4. \A n \in DOMAIN b : n \in DOMAIN t /\ t[n] = b[n]
  BY <1>1, <1>2
<1>5. Len(b) + 1 \in DOMAIN t
  BY <1>1, <1>2
<1>6. \A n \in DOMAIN b : Range(s) \cap Range(b[n]) = {}
  BY DEF JobsIn
<1>7. Apart(t)
  <2>1. \A n \in DOMAIN t : IsInjective(t[n])
    BY <1>3 DEF Apart
  <2>2. ASSUME NEW n \in DOMAIN t, NEW m \in DOMAIN t, n # m PROVE Range(t[n]) \cap Range(t[m]) = {}
    BY <1>3, <1>6, <2>2 DEF Apart
  <2> QED
    BY <2>1, <2>2 DEF Apart
<1>8. JobsIn(t) = JobsIn(b) \cup Range(s)
  <2>1. JobsIn(t) \subseteq JobsIn(b) \cup Range(s)
    BY <1>3 DEF JobsIn
  <2>2. JobsIn(b) \subseteq JobsIn(t)
    BY <1>4 DEF JobsIn
  <2>3. Range(s) \subseteq JobsIn(t)
    BY <1>1, <1>5 DEF JobsIn
  <2> QED
    BY <2>1, <2>2, <2>3
<1> QED
  BY <1>7, <1>8 DEF t

\* A batch less in the pool.
LEMMA TailApart ==
  ASSUME NEW b \in Seq(Seq(Jobs)), b # <<>>, Apart(b)
  PROVE  /\ Apart(Tail(b)) /\ IsInjective(Head(b))
         /\ Range(Head(b)) \cap JobsIn(Tail(b)) = {}
         /\ JobsIn(Tail(b)) \subseteq JobsIn(b) /\ Range(Head(b)) \subseteq JobsIn(b)
<1>1. Len(b) \in Nat /\ Len(b) >= 1 /\ DOMAIN b = 1..Len(b)
  BY EmptySeq, LenProperties
<1>2. Head(b) = b[1] /\ 1 \in DOMAIN b
  BY <1>1, HeadTailProperties
<1>3. /\ Tail(b) \in Seq(Seq(Jobs)) /\ Len(Tail(b)) = Len(b) - 1
      /\ \A k \in 1..Len(Tail(b)) : Tail(b)[k] = b[k + 1]
  BY <1>1, HeadTailProperties
<1>4. DOMAIN Tail(b) = 1..(Len(b) - 1)
  BY <1>3, LenProperties
<1>5. \A k \in DOMAIN Tail(b) : Tail(b)[k] = b[k + 1] /\ k + 1 \in DOMAIN b /\ k + 1 # 1
  BY <1>1, <1>3, <1>4
<1>6. \A k, m \in DOMAIN Tail(b) : k # m => k + 1 # m + 1
  BY <1>1, <1>4
<1>7. Apart(Tail(b))
  BY <1>5, <1>6 DEF Apart
<1>8. IsInjective(Head(b)) /\ Range(Head(b)) \subseteq JobsIn(b)
  BY <1>2 DEF Apart, JobsIn
<1>9. JobsIn(Tail(b)) \subseteq JobsIn(b)
  BY <1>5 DEF JobsIn
<1>10. \A k \in DOMAIN Tail(b) : Range(Head(b)) \cap Range(Tail(b)[k]) = {}
  BY <1>2, <1>5 DEF Apart
<1> QED
  BY <1>7, <1>8, <1>9, <1>10 DEF JobsIn

\* A worker's batch is replaced.
LEMMA ReplaceApart ==
  ASSUME NEW w \in Workers, NEW s, Apart(work), DOMAIN work = Workers, IsInjective(s),
         \A v \in Workers \ {w} : Range(s) \cap Range(work[v]) = {},
         work' = [work EXCEPT ![w] = s]
  PROVE  Apart(work)' /\ JobsIn(work)' \subseteq JobsIn(work) \cup Range(s)
<1>1. DOMAIN work' = Workers /\ \A v \in Workers : work'[v] = IF v = w THEN s ELSE work[v]
  OBVIOUS
<1>2. Apart(work)'
  <2>1. \A v \in Workers : IsInjective(work'[v])
    BY <1>1 DEF Apart
  <2>2. \A v, u \in Workers : v # u => Range(work'[v]) \cap Range(work'[u]) = {}
    BY <1>1 DEF Apart
  <2> QED
    BY <1>1, <2>1, <2>2 DEF Apart
<1>3. JobsIn(work)' \subseteq JobsIn(work) \cup Range(s)
  BY <1>1 DEF JobsIn
<1> QED
  BY <1>2, <1>3

\* What is held are jobs.
LEMMA HeldJobs == TypeOK => Held \subseteq Jobs
<1> SUFFICES ASSUME TypeOK PROVE Held \subseteq Jobs
  OBVIOUS
<1>1. \A s \in Seq(Jobs) : Range(s) \subseteq Jobs
  BY RangeOfSeq DEF Range
<1>2. \A n \in DOMAIN handed : handed[n] \in Seq(Jobs)
  BY ElementOfSeq, LenProperties DEF TypeOK
<1>3. \A w \in DOMAIN work : work[w] \in Seq(Jobs)
  BY DEF TypeOK
<1>4. JobsIn(handed) \subseteq Jobs /\ JobsIn(work) \subseteq Jobs
  BY <1>1, <1>2, <1>3 DEF JobsIn
<1>5. Range(got) \subseteq Jobs
  BY <1>1 DEF TypeOK
<1> QED
  BY <1>4, <1>5 DEF Held

LEMMA NothingHeldNow ==
  ASSUME got = <<>>, handed = <<>>, work = [w \in Workers |-> <<>>]
  PROVE  HeldApart /\ Held = {}
<1>1. Apart(work) /\ JobsIn(work) = {}
  BY EmptyApart DEF Apart, JobsIn
<1> QED
  BY <1>1, EmptyApart DEF HeldApart, Held

LEMMA NothingHeld ==
  ASSUME got' = <<>>, handed' = <<>>, work' = [w \in Workers |-> <<>>]
  PROVE  HeldApart' /\ Held' = {}
<1>1. Apart(work)' /\ JobsIn(work)' = {}
  BY EmptyApart DEF Apart, JobsIn
<1>2. Apart(handed)' /\ JobsIn(handed)' = {} /\ IsInjective(got)' /\ Range(got)' = {}
  BY EmptyApart
<1> QED
  BY <1>1, <1>2 DEF HeldApart, Held

\* A job has copies exactly where it is held.
LEMMA CopiesOfHeld == ASSUME NEW j \in Jobs, TypeOK PROVE Copies(j) = {} <=> j \notin Held
<1> DEFINE L == {<<"loop", k>> : k \in {n \in DOMAIN got : got[n] = j}}
           P == UNION {{<<"pool", n, k>> : k \in {m \in DOMAIN handed[n] : handed[n][m] = j}}
                        : n \in DOMAIN handed}
           W == UNION {{<<w, k>> : k \in {n \in DOMAIN work[w] : work[w][n] = j}} : w \in Workers}
<1>1. L # {} <=> j \in Range(got)
  BY DEF Range
<1>2. P # {} <=> j \in JobsIn(handed)
  <2>1. P # {} => j \in JobsIn(handed)
    BY DEF Range, JobsIn
  <2>2. ASSUME j \in JobsIn(handed) PROVE P # {}
    <3>1. PICK n \in DOMAIN handed : j \in Range(handed[n])
      BY <2>2 DEF JobsIn
    <3>2. PICK k \in DOMAIN handed[n] : handed[n][k] = j
      BY <3>1 DEF Range
    <3>3. <<"pool", n, k>> \in P
      BY <3>2
    <3> QED
      BY <3>3
  <2> QED
    BY <2>1, <2>2
<1>3. W # {} <=> j \in JobsIn(work)
  <2>1. DOMAIN work = Workers
    BY DEF TypeOK
  <2>2. W # {} => j \in JobsIn(work)
    BY <2>1 DEF Range, JobsIn
  <2>3. ASSUME j \in JobsIn(work) PROVE W # {}
    <3>1. PICK w \in Workers : j \in Range(work[w])
      BY <2>1, <2>3 DEF JobsIn
    <3>2. PICK k \in DOMAIN work[w] : work[w][k] = j
      BY <3>1 DEF Range
    <3>3. <<w, k>> \in W
      BY <3>2
    <3> QED
      BY <3>3
  <2> QED
    BY <2>2, <2>3
<1>4. Copies(j) = L \cup P \cup W
  BY DEF Copies
<1> HIDE DEF L, P, W
<1> QED
  BY <1>1, <1>2, <1>3, <1>4 DEF Held

\* Batches that are apart hold one copy of a job.
LEMMA HeldOnce == HoldInv => OneHolder
<1> SUFFICES ASSUME HoldInv, NEW j \in Jobs
             PROVE  Cardinality(Copies(j)) <= 1 /\ (Copies(j) # {} => status[j] = "invisible")
  BY DEF OneHolder
<1>t. TypeOK /\ HeldApart /\ HeldInvisible /\ DOMAIN work = Workers
  BY DEF HoldInv, TypeOK
<1>1. Copies(j) # {} => status[j] = "invisible"
  BY <1>t, CopiesOfHeld DEF HeldInvisible
<1> DEFINE L == {<<"loop", k>> : k \in {n \in DOMAIN got : got[n] = j}}
           P == UNION {{<<"pool", n, k>> : k \in {m \in DOMAIN handed[n] : handed[n][m] = j}}
                        : n \in DOMAIN handed}
           W == UNION {{<<w, k>> : k \in {n \in DOMAIN work[w] : work[w][n] = j}} : w \in Workers}
<1>2. Copies(j) = L \cup P \cup W
  BY DEF Copies
<1>3. \A x, y \in L : x = y
  BY <1>t DEF HeldApart, IsInjective
<1>4. \A x, y \in P : x = y
  <2> SUFFICES ASSUME NEW n \in DOMAIN handed, NEW k \in DOMAIN handed[n], handed[n][k] = j,
                      NEW m \in DOMAIN handed, NEW i \in DOMAIN handed[m], handed[m][i] = j
               PROVE  n = m /\ k = i
    OBVIOUS
  <2>1. n = m
    BY <1>t DEF HeldApart, Apart, Range
  <2> QED
    BY <1>t, <2>1 DEF HeldApart, Apart, IsInjective
<1>5. \A x, y \in W : x = y
  <2> SUFFICES ASSUME NEW w \in Workers, NEW k \in DOMAIN work[w], work[w][k] = j,
                      NEW v \in Workers, NEW i \in DOMAIN work[v], work[v][i] = j
               PROVE  w = v /\ k = i
    OBVIOUS
  <2>1. w = v
    BY <1>t DEF HeldApart, Apart, Range
  <2> QED
    BY <1>t, <2>1 DEF HeldApart, Apart, IsInjective
<1>6. /\ L # {} => j \in Range(got)
      /\ P # {} => j \in JobsIn(handed)
      /\ W # {} => j \in JobsIn(work)
  BY <1>t DEF Range, JobsIn
<1> HIDE DEF L, P, W
<1>7. \A x, y \in Copies(j) : x = y
  BY <1>2, <1>3, <1>4, <1>5, <1>6, <1>t DEF HeldApart
<1>8. Cardinality(Copies(j)) <= 1
  <2>1. CASE Copies(j) = {}
    BY <2>1, FS_EmptySet
  <2>2. ASSUME NEW x \in Copies(j) PROVE Cardinality(Copies(j)) <= 1
    <3>1. Copies(j) = {x}
      BY <1>7
    <3>2. Cardinality({x}) = 1
      BY FS_Singleton
    <3> QED
      BY <3>1, <3>2
  <2> QED
    BY <2>1, <2>2
<1> QED
  BY <1>1, <1>8

\* A worker goes on to the next job: the one it settled is nowhere any more.
LEMMA NextJobHeld ==
  ASSUME HoldInv, NEW w \in Workers, wpc[w] = "settle", NextJob(w),
         \A j \in Jobs \ {Head(work[w])} : status'[j] = status[j]
  PROVE  HeldApart' /\ HeldInvisible'
<1> DEFINE s == Tail(work[w])
           h == Head(work[w])
<1>1. /\ work[w] \in Seq(Jobs) /\ work[w] # <<>> /\ DOMAIN work = Workers
      /\ IsInjective(work[w]) /\ Range(work[w]) \subseteq JobsIn(work)
      /\ Held \subseteq Jobs
  BY HeldJobs DEF HoldInv, TypeOK, HeldApart, Apart, JobsIn
<1>2. /\ IsInjective(s) /\ h \notin Range(s) /\ Range(work[w]) = {h} \cup Range(s)
  BY <1>1, InjectiveTail
<1>3. work' = [work EXCEPT ![w] = s] /\ UNCHANGED <<got, handed>>
  BY DEF NextJob
<1> HIDE DEF s, h
<1>4. \A v \in Workers \ {w} : Range(work[w]) \cap Range(work[v]) = {}
  BY <1>1 DEF HoldInv, HeldApart, Apart
<1>5. \A v \in Workers \ {w} : Range(s) \cap Range(work[v]) = {}
  BY <1>2, <1>4
<1>6. Apart(work)' /\ JobsIn(work)' \subseteq JobsIn(work) \cup Range(s)
  BY <1>1, <1>2, <1>3, <1>5, ReplaceApart DEF HoldInv, HeldApart
<1>7. JobsIn(work)' \subseteq JobsIn(work)
  BY <1>1, <1>2, <1>6
<1>8. h \notin JobsIn(work)'
  BY <1>1, <1>2, <1>3, <1>4 DEF JobsIn
<1>9. h \in JobsIn(work)
  BY <1>1, <1>2
<1>10. JobsIn(handed)' = JobsIn(handed)
  BY <1>3 DEF JobsIn
<1>11. HeldApart'
  BY <1>3, <1>6, <1>7, <1>10 DEF HoldInv, HeldApart, Apart
<1>12. ASSUME NEW j \in Held' PROVE status'[j] = "invisible"
  <2>1. j \in Held /\ j # h
    BY <1>3, <1>7, <1>8, <1>9, <1>10 DEF HoldInv, HeldApart, Held
  <2> QED
    BY <1>1, <2>1 DEF HoldInv, HeldInvisible, h
<1> QED
  BY <1>11, <1>12 DEF HeldInvisible

LEMMA HoldStep == ~EarlyTimeout /\ HoldInv /\ [Next]_vars => HoldInv'
<1> SUFFICES ASSUME ~EarlyTimeout, HoldInv, [Next]_vars PROVE HeldApart' /\ HeldInvisible'
  BY TypeStep DEF HoldInv
<1>t. TypeOK /\ HeldApart /\ HeldInvisible /\ Held \subseteq Jobs
  BY HeldJobs DEF HoldInv
<1>s. ASSUME UNCHANGED <<got, handed, work>>, \A j \in Held : status'[j] = status[j]
      PROVE  HeldApart' /\ HeldInvisible'
  BY <1>s, <1>t DEF HeldApart, HeldInvisible, Held, Apart, JobsIn
<1>1. ASSUME NEW j \in Jobs, Queue(j) PROVE HeldApart' /\ HeldInvisible'
  <2>1. j \notin Held
    BY <1>1, <1>t DEF Queue, HeldInvisible
  <2>2. \A k \in Held : status'[k] = status[k]
    BY <1>1, <1>t, <2>1 DEF Queue, TypeOK
  <2> QED
    BY <1>1, <1>s, <2>2 DEF Queue
<1>2. ASSUME NEW j \in Jobs, TimeOutVisibility(j) PROVE HeldApart' /\ HeldInvisible'
  <2>1. j \notin Held
    BY <1>2, <1>t, CopiesOfHeld DEF TimeOutVisibility
  <2>2. \A k \in Held : status'[k] = status[k]
    BY <1>2, <1>t, <2>1 DEF TimeOutVisibility, TypeOK
  <2> QED
    BY <1>2, <1>s, <2>2 DEF TimeOutVisibility
<1>3. CASE Start \/ Stop \/ StopReturns \/ LoopEnds \/ AllHandedOver
  BY <1>3, <1>s DEF Start, Stop, StopReturns, LoopEnds, AllHandedOver
<1>4. CASE Read
  <2>1. PICK s \in Batch :
          /\ got' = s
          /\ status' = [j \in Jobs |-> IF j \in Range(s) THEN "invisible" ELSE status[j]]
    BY <1>4 DEF Read
  <2>2. s \in Seq(Jobs) /\ Range(s) \subseteq Visible /\ IsInjective(s)
    BY BatchType DEF Batch
  <2>3. Range(s) \cap Held = {}
    BY <2>2, <1>t DEF Visible, HeldInvisible
  <2>4. UNCHANGED <<handed, work>>
    BY <1>4 DEF Read
  <2>5. JobsIn(handed)' = JobsIn(handed) /\ JobsIn(work)' = JobsIn(work)
    BY <2>4 DEF JobsIn
  <2>6. HeldApart'
    BY <1>t, <2>1, <2>2, <2>3, <2>4, <2>5 DEF HeldApart, Held, Apart
  <2>7. Held' \subseteq Held \cup Range(s)
    BY <2>1, <2>5 DEF Held
  <2>8. Range(s) \subseteq Jobs
    BY <2>2 DEF Visible
  <2>9. HeldInvisible'
    BY <1>t, <2>1, <2>7, <2>8 DEF HeldInvisible
  <2> QED
    BY <2>6, <2>9
<1>5. CASE ReadFails
  <2>1. \A j \in Held : status'[j] = status[j]
    BY <1>5, <1>t DEF ReadFails, HeldInvisible
  <2> QED
    BY <1>5, <1>s, <2>1 DEF ReadFails
<1>6. CASE HandOverBatch
  <2>1. /\ handed' = Append(handed, got) /\ got' = <<>> /\ UNCHANGED <<work, status>>
        /\ handed \in Seq(Seq(Jobs)) /\ got \in Seq(Jobs)
    BY <1>6, <1>t DEF HandOverBatch, TypeOK
  <2>2. Apart(handed)' /\ JobsIn(handed)' = JobsIn(handed) \cup Range(got)
    <3>1. Apart(Append(handed, got))
          /\ JobsIn(Append(handed, got)) = JobsIn(handed) \cup Range(got)
      BY <1>t, <2>1, AppendApart DEF HeldApart
    <3> QED
      BY <2>1, <3>1 DEF Apart, JobsIn
  <2>3. Apart(work)' /\ JobsIn(work)' = JobsIn(work)
    BY <1>t, <2>1 DEF HeldApart, Apart, JobsIn
  <2>4. IsInjective(got)' /\ Range(got)' = {}
    BY <2>1, EmptyApart
  <2>5. HeldApart'
    BY <1>t, <2>2, <2>3, <2>4 DEF HeldApart
  <2>6. Held' = Held
    BY <2>2, <2>3, <2>4 DEF Held
  <2> QED
    BY <1>t, <2>1, <2>5, <2>6 DEF HeldInvisible
<1>7. CASE HandOverJob
  <2> DEFINE j == Head(got)
  <2>1. /\ handed' = Append(handed, <<j>>) /\ got' = Tail(got) /\ UNCHANGED <<work, status>>
        /\ handed \in Seq(Seq(Jobs)) /\ got \in Seq(Jobs) /\ got # <<>>
    BY <1>7, <1>t DEF HandOverJob, TypeOK
  <2>2. /\ IsInjective(got)' /\ j \notin Range(got)' /\ Range(got) = {j} \cup Range(got)'
        /\ j \in Jobs
    BY <1>t, <2>1, InjectiveTail, HeadTail DEF HeldApart
  <2> HIDE DEF j
  <2>3. <<j>> \in Seq(Jobs) /\ IsInjective(<<j>>) /\ Range(<<j>>) = {j}
    BY <2>2 DEF IsInjective, Range
  <2>4. Apart(handed)' /\ JobsIn(handed)' = JobsIn(handed) \cup {j}
    <3>1. Range(<<j>>) \cap JobsIn(handed) = {}
      BY <1>t, <2>2, <2>3 DEF HeldApart
    <3>2. Apart(Append(handed, <<j>>))
          /\ JobsIn(Append(handed, <<j>>)) = JobsIn(handed) \cup Range(<<j>>)
      BY <1>t, <2>1, <2>3, <3>1, AppendApart DEF HeldApart
    <3> QED
      BY <2>1, <2>3, <3>2 DEF Apart, JobsIn
  <2>5. Apart(work)' /\ JobsIn(work)' = JobsIn(work)
    BY <1>t, <2>1 DEF HeldApart, Apart, JobsIn
  <2>6. HeldApart'
    BY <1>t, <2>2, <2>4, <2>5 DEF HeldApart
  <2>7. Held' = Held
    BY <2>2, <2>4, <2>5 DEF Held
  <2> QED
    BY <1>t, <2>1, <2>6, <2>7 DEF HeldInvisible
<1>8. CASE HandOverFails
  <2>1. got' = <<>> /\ UNCHANGED <<handed, work, status>>
    BY <1>8 DEF HandOverFails
  <2>2. /\ Apart(work)' /\ JobsIn(work)' = JobsIn(work)
        /\ Apart(handed)' /\ JobsIn(handed)' = JobsIn(handed)
    BY <1>t, <2>1 DEF HeldApart, Apart, JobsIn
  <2>3. IsInjective(got)' /\ Range(got)' = {}
    BY <2>1, EmptyApart
  <2>4. HeldApart' /\ Held' \subseteq Held
    BY <1>t, <2>2, <2>3 DEF HeldApart, Held
  <2> QED
    BY <1>t, <2>1, <2>4 DEF HeldInvisible
<1>9. ASSUME NEW w \in Workers, Receive(w) PROVE HeldApart' /\ HeldInvisible'
  <2> DEFINE s == Head(handed)
  <2>1. /\ handed' = Tail(handed) /\ work' = [work EXCEPT ![w] = s] /\ UNCHANGED <<got, status>>
        /\ handed \in Seq(Seq(Jobs)) /\ handed # <<>> /\ DOMAIN work = Workers
    BY <1>9, <1>t DEF Receive, TypeOK
  <2>2. /\ Apart(Tail(handed)) /\ IsInjective(s)
        /\ Range(s) \cap JobsIn(Tail(handed)) = {}
        /\ JobsIn(Tail(handed)) \subseteq JobsIn(handed) /\ Range(s) \subseteq JobsIn(handed)
    BY <1>t, <2>1, TailApart DEF HeldApart
  <2> HIDE DEF s
  <2>3. /\ Apart(handed)' /\ Range(s) \cap JobsIn(handed)' = {}
        /\ JobsIn(handed)' \subseteq JobsIn(handed)
    <3>1. JobsIn(handed)' = JobsIn(Tail(handed))
      BY <2>1 DEF JobsIn
    <3>2. Apart(handed)'
      BY <2>1, <2>2 DEF Apart
    <3> QED
      BY <2>2, <3>1, <3>2
  <2>4. \A v \in Workers : Range(s) \cap Range(work[v]) = {}
    <3>1. \A v \in Workers : Range(work[v]) \subseteq JobsIn(work)
      BY <2>1 DEF JobsIn
    <3> QED
      BY <1>t, <2>2, <3>1 DEF HeldApart
  <2>5. Apart(work)' /\ JobsIn(work)' \subseteq JobsIn(work) \cup Range(s)
    BY <1>t, <2>1, <2>2, <2>4, ReplaceApart DEF HeldApart
  <2>6. HeldApart'
    BY <1>t, <2>1, <2>2, <2>3, <2>5 DEF HeldApart
  <2>7. Held' \subseteq Held
    BY <2>1, <2>2, <2>3, <2>5 DEF Held
  <2> QED
    BY <1>t, <2>1, <2>6, <2>7 DEF HeldInvisible
<1>10. ASSUME NEW w \in Workers, Handle(w) PROVE HeldApart' /\ HeldInvisible'
  BY <1>10, <1>s DEF Handle, Return
<1>11. ASSUME NEW w \in Workers, ReleaseJob(w) \/ DeleteJob(w)
       PROVE  HeldApart' /\ HeldInvisible'
  <2>1. /\ wpc[w] = "settle" /\ NextJob(w)
        /\ \A j \in Jobs \ {Head(work[w])} : status'[j] = status[j]
    BY <1>11, <1>t DEF ReleaseJob, DeleteJob, TypeOK
  <2> QED
    BY <2>1, NextJobHeld
<1>12. CASE Crash
  <2>1. got' = <<>> /\ handed' = <<>> /\ work' = [w \in Workers |-> <<>>]
    BY <1>12 DEF Crash
  <2> QED
    BY <2>1, NothingHeld DEF HeldInvisible
<1>13. CASE UNCHANGED vars
  BY <1>13, <1>s DEF vars
<1> QED
  BY <1>1, <1>2, <1>3, <1>4, <1>5, <1>6, <1>7, <1>8, <1>9, <1>10, <1>11, <1>12, <1>13
  DEF Next, Poll, Work

\* Where no visibility times out under the poller's hands, a job is in one place
\* at a time, and the queue shows to nobody what is still to be settled, whatever
\* else fails, and whenever the process stops.
THEOREM EachJobHasOneHolder == ASSUME ~EarlyTimeout PROVE Spec => []OneHolder
<1>1. Init => HoldInv
  <2> SUFFICES ASSUME Init PROVE HoldInv
    OBVIOUS
  <2>1. got = <<>> /\ handed = <<>> /\ work = [w \in Workers |-> <<>>]
    BY DEF Init, ProcessInit
  <2> QED
    BY <2>1, TypeInit, NothingHeldNow DEF HoldInv, HeldInvisible
<1>2. HoldInv /\ [Next]_vars => HoldInv'
  BY HoldStep
<1>3. HoldInv => OneHolder
  BY HeldOnce
<1> QED
  BY <1>1, <1>2, <1>3, PTL DEF Spec
=============================================================================
