------------------------- MODULE AdvertQueueProofs -------------------------
(***************************************************************************)
(* Theorems about publishing through a queue, for any contexts, callers,   *)
(* jobs and bounds.  They rest on those about the parts: AdvertQueue's     *)
(* steps are steps of the poller, and of the half of Publish that          *)
(* generates an advert, so what PublishProofs and QueuePollerProofs show   *)
(* of such steps holds here.                                               *)
(***************************************************************************)
EXTENDS AdvertQueue, AdStoreProofs

GenP == INSTANCE PublishProofs WITH MayCrash <- FALSE, Faulty <- CallsFail

PollerP == INSTANCE QueuePollerProofs WITH MayStop <- FALSE

-----------------------------------------------------------------------------
(* The poller *)

LEMMA PollerModes == {Flaky, EarlyTimeout, MayCrash, FALSE} \subseteq BOOLEAN
BY PollerAssumption

LEMMA PollerTypes == Poller!TypeOK <=> PollerP!TypeOK
BY DEF Poller!TypeOK, PollerP!TypeOK, Poller!Outcome, PollerP!Outcome

LEMMA OutcomeIs == Poller!Outcome = {"ok", "error", "timeout"} /\ PollerP!Outcome = Poller!Outcome
BY DEF Poller!Outcome, PollerP!Outcome

\* What the poller does on its own is a step of the poller.
LEMMA PollerStepIs ==
  ASSUME PollerStep
  PROVE  PollerP!Next
<1>1. Poller!Start => PollerP!Start
  BY DEF Poller!Start, PollerP!Start
<1>2. Poller!Batch = PollerP!Batch
  BY DEF Poller!Batch, PollerP!Batch, Poller!Visible, PollerP!Visible,
         Poller!BoundedSeq, PollerP!BoundedSeq, Poller!SeqOf, PollerP!SeqOf,
         Poller!IsInjective, PollerP!IsInjective
<1>r. \A s : Poller!Range(s) = PollerP!Range(s)
  BY DEF Poller!Range, PollerP!Range
<1>3. Poller!Read => PollerP!Read
  BY <1>2, <1>r DEF Poller!Read, PollerP!Read, Poller!Cancelled, PollerP!Cancelled
<1>4. Poller!ReadFails => PollerP!ReadFails
  BY <1>2, <1>r DEF Poller!ReadFails, PollerP!ReadFails, Poller!Cancelled, PollerP!Cancelled
<1>5. Poller!HandOverBatch => PollerP!HandOverBatch
  BY DEF Poller!HandOverBatch, PollerP!HandOverBatch
<1>6. \A j \in Jobs : Poller!TimeOutVisibility(j) => PollerP!TimeOutVisibility(j)
  BY DEF Poller!TimeOutVisibility, PollerP!TimeOutVisibility, Poller!Copies, PollerP!Copies
<1>7. \A w \in Workers :
        /\ Poller!Receive(w) => PollerP!Receive(w)
        /\ Poller!ReleaseJob(w) => PollerP!ReleaseJob(w)
        /\ Poller!DeleteJob(w) => PollerP!DeleteJob(w)
  BY DEF Poller!Receive, PollerP!Receive, Poller!ReleaseJob, PollerP!ReleaseJob,
         Poller!DeleteJob, PollerP!DeleteJob, Poller!NextJob, PollerP!NextJob,
         Poller!NoResult, PollerP!NoResult
<1> QED
  BY <1>1, <1>3, <1>4, <1>5, <1>6, <1>7 DEF PollerStep, PollerP!Next, PollerP!Poll, PollerP!Work

\* Every step of AdvertQueue is one of the poller, or leaves it alone: the handler
\* returns with a result for each job of its batch, and for no other.
LEMMA PollerNext ==
  ASSUME err \in [Workers -> Poller!Outcome], [Next]_vars
  PROVE  [PollerP!Next]_(PollerP!vars)
<1>u. UNCHANGED poller => UNCHANGED PollerP!vars
  BY DEF poller, PollerP!vars
<1>1. ASSUME NEW p \in Publishers, Generate(p) PROVE UNCHANGED poller
  BY <1>1 DEF Generate
<1>2. ASSUME NEW p \in Publishers, Enqueue(p) \/ EnqueueFails(p)
      PROVE  PollerP!Next \/ UNCHANGED poller
  <2>1. \A j \in Jobs : Poller!Queue(j) => PollerP!Queue(j)
    BY DEF Poller!Queue, PollerP!Queue
  <2>2. QueueAd(p) => PollerP!Next
    BY <2>1 DEF QueueAd, Unqueued, PollerP!Next
  <2> QED
    BY <1>2, <2>2 DEF Enqueue, EnqueueFails
<1>3. ASSUME NEW w \in Workers,
             \/ Load(w) \/ AppendAd(w) \/ AllAdded(w) \/ Take(w) \/ Clear(w)
             \/ ReadHead(w) \/ PutAd(w) \/ CommitHead(w) \/ CommitFails(w)
             \/ UndoChunk(w) \/ UndoMeta(w)
      PROVE  UNCHANGED poller
  BY <1>3 DEF Load, AppendAd, AllAdded, Take, Clear, ReadHead, PutAd, CommitHead, CommitFails,
              Fails, UndoChunk, UndoMeta, unhandled
<1>4. ASSUME NEW w \in Workers, Return(w) PROVE PollerP!Next
  <2> DEFINE r == [j \in Jobs |-> IF j \in Range(work[w]) THEN err[w] ELSE "ok"]
  <2>1. r \in [Jobs -> PollerP!Outcome]
    BY OutcomeIs
  <2>2. \A j \in Jobs \ PollerP!Range(work[w]) : r[j] = "ok"
    BY DEF PollerP!Range, Range
  <2>3. Poller!Return(w, r)
    BY <1>4 DEF Return
  <2>4. PollerP!Return(w, r)
    BY <2>3 DEF Poller!Return, PollerP!Return, Poller!Range, PollerP!Range
  <2>5. PollerP!Handle(w)
    BY <2>1, <2>2, <2>4 DEF PollerP!Handle
  <2> QED
    BY <2>5 DEF PollerP!Next, PollerP!Work
<1>5. ASSUME Crash PROVE PollerP!Next
  BY <1>5 DEF Crash, Poller!Crash, PollerP!Crash, PollerP!Next, Poller!NoResult, PollerP!NoResult
<1>6. UNCHANGED vars => UNCHANGED poller
  BY DEF vars
<1> QED
  BY <1>u, <1>1, <1>2, <1>3, <1>4, <1>5, <1>6, PollerStepIs DEF Next, Handle

-----------------------------------------------------------------------------
(* Generating an advert *)

\* What Publish says of the types of what generates an advert.
GenLocals ==
  /\ pc \in [Publishers -> GenP!Labels]
  /\ call \in [Publishers -> GenP!Request \cup {Nil}]
  /\ old \in [Publishers -> ContextRecord]
  /\ new \in [Publishers -> ContextRecord]
  /\ base \in [Publishers -> Link]
  /\ \A p \in Publishers : pc[p] # "idle" => call[p] \in GenP!Request
  /\ \A p \in Publishers :
       /\ pc[p] \in {"putEntries", "putChunk", "putMeta"} \cup GenP!Committing => new[p].md # Nil
       /\ pc[p] \in {"putChunk", "putMeta"} \cup GenP!Committing => new[p].chunk # Nil

HistoryType == acked \subseteq Link /\ torn \subseteq Contexts

LEMMA StoreSame ==
  /\ GenP!StoreTypeOK <=> StoreTypeOK
  /\ GenP!Link = Link /\ GenP!Advert = Advert /\ GenP!ContextRecord = ContextRecord
  /\ GenP!NoRecord = NoRecord
  /\ Gen!store = store /\ GenP!store = store
BY DEF StoreTypeOK, GenP!StoreTypeOK, Link, GenP!Link, Advert, GenP!Advert,
       ContextRecord, GenP!ContextRecord, NoRecord, GenP!NoRecord, store, Gen!store, GenP!store

LEMMA GenTypesAre == GenP!TypeOK <=> StoreTypeOK /\ GenLocals /\ HistoryType
BY StoreSame DEF GenP!TypeOK, GenLocals, HistoryType

LEMMA GenTypes == Gen!TypeOK <=> GenP!TypeOK
BY DEF Gen!TypeOK, GenP!TypeOK, Gen!StoreTypeOK, GenP!StoreTypeOK, Gen!Link, GenP!Link,
       Gen!Advert, GenP!Advert, Gen!ContextRecord, GenP!ContextRecord, Gen!Labels, GenP!Labels,
       Gen!Generating, GenP!Generating, Gen!Committing, GenP!Committing, Gen!Undoing, GenP!Undoing,
       Gen!Request, GenP!Request

\* What the two instances call the arguments and the advert of a call.
LEMMA GenNames ==
  /\ \A p \in Publishers : GenP!Ctx(p) = Gen!Ctx(p) /\ GenP!Ad(p) = Gen!Ad(p)
  /\ \A p \in Publishers : Gen!Return(p) <=> GenP!Return(p)
BY DEF Gen!Ctx, GenP!Ctx, Gen!Ad, GenP!Ad, Gen!Return, GenP!Return, Gen!Goto, GenP!Goto,
       Gen!NoRecord, GenP!NoRecord

\* A caller that generates takes a step of Publish.
LEMMA GenerateIs ==
  ASSUME NEW p \in Publishers, Generate(p)
  PROVE  /\ GenP!Call(p) \/ GenP!Step(p)
         /\ GenP!Next
         /\ UNCHANGED <<poller, payload, pending, handler, expired>>
<1>1. Gen!Call(p) => GenP!Call(p)
  BY DEF Gen!Call, GenP!Call, Gen!Goto, GenP!Goto, Gen!store, GenP!store, Gen!Request, GenP!Request
<1>2. Gen!ReadChunk(p) => GenP!ReadChunk(p)
  BY DEF Gen!ReadChunk, GenP!ReadChunk, Gen!Goto, GenP!Goto, Gen!store, GenP!store,
         Gen!Ctx, GenP!Ctx
<1>3. Gen!ReadMeta(p) => GenP!ReadMeta(p)
  BY DEF Gen!ReadMeta, GenP!ReadMeta, Gen!AlreadyAdvertised, GenP!AlreadyAdvertised,
         Gen!LacksEntries, GenP!LacksEntries, Gen!Goto, GenP!Goto, Gen!store, GenP!store,
         Gen!Ctx, GenP!Ctx, Gen!Return, GenP!Return, Gen!NoRecord, GenP!NoRecord
<1>4. Gen!ReadMappingsFails(p) => GenP!ReadMappingsFails(p)
  BY GenNames
  DEF Gen!ReadMappingsFails, GenP!ReadMappingsFails, Gen!ReadFails, GenP!ReadFails, Gen!store,
      GenP!store
<1>5. /\ Gen!PutEntriesOf(p) => GenP!PutEntriesOf(p)
      /\ Gen!PutChunk(p) => GenP!PutChunk(p)
      /\ Gen!PutMeta(p) => GenP!PutMeta(p)
  BY DEF Gen!PutEntriesOf, GenP!PutEntriesOf, Gen!PutChunk, GenP!PutChunk, Gen!PutMeta,
         GenP!PutMeta, Gen!PutEntries, GenP!PutEntries, Gen!PutChunkLink, GenP!PutChunkLink,
         Gen!PutMetadata, GenP!PutMetadata, Gen!Goto, GenP!Goto, Gen!Ctx, GenP!Ctx
<1>6. Gen!GenerateFails(p) => GenP!GenerateFails(p)
  BY DEF Gen!GenerateFails, GenP!GenerateFails, Gen!WriteFails, GenP!WriteFails,
         Gen!PutEntries, GenP!PutEntries, Gen!PutChunkLink, GenP!PutChunkLink,
         Gen!PutMetadata, GenP!PutMetadata, Gen!Undo, GenP!Undo, Gen!Goto, GenP!Goto,
         Gen!Ctx, GenP!Ctx, Gen!store, GenP!store
<1>7. Gen!UndoChunk(p) => GenP!UndoChunk(p)
  BY DEF Gen!UndoChunk, GenP!UndoChunk, Gen!WriteFails, GenP!WriteFails, Gen!PutChunkLink,
         GenP!PutChunkLink, Gen!Goto, GenP!Goto, Gen!Ctx, GenP!Ctx, Gen!store, GenP!store
<1>8. Gen!UndoMeta(p) => GenP!UndoMeta(p)
  BY GenNames
  DEF Gen!UndoMeta, GenP!UndoMeta, Gen!WriteFails, GenP!WriteFails, Gen!PutMetadata,
      GenP!PutMetadata, Gen!Ctx, GenP!Ctx, Gen!store, GenP!store
<1> QED
  BY <1>1, <1>2, <1>3, <1>4, <1>5, <1>6, <1>7, <1>8 DEF Generate, GenP!Step, GenP!Next

-----------------------------------------------------------------------------
(* Types *)

Undoing == {"undoChunk", "undoMeta"}

HandlerType ==
  /\ pending \in Link
  /\ hpc \in [Workers -> Steps]
  /\ n \in [Workers -> Nat]
  /\ seen \in [Workers -> Link]
  /\ found \in [Workers -> Link]
  /\ err \in [Workers -> Poller!Outcome]

\* A job that was queued carries an advert.
PayloadType ==
  /\ payload \in [Jobs -> Advert \cup {Nil}]
  /\ \A j \in Jobs : status[j] # "none" => payload[j] # Nil
  /\ expired \subseteq Jobs

\* A handler's loops stay within its batch and within what it is committing, and
\* the worker that has no batch has a handler that begins.
Placed(w) ==
  /\ wpc[w] # "handle" => hpc[w] = "load" /\ n[w] = 1
  /\ hpc[w] = "load" => n[w] \in 1..(Len(work[w]) + 1)
  /\ hpc[w] = "append" => n[w] \in 1..Len(work[w])
  /\ hpc[w] \in {"putAdvert"} \cup Undoing => n[w] \in 1..Len(seen[w])

Types ==
  /\ StoreTypeOK /\ GenLocals /\ HistoryType
  /\ PollerP!TypeOK /\ PollerP!HeldQueued
  /\ HandlerType /\ PayloadType
  /\ \A w \in Workers : Placed(w)

LEMMA TypesSuffice == Types => TypeOK
BY GenTypes, GenTypesAre, PollerTypes DEF Types, TypeOK, HandlerType, PayloadType

LEMMA GenTypeStep == GenP!TypeOK /\ [GenP!Next]_(GenP!vars) => GenP!TypeOK'
<1>1. (CallsFail \in BOOLEAN /\ LostReply \in BOOLEAN) /\ FALSE \in BOOLEAN
  BY CallsFailAssumption, FaultAssumption
<1> QED
  BY <1>1, GenP!TypeStep, BlocklessAssumption, NilAssumption, OwnsAssumption, MaxAdvertsAssumption
  DEF GenP!TypeStep

LEMMA PollerTypeStep ==
  ASSUME PollerP!TypeOK, err \in [Workers -> Poller!Outcome], [Next]_vars
  PROVE  PollerP!TypeOK' /\ (PollerP!HeldQueued => PollerP!HeldQueued')
         /\ \A j \in Jobs : status[j] # "none" => status'[j] # "none"
<1>1. [PollerP!Next]_(PollerP!vars)
  BY PollerNext
<1>2. PollerP!TypeOK /\ [PollerP!Next]_(PollerP!vars) => PollerP!TypeOK'
  BY PollerP!TypeStep, PollerAssumption, PollerModes DEF PollerP!TypeStep
<1>3. PollerP!TypeOK /\ PollerP!HeldQueued /\ [PollerP!Next]_(PollerP!vars)
      => PollerP!HeldQueued'
  BY PollerP!HeldQueuedStep, PollerAssumption, PollerModes DEF PollerP!HeldQueuedStep
<1>4. \A j \in Jobs : status[j] # "none" => status'[j] # "none"
  BY <1>1, PollerP!StaysQueued, PollerAssumption, PollerModes
<1> QED
  BY <1>1, <1>2, <1>3, <1>4

\* What is in a handler's hands.
LEMMA HandlerHas ==
  ASSUME Types, NEW w \in Workers
  PROVE  /\ work[w] \in Seq(Jobs) /\ DOMAIN work[w] = 1..Len(work[w]) /\ Len(work[w]) \in Nat
         /\ \A k \in 1..Len(work[w]) :
              /\ work[w][k] \in Jobs /\ status[work[w][k]] # "none"
              /\ payload[work[w][k]] \in Advert
         /\ seen[w] \in Link /\ DOMAIN seen[w] = 1..Len(seen[w]) /\ Len(seen[w]) \in Nat
         /\ \A k \in 1..Len(seen[w]) : seen[w][k] \in Advert /\ seen[w][k].ctx \in Contexts
         /\ found[w] \in Link /\ n[w] \in Nat /\ err[w] \in Poller!Outcome
         /\ (hpc[w] # "load" => wpc[w] = "handle")
<1>1. work[w] \in Seq(Jobs) /\ DOMAIN work[w] = 1..Len(work[w]) /\ Len(work[w]) \in Nat
  BY LenProperties DEF Types, PollerP!TypeOK
<1>2. \A k \in 1..Len(work[w]) : work[w][k] \in Jobs /\ status[work[w][k]] # "none"
  BY <1>1 DEF Types, PollerP!HeldQueued, PollerP!Queued
<1>3. \A k \in 1..Len(work[w]) : payload[work[w][k]] \in Advert
  BY <1>2 DEF Types, PayloadType
<1>4. /\ seen[w] \in Seq(Advert) /\ DOMAIN seen[w] = 1..Len(seen[w]) /\ Len(seen[w]) \in Nat
  BY LenProperties DEF Types, HandlerType, Link
<1>5. \A k \in 1..Len(seen[w]) : seen[w][k] \in Advert /\ seen[w][k].ctx \in Contexts
  <2>1. \A k \in 1..Len(seen[w]) : seen[w][k] \in Advert
    BY <1>4, ElementOfSeq
  <2> QED
    BY <2>1 DEF Advert
<1> QED
  BY <1>1, <1>2, <1>3, <1>4, <1>5 DEF Types, HandlerType, Link, Placed

\* The links of a commit.
LEMMA LinksOf ==
  ASSUME Types, NEW w \in Workers
  PROVE  /\ AdLink(w, 0) = found[w]
         /\ \A k \in 0..Len(seen[w]) : AdLink(w, k) \in Link
         /\ \A k \in 1..Len(seen[w]) : AdLink(w, k) = Append(AdLink(w, k - 1), seen[w][k])
         /\ NewHead(w) = found[w] \o seen[w] /\ NewHead(w) \in Link
<1>1. found[w] \in Link /\ seen[w] \in Link /\ DOMAIN seen[w] = 1..Len(seen[w])
  BY HandlerHas
<1>2. /\ AdLink(w, 0) = found[w]
      /\ \A k \in 0..Len(seen[w]) : AdLink(w, k) \in Link
      /\ \A k \in DOMAIN seen[w] :
           seen[w][k] \in Advert /\ AdLink(w, k) = Append(AdLink(w, k - 1), seen[w][k])
      /\ NewHead(w) = found[w] \o seen[w] /\ NewHead(w) \in Link
  BY <1>1, BatchLinks DEF AdLink, NewHead
<1> QED
  BY <1>1, <1>2

\* A step of the handler leaves the callers, the queue and the poller alone.
LEMMA HandlerStepType ==
  ASSUME Types, NEW w \in Workers, UNCHANGED unhandled, StoreTypeOK', HistoryType',
         wpc[w] = "handle", NEW step \in Steps, NEW i \in Nat, Goto(w, step, i),
         pending' \in Link, seen' \in [Workers -> Link], found' \in [Workers -> Link],
         err' \in [Workers -> Poller!Outcome],
         \A v \in Workers \ {w} : seen'[v] = seen[v],
         step = "load" => i \in 1..(Len(work[w]) + 1),
         step = "append" => i \in 1..Len(work[w]),
         step \in {"putAdvert"} \cup Undoing => i \in 1..Len(seen'[w])
  PROVE  Types'
<1>1. /\ UNCHANGED <<pc, call, old, new, base, payload, expired>>
      /\ UNCHANGED <<single, status, loop, got, handed, wpc, work, result, stop, finished>>
  BY DEF unhandled, generating, poller
<1>2. GenLocals'
  BY <1>1 DEF Types, GenLocals
<1>3. PollerP!TypeOK' /\ PollerP!HeldQueued'
  BY <1>1 DEF Types, PollerP!TypeOK, PollerP!HeldQueued, PollerP!Queued
<1>4. PayloadType'
  BY <1>1 DEF Types, PayloadType
<1>5. HandlerType'
  BY DEF Goto, Types, HandlerType
<1>6. ASSUME NEW v \in Workers PROVE Placed(v)'
  <2>1. DOMAIN hpc = Workers /\ DOMAIN n = Workers
    BY DEF Types, HandlerType
  <2>2. CASE v # w
    <3>1. hpc'[v] = hpc[v] /\ n'[v] = n[v] /\ seen'[v] = seen[v]
      BY <2>2 DEF Goto
    <3> QED
      BY <1>1, <3>1 DEF Types, Placed
  <2>3. CASE v = w
    <3>1. hpc'[w] = step /\ n'[w] = i
      BY <2>1 DEF Goto
    <3> QED
      BY <1>1, <2>3, <3>1 DEF Placed
  <2> QED
    BY <2>2, <2>3
<1> QED
  BY <1>2, <1>3, <1>4, <1>5, <1>6 DEF Types

LEMMA FailsType ==
  ASSUME Types, NEW w \in Workers, wpc[w] = "handle", NEW e \in {"error", "timeout"}, Fails(w, e),
         StoreTypeOK'
  PROVE  Types'
<1>1. /\ UNCHANGED unhandled /\ UNCHANGED <<acked, torn, pending, seen, found>>
      /\ err' = [err EXCEPT ![w] = e]
  BY DEF Fails
<1>2. err' \in [Workers -> Poller!Outcome] /\ HistoryType'
  BY <1>1, OutcomeIs DEF Types, HandlerType, HistoryType
<1>h. seen[w] \in Seq(Advert) /\ Len(seen[w]) \in Nat
  BY HandlerHas DEF Link
<1>3. CASE seen[w] = <<>>
  <2>1. Goto(w, "return", 1)
    BY <1>3 DEF Fails
  <2> QED
    BY <1>1, <1>2, <2>1, HandlerStepType DEF Types, HandlerType, Steps, Undoing
<1>4. CASE seen[w] # <<>>
  <2>1. Goto(w, "undoChunk", Len(seen[w])) /\ Len(seen[w]) \in 1..Len(seen[w])
    BY <1>4, <1>h, EmptySeq DEF Fails
  <2> QED
    BY <1>1, <1>2, <1>h, <2>1, HandlerStepType DEF Types, HandlerType, Steps, Undoing
<1> QED
  BY <1>3, <1>4

\* Adding to the batch.
LEMMA AddType ==
  ASSUME Types, NEW w \in Workers, Load(w) \/ AppendAd(w) \/ AllAdded(w) \/ Take(w) \/ Clear(w)
  PROVE  Types'
<1>h. /\ wpc[w] = "handle" /\ Len(work[w]) \in Nat /\ n[w] \in Nat
      /\ pending \in Link /\ seen \in [Workers -> Link] /\ found \in [Workers -> Link]
      /\ err \in [Workers -> Poller!Outcome] /\ Placed(w) /\ <<>> \in Link
  BY HandlerHas, EmptySeq DEF Load, AppendAd, AllAdded, Take, Clear, At, Types, HandlerType, Link
<1>s. /\ UNCHANGED store /\ UNCHANGED <<acked, torn>> => StoreTypeOK' /\ HistoryType'
  BY StoreCallsType DEF Types, HistoryType, Load, AppendAd, AllAdded, Take, Clear
<1>u. UNCHANGED unhandled /\ StoreTypeOK' /\ HistoryType'
  BY <1>s DEF Load, AppendAd, AllAdded, Take, Clear
<1>1. CASE Load(w)
  <2>1. n[w] \in 1..Len(work[w]) /\ Goto(w, "append", n[w])
    BY <1>1, <1>h DEF Load, At, Placed
  <2>2. /\ seen' \in [Workers -> Link] /\ UNCHANGED <<pending, found, err>>
        /\ \A v \in Workers \ {w} : seen'[v] = seen[v]
    BY <1>1, <1>h DEF Load
  <2> QED
    BY <1>h, <1>u, <2>1, <2>2, HandlerStepType DEF Steps, Undoing
<1>2. CASE AppendAd(w)
  <2>1. n[w] \in 1..Len(work[w])
    BY <1>2, <1>h DEF AppendAd, At, Placed
  <2>2. payload[work[w][n[w]]] \in Advert /\ seen[w] \in Seq(Advert)
    BY <2>1, HandlerHas DEF Link
  <2>3. Append(seen[w], payload[work[w][n[w]]]) \in Link
    BY <2>2, AppendProperties DEF Link
  <2>4. n[w] + 1 \in 1..(Len(work[w]) + 1) /\ n[w] + 1 \in Nat /\ Goto(w, "load", n[w] + 1)
    BY <1>2, <1>h, <2>1 DEF AppendAd
  <2>5. /\ seen' \in [Workers -> Link] /\ UNCHANGED <<found, err>> /\ pending' \in Link
        /\ \A v \in Workers \ {w} : seen'[v] = seen[v]
    BY <1>2, <1>h, <2>3 DEF AppendAd
  <2> QED
    BY <1>h, <1>u, <2>4, <2>5, HandlerStepType DEF Steps, Undoing
<1>3. CASE AllAdded(w)
  <2>1. Goto(w, "take", 1) /\ UNCHANGED <<pending, seen, found, err>>
    BY <1>3 DEF AllAdded
  <2> QED
    BY <1>h, <1>u, <2>1, HandlerStepType DEF Steps, Undoing
<1>4. CASE Take(w)
  <2>1. /\ seen' \in [Workers -> Link] /\ UNCHANGED <<pending, found, err>>
        /\ Goto(w, "clear", 1) /\ \A v \in Workers \ {w} : seen'[v] = seen[v]
    BY <1>4, <1>h DEF Take
  <2> QED
    BY <1>h, <1>u, <2>1, HandlerStepType DEF Steps, Undoing
<1>5. CASE Clear(w)
  <2>1. Goto(w, "readHead", 1) /\ UNCHANGED <<seen, found, err>> /\ pending' = <<>>
    BY <1>5 DEF Clear
  <2> QED
    BY <1>h, <1>u, <2>1, HandlerStepType DEF Steps, Undoing
<1> QED
  BY <1>1, <1>2, <1>3, <1>4, <1>5

\* Committing what was taken.
LEMMA CommitType ==
  ASSUME Types, NEW w \in Workers, ReadHead(w) \/ PutAd(w) \/ CommitHead(w) \/ CommitFails(w)
  PROVE  Types'
<1>h. /\ wpc[w] = "handle" /\ n[w] \in Nat /\ Len(seen[w]) \in Nat /\ head \in Link
      /\ seen[w] \in Seq(Advert) /\ found[w] \in Link
      /\ pending \in Link /\ seen \in [Workers -> Link] /\ found \in [Workers -> Link]
      /\ err \in [Workers -> Poller!Outcome] /\ Placed(w) /\ StoreTypeOK
  BY HandlerHas
  DEF ReadHead, PutAd, CommitHead, CommitFails, At, Types, HandlerType, StoreTypeOK, Link
<1>l. /\ \A k \in 0..Len(seen[w]) : AdLink(w, k) \in Link
      /\ NewHead(w) \in Link
  BY LinksOf
<1>1. CASE ReadHead(w)
  <2>1. /\ found' \in [Workers -> Link] /\ UNCHANGED <<pending, seen, err, torn>>
        /\ UNCHANGED unhandled /\ UNCHANGED store
    BY <1>1, <1>h DEF ReadHead
  <2>2. StoreTypeOK'
    BY <1>h, <2>1, StoreCallsType
  <2>3. CASE seen[w] = <<>>
    <3>1. Goto(w, "return", 1) /\ acked' = acked \cup {head}
      BY <1>1, <2>3 DEF ReadHead
    <3>2. HistoryType'
      BY <3>1, <2>1, <1>h DEF Types, HistoryType
    <3> QED
      BY <1>h, <2>1, <2>2, <3>1, <3>2, HandlerStepType DEF Steps, Undoing
  <2>4. CASE seen[w] # <<>>
    <3>1. Goto(w, "putAdvert", 1) /\ UNCHANGED acked
      BY <1>1, <2>4 DEF ReadHead
    <3>2. HistoryType'
      BY <3>1, <2>1 DEF Types, HistoryType
    <3>3. 1 \in 1..Len(seen'[w])
      BY <1>h, <2>1, <2>4, EmptySeq
    <3> QED
      BY <1>h, <2>1, <2>2, <3>1, <3>2, <3>3, HandlerStepType DEF Steps, Undoing
  <2> QED
    BY <2>3, <2>4
<1>2. CASE PutAd(w)
  <2>1. n[w] \in 1..Len(seen[w]) /\ UNCHANGED <<pending, seen, found, err, torn, acked>>
        /\ UNCHANGED unhandled /\ PutAdvert(AdLink(w, n[w]))
    BY <1>2, <1>h DEF PutAd, At, Placed
  <2>2. StoreTypeOK' /\ HistoryType'
    <3>1. n[w] \in 0..Len(seen[w])
      BY <2>1, <1>h
    <3> QED
      BY <1>h, <1>l, <2>1, <3>1, StoreCallsType DEF Types, HistoryType
  <2>3. CASE n[w] < Len(seen[w])
    <3>1. Goto(w, "putAdvert", n[w] + 1) /\ n[w] + 1 \in 1..Len(seen[w]) /\ n[w] + 1 \in Nat
      BY <1>2, <1>h, <2>1, <2>3 DEF PutAd
    <3> QED
      BY <1>h, <2>1, <2>2, <3>1, HandlerStepType DEF Steps, Undoing
  <2>4. CASE ~(n[w] < Len(seen[w]))
    <3>1. Goto(w, "replaceHead", 1)
      BY <1>2, <2>4 DEF PutAd
    <3> QED
      BY <1>h, <2>1, <2>2, <3>1, HandlerStepType DEF Steps, Undoing
  <2> QED
    BY <2>3, <2>4
<1>3. CASE CommitHead(w)
  <2>1. /\ UNCHANGED <<pending, seen, found, err, torn>> /\ UNCHANGED unhandled
        /\ ReplaceHead(found[w], NewHead(w)) /\ acked' = acked \cup {NewHead(w)}
        /\ Goto(w, "return", 1)
    BY <1>3 DEF CommitHead
  <2>2. StoreTypeOK' /\ HistoryType'
    BY <1>h, <1>l, <2>1, StoreCallsType DEF Types, HistoryType
  <2> QED
    BY <1>h, <2>1, <2>2, HandlerStepType DEF Steps, Undoing
<1>4. CASE CommitFails(w)
  <2>1. StoreTypeOK'
    <3>1. At(w, "putAdvert") => n[w] \in 0..Len(seen[w])
      BY <1>h DEF Placed, At
    <3>2. \/ UNCHANGED store
          \/ At(w, "putAdvert") /\ PutAdvert(AdLink(w, n[w]))
          \/ ReplaceHead(found[w], NewHead(w))
      BY <1>4 DEF CommitFails, ReadFails, WriteFails, ReplaceHeadFails
    <3> QED
      BY <1>h, <1>l, <3>1, <3>2, StoreCallsType
  <2>2. \E e \in {"error", "timeout"} : Fails(w, e)
    BY <1>4 DEF CommitFails
  <2> QED
    BY <1>h, <2>1, <2>2, FailsType
<1> QED
  BY <1>1, <1>2, <1>3, <1>4

\* Undoing a commit that failed.
LEMMA UndoTypes ==
  ASSUME Types, NEW w \in Workers, UndoChunk(w) \/ UndoMeta(w)
  PROVE  Types'
<1>h. /\ wpc[w] = "handle" /\ n[w] \in 1..Len(seen[w]) /\ Len(seen[w]) \in Nat
      /\ seen \in [Workers -> Link] /\ found \in [Workers -> Link] /\ pending \in Link
      /\ err \in [Workers -> Poller!Outcome] /\ Placed(w) /\ StoreTypeOK
  BY HandlerHas
  DEF UndoChunk, UndoMeta, At, Types, HandlerType, Placed, Undoing
<1>c. Undone(w) \in Contexts
  BY <1>h, HandlerHas DEF Undone
<1>1. /\ \/ UNCHANGED <<torn, err>>
         \/ UndoFails(w)
      /\ \/ PutChunkLink(Undone(w), Nil) \/ PutMetadata(Undone(w), Nil) \/ UNCHANGED store
      /\ UNCHANGED <<acked, pending, seen, found>> /\ UNCHANGED unhandled
  BY DEF UndoChunk, UndoMeta, WriteFails
<1>2. StoreTypeOK'
  BY <1>h, <1>c, <1>1, StoreCallsType
<1>3. HistoryType' /\ err' \in [Workers -> Poller!Outcome]
  <2>1. err[w] \in Poller!Outcome
    BY <1>h
  <2> QED
    BY <1>h, <1>c, <1>1, <2>1, OutcomeIs DEF UndoFails, Types, HistoryType
<1>4. CASE UndoChunk(w)
  <2>1. Goto(w, "undoMeta", n[w]) /\ n[w] \in Nat
    BY <1>4, <1>h DEF UndoChunk
  <2> QED
    BY <1>h, <1>1, <1>2, <1>3, <2>1, HandlerStepType DEF Steps, Undoing
<1>5. CASE UndoMeta(w) /\ n[w] > 1
  <2>1. Goto(w, "undoChunk", n[w] - 1) /\ n[w] - 1 \in 1..Len(seen[w]) /\ n[w] - 1 \in Nat
    BY <1>5, <1>h DEF UndoMeta
  <2> QED
    BY <1>h, <1>1, <1>2, <1>3, <2>1, HandlerStepType DEF Steps, Undoing
<1>6. CASE UndoMeta(w) /\ ~(n[w] > 1)
  <2>1. Goto(w, "return", 1)
    BY <1>6 DEF UndoMeta
  <2> QED
    BY <1>h, <1>1, <1>2, <1>3, <2>1, HandlerStepType DEF Steps, Undoing
<1> QED
  BY <1>4, <1>5, <1>6

\* The handler returns, and its worker settles the jobs.
LEMMA ReturnTypes ==
  ASSUME Types, NEW w \in Workers, Return(w), PollerP!TypeOK', PollerP!HeldQueued',
         \A j \in Jobs : status[j] # "none" => status'[j] # "none"
  PROVE  Types'
<1>1. /\ UNCHANGED <<store, acked, torn, payload, pending>> /\ UNCHANGED generating
      /\ Goto(w, "load", 1)
      /\ seen' = [seen EXCEPT ![w] = <<>>]
      /\ found' = [found EXCEPT ![w] = <<>>]
      /\ err' = [err EXCEPT ![w] = "ok"]
      /\ expired' = IF err[w] = "timeout" THEN expired \cup Range(work[w]) ELSE expired
      /\ UNCHANGED <<status, work>>
      /\ wpc' = [wpc EXCEPT ![w] = IF work[w] = <<>> THEN "idle" ELSE "settle"]
  BY DEF Return, Poller!Return
<1>2. <<>> \in Link
  BY EmptySeq DEF Link
<1>3. HandlerType'
  BY <1>1, <1>2, OutcomeIs DEF Goto, Types, HandlerType, Steps
<1>4. Range(work[w]) \subseteq Jobs
  BY HandlerHas DEF Range
<1>5. PayloadType'
  BY <1>1, <1>4 DEF Types, PayloadType
<1>6. StoreTypeOK' /\ HistoryType' /\ GenLocals'
  BY <1>1, StoreCallsType DEF Types, HistoryType, GenLocals, generating
<1>7. ASSUME NEW v \in Workers PROVE Placed(v)'
  <2>1. DOMAIN hpc = Workers /\ DOMAIN n = Workers /\ wpc \in [Workers -> {"idle", "handle", "settle"}]
        /\ seen \in [Workers -> Link]
    BY DEF Types, HandlerType, PollerP!TypeOK
  <2>2. CASE v # w
    <3>1. hpc'[v] = hpc[v] /\ n'[v] = n[v] /\ seen'[v] = seen[v] /\ wpc'[v] = wpc[v]
          /\ work'[v] = work[v]
      BY <2>2, <2>1, <1>1 DEF Goto
    <3> QED
      BY <3>1 DEF Types, Placed
  <2>3. CASE v = w
    <3>1. hpc'[w] = "load" /\ n'[w] = 1 /\ work'[w] = work[w] /\ Len(work[w]) \in Nat
      BY <1>1, <2>1, HandlerHas DEF Goto
    <3> QED
      BY <2>3, <3>1 DEF Placed, Undoing
  <2> QED
    BY <2>2, <2>3
<1> QED
  BY <1>3, <1>5, <1>6, <1>7 DEF Types

\* The callers.
LEMMA CallerTypes ==
  ASSUME Types, NEW p \in Publishers, Generate(p) \/ Enqueue(p) \/ EnqueueFails(p),
         PollerP!TypeOK', PollerP!HeldQueued',
         \A j \in Jobs : status[j] # "none" => status'[j] # "none"
  PROVE  Types'
<1>g. GenP!TypeOK
  BY GenTypesAre DEF Types
<1>k. UNCHANGED <<payload, status, expired>> => PayloadType'
  BY DEF Types, PayloadType
<1>w. UNCHANGED <<pending, handler>> /\ UNCHANGED <<wpc, work>>
      => HandlerType' /\ \A w \in Workers : Placed(w)'
  BY DEF handler, Types, HandlerType, Placed
<1>1. CASE Generate(p)
  <2>1. GenP!Next /\ UNCHANGED <<poller, payload, pending, handler, expired>>
    BY <1>1, GenerateIs
  <2>2. GenP!TypeOK'
    BY <1>g, <2>1, GenTypeStep
  <2>3. (StoreTypeOK /\ GenLocals /\ HistoryType)'
    BY <2>2, GenTypesAre, PTL
  <2>4. UNCHANGED <<payload, status, expired, pending, handler>> /\ UNCHANGED <<wpc, work>>
    BY <2>1 DEF poller
  <2> QED
    BY <1>k, <1>w, <2>3, <2>4 DEF Types
<1>2. CASE Enqueue(p) \/ EnqueueFails(p)
  <2>1. /\ UNCHANGED <<store, acked, pending, handler, expired>> /\ UNCHANGED <<wpc, work>>
        /\ torn' \subseteq torn
    BY <1>2 DEF Enqueue, EnqueueFails, QueueAd, Poller!Queue, poller
  <2>2. GenP!Return(p)
    BY <1>2, GenNames DEF Enqueue, EnqueueFails
  <2>3. GenLocals'
    <3>1. /\ pc' = [pc EXCEPT ![p] = "idle"] /\ call' = [call EXCEPT ![p] = Nil]
          /\ old' = [old EXCEPT ![p] = NoRecord] /\ new' = [new EXCEPT ![p] = NoRecord]
          /\ base' = [base EXCEPT ![p] = <<>>]
      BY <2>2, StoreSame DEF GenP!Return, GenP!Goto
    <3>2. NoRecord \in ContextRecord /\ <<>> \in Link
      BY EmptySeq DEF NoRecord, ContextRecord, Link
    <3>3. "idle" \in GenP!Labels /\ "idle" \notin {"putEntries", "putChunk", "putMeta"} \cup GenP!Committing
      BY DEF GenP!Labels, GenP!Committing
    <3>4. /\ pc' \in [Publishers -> GenP!Labels]
          /\ call' \in [Publishers -> GenP!Request \cup {Nil}]
          /\ old' \in [Publishers -> ContextRecord]
          /\ new' \in [Publishers -> ContextRecord]
          /\ base' \in [Publishers -> Link]
      BY <3>1, <3>2, <3>3 DEF Types, GenLocals
    <3>5. ASSUME NEW q \in Publishers
          PROVE  /\ pc'[q] # "idle" => pc[q] = pc'[q] /\ call'[q] = call[q] /\ new'[q] = new[q]
                                       /\ pc[q] # "idle"
      BY <3>1 DEF Types, GenLocals
    <3> QED
      BY <3>3, <3>4, <3>5 DEF Types, GenLocals
  <2>4. StoreTypeOK' /\ HistoryType'
    BY <2>1, StoreCallsType DEF Types, HistoryType
  <2>5. PayloadType'
    <3>1. CASE UNCHANGED <<poller, payload>>
      BY <2>1, <3>1, <1>k DEF poller
    <3>2. CASE QueueAd(p)
      <4>1. PICK j \in Jobs : Poller!Queue(j) /\ payload' = [payload EXCEPT ![j] = Gen!Ad(p)]
        BY <3>2 DEF QueueAd, Unqueued
      <4>2. Gen!Ad(p) \in Advert
        <5>1. pc[p] = "readHead"
          BY <1>2 DEF Enqueue, EnqueueFails
        <5>2. /\ call[p] \in GenP!Request /\ new[p] \in ContextRecord
              /\ new[p].chunk # Nil /\ new[p].md # Nil
          BY <5>1 DEF Types, GenLocals, GenP!Committing
        <5>3. GenP!Ctx(p) \in Contexts /\ new[p].chunk \in Digests /\ new[p].md \in Metadatas
          BY <5>2 DEF GenP!Ctx, GenP!Request, ContextRecord
        <5> QED
          BY <5>3, GenNames DEF GenP!Ad, Advert
      <4>3. status' = [status EXCEPT ![j] = "visible"]
        BY <4>1 DEF Poller!Queue
      <4>4. payload' \in [Jobs -> Advert \cup {Nil}] /\ payload'[j] # Nil
        BY <4>1, <4>2, NoPayloadAssumption DEF Types, PayloadType
      <4>5. \A i \in Jobs \ {j} : payload'[i] = payload[i] /\ status'[i] = status[i]
        BY <4>1, <4>3
      <4> QED
        BY <4>4, <4>5, <2>1 DEF Types, PayloadType
    <3>3. QueueAd(p) \/ UNCHANGED <<poller, payload>>
      BY <1>2 DEF Enqueue, EnqueueFails
    <3> QED
      BY <3>1, <3>2, <3>3
  <2> QED
    BY <1>w, <2>1, <2>3, <2>4, <2>5 DEF Types
<1> QED
  BY <1>1, <1>2

\* The poller on its own, and a new process.
LEMMA PollerMoveTypes ==
  ASSUME Types, PollerStep \/ Crash, PollerP!TypeOK', PollerP!HeldQueued',
         \A j \in Jobs : status[j] # "none" => status'[j] # "none"
  PROVE  Types'
<1>1. /\ UNCHANGED <<store, acked, torn, payload, expired>> /\ UNCHANGED generating
  BY DEF PollerStep, Crash
<1>2. StoreTypeOK' /\ HistoryType' /\ GenLocals'
  BY <1>1, StoreCallsType DEF Types, HistoryType, GenLocals, generating
<1>3. PayloadType'
  <2>1. \A j \in Jobs : status'[j] # "none" => status[j] # "none"
    <3>1. CASE Crash
      BY <3>1 DEF Crash, Poller!Crash
    <3>2. CASE PollerStep
      <4>1. \A s \in Poller!Batch : Poller!Range(s) \subseteq Poller!Visible
        <5> SUFFICES ASSUME NEW s \in Poller!Batch PROVE Poller!Range(s) \subseteq Poller!Visible
          OBVIOUS
        <5>1. s \in Seq(Poller!Visible)
          BY DEF Poller!Batch, Poller!BoundedSeq, Poller!SeqOf, Seq
        <5> QED
          BY <5>1, ElementOfSeq, LenProperties DEF Poller!Range
      <4>2. \A s \in Poller!Batch : \A j \in Jobs :
              j \in Poller!Range(s) => status[j] # "none"
        BY <4>1 DEF Poller!Visible
      <4>3. Poller!Read \/ Poller!ReadFails => \A j \in Jobs : status'[j] # "none" => status[j] # "none"
        BY <4>2 DEF Poller!Read, Poller!ReadFails
      <4>4. Poller!Start \/ Poller!HandOverBatch \/ (\E w \in Workers : Poller!Receive(w))
            => status' = status
        BY DEF Poller!Start, Poller!HandOverBatch, Poller!Receive
      <4>5. \A j \in Jobs : Poller!TimeOutVisibility(j)
              => \A i \in Jobs : status'[i] # "none" => status[i] # "none"
        BY DEF Poller!TimeOutVisibility, Types, PollerP!TypeOK
      <4>6. ASSUME NEW w \in Workers, Poller!ReleaseJob(w) \/ Poller!DeleteJob(w), NEW j \in Jobs,
                   status'[j] # "none"
            PROVE  status[j] # "none"
        <5>1. wpc[w] = "settle"
          BY <4>6 DEF Poller!ReleaseJob, Poller!DeleteJob
        <5>2. work[w] \in Seq(Jobs) /\ work[w] # <<>>
          BY <5>1 DEF Types, PollerP!TypeOK
        <5>3. Head(work[w]) = work[w][1] /\ 1 \in DOMAIN work[w]
          BY <5>2, HeadTailProperties, LenProperties, EmptySeq
        <5>4. status[Head(work[w])] # "none"
          BY <5>3 DEF Types, PollerP!HeldQueued, PollerP!Queued
        <5>5. status \in [Jobs -> {"none", "visible", "invisible", "deleted"}]
          BY DEF Types, PollerP!TypeOK
        <5> QED
          BY <4>6, <5>4, <5>5 DEF Poller!ReleaseJob, Poller!DeleteJob
      <4> QED
        BY <3>2, <4>3, <4>4, <4>5, <4>6 DEF PollerStep
    <3> QED
      BY <3>1, <3>2
  <2> QED
    BY <1>1, <2>1 DEF Types, PayloadType
<1>4. CASE Crash
  <2>1. <<>> \in Link
    BY EmptySeq DEF Link
  <2>2. HandlerType'
    BY <1>4, <2>1, OutcomeIs DEF Crash, HandlerType, Steps
  <2>3. ASSUME NEW w \in Workers PROVE Placed(w)'
    <3>1. hpc'[w] = "load" /\ n'[w] = 1 /\ work'[w] = <<>> /\ wpc'[w] = "idle"
      BY <1>4 DEF Crash, Poller!Crash
    <3> QED
      BY <3>1, EmptySeq DEF Placed, Undoing
  <2> QED
    BY <1>2, <1>3, <2>2, <2>3 DEF Types
<1>5. CASE PollerStep
  <2>1. UNCHANGED <<pending, handler>>
    BY <1>5 DEF PollerStep
  <2>2. HandlerType'
    BY <2>1 DEF handler, Types, HandlerType
  <2>3. ASSUME NEW w \in Workers
        PROVE  \/ wpc'[w] = wpc[w] /\ work'[w] = work[w]
               \/ wpc[w] # "handle" /\ work'[w] \in Seq(Jobs)
    <3>1. work' \in [Workers -> Seq(Jobs)]
      BY DEF PollerP!TypeOK
    <3>2. \/ wpc' = wpc /\ work' = work
          \/ \E v \in Workers : /\ wpc[v] # "handle"
                                /\ \E x : wpc' = [wpc EXCEPT ![v] = x]
                                /\ \E x : work' = [work EXCEPT ![v] = x]
      BY <1>5
      DEF PollerStep, Poller!Start, Poller!Read, Poller!ReadFails, Poller!HandOverBatch,
          Poller!TimeOutVisibility, Poller!Receive, Poller!ReleaseJob, Poller!DeleteJob,
          Poller!NextJob
    <3> QED
      BY <3>1, <3>2 DEF Types, PollerP!TypeOK
  <2>4. ASSUME NEW w \in Workers PROVE Placed(w)'
    <3>1. hpc'[w] = hpc[w] /\ n'[w] = n[w] /\ seen'[w] = seen[w]
      BY <2>1 DEF handler
    <3>2. CASE wpc'[w] = wpc[w] /\ work'[w] = work[w]
      BY <3>1, <3>2 DEF Types, Placed
    <3>3. CASE wpc[w] # "handle" /\ work'[w] \in Seq(Jobs)
      <4>1. hpc[w] = "load" /\ n[w] = 1
        BY <3>3 DEF Types, Placed
      <4>2. Len(work'[w]) \in Nat
        BY <3>3, LenProperties
      <4> QED
        BY <3>1, <4>1, <4>2 DEF Placed, Undoing
    <3> QED
      BY <2>3, <3>2, <3>3
  <2> QED
    BY <1>2, <1>3, <2>2, <2>4 DEF Types
<1> QED
  BY <1>4, <1>5

LEMMA TypeStep == Types /\ [Next]_vars => Types'
<1> SUFFICES ASSUME Types, [Next]_vars PROVE Types'
  OBVIOUS
<1>1. PollerP!TypeOK' /\ PollerP!HeldQueued' /\ \A j \in Jobs : status[j] # "none" => status'[j] # "none"
  BY PollerTypeStep DEF Types, HandlerType
<1>2. ASSUME NEW w \in Workers, Handle(w) PROVE Types'
  BY <1>1, <1>2, AddType, CommitType, UndoTypes, ReturnTypes DEF Handle
<1>3. CASE UNCHANGED vars
  BY <1>1, <1>3, StoreCallsType
  DEF vars, store, generating, poller, handler, Types, HistoryType, GenLocals, HandlerType,
      PayloadType, Placed
<1> QED
  BY <1>1, <1>2, <1>3, CallerTypes, PollerMoveTypes DEF Next

LEMMA PollerInit == Init => PollerP!Init
BY DEF Init, Poller!Init, PollerP!Init, Poller!ProcessInit, PollerP!ProcessInit,
       Poller!NoResult, PollerP!NoResult

LEMMA TypeInit == Init => Types
<1> SUFFICES ASSUME Init PROVE Types
  OBVIOUS
<1>1. <<>> \in Link /\ NoRecord \in ContextRecord /\ Gen!NoRecord = NoRecord
  BY EmptySeq DEF Link, NoRecord, ContextRecord, Gen!NoRecord
<1>2. StoreTypeOK /\ HistoryType
  BY <1>1 DEF Init, Gen!Init, Gen!StoreInit, StoreTypeOK, HistoryType
<1>3. GenLocals
  BY <1>1 DEF Init, Gen!Init, GenLocals, GenP!Labels, GenP!Committing
<1>4. PollerP!TypeOK /\ PollerP!HeldQueued
  <2>1. PollerP!Init => PollerP!TypeOK
    BY PollerP!TypeInit, PollerAssumption, PollerModes DEF PollerP!TypeInit
  <2>2. PollerP!Init => PollerP!HeldQueued
    BY PollerP!HeldQueuedInit, PollerAssumption, PollerModes DEF PollerP!HeldQueuedInit
  <2> QED
    BY <2>1, <2>2, PollerInit
<1>5. HandlerType
  BY <1>1, OutcomeIs DEF Init, HandlerInit, HandlerType, Steps
<1>6. PayloadType
  BY DEF Init, PayloadType, Poller!Init
<1>7. \A w \in Workers : Placed(w)
  BY EmptySeq DEF Init, HandlerInit, Poller!Init, Poller!ProcessInit, Placed, Undoing
<1> QED
  BY <1>2, <1>3, <1>4, <1>5, <1>6, <1>7 DEF Types

LEMMA Typed == Spec => []Types
BY TypeInit, TypeStep, PTL DEF Spec

\* Every state is well formed, every job that was queued carries an advert, and
\* a handler's loops stay within its batch and within what it commits, whatever
\* other workers do to the pending adverts meanwhile.
THEOREM TypeCorrect == Spec => []TypeOK
BY Typed, TypesSuffice, PTL

\* What the queue and the poller do here, the handler being the adverts' own, the
\* poller alone does with some handler: what is shown of the poller holds here.
THEOREM ImplementsPoller == Spec => PollerP!Spec
<1>1. Types /\ [Next]_vars => [PollerP!Next]_(PollerP!vars)
  BY PollerNext DEF Types, HandlerType
<1> QED
  BY <1>1, PollerInit, Typed, PTL DEF Spec, PollerP!Spec

-----------------------------------------------------------------------------
(* The chain *)

\* A caller that generates writes mappings and entries, and no advert.
LEMMA GenerateStore ==
  ASSUME NEW p \in Publishers, Generate(p)
  PROVE  UNCHANGED <<head, adverts, acked>> /\ blocks \subseteq blocks'
BY DEF Generate, Gen!Call, Gen!ReadChunk, Gen!ReadMeta, Gen!ReadMappingsFails, Gen!ReadFails,
       Gen!PutEntriesOf, Gen!PutChunk, Gen!PutMeta, Gen!GenerateFails, Gen!UndoChunk,
       Gen!UndoMeta, Gen!WriteFails, Gen!PutEntries, Gen!PutChunkLink, Gen!PutMetadata, Gen!store

\* Only a commit moves the head: to the adverts it took, behind the head it found.
LEMMA HeadStep ==
  ASSUME [Next]_vars
  PROVE  \/ UNCHANGED <<head, acked>>
         \/ UNCHANGED head /\ acked' = acked \cup {head}
         \/ \E w \in Workers :
              /\ At(w, "replaceHead") /\ found[w] = head /\ head' = NewHead(w)
              /\ UNCHANGED <<status, payload, seen, adverts, expired, work, pc, chunkLink, metadata>>
              /\ acked' = acked \/ acked' = acked \cup {head'}
<1>1. ASSUME NEW p \in Publishers, Generate(p) \/ Enqueue(p) \/ EnqueueFails(p)
      PROVE  UNCHANGED <<head, acked>>
  BY <1>1, GenerateStore DEF Enqueue, EnqueueFails, store
<1>2. ASSUME NEW w \in Workers,
             \/ Load(w) \/ AppendAd(w) \/ AllAdded(w) \/ Take(w) \/ Clear(w) \/ PutAd(w)
             \/ UndoChunk(w) \/ UndoMeta(w) \/ Return(w)
      PROVE  UNCHANGED <<head, acked>>
  BY <1>2
  DEF Load, AppendAd, AllAdded, Take, Clear, PutAd, UndoChunk, UndoMeta, Return, store,
      PutAdvert, PutChunkLink, PutMetadata, WriteFails
<1>3. ASSUME NEW w \in Workers, ReadHead(w)
      PROVE  UNCHANGED head /\ (acked' = acked \/ acked' = acked \cup {head})
  BY <1>3 DEF ReadHead, store
<1>4. ASSUME NEW w \in Workers, CommitHead(w)
      PROVE  /\ At(w, "replaceHead") /\ found[w] = head /\ head' = NewHead(w)
             /\ UNCHANGED <<status, payload, seen, adverts, expired, work, pc, chunkLink, metadata>>
             /\ acked' = acked \cup {head'}
  BY <1>4 DEF CommitHead, ReplaceHead, unhandled, generating, poller
<1>5. ASSUME NEW w \in Workers, CommitFails(w)
      PROVE  /\ UNCHANGED acked
             /\ \/ UNCHANGED head
                \/ /\ At(w, "replaceHead") /\ found[w] = head /\ head' = NewHead(w)
                   /\ UNCHANGED <<status, payload, seen, adverts, expired, work, pc, chunkLink, metadata>>
  BY <1>5
  DEF CommitFails, Fails, ReadFails, WriteFails, PutAdvert, ReplaceHead, ReplaceHeadFails, store,
      unhandled, generating, poller
<1>6. PollerStep \/ Crash \/ UNCHANGED vars => UNCHANGED <<head, acked>>
  BY DEF PollerStep, Crash, vars, store
<1> QED
  BY <1>1, <1>2, <1>3, <1>4, <1>5, <1>6 DEF Next, Handle

LEMMA ChainStep == Types /\ [Next]_vars => [Chain!Next]_<<head, acked>>
<1> SUFFICES ASSUME Types, [Next]_vars PROVE [Chain!Next]_<<head, acked>>
  OBVIOUS
<1>a. head \in Seq(Advert)
  BY DEF Types, StoreTypeOK, Link
<1>p. head \in Prefixes(head)
  BY <1>a, SelfPrefix
<1>1. ASSUME UNCHANGED head, acked' = acked \cup {head} PROVE Chain!Acknowledge
  BY <1>1, <1>p DEF Chain!Acknowledge, Chain!Prefixes, Prefixes
<1>2. ASSUME NEW w \in Workers, found[w] = head, head' = NewHead(w),
             acked' = acked \/ acked' = acked \cup {head'}
      PROVE  [Chain!Next]_<<head, acked>>
  <2>1. head' = head \o seen[w] /\ seen[w] \in Seq(Advert)
    BY <1>2, LinksOf, HandlerHas DEF Link
  <2>2. CASE seen[w] = <<>>
    <3>1. head' = head
      BY <1>a, <2>1, <2>2, ConcatEmptySeq
    <3> QED
      BY <1>1, <1>2, <3>1 DEF Chain!Next
  <2>3. CASE seen[w] # <<>>
    <3>1. IsStrictPrefix(head, head')
      BY <1>a, <2>1, <2>3, ConcatStrict
    <3> QED
      BY <1>2, <3>1 DEF Chain!Next, Chain!Extend, Chain!IsStrictPrefix, IsStrictPrefix,
                        Chain!IsPrefix, IsPrefix
  <2> QED
    BY <2>2, <2>3
<1> QED
  BY <1>1, <1>2, HeadStep DEF Chain!Next

\* Whatever batches workers commit, together or again, publishing through a queue
\* implements AdvertChain: a link that a commit returned stays on the chain.
THEOREM ImplementsChain == Spec => ChainSpec
<1>1. Init => Chain!Init
  BY DEF Init, Gen!Init, Gen!StoreInit, Chain!Init
<1> QED
  BY <1>1, ChainStep, Typed, PTL DEF Spec, ChainSpec, Chain!Spec

-----------------------------------------------------------------------------
(* The head can be walked *)

Stored(l) == l \in blocks \cup Blockless

\* The entries of every advert of the chain l have their blocks.
HasEntries(l) == \A i \in DOMAIN l : Stored(l[i].entries)

\* So have the entries that are mapped, or held by a call of Publish, those of
\* the adverts that are queued, and those that handlers hold.
QueuedInv ==
  /\ \A j \in Jobs : payload[j] # Nil => Stored(payload[j].entries)
  /\ HasEntries(pending)
  /\ \A w \in Workers : HasEntries(seen[w])

EntriesInv == GenP!EntriesInv /\ QueuedInv

\* What a commit builds on can be walked, up to the advert it has just written.
Walks(w) ==
  /\ Walkable(found[w], adverts, blocks)
  /\ hpc[w] = "putAdvert" => Walkable(AdLink(w, n[w] - 1), adverts, blocks)
  /\ hpc[w] = "replaceHead" => Walkable(NewHead(w), adverts, blocks)

WalkInv == HeadClosed /\ \A w \in Workers : Walks(w)

LEMMA BlocksGrow ==
  ASSUME [Next]_vars
  PROVE  adverts \subseteq adverts' /\ blocks \subseteq blocks'
<1> DEFINE Grow == adverts \subseteq adverts' /\ blocks \subseteq blocks'
<1>1. ASSUME NEW p \in Publishers, Generate(p) \/ Enqueue(p) \/ EnqueueFails(p) PROVE Grow
  BY <1>1, GenerateStore DEF Enqueue, EnqueueFails, store
<1>2. ASSUME NEW w \in Workers, Handle(w) PROVE Grow
  BY <1>2
  DEF Handle, Load, AppendAd, AllAdded, Take, Clear, ReadHead, PutAd, CommitHead, CommitFails,
      UndoChunk, UndoMeta, Return, store, PutAdvert, PutChunkLink, PutMetadata, WriteFails,
      ReadFails, ReplaceHead, ReplaceHeadFails
<1>3. PollerStep \/ Crash \/ UNCHANGED vars => Grow
  BY DEF PollerStep, Crash, vars, store
<1> QED
  BY <1>1, <1>2, <1>3 DEF Next

\* What the mappings and the callers say has its entries still.
LEMMA GenEntriesStep ==
  ASSUME Types, GenP!EntriesInv, [Next]_vars
  PROVE  GenP!EntriesInv'
<1>b. blocks \subseteq blocks'
  BY BlocksGrow
<1>t. chunkLink \in [Contexts -> Digests \cup {Nil}] /\ GenLocals /\ GenP!TypeOK
  BY GenTypesAre DEF Types, StoreTypeOK
<1>u. ASSUME UNCHANGED <<chunkLink, old, new>> PROVE GenP!EntriesInv'
  BY <1>u, <1>b DEF GenP!EntriesInv
<1>1. ASSUME NEW p \in Publishers, Generate(p) PROVE GenP!EntriesInv'
  <2>1. (CallsFail \in BOOLEAN /\ LostReply \in BOOLEAN) /\ FALSE \in BOOLEAN
    BY CallsFailAssumption, FaultAssumption
  <2>2. GenP!TypeOK /\ GenP!EntriesInv /\ [GenP!Next]_(GenP!vars) => GenP!EntriesInv'
    BY <2>1, GenP!EntriesStep, BlocklessAssumption, NilAssumption, OwnsAssumption,
       MaxAdvertsAssumption
    DEF GenP!EntriesStep
  <2> QED
    BY <1>1, <1>t, <2>2, GenerateIs
<1>2. ASSUME NEW p \in Publishers, Enqueue(p) \/ EnqueueFails(p) PROVE GenP!EntriesInv'
  <2>1. /\ UNCHANGED chunkLink
        /\ old' = [old EXCEPT ![p] = NoRecord] /\ new' = [new EXCEPT ![p] = NoRecord]
    BY <1>2, GenNames, StoreSame DEF Enqueue, EnqueueFails, GenP!Return, store
  <2> QED
    BY <2>1, <1>b, <1>t DEF GenP!EntriesInv, GenLocals, NoRecord
<1>3. ASSUME NEW w \in Workers, Handle(w) PROVE GenP!EntriesInv'
  <2>1. UNCHANGED <<old, new>>
    BY <1>3
    DEF Handle, Load, AppendAd, AllAdded, Take, Clear, ReadHead, PutAd, CommitHead, CommitFails,
        Fails, UndoChunk, UndoMeta, Return, unhandled, generating
  <2>2. UNCHANGED chunkLink \/ chunkLink' = [chunkLink EXCEPT ![Undone(w)] = Nil]
    BY <1>3
    DEF Handle, Load, AppendAd, AllAdded, Take, Clear, ReadHead, PutAd, CommitHead, CommitFails,
        UndoChunk, UndoMeta, Return, store, PutAdvert, PutChunkLink, PutMetadata, WriteFails,
        ReadFails, ReplaceHead, ReplaceHeadFails
  <2> QED
    BY <2>1, <2>2, <1>b, <1>t DEF GenP!EntriesInv
<1>4. PollerStep \/ Crash \/ UNCHANGED vars => UNCHANGED <<chunkLink, old, new>>
  BY DEF PollerStep, Crash, vars, store, generating
<1> QED
  BY <1>1, <1>2, <1>3, <1>4, <1>u DEF Next

\* What becomes of the adverts on their way to the chain.
LEMMA AdvertMoves ==
  ASSUME Types, [Next]_vars
  PROVE  /\ \A j \in Jobs : \/ payload'[j] = payload[j]
                            \/ \E p \in Publishers :
                                 pc[p] = "readHead" /\ status[j] = "none" /\ payload'[j] = Gen!Ad(p)
         /\ \/ pending' \in {pending, <<>>}
            \/ \E w \in Workers : /\ At(w, "append")
                                  /\ pending' = Append(seen[w], payload[work[w][n[w]]])
         /\ \A w \in Workers : seen'[w] \in {seen[w], pending, <<>>}
<1>t. seen \in [Workers -> Link] /\ payload \in [Jobs -> Advert \cup {Nil}]
  BY DEF Types, HandlerType, PayloadType
<1>1. ASSUME NEW p \in Publishers, Generate(p)
      PROVE  UNCHANGED <<payload, pending, seen>>
  BY <1>1 DEF Generate, handler
<1>2. ASSUME NEW p \in Publishers, Enqueue(p) \/ EnqueueFails(p)
      PROVE  /\ UNCHANGED <<pending, seen>> /\ pc[p] = "readHead"
             /\ \/ UNCHANGED payload
                \/ \E j \in Jobs :
                     status[j] = "none" /\ payload' = [payload EXCEPT ![j] = Gen!Ad(p)]
  BY <1>2 DEF Enqueue, EnqueueFails, QueueAd, Unqueued, handler
<1>3. ASSUME NEW w \in Workers,
             \/ ReadHead(w) \/ PutAd(w) \/ CommitHead(w) \/ CommitFails(w)
             \/ UndoChunk(w) \/ UndoMeta(w) \/ AllAdded(w)
      PROVE  UNCHANGED <<payload, pending, seen>>
  BY <1>3
  DEF ReadHead, PutAd, CommitHead, CommitFails, Fails, UndoChunk, UndoMeta, AllAdded, unhandled
<1>4. ASSUME NEW w \in Workers, Load(w) \/ Take(w) \/ Clear(w) \/ Return(w)
      PROVE  /\ UNCHANGED payload /\ pending' \in {pending, <<>>}
             /\ \A v \in Workers : seen'[v] \in {seen[v], pending, <<>>}
  BY <1>4, <1>t DEF Load, Take, Clear, Return, unhandled
<1>5. ASSUME NEW w \in Workers, AppendAd(w)
      PROVE  /\ UNCHANGED payload /\ At(w, "append")
             /\ pending' = Append(seen[w], payload[work[w][n[w]]])
             /\ \A v \in Workers : seen'[v] \in {seen[v], <<>>}
  BY <1>5, <1>t DEF AppendAd, unhandled
<1>6. ASSUME PollerStep \/ Crash \/ UNCHANGED vars
      PROVE  /\ UNCHANGED payload /\ pending' \in {pending, <<>>}
             /\ \A v \in Workers : seen'[v] \in {seen[v], <<>>}
  BY <1>6, <1>t DEF PollerStep, Crash, vars, handler
<1> QED
  BY <1>t, <1>1, <1>2, <1>3, <1>4, <1>5, <1>6 DEF Next, Handle

\* The entries of a queued advert are stored, as it is when it is generated.
LEMMA GeneratedIs ==
  ASSUME Types, NEW p \in Publishers, pc[p] = "readHead"
  PROVE  /\ Gen!Ad(p) \in Advert /\ Gen!Ad(p).entries = new[p].chunk /\ Gen!Ad(p).md = new[p].md
         /\ Gen!Ad(p).ctx = GenP!Ctx(p) /\ GenP!Ctx(p) \in Contexts
         /\ new[p].chunk \in Digests /\ new[p].md \in Metadatas
<1>1. /\ call[p] \in GenP!Request /\ new[p] \in ContextRecord
      /\ new[p].chunk # Nil /\ new[p].md # Nil
  BY DEF Types, GenLocals, GenP!Committing
<1>2. GenP!Ctx(p) \in Contexts /\ new[p].chunk \in Digests /\ new[p].md \in Metadatas
  BY <1>1 DEF GenP!Ctx, GenP!Request, ContextRecord
<1> QED
  BY <1>2, GenNames DEF GenP!Ad, Advert

LEMMA QueuedStep == Types /\ EntriesInv /\ [Next]_vars => QueuedInv'
<1> SUFFICES ASSUME Types, EntriesInv, [Next]_vars PROVE QueuedInv'
  OBVIOUS
<1> DEFINE Has(l) == \A k \in DOMAIN l : l[k].entries \in blocks' \cup Blockless
<1>b. blocks \subseteq blocks'
  BY BlocksGrow
<1>h. /\ Has(pending) /\ \A w \in Workers : Has(seen[w])
      /\ \A j \in Jobs : payload[j] # Nil => payload[j].entries \in blocks' \cup Blockless
  BY <1>b DEF EntriesInv, QueuedInv, HasEntries, Stored
<1>e. Has(<<>>)
  <2>1. <<>> \in Seq({}) /\ DOMAIN <<>> = 1..Len(<<>>) /\ Len(<<>>) = 0
    BY EmptySeq, LenProperties
  <2> QED
    BY <2>1
<1>d. /\ \A j \in Jobs : payload'[j] # Nil => payload'[j].entries \in blocks' \cup Blockless
      /\ Has(pending') /\ \A w \in Workers : Has(seen'[w])
      => QueuedInv'
  BY DEF QueuedInv, HasEntries, Stored
<1> HIDE DEF Has
<1>1. ASSUME NEW j \in Jobs, payload'[j] # Nil
      PROVE  payload'[j].entries \in blocks' \cup Blockless
  <2>1. ASSUME NEW p \in Publishers, pc[p] = "readHead", payload'[j] = Gen!Ad(p)
        PROVE  payload'[j].entries \in blocks' \cup Blockless
    <3>1. Gen!Ad(p).entries = new[p].chunk /\ new[p].chunk # Nil
      BY <2>1, GeneratedIs, NilAssumption
    <3> QED
      BY <2>1, <3>1, <1>b DEF EntriesInv, GenP!EntriesInv
  <2> QED
    BY <1>1, <1>h, <2>1, AdvertMoves
<1>2. Has(pending')
  <2>1. ASSUME NEW w \in Workers, At(w, "append"),
               pending' = Append(seen[w], payload[work[w][n[w]]])
        PROVE  Has(pending')
    <3> DEFINE l == seen[w]
               ad == payload[work[w][n[w]]]
               m == Append(l, ad)
    <3>1. n[w] \in 1..Len(work[w])
      BY <2>1 DEF Types, Placed, At
    <3>2. work[w][n[w]] \in Jobs /\ payload[work[w][n[w]]] \in Advert
      BY <3>1, HandlerHas
    <3>3. l \in Seq(Advert) /\ ad \in Advert /\ Has(l) /\ ad.entries \in blocks' \cup Blockless
      BY <3>2, <1>h, HandlerHas, NoPayloadAssumption DEF Link
    <3> HIDE DEF l, ad
    <3>4. /\ Len(l) \in Nat /\ DOMAIN l = 1..Len(l) /\ DOMAIN m = 1..(Len(l) + 1)
          /\ \A k \in 1..Len(l) : m[k] = l[k]
          /\ m[Len(l) + 1] = ad
      BY <3>3, LenProperties, AppendProperties
    <3> HIDE DEF m
    <3>5. Has(m)
      BY <3>3, <3>4 DEF Has
    <3> QED
      BY <3>5, <2>1 DEF l, ad, m
  <2> QED
    BY <1>h, <1>e, <2>1, AdvertMoves
<1>3. \A w \in Workers : Has(seen'[w])
  <2>1. \A w \in Workers : seen'[w] \in {seen[w], pending, <<>>}
    BY AdvertMoves
  <2> QED
    BY <1>h, <1>e, <2>1
<1> QED
  BY <1>d, <1>1, <1>2, <1>3

LEMMA EntriesStep == Types /\ EntriesInv /\ [Next]_vars => EntriesInv'
BY GenEntriesStep, QueuedStep DEF EntriesInv

\* A step leaves what a commit builds on alone, or is the commit's own.
LEMMA WalkMoves ==
  ASSUME Types, [Next]_vars, NEW w \in Workers
  PROVE  \/ found'[w] = found[w] /\ seen'[w] = seen[w] /\ n'[w] = n[w] /\ hpc'[w] = hpc[w]
         \/ found'[w] \in {found[w], <<>>} /\ hpc'[w] \notin {"putAdvert", "replaceHead"}
         \/ ReadHead(w) \/ PutAd(w)
<1>t. /\ seen \in [Workers -> Link] /\ found \in [Workers -> Link]
      /\ hpc \in [Workers -> Steps] /\ n \in [Workers -> Nat]
  BY DEF Types, HandlerType
<1>1. ASSUME UNCHANGED handler
      PROVE  found'[w] = found[w] /\ seen'[w] = seen[w] /\ n'[w] = n[w] /\ hpc'[w] = hpc[w]
  BY <1>1 DEF handler
<1>2. ASSUME NEW p \in Publishers, Generate(p) \/ Enqueue(p) \/ EnqueueFails(p)
      PROVE  UNCHANGED handler
  BY <1>2 DEF Generate, Enqueue, EnqueueFails
<1>3. ASSUME Crash PROVE found'[w] = <<>> /\ hpc'[w] \notin {"putAdvert", "replaceHead"}
  BY <1>3 DEF Crash
<1>4. PollerStep \/ UNCHANGED vars => UNCHANGED handler
  BY DEF PollerStep, vars
<1>5. ASSUME NEW v \in Workers, Handle(v), v # w
      PROVE  found'[w] = found[w] /\ seen'[w] = seen[w] /\ n'[w] = n[w] /\ hpc'[w] = hpc[w]
  BY <1>5, <1>t
  DEF Handle, Load, AppendAd, AllAdded, Take, Clear, ReadHead, PutAd, CommitHead, CommitFails,
      Fails, UndoChunk, UndoMeta, Return, Goto
<1>6. ASSUME Handle(w), ~ReadHead(w), ~PutAd(w)
      PROVE  found'[w] \in {found[w], <<>>} /\ hpc'[w] \notin {"putAdvert", "replaceHead"}
  BY <1>6, <1>t
  DEF Handle, Load, AppendAd, AllAdded, Take, Clear, CommitHead, CommitFails,
      Fails, UndoChunk, UndoMeta, Return, Goto
<1> QED
  BY <1>1, <1>2, <1>3, <1>4, <1>5, <1>6 DEF Next

\* Reading the head starts a walk, and writing an advert carries it on.
LEMMA ReadHeadWalks ==
  ASSUME Types, HeadClosed, NEW w \in Workers, Walks(w), ReadHead(w)
  PROVE  Walks(w)'
<1>t. /\ seen \in [Workers -> Link] /\ found \in [Workers -> Link]
      /\ hpc \in [Workers -> Steps] /\ n \in [Workers -> Nat] /\ head \in Seq(Advert)
  BY DEF Types, HandlerType, StoreTypeOK, Link
<1>1. UNCHANGED <<adverts, blocks, seen>> /\ found'[w] = head
  BY <1>t DEF ReadHead, store
<1>2. CASE seen[w] = <<>>
  <2>1. hpc'[w] = "return"
    BY <1>2, <1>t DEF ReadHead, Goto
  <2> QED
    BY <1>1, <2>1 DEF Walks, HeadClosed
<1>3. CASE seen[w] # <<>>
  <2>1. hpc'[w] = "putAdvert" /\ n'[w] = 1
    BY <1>3, <1>t DEF ReadHead, Goto
  <2>2. found'[w] \o SubSeq(seen'[w], 1, n'[w] - 1) = head
    <3>1. SubSeq(seen[w], 1, 0) = <<>>
      BY SubSeqEmpty
    <3>2. n'[w] - 1 = 0
      BY <2>1
    <3>3. SubSeq(seen'[w], 1, n'[w] - 1) = <<>>
      BY <3>1, <3>2, <1>1
    <3> QED
      BY <1>1, <3>3, <1>t, ConcatEmptySeq
  <2> QED
    BY <1>1, <2>1, <2>2 DEF Walks, AdLink, HeadClosed
<1> QED
  BY <1>2, <1>3

LEMMA PutAdWalks ==
  ASSUME Types, EntriesInv, NEW w \in Workers, Walks(w), PutAd(w)
  PROVE  Walks(w)'
<1>t. /\ seen \in [Workers -> Link] /\ found \in [Workers -> Link]
      /\ hpc \in [Workers -> Steps] /\ n \in [Workers -> Nat]
  BY DEF Types, HandlerType
<1>1. /\ hpc[w] = "putAdvert" /\ UNCHANGED <<found, seen, blocks>>
      /\ adverts' = adverts \cup {AdLink(w, n[w])}
  BY DEF PutAd, PutAdvert, At
<1>2. n[w] \in 1..Len(seen[w]) /\ Len(seen[w]) \in Nat /\ DOMAIN seen[w] = 1..Len(seen[w])
  BY <1>1, HandlerHas DEF Types, Placed
<1>3. /\ seen[w][n[w]] \in Advert /\ AdLink(w, n[w] - 1) \in Link
      /\ AdLink(w, n[w]) = Append(AdLink(w, n[w] - 1), seen[w][n[w]])
  <2>1. n[w] - 1 \in 0..Len(seen[w])
    BY <1>2
  <2> QED
    BY <2>1, <1>2, HandlerHas, LinksOf
<1>4. seen[w][n[w]].entries \in blocks \cup Blockless
  BY <1>2 DEF EntriesInv, QueuedInv, HasEntries, Stored
<1>g. \A l : Walkable(l, adverts, blocks) => Walkable(l, adverts', blocks')
  BY <1>1, WalkableGrows
<1>5. Walkable(AdLink(w, n[w]), adverts', blocks')
  <2> DEFINE l == AdLink(w, n[w] - 1)
             ad == seen[w][n[w]]
  <2>1. /\ l \in Link /\ ad \in Advert /\ Walkable(l, adverts', blocks')
        /\ Append(l, ad) \in adverts' /\ ad.entries \in blocks' \cup Blockless
    BY <1>1, <1>3, <1>4, <1>g DEF Walks
  <2> HIDE DEF l, ad
  <2>2. Walkable(Append(l, ad), adverts', blocks')
    BY <2>1, WalkableAppend
  <2> QED
    BY <2>2, <1>3 DEF l, ad
<1>6. Walkable(found'[w], adverts', blocks')
  BY <1>1, <1>g DEF Walks
<1>7. CASE n[w] < Len(seen[w])
  <2>1. hpc'[w] = "putAdvert" /\ n'[w] = n[w] + 1
    BY <1>7, <1>t DEF PutAd, Goto
  <2>2. n'[w] - 1 = n[w]
    BY <2>1, <1>2
  <2>3. Walkable(found'[w] \o SubSeq(seen'[w], 1, n'[w] - 1), adverts', blocks')
    BY <2>2, <1>1, <1>5 DEF AdLink
  <2> QED
    BY <1>1, <1>6, <2>1, <2>3 DEF Walks, AdLink
<1>8. CASE ~(n[w] < Len(seen[w]))
  <2>1. hpc'[w] = "replaceHead" /\ n[w] = Len(seen[w])
    BY <1>8, <1>t, <1>2 DEF PutAd, Goto
  <2>2. Walkable(found'[w] \o SubSeq(seen'[w], 1, Len(seen'[w])), adverts', blocks')
    BY <2>1, <1>1, <1>5 DEF AdLink
  <2> QED
    BY <1>1, <1>6, <2>1, <2>2 DEF Walks, NewHead, AdLink
<1> QED
  BY <1>7, <1>8

LEMMA WalkStep == Types /\ EntriesInv /\ WalkInv /\ [Next]_vars => WalkInv'
<1> SUFFICES ASSUME Types, EntriesInv, WalkInv, [Next]_vars PROVE WalkInv'
  OBVIOUS
<1>i. HeadClosed /\ \A w \in Workers : Walks(w)
  BY DEF WalkInv
<1>b. adverts \subseteq adverts' /\ blocks \subseteq blocks'
  BY BlocksGrow
<1>g. \A l : Walkable(l, adverts, blocks) => Walkable(l, adverts', blocks')
  BY <1>b, WalkableGrows
<1>1. HeadClosed'
  <2>1. Walkable(head', adverts, blocks)
    BY <1>i, HeadStep DEF HeadClosed, Walks, At
  <2> QED
    BY <2>1, <1>g DEF HeadClosed
<1>2. ASSUME NEW w \in Workers PROVE Walks(w)'
  <2>1. CASE found'[w] = found[w] /\ seen'[w] = seen[w] /\ n'[w] = n[w] /\ hpc'[w] = hpc[w]
    <3>1. /\ Walkable(found'[w], adverts', blocks')
          /\ hpc'[w] = "putAdvert"
               => Walkable(found'[w] \o SubSeq(seen'[w], 1, n'[w] - 1), adverts', blocks')
          /\ hpc'[w] = "replaceHead"
               => Walkable(found'[w] \o SubSeq(seen'[w], 1, Len(seen'[w])), adverts', blocks')
      BY <2>1, <1>i, <1>g DEF Walks, AdLink, NewHead
    <3> QED
      BY <3>1 DEF Walks, AdLink, NewHead
  <2>2. CASE found'[w] \in {found[w], <<>>} /\ hpc'[w] \notin {"putAdvert", "replaceHead"}
    <3>1. Walkable(found'[w], adverts', blocks')
      BY <2>2, <1>i, <1>g, WalkableEmpty DEF Walks
    <3> QED
      BY <2>2, <3>1 DEF Walks
  <2> QED
    BY <2>1, <2>2, <1>i, ReadHeadWalks, PutAdWalks, WalkMoves
<1> QED
  BY <1>1, <1>2 DEF WalkInv

IInv == Types /\ EntriesInv /\ WalkInv

LEMMA IInvInit == Init => IInv
<1> SUFFICES ASSUME Init PROVE IInv
  OBVIOUS
<1>1. DOMAIN <<>> = {}
  <2>1. <<>> \in Seq({}) /\ DOMAIN <<>> = 1..Len(<<>>) /\ Len(<<>>) = 0
    BY EmptySeq, LenProperties
  <2> QED
    BY <2>1
<1>2. Gen!NoRecord.chunk = Nil
  BY DEF Gen!NoRecord
<1>3. EntriesInv
  BY <1>1, <1>2
  DEF Init, Gen!Init, Gen!StoreInit, HandlerInit, EntriesInv, GenP!EntriesInv, QueuedInv, HasEntries
<1>4. WalkInv
  BY WalkableEmpty DEF Init, Gen!Init, Gen!StoreInit, HandlerInit, WalkInv, HeadClosed, Walks
<1> QED
  BY <1>3, <1>4, TypeInit DEF IInv

\* However callers, workers and the poller interleave, fail and crash, an indexer
\* can fetch all that the head reaches: the entries of a queued advert outlive the
\* undo of its mappings.
THEOREM HeadIsClosed == Spec => []HeadClosed
<1>1. IInv /\ [Next]_vars => IInv'
  BY TypeStep, EntriesStep, WalkStep DEF IInv
<1>2. IInv => HeadClosed
  BY DEF IInv, WalkInv
<1> QED
  BY <1>1, <1>2, IInvInit, PTL DEF Spec

-----------------------------------------------------------------------------
(* The jobs that leave the queue *)

\* One worker handles the batches: with more, a commit takes adverts that another
\* worker's handler is adding, and JobsPublished fails.
OneWorker == \A v, w \in Workers : v = w

\* The advert of the k-th job of w's batch is in the list l.
InList(w, k, l) == \E i \in DOMAIN l : l[i] = payload[work[w][k]]

\* The adverts of a batch are pending, then what the commit took, to the end of it.
Collected(w) ==
  /\ hpc[w] \in {"load", "append"} => \A k \in 1..(n[w] - 1) : InList(w, k, pending)
  /\ hpc[w] = "append" => seen[w] = pending
  /\ hpc[w] = "take" => \A k \in DOMAIN work[w] : InList(w, k, pending)
  /\ hpc[w] \in {"clear", "readHead", "putAdvert", "replaceHead"} \cup Undoing =>
       \A k \in DOMAIN work[w] : InList(w, k, seen[w])
  /\ hpc[w] \in Undoing => err[w] # "ok"

Answered(j, r) ==
  /\ r = "ok" => OnChain(payload[j])
  /\ r = "timeout" => j \in expired

\* A commit returns no error, and a job is told it is done, once its advert is on
\* the chain.
Settles(w) ==
  /\ hpc[w] = "return" /\ err[w] = "ok" =>
       \A k \in DOMAIN work[w] : OnChain(payload[work[w][k]])
  /\ wpc[w] = "settle" => \A k \in DOMAIN work[w] : Answered(work[w][k], result[w][work[w][k]])

DeletedInv == \A j \in Jobs : status[j] = "deleted" => OnChain(payload[j]) \/ j \in expired

JobsInv == DeletedInv /\ \A w \in Workers : Collected(w) /\ Settles(w)

\* The chain only grows, and a queued job keeps its advert.
On(l, ad) == \E k \in DOMAIN l : l[k] = ad

LEMMA OnChainStays ==
  ASSUME Types, [Next]_vars
  PROVE  /\ \A ad : OnChain(ad) <=> On(head, ad)
         /\ \A ad : OnChain(ad)' <=> On(head', ad)
         /\ \A ad : On(head, ad) => On(head', ad)
<1> SUFFICES ASSUME NEW ad, On(head, ad) PROVE On(head', ad)
  BY DEF On, OnChain
<1>1. head \in Seq(Advert)
  BY DEF Types, StoreTypeOK, Link
<1>2. CASE UNCHANGED head
  BY <1>2
<1>3. ASSUME NEW w \in Workers, found[w] = head, head' = NewHead(w)
      PROVE  On(head', ad)
  <2> DEFINE l == seen[w]
  <2>1. head' = head \o l /\ l \in Seq(Advert)
    BY <1>3, LinksOf, HandlerHas DEF Link
  <2> HIDE DEF l
  <2>2. /\ Len(head) \in Nat /\ Len(l) \in Nat /\ DOMAIN head = 1..Len(head)
        /\ DOMAIN head' = 1..Len(head) + Len(l)
        /\ \A i \in 1..Len(head) : head'[i] = head[i]
    <3>1. /\ Len(head) \in Nat /\ Len(l) \in Nat /\ DOMAIN head = 1..Len(head)
          /\ head' \in Seq(Advert) /\ Len(head') = Len(head) + Len(l)
          /\ \A i \in 1..Len(head) + Len(l) :
               head'[i] = IF i <= Len(head) THEN head[i] ELSE l[i - Len(head)]
      BY <1>1, <2>1, ConcatProperties, LenProperties
    <3> QED
      BY <3>1, LenProperties
  <2> QED
    BY <2>2 DEF On
<1> QED
  BY <1>2, <1>3, HeadStep

\* What a commit writes is on the chain.
LEMMA CommittedOn ==
  ASSUME Types, NEW w \in Workers, NEW i \in 1..Len(seen[w]), found[w] = head, head' = NewHead(w)
  PROVE  On(head', seen[w][i])
<1> DEFINE l == seen[w]
<1>1. head' = head \o l /\ l \in Seq(Advert) /\ head \in Seq(Advert)
  BY LinksOf, HandlerHas DEF Link, Types, StoreTypeOK
<1>2. i \in 1..Len(l)
  OBVIOUS
<1> HIDE DEF l
<1>3. /\ Len(head) \in Nat /\ Len(l) \in Nat
      /\ head' \in Seq(Advert) /\ Len(head') = Len(head) + Len(l)
      /\ \A m \in 1..Len(head) + Len(l) :
           head'[m] = IF m <= Len(head) THEN head[m] ELSE l[m - Len(head)]
  BY <1>1, ConcatProperties, LenProperties
<1>4. Len(head) + i \in DOMAIN head' /\ head'[Len(head) + i] = l[i]
  <2>1. /\ Len(head) + i \in 1..Len(head) + Len(l) /\ ~(Len(head) + i <= Len(head))
        /\ (Len(head) + i) - Len(head) = i
    BY <1>2, <1>3
  <2>2. DOMAIN head' = 1..Len(head) + Len(l)
    BY <1>3, LenProperties
  <2> QED
    BY <2>1, <2>2, <1>3
<1> QED
  BY <1>4 DEF On, l

LEMMA PayloadStays ==
  ASSUME Types, [Next]_vars
  PROVE  \A j \in Jobs : status[j] # "none" => payload'[j] = payload[j]
BY AdvertMoves

\* What happens to a worker that does not step itself.
LEMMA RestMoves ==
  ASSUME Types, [Next]_vars, NEW w \in Workers, ~Handle(w), OneWorker
  PROVE  /\ expired' = expired
         /\ \/ /\ hpc'[w] = hpc[w] /\ n'[w] = n[w] /\ seen'[w] = seen[w] /\ err'[w] = err[w]
               /\ pending' = pending /\ found'[w] = found[w]
               /\ wpc'[w] = wpc[w] /\ work'[w] = work[w] /\ result'[w] = result[w]
            \/ /\ hpc'[w] = "load" /\ n'[w] = 1
               /\ wpc'[w] = "settle" => /\ wpc[w] = "settle" /\ work'[w] = Tail(work[w])
                                        /\ result'[w] = result[w]
<1>t. /\ wpc \in [Workers -> {"idle", "handle", "settle"}] /\ work \in [Workers -> Seq(Jobs)]
      /\ result \in [Workers -> [Jobs -> PollerP!Outcome]]
  BY DEF Types, PollerP!TypeOK
<1>1. ASSUME NEW p \in Publishers, Generate(p) \/ Enqueue(p) \/ EnqueueFails(p)
      PROVE  UNCHANGED <<handler, pending, wpc, work, result, expired>>
  BY <1>1 DEF Generate, Enqueue, EnqueueFails, QueueAd, Poller!Queue, poller
<1>2. UNCHANGED vars => UNCHANGED <<handler, pending, wpc, work, result, expired>>
  BY DEF vars, poller
<1>3. ASSUME Crash
      PROVE  hpc'[w] = "load" /\ n'[w] = 1 /\ wpc'[w] # "settle" /\ expired' = expired
  BY <1>3 DEF Crash, Poller!Crash
<1>4. ASSUME PollerStep
      PROVE  /\ UNCHANGED <<handler, pending, expired>>
             /\ \/ UNCHANGED <<wpc, work, result>>
                \/ \E v \in Workers : Poller!Receive(v)
                \/ \E v \in Workers : wpc[v] = "settle" /\ Poller!NextJob(v)
  BY <1>4
  DEF PollerStep, Poller!Start, Poller!Read, Poller!ReadFails, Poller!HandOverBatch,
      Poller!TimeOutVisibility, Poller!ReleaseJob, Poller!DeleteJob
<1>5. ASSUME UNCHANGED handler, wpc[w] # "handle" PROVE hpc'[w] = "load" /\ n'[w] = 1
  BY <1>5 DEF handler, Types, Placed
<1>6. ASSUME Poller!Receive(w) PROVE wpc[w] # "handle" /\ wpc'[w] # "settle"
  BY <1>6, <1>t DEF Poller!Receive
<1>7. ASSUME wpc[w] = "settle", Poller!NextJob(w)
      PROVE  /\ wpc[w] # "handle" /\ work'[w] = Tail(work[w])
             /\ wpc'[w] = "settle" => result'[w] = result[w]
  BY <1>7, <1>t DEF Poller!NextJob
<1>8. \A v \in Workers : v = w
  BY DEF OneWorker
<1>9. ASSUME UNCHANGED <<handler, pending, wpc, work, result, expired>>
      PROVE  /\ hpc'[w] = hpc[w] /\ n'[w] = n[w] /\ seen'[w] = seen[w] /\ err'[w] = err[w]
             /\ pending' = pending /\ found'[w] = found[w] /\ expired' = expired
             /\ wpc'[w] = wpc[w] /\ work'[w] = work[w] /\ result'[w] = result[w]
  BY <1>9 DEF handler
<1>10. \/ \E p \in Publishers : Generate(p) \/ Enqueue(p) \/ EnqueueFails(p)
       \/ PollerStep \/ Crash \/ UNCHANGED vars
  BY <1>8 DEF Next
<1>11. ASSUME PollerStep
       PROVE  /\ UNCHANGED <<handler, pending, expired>>
              /\ \/ UNCHANGED <<wpc, work, result>>
                 \/ Poller!Receive(w)
                 \/ wpc[w] = "settle" /\ Poller!NextJob(w)
  BY <1>4, <1>8, <1>11
<1>12. CASE PollerStep
  <2>1. CASE UNCHANGED <<wpc, work, result>>
    BY <1>9, <1>11, <1>12, <2>1
  <2>2. CASE Poller!Receive(w)
    BY <1>5, <1>6, <1>11, <1>12, <2>2
  <2>3. CASE wpc[w] = "settle" /\ Poller!NextJob(w)
    BY <1>5, <1>7, <1>11, <1>12, <2>3
  <2> QED
    BY <1>11, <1>12, <2>1, <2>2, <2>3
<1> QED
  BY <1>1, <1>2, <1>3, <1>9, <1>10, <1>12

LEMMA CollectedStep ==
  ASSUME Types, [Next]_vars, OneWorker, NEW w \in Workers, Collected(w)
  PROVE  Collected(w)'
<1>t. /\ seen \in [Workers -> Link] /\ found \in [Workers -> Link] /\ pending \in Seq(Advert)
      /\ hpc \in [Workers -> Steps] /\ n \in [Workers -> Nat]
      /\ err \in [Workers -> Poller!Outcome]
      /\ Len(work[w]) \in Nat /\ DOMAIN work[w] = 1..Len(work[w])
      /\ seen[w] \in Seq(Advert)
  BY HandlerHas DEF Types, HandlerType, Link
\* The batch of a worker that handles one stays, with the adverts of its jobs.
<1>w. ASSUME work'[w] = work[w], NEW l, NEW k \in DOMAIN work[w], InList(w, k, l)
      PROVE  \E i \in DOMAIN l : l[i] = payload'[work'[w][k]]
  <2>1. work[w][k] \in Jobs /\ status[work[w][k]] # "none"
    BY <1>t, HandlerHas
  <2>2. payload'[work'[w][k]] = payload[work[w][k]]
    BY <1>w, <2>1, PayloadStays
  <2> QED
    BY <1>w, <2>2 DEF InList
<1>1. CASE ~Handle(w)
  <2>1. CASE hpc'[w] = "load" /\ n'[w] = 1
    BY <2>1 DEF Collected, Undoing
  <2>2. CASE /\ hpc'[w] = hpc[w] /\ n'[w] = n[w] /\ seen'[w] = seen[w] /\ err'[w] = err[w]
             /\ pending' = pending /\ work'[w] = work[w]
    <3>1. /\ hpc[w] = "load" => n[w] \in 1..(Len(work[w]) + 1)
          /\ hpc[w] = "append" => n[w] \in 1..Len(work[w])
      BY DEF Types, Placed
    <3>2. ASSUME hpc[w] \in {"load", "append"} PROVE \A k \in 1..(n[w] - 1) : k \in DOMAIN work[w]
      BY <3>1, <3>2, <1>t
    <3> QED
      BY <2>2, <3>2, <1>w DEF Collected, InList
  <2> QED
    BY <1>1, <2>1, <2>2, RestMoves
<1>2. CASE Load(w)
  <2>1. /\ hpc[w] = "load" /\ hpc'[w] = "append" /\ n'[w] = n[w] /\ seen'[w] = pending
        /\ UNCHANGED <<pending, payload, work>>
    BY <1>2, <1>t DEF Load, At, Goto, unhandled, poller
  <2> QED
    BY <2>1 DEF Collected, InList, Undoing
<1>3. CASE AppendAd(w)
  <2>1. /\ hpc[w] = "append" /\ hpc'[w] = "load" /\ n'[w] = n[w] + 1 /\ UNCHANGED <<payload, work>>
        /\ pending' = Append(pending, payload[work[w][n[w]]]) /\ n[w] \in 1..Len(work[w])
    BY <1>3, <1>t DEF AppendAd, At, Goto, Collected, unhandled, poller, Types, Placed
  <2> DEFINE ad == payload[work[w][n[w]]]
  <2>2. ad \in Advert
    BY <2>1, HandlerHas
  <2>3. /\ Len(pending) \in Nat /\ DOMAIN pending = 1..Len(pending)
        /\ DOMAIN pending' = 1..(Len(pending) + 1)
        /\ \A i \in 1..Len(pending) : pending'[i] = pending[i]
        /\ pending'[Len(pending) + 1] = ad
    BY <1>t, <2>1, <2>2, LenProperties, AppendProperties
  <2>4. ASSUME NEW k \in 1..(n'[w] - 1) PROVE InList(w, k, pending)'
    <3>1. CASE k = n[w]
      <4>1. Len(pending) + 1 \in DOMAIN pending' /\ pending'[Len(pending) + 1] = payload'[work'[w][k]]
        BY <2>1, <2>3, <3>1
      <4> QED
        BY <4>1 DEF InList
    <3>2. CASE k # n[w]
      <4>1. k \in 1..(n[w] - 1)
        BY <2>1, <2>4, <3>2, <1>t
      <4>2. PICK i \in DOMAIN pending : pending[i] = payload[work[w][k]]
        BY <2>1, <4>1 DEF Collected, InList
      <4>3. i \in DOMAIN pending' /\ pending'[i] = payload'[work'[w][k]]
        BY <2>1, <2>3, <4>2
      <4> QED
        BY <4>3 DEF InList
    <3> QED
      BY <3>1, <3>2
  <2> QED
    BY <2>1, <2>4 DEF Collected, Undoing
<1>4. CASE AllAdded(w)
  <2>1. /\ hpc[w] = "load" /\ hpc'[w] = "take" /\ UNCHANGED <<payload, work, pending>>
        /\ n[w] > Len(work[w])
    BY <1>4, <1>t DEF AllAdded, At, Goto, unhandled, poller
  <2>2. DOMAIN work[w] = 1..(n[w] - 1)
    BY <1>t, <2>1 DEF Types, Placed
  <2> QED
    BY <2>1, <2>2 DEF Collected, InList, Undoing
<1>5. CASE Take(w)
  <2>1. /\ hpc[w] = "take" /\ hpc'[w] = "clear" /\ UNCHANGED <<payload, work, pending>>
        /\ seen'[w] = pending
    BY <1>5, <1>t DEF Take, At, Goto, unhandled, poller
  <2> QED
    BY <2>1 DEF Collected, InList, Undoing
<1>6. CASE Clear(w) \/ ReadHead(w) \/ PutAd(w) \/ CommitHead(w)
  <2>1. /\ hpc[w] \in {"clear", "readHead", "putAdvert", "replaceHead"}
        /\ hpc'[w] \in {"readHead", "putAdvert", "replaceHead", "return"}
        /\ UNCHANGED <<payload, work, seen>>
    BY <1>6, <1>t DEF Clear, ReadHead, PutAd, CommitHead, At, Goto, unhandled, poller
  <2> QED
    BY <2>1 DEF Collected, InList, Undoing
<1>7. CASE CommitFails(w)
  <2>1. PICK e \in {"error", "timeout"} : Fails(w, e)
    BY <1>7 DEF CommitFails
  <2>2. /\ hpc[w] \in {"readHead", "putAdvert", "replaceHead"}
        /\ hpc'[w] \in {"return", "undoChunk"} /\ err'[w] # "ok"
        /\ UNCHANGED <<payload, work, seen>>
    BY <1>7, <1>t, <2>1 DEF CommitFails, Fails, At, Goto, unhandled, poller
  <2> QED
    BY <2>2 DEF Collected, InList, Undoing
<1>8. CASE UndoChunk(w) \/ UndoMeta(w)
  <2>1. /\ hpc[w] \in Undoing /\ hpc'[w] \in Undoing \cup {"return"}
        /\ err'[w] \in {err[w], "timeout"} /\ UNCHANGED <<payload, work, seen>>
    BY <1>8, <1>t DEF UndoChunk, UndoMeta, UndoFails, At, Goto, unhandled, poller, Undoing
  <2> QED
    BY <2>1 DEF Collected, InList, Undoing
<1>9. CASE Return(w)
  <2>1. hpc'[w] = "load" /\ n'[w] = 1
    BY <1>9, <1>t DEF Return, Goto
  <2> QED
    BY <2>1 DEF Collected, Undoing
<1> QED
  BY <1>1, <1>2, <1>3, <1>4, <1>5, <1>6, <1>7, <1>8, <1>9 DEF Handle

LEMMA SettlesStep ==
  ASSUME Types, [Next]_vars, OneWorker, NEW w \in Workers, Collected(w), Settles(w)
  PROVE  Settles(w)'
<1>t. /\ seen \in [Workers -> Link] /\ found \in [Workers -> Link]
      /\ hpc \in [Workers -> Steps] /\ n \in [Workers -> Nat]
      /\ err \in [Workers -> Poller!Outcome]
      /\ wpc \in [Workers -> {"idle", "handle", "settle"}] /\ work \in [Workers -> Seq(Jobs)]
      /\ result \in [Workers -> [Jobs -> Poller!Outcome]]
  BY OutcomeIs DEF Types, HandlerType, PollerP!TypeOK
<1>d. work[w] \in Seq(Jobs) /\ Len(work[w]) \in Nat /\ DOMAIN work[w] = 1..Len(work[w])
  BY HandlerHas
<1>j. \A k \in DOMAIN work[w] : /\ work[w][k] \in Jobs
                                /\ payload'[work[w][k]] = payload[work[w][k]]
  BY <1>d, HandlerHas, PayloadStays
<1>o. /\ \A ad : OnChain(ad) => On(head', ad)
      /\ \A ad : OnChain(ad)' <=> On(head', ad)
  BY OnChainStays
<1>1. CASE ~Handle(w)
  <2>1. CASE /\ hpc'[w] = hpc[w] /\ err'[w] = err[w] /\ expired' = expired
             /\ wpc'[w] = wpc[w] /\ work'[w] = work[w] /\ result'[w] = result[w]
    <3>1. hpc[w] = "return" /\ err[w] = "ok" =>
            \A k \in DOMAIN work[w] : On(head', payload'[work[w][k]])
      BY <1>j, <1>o DEF Settles
    <3>2. wpc[w] = "settle" =>
            \A k \in DOMAIN work[w] :
              /\ result[w][work[w][k]] = "ok" => On(head', payload'[work[w][k]])
              /\ result[w][work[w][k]] = "timeout" => work[w][k] \in expired'
      BY <1>j, <1>o, <2>1 DEF Settles, Answered
    <3> QED
      BY <2>1, <3>1, <3>2 DEF Settles, Answered, OnChain, On
  <2>2. CASE /\ hpc'[w] = "load" /\ wpc'[w] # "settle"
    BY <2>2 DEF Settles
  <2>3. CASE /\ hpc'[w] = "load" /\ expired' = expired
             /\ wpc[w] = "settle" /\ work'[w] = Tail(work[w]) /\ result'[w] = result[w]
    <3>1. work[w] # <<>>
      BY <2>3 DEF Types, PollerP!TypeOK
    <3>2. /\ work'[w] \in Seq(Jobs) /\ Len(work'[w]) = Len(work[w]) - 1
          /\ \A k \in 1..Len(work'[w]) : work'[w][k] = work[w][k + 1]
      BY <1>d, <2>3, <3>1, HeadTailProperties
    <3>3. ASSUME NEW k \in DOMAIN work'[w]
          PROVE  /\ work'[w][k] = work[w][k + 1] /\ k + 1 \in DOMAIN work[w]
                 /\ payload'[work[w][k + 1]] = payload[work[w][k + 1]]
      <4>1. k \in 1..Len(work'[w]) /\ k + 1 \in DOMAIN work[w]
        BY <1>d, <3>2, LenProperties
      <4> QED
        BY <3>2, <4>1, <1>j
    <3>4. ASSUME NEW k \in DOMAIN work'[w]
          PROVE  /\ result'[w][work'[w][k]] = "ok" => On(head', payload'[work'[w][k]])
                 /\ result'[w][work'[w][k]] = "timeout" => work'[w][k] \in expired'
      <4>1. Answered(work[w][k + 1], result[w][work[w][k + 1]])
        BY <2>3, <3>3, <3>4 DEF Settles
      <4> QED
        BY <2>3, <3>3, <3>4, <4>1, <1>o DEF Answered
    <3> QED
      BY <2>3, <3>4 DEF Settles, Answered, OnChain, On
  <2> QED
    BY <1>1, <2>1, <2>2, <2>3, RestMoves
<1>s. ASSUME wpc[w] = "handle", UNCHANGED wpc, hpc'[w] # "return" \/ err'[w] # "ok"
      PROVE  Settles(w)'
  BY <1>s DEF Settles
<1>2. CASE \/ Load(w) \/ AppendAd(w) \/ AllAdded(w) \/ Take(w) \/ Clear(w) \/ PutAd(w)
  BY <1>2, <1>s, <1>t
  DEF Load, AppendAd, AllAdded, Take, Clear, PutAd, Goto, At, unhandled, poller
<1>3. CASE UndoChunk(w) \/ UndoMeta(w)
  <2>1. wpc[w] = "handle" /\ UNCHANGED wpc /\ hpc[w] \in Undoing
    BY <1>3 DEF UndoChunk, UndoMeta, At, Undoing, unhandled, poller
  <2>2. err'[w] \in {err[w], "timeout"}
    BY <1>3, <1>t DEF UndoChunk, UndoMeta, UndoFails
  <2> QED
    BY <1>s, <2>1, <2>2 DEF Collected
<1>4. CASE CommitFails(w)
  <2>1. PICK e \in {"error", "timeout"} : Fails(w, e)
    BY <1>4 DEF CommitFails
  <2>2. wpc[w] = "handle" /\ UNCHANGED wpc /\ err'[w] # "ok"
    BY <1>4, <2>1, <1>t DEF CommitFails, Fails, At, unhandled, poller
  <2> QED
    BY <1>s, <2>2
\* An empty batch, which is all that a commit of nothing can be for.
<1>5. CASE ReadHead(w)
  <2>1. /\ hpc[w] = "readHead" /\ wpc[w] = "handle" /\ UNCHANGED <<wpc, work, payload>>
    BY <1>5 DEF ReadHead, At, unhandled, poller
  <2>2. CASE seen[w] = <<>>
    <3>1. DOMAIN <<>> = {}
      <4>1. <<>> \in Seq({}) /\ DOMAIN <<>> = 1..Len(<<>>) /\ Len(<<>>) = 0
        BY EmptySeq, LenProperties
      <4> QED
        BY <4>1
    <3>2. \A k \in DOMAIN work[w] : FALSE
      BY <2>1, <2>2, <3>1 DEF Collected, InList
    <3> QED
      BY <2>1, <3>2 DEF Settles
  <2>3. CASE seen[w] # <<>>
    <3>1. hpc'[w] = "putAdvert"
      BY <1>5, <2>3, <1>t DEF ReadHead, Goto
    <3> QED
      BY <2>1, <3>1, <1>s
  <2> QED
    BY <2>2, <2>3
<1>6. CASE CommitHead(w)
  <2>1. /\ hpc[w] = "replaceHead" /\ wpc[w] = "handle" /\ UNCHANGED <<wpc, work, payload>>
        /\ found[w] = head /\ head' = NewHead(w)
    BY <1>6 DEF CommitHead, ReplaceHead, At, unhandled, poller
  <2>2. ASSUME NEW k \in DOMAIN work[w] PROVE On(head', payload[work[w][k]])
    <3>1. PICK i \in DOMAIN seen[w] : seen[w][i] = payload[work[w][k]]
      BY <2>1, <2>2 DEF Collected, InList
    <3>2. i \in 1..Len(seen[w])
      BY HandlerHas
    <3>3. On(head', seen[w][i])
      BY <2>1, <3>2, CommittedOn
    <3> QED
      BY <3>1, <3>3
  <2> QED
    BY <2>1, <2>2 DEF Settles, OnChain, On
<1>7. CASE Return(w)
  <2>1. /\ hpc[w] = "return" /\ hpc'[w] = "load" /\ UNCHANGED <<work, payload, head>>
        /\ result' = [result EXCEPT
             ![w] = [j \in Jobs |-> IF j \in Range(work[w]) THEN err[w] ELSE "ok"]]
        /\ expired' = IF err[w] = "timeout" THEN expired \cup Range(work[w]) ELSE expired
    BY <1>7, <1>t DEF Return, At, Goto, Poller!Return, store
  <2>2. \A k \in DOMAIN work[w] : work[w][k] \in Range(work[w])
    BY DEF Range
  <2>3. ASSUME NEW k \in DOMAIN work[w] PROVE result'[w][work[w][k]] = err[w]
    BY <2>1, <2>2, <2>3, <1>j, <1>t
  <2>4. ASSUME NEW k \in DOMAIN work[w]
        PROVE  /\ err[w] = "ok" => On(head', payload'[work[w][k]])
               /\ err[w] = "timeout" => work[w][k] \in expired'
    <3>1. err[w] = "timeout" => work[w][k] \in expired'
      BY <2>1, <2>2
    <3>2. err[w] = "ok" => OnChain(payload[work[w][k]])
      BY <2>1, <2>4 DEF Settles
    <3> QED
      BY <2>1, <3>1, <3>2 DEF OnChain, On
  <2> QED
    BY <2>1, <2>3, <2>4 DEF Settles, Answered, OnChain, On
<1> QED
  BY <1>1, <1>2, <1>3, <1>4, <1>5, <1>6, <1>7 DEF Handle

\* A job that leaves the queue is the next that a worker settles, without an error
\* other than a timeout.
LEMMA DeletesWhat ==
  ASSUME Types, [Next]_vars, NEW j \in Jobs, status[j] # "deleted", status'[j] = "deleted"
  PROVE  \E w \in Workers : /\ wpc[w] = "settle" /\ result[w][j] \in {"ok", "timeout"}
                            /\ 1 \in DOMAIN work[w] /\ work[w][1] = j
<1>t. /\ status \in [Jobs -> {"none", "visible", "invisible", "deleted"}]
      /\ result \in [Workers -> [Jobs -> Poller!Outcome]] /\ work \in [Workers -> Seq(Jobs)]
      /\ \A w \in Workers : wpc[w] = "settle" => work[w] # <<>>
  BY OutcomeIs DEF Types, PollerP!TypeOK
<1>1. PollerP!Next
  <2>1. [PollerP!Next]_(PollerP!vars)
    BY PollerNext DEF Types, HandlerType
  <2> QED
    BY <2>1 DEF PollerP!vars
<1>2. ASSUME NEW w \in Workers, PollerP!ReleaseJob(w) PROVE FALSE
  BY <1>t, <1>2 DEF PollerP!ReleaseJob
<1>3. ASSUME NEW i \in Jobs, PollerP!Queue(i) \/ PollerP!TimeOutVisibility(i) PROVE FALSE
  BY <1>t, <1>3 DEF PollerP!Queue, PollerP!TimeOutVisibility
<1>4. ASSUME PollerP!Poll PROVE FALSE
  BY <1>t, <1>4
  DEF PollerP!Poll, PollerP!LoopEnds, PollerP!Read, PollerP!ReadFails, PollerP!HandOverBatch,
      PollerP!HandOverJob, PollerP!AllHandedOver, PollerP!HandOverFails
<1>5. ASSUME \/ PollerP!Start \/ PollerP!Stop \/ PollerP!StopReturns \/ PollerP!Crash
             \/ \E w \in Workers : PollerP!Receive(w) \/ PollerP!Handle(w)
      PROVE  FALSE
  BY <1>5
  DEF PollerP!Start, PollerP!Stop, PollerP!StopReturns, PollerP!Crash, PollerP!Receive,
      PollerP!Handle, PollerP!Return
<1>6. PICK w \in Workers : PollerP!DeleteJob(w)
  BY <1>1, <1>2, <1>3, <1>4, <1>5 DEF PollerP!Next, PollerP!Work
<1>7. wpc[w] = "settle" /\ j = Head(work[w]) /\ result[w][j] # "error"
  BY <1>t, <1>6 DEF PollerP!DeleteJob
<1>8. 1 \in DOMAIN work[w] /\ j = work[w][1]
  <2>1. work[w] \in Seq(Jobs) /\ work[w] # <<>>
    BY <1>7, <1>t
  <2> QED
    BY <1>7, <2>1, HeadTailProperties, LenProperties, EmptySeq
<1> QED
  BY <1>t, <1>7, <1>8, OutcomeIs

LEMMA DeletedStep == Types /\ JobsInv /\ [Next]_vars => DeletedInv'
<1> SUFFICES ASSUME Types, JobsInv, [Next]_vars, NEW j \in Jobs, status'[j] = "deleted"
             PROVE  OnChain(payload[j])' \/ j \in expired'
  BY DEF DeletedInv
<1>1. expired \subseteq expired'
  <2>1. \A w \in Workers : Handle(w) => expired \subseteq expired'
    BY DEF Handle, Load, AppendAd, AllAdded, Take, Clear, ReadHead, PutAd, CommitHead,
           CommitFails, Fails, UndoChunk, UndoMeta, Return, unhandled
  <2> QED
    BY <2>1 DEF Next, Generate, Enqueue, EnqueueFails, PollerStep, Crash, vars
<1>2. status[j] # "none" /\ (OnChain(payload[j]) \/ j \in expired)
  <2>1. CASE status[j] = "deleted"
    BY <2>1 DEF JobsInv, DeletedInv
  <2>2. CASE status[j] # "deleted"
    <3>1. PICK w \in Workers : /\ wpc[w] = "settle" /\ result[w][j] \in {"ok", "timeout"}
                               /\ 1 \in DOMAIN work[w] /\ work[w][1] = j
      BY <2>2, DeletesWhat
    <3>2. Answered(j, result[w][j]) /\ status[j] # "none"
      BY <3>1, HandlerHas DEF JobsInv, Settles
    <3> QED
      BY <3>1, <3>2 DEF Answered
  <2> QED
    BY <2>1, <2>2
<1>3. payload'[j] = payload[j]
  BY <1>2, PayloadStays
<1> QED
  BY <1>1, <1>2, <1>3, OnChainStays DEF OnChain, On

LEMMA JobsInit == Init => JobsInv
<1> SUFFICES ASSUME Init PROVE JobsInv
  OBVIOUS
<1>1. \A w \in Workers : Collected(w) /\ Settles(w)
  BY DEF Init, HandlerInit, Poller!Init, Poller!ProcessInit, Collected, Settles, Undoing
<1> QED
  BY <1>1 DEF Init, Poller!Init, JobsInv, DeletedInv

LEMMA JobsStep == ASSUME OneWorker PROVE Types /\ JobsInv /\ [Next]_vars => JobsInv'
<1> SUFFICES ASSUME Types, JobsInv, [Next]_vars PROVE JobsInv'
  OBVIOUS
<1>1. DeletedInv'
  BY DeletedStep
<1>2. ASSUME NEW w \in Workers PROVE Collected(w)' /\ Settles(w)'
  BY CollectedStep, SettlesStep DEF JobsInv
<1> QED
  BY <1>1, <1>2 DEF JobsInv

\* With one worker, a job leaves the queue only with its advert on the chain, or
\* with a timeout: however jobs are released, read again and committed again, calls
\* of the store and the queue fail, replies are lost and the process stops.
THEOREM JobsGetPublished == ASSUME OneWorker PROVE Spec => []JobsPublished
<1>1. Types /\ JobsInv /\ [Next]_vars => JobsInv'
  BY JobsStep
<1>2. JobsInv => JobsPublished
  BY DEF JobsInv, DeletedInv, JobsPublished
<1> QED
  BY <1>1, <1>2, JobsInit, Typed, PTL DEF Spec

-----------------------------------------------------------------------------
(* The adverts that the mappings speak of *)

\* The job j of w's batch is not to be tried again: it is being deleted, or its
\* commit did not fail or timed out, or is being undone.
Dooms(w, j) ==
  /\ \E k \in DOMAIN work[w] : work[w][k] = j
  /\ \/ wpc[w] = "settle" /\ result[w][j] # "error"
     \/ hpc[w] \in Undoing
     \/ hpc[w] = "return" /\ err[w] # "error"

\* w is still to undo an advert of the context c.
IsToUndo(w, c) == hpc[w] \in Undoing /\ \E k \in 1..n[w] : seen[w][k].ctx = c

\* The job j is queued with the advert, to stay until the advert is published or
\* its mappings are gone.
Backs(j, ad) ==
  /\ status[j] \notin {"none", "deleted"} /\ payload[j] = ad
  /\ \A w \in Workers : Dooms(w, j) => IsToUndo(w, ad.ctx)

Mapped(c) == [ctx |-> c, entries |-> chunkLink[c], md |-> metadata[c]]

\* What the mappings of c say is on the chain or will be.
Truthful(c) ==
  c \notin torn /\ chunkLink[c] # Nil /\ metadata[c] # Nil
    => OnChain(Mapped(c)) \/ \E j \in Jobs : Backs(j, Mapped(c))

Reading == {"idle", "readChunk", "readMeta"}

\* No call is writing the mappings of c.
Quiet(c) == \A p \in Publishers : pc[p] \notin Reading => Gen!Ctx(p) # c

\* A call finds the mappings it writes as it read and wrote them, or undone.
Writes(p) ==
  LET c == Gen!Ctx(p)
  IN  /\ pc[p] \in Reading \cup {"putEntries", "putChunk", "putMeta", "readHead"}
      /\ pc[p] # "idle" => c \in Owns[p]
      /\ pc[p] = "readMeta" => chunkLink[c] \in {Nil, old[p].chunk}
      /\ pc[p] \in {"putEntries", "putChunk"} => chunkLink[c] = Nil
      /\ pc[p] \in {"putMeta", "readHead"} => chunkLink[c] \in {Nil, new[p].chunk}
      /\ pc[p] = "readHead" => metadata[c] \in {Nil, new[p].md}

MapsInv ==
  /\ \A p \in Publishers : Writes(p)
  /\ \A c \in Contexts : Quiet(c) => Truthful(c)

\* A context has one publisher.
Private == \A p, q \in Publishers : p # q => Owns[p] \cap Owns[q] = {}

\* A call that generates, where no call fails.
LEMMA GenerateMaps ==
  ASSUME Types, ~CallsFail, NEW p \in Publishers, Writes(p), Generate(p)
  PROVE  /\ Writes(p)'
         /\ UNCHANGED torn
         /\ \A q \in Publishers \ {p} : /\ pc'[q] = pc[q] /\ call'[q] = call[q]
                                        /\ old'[q] = old[q] /\ new'[q] = new[q]
         /\ pc'[p] # "idle" /\ pc[p] # "idle" => Gen!Ctx(p)' = Gen!Ctx(p)
         /\ pc'[p] \in Reading => pc[p] \in Reading
         /\ \/ UNCHANGED <<chunkLink, metadata>>
            \/ /\ pc[p] # "idle" /\ pc'[p] \notin Reading
               /\ \A c \in Contexts \ {Gen!Ctx(p)} :
                    chunkLink'[c] = chunkLink[c] /\ metadata'[c] = metadata[c]
<1>t. /\ chunkLink \in [Contexts -> Digests \cup {Nil}]
      /\ metadata \in [Contexts -> Metadatas \cup {Nil}]
      /\ pc \in [Publishers -> GenP!Labels]
      /\ DOMAIN call = Publishers
      /\ old \in [Publishers -> ContextRecord] /\ new \in [Publishers -> ContextRecord]
      /\ pc[p] # "idle" => Gen!Ctx(p) \in Contexts
  BY DEF Types, StoreTypeOK, GenLocals, Gen!Ctx, GenP!Request
<1>r. Gen!NoRecord = NoRecord
  BY DEF Gen!NoRecord, NoRecord
<1>1. CASE Gen!Call(p)
  <2>1. /\ pc[p] = "idle" /\ pc'[p] = "readChunk" /\ call'[p].ctx \in Owns[p]
        /\ \A q \in Publishers \ {p} : pc'[q] = pc[q] /\ call'[q] = call[q]
        /\ UNCHANGED <<chunkLink, metadata, old, new, torn>>
    BY <1>1, <1>t DEF Gen!Call, Gen!Goto, Gen!store
  <2> QED
    BY <2>1 DEF Writes, Gen!Ctx, Reading
<1>2. CASE Gen!ReadChunk(p)
  <2>1. /\ pc[p] = "readChunk" /\ pc'[p] = "readMeta" /\ old'[p].chunk = chunkLink[Gen!Ctx(p)]
        /\ \A q \in Publishers \ {p} : pc'[q] = pc[q] /\ old'[q] = old[q]
        /\ UNCHANGED <<chunkLink, metadata, call, new, torn>>
    BY <1>2, <1>t DEF Gen!ReadChunk, Gen!Goto, Gen!store, ContextRecord
  <2> QED
    BY <2>1 DEF Writes, Gen!Ctx, Reading
<1>3. CASE Gen!ReadMeta(p) /\ Gen!AlreadyAdvertised(p)
  <2>1. /\ pc[p] = "readMeta" /\ pc'[p] = "idle" /\ UNCHANGED <<chunkLink, metadata, torn>>
        /\ \A q \in Publishers \ {p} : /\ pc'[q] = pc[q] /\ call'[q] = call[q]
                                       /\ old'[q] = old[q] /\ new'[q] = new[q]
    BY <1>3, <1>t DEF Gen!ReadMeta, Gen!Return, Gen!Goto, Gen!store
  <2> QED
    BY <2>1 DEF Writes, Reading
<1>4. CASE Gen!ReadMeta(p) /\ ~Gen!AlreadyAdvertised(p)
  <2>1. /\ pc[p] = "readMeta" /\ pc'[p] = IF old[p].chunk = Nil THEN "putEntries" ELSE "putMeta"
        /\ new'[p].chunk = old[p].chunk
        /\ \A q \in Publishers \ {p} : pc'[q] = pc[q] /\ old'[q] = old[q] /\ new'[q] = new[q]
        /\ UNCHANGED <<chunkLink, metadata, call, torn>>
    BY <1>4, <1>t DEF Gen!ReadMeta, Gen!LacksEntries, Gen!Goto, Gen!store
  <2> QED
    BY <2>1 DEF Writes, Gen!Ctx, Reading
<1>5. CASE Gen!PutEntriesOf(p)
  <2>1. /\ pc[p] = "putEntries" /\ pc'[p] = "putChunk"
        /\ \A q \in Publishers \ {p} : pc'[q] = pc[q] /\ new'[q] = new[q]
        /\ UNCHANGED <<chunkLink, metadata, call, old, torn>>
    BY <1>5, <1>t DEF Gen!PutEntriesOf, Gen!PutEntries, Gen!Goto
  <2> QED
    BY <2>1 DEF Writes, Gen!Ctx, Reading
<1>6. CASE Gen!PutChunk(p)
  <2>1. /\ pc[p] = "putChunk" /\ pc'[p] = "putMeta"
        /\ chunkLink' = [chunkLink EXCEPT ![Gen!Ctx(p)] = new[p].chunk]
        /\ \A q \in Publishers \ {p} : pc'[q] = pc[q]
        /\ UNCHANGED <<metadata, call, old, new, torn>>
    BY <1>6, <1>t DEF Gen!PutChunk, Gen!PutChunkLink, Gen!Goto
  <2> QED
    BY <1>t, <2>1 DEF Writes, Gen!Ctx, Reading
<1>7. CASE Gen!PutMeta(p)
  <2>1. /\ pc[p] = "putMeta" /\ pc'[p] = "readHead"
        /\ metadata' = [metadata EXCEPT ![Gen!Ctx(p)] = new[p].md]
        /\ \A q \in Publishers \ {p} : pc'[q] = pc[q]
        /\ UNCHANGED <<chunkLink, call, old, new, torn>>
    BY <1>7, <1>t DEF Gen!PutMeta, Gen!PutMetadata, Gen!Goto
  <2> QED
    BY <1>t, <2>1 DEF Writes, Gen!Ctx, Reading
\* The other steps are those of a call that fails.
<1>8. ASSUME \/ Gen!ReadMappingsFails(p) \/ Gen!GenerateFails(p)
             \/ Gen!UndoChunk(p) \/ Gen!UndoMeta(p)
      PROVE  FALSE
  BY <1>8
  DEF Gen!ReadMappingsFails, Gen!ReadFails, Gen!GenerateFails, Gen!WriteFails, Gen!UndoChunk,
      Gen!UndoMeta, Writes, Reading
<1> QED
  BY <1>1, <1>2, <1>3, <1>4, <1>5, <1>6, <1>7, <1>8 DEF Generate

\* What the other steps do to the mappings: nothing, but for the undo of a commit.
LEMMA OthersMap ==
  ASSUME Types, [Next]_vars, \A p \in Publishers : ~Generate(p)
  PROVE  /\ \/ UNCHANGED <<chunkLink, metadata>>
            \/ \E w \in Workers :
                 /\ UndoChunk(w) \/ UndoMeta(w)
                 /\ \A c \in Contexts : /\ chunkLink'[c] \in {chunkLink[c], Nil}
                                        /\ metadata'[c] \in {metadata[c], Nil}
                 /\ \A c \in Contexts \ {Undone(w)} :
                      chunkLink'[c] = chunkLink[c] /\ metadata'[c] = metadata[c]
         /\ \/ UNCHANGED <<pc, call, old, new>>
            \/ \E p \in Publishers : Gen!Return(p) /\ (Enqueue(p) \/ EnqueueFails(p))
<1>t. /\ chunkLink \in [Contexts -> Digests \cup {Nil}]
      /\ metadata \in [Contexts -> Metadatas \cup {Nil}]
  BY DEF Types, StoreTypeOK
<1>1. ASSUME NEW p \in Publishers, Enqueue(p) \/ EnqueueFails(p)
      PROVE  UNCHANGED <<chunkLink, metadata>> /\ Gen!Return(p)
  BY <1>1 DEF Enqueue, EnqueueFails, store
<1>2. ASSUME NEW w \in Workers, Handle(w)
      PROVE  UNCHANGED <<pc, call, old, new>>
  BY <1>2
  DEF Handle, Load, AppendAd, AllAdded, Take, Clear, ReadHead, PutAd, CommitHead, CommitFails,
      Fails, UndoChunk, UndoMeta, Return, unhandled, generating
<1>3. ASSUME NEW w \in Workers, Handle(w), ~UndoChunk(w), ~UndoMeta(w)
      PROVE  UNCHANGED <<chunkLink, metadata>>
  BY <1>3
  DEF Handle, Load, AppendAd, AllAdded, Take, Clear, ReadHead, PutAd, CommitHead, CommitFails,
      Return, store, PutAdvert, WriteFails, ReadFails, ReplaceHead, ReplaceHeadFails
<1>4. ASSUME NEW w \in Workers, UndoChunk(w) \/ UndoMeta(w)
      PROVE  /\ \A c \in Contexts : /\ chunkLink'[c] \in {chunkLink[c], Nil}
                                    /\ metadata'[c] \in {metadata[c], Nil}
             /\ \A c \in Contexts \ {Undone(w)} :
                  chunkLink'[c] = chunkLink[c] /\ metadata'[c] = metadata[c]
  BY <1>4, <1>t DEF UndoChunk, UndoMeta, WriteFails, PutChunkLink, PutMetadata, store
<1>5. PollerStep \/ Crash \/ UNCHANGED vars => UNCHANGED <<chunkLink, metadata, pc, call, old, new>>
  BY DEF PollerStep, Crash, vars, store, generating
<1> QED
  BY <1>1, <1>2, <1>3, <1>4, <1>5 DEF Next

LEMMA WritesStep ==
  ASSUME Types, ~CallsFail, Private, \A p \in Publishers : Writes(p), [Next]_vars,
         NEW p \in Publishers
  PROVE  Writes(p)'
<1>t. pc[p] # "idle" => Gen!Ctx(p) \in Contexts
  BY DEF Types, GenLocals, Gen!Ctx, GenP!Request
<1>1. ASSUME NEW q \in Publishers, Generate(q), q # p PROVE Writes(p)'
  <2>1. /\ pc'[p] = pc[p] /\ call'[p] = call[p] /\ old'[p] = old[p] /\ new'[p] = new[p]
        /\ \/ UNCHANGED <<chunkLink, metadata>>
           \/ /\ pc[q] # "idle"
              /\ \A c \in Contexts \ {Gen!Ctx(q)} :
                   chunkLink'[c] = chunkLink[c] /\ metadata'[c] = metadata[c]
    BY <1>1, GenerateMaps
  <2>2. pc[p] # "idle" /\ pc[q] # "idle" => Gen!Ctx(p) # Gen!Ctx(q)
    BY <1>1 DEF Writes, Private
  <2>3. pc[p] # "idle" => /\ chunkLink'[Gen!Ctx(p)] = chunkLink[Gen!Ctx(p)]
                          /\ metadata'[Gen!Ctx(p)] = metadata[Gen!Ctx(p)]
    BY <1>t, <2>1, <2>2
  <2>4. Writes(p)
    OBVIOUS
  <2> QED
    BY <2>1, <2>3, <2>4 DEF Writes, Gen!Ctx
<1>2. CASE Generate(p)
  BY <1>2, GenerateMaps
<1>3. ASSUME \A q \in Publishers : ~Generate(q) PROVE Writes(p)'
  <2>1. pc[p] # "idle" => /\ chunkLink'[Gen!Ctx(p)] \in {chunkLink[Gen!Ctx(p)], Nil}
                          /\ metadata'[Gen!Ctx(p)] \in {metadata[Gen!Ctx(p)], Nil}
    BY <1>3, <1>t, OthersMap
  <2>2. \/ pc'[p] = pc[p] /\ call'[p] = call[p] /\ old'[p] = old[p] /\ new'[p] = new[p]
        \/ pc'[p] = "idle"
    <3>1. ASSUME NEW q \in Publishers, Gen!Return(q)
          PROVE  \/ pc'[p] = pc[p] /\ call'[p] = call[p] /\ old'[p] = old[p] /\ new'[p] = new[p]
                 \/ pc'[p] = "idle"
      BY <3>1 DEF Gen!Return, Gen!Goto, Types, GenLocals
    <3> QED
      BY <1>3, <3>1, OthersMap
  <2>3. Writes(p)
    OBVIOUS
  <2> QED
    BY <2>1, <2>2, <2>3 DEF Writes, Gen!Ctx, Reading
<1> QED
  BY <1>1, <1>2, <1>3

\* A call that generates takes its step.
LEMMA NoStutter == ASSUME Types, NEW p \in Publishers, Generate(p) PROVE pc'[p] # pc[p]
BY DEF Generate, Gen!Call, Gen!ReadChunk, Gen!ReadMeta, Gen!ReadMappingsFails, Gen!PutEntriesOf,
       Gen!PutChunk, Gen!PutMeta, Gen!GenerateFails, Gen!Undo, Gen!UndoChunk, Gen!UndoMeta,
       Gen!Return, Gen!Goto, Types, GenLocals

\* A queued job goes on backing its advert, until the advert is published or the
\* undo of its commit comes to the advert's context.
LEMMA BacksStep ==
  ASSUME Types, JobsInv, OneWorker, [Next]_vars, NEW ad, NEW j \in Jobs, Backs(j, ad)
  PROVE  \/ Backs(j, ad)'
         \/ On(head', ad)
         \/ \E w \in Workers : UndoMeta(w) /\ Undone(w) = ad.ctx
<1>t. /\ seen \in [Workers -> Link] /\ found \in [Workers -> Link]
      /\ hpc \in [Workers -> Steps] /\ n \in [Workers -> Nat]
      /\ err \in [Workers -> Poller!Outcome]
      /\ wpc \in [Workers -> {"idle", "handle", "settle"}] /\ work \in [Workers -> Seq(Jobs)]
      /\ result \in [Workers -> [Jobs -> Poller!Outcome]]
  BY OutcomeIs DEF Types, HandlerType, PollerP!TypeOK
<1>1. status'[j] # "none" /\ payload'[j] = payload[j] /\ payload[j] = ad
  BY PollerTypeStep, PayloadStays DEF Backs, Types, HandlerType
\* A worker that settles undoes nothing, so the job that it deletes is not j.
<1>2. status'[j] # "deleted"
  <2> SUFFICES ASSUME status'[j] = "deleted" PROVE FALSE
    OBVIOUS
  <2>1. PICK w \in Workers : /\ wpc[w] = "settle" /\ result[w][j] \in {"ok", "timeout"}
                             /\ 1 \in DOMAIN work[w] /\ work[w][1] = j
    BY DeletesWhat DEF Backs
  <2>2. IsToUndo(w, ad.ctx)
    BY <2>1 DEF Backs, Dooms
  <2>3. hpc[w] = "load"
    BY <2>1 DEF Types, Placed
  <2> QED
    BY <2>2, <2>3 DEF IsToUndo, Undoing
<1>b. (\A w \in Workers : Dooms(w, j)' => IsToUndo(w, ad.ctx)') => Backs(j, ad)'
  BY <1>1, <1>2 DEF Backs
<1>i. \A w \in Workers : Dooms(w, j) => IsToUndo(w, ad.ctx)
  BY DEF Backs
<1>3. ASSUME NEW w \in Workers, ~Handle(w), Dooms(w, j)' PROVE IsToUndo(w, ad.ctx)'
  <2>1. CASE /\ hpc'[w] = hpc[w] /\ n'[w] = n[w] /\ seen'[w] = seen[w] /\ err'[w] = err[w]
             /\ wpc'[w] = wpc[w] /\ work'[w] = work[w] /\ result'[w] = result[w]
    BY <1>i, <1>3, <2>1 DEF Dooms, IsToUndo
  <2>2. CASE /\ hpc'[w] = "load"
             /\ wpc'[w] = "settle" => /\ wpc[w] = "settle" /\ work'[w] = Tail(work[w])
                                      /\ result'[w] = result[w]
    <3>1. wpc[w] = "settle" /\ work'[w] = Tail(work[w]) /\ result[w][j] # "error"
      BY <1>3, <2>2 DEF Dooms, Undoing
    <3>2. work[w] \in Seq(Jobs) /\ work[w] # <<>>
      BY <3>1 DEF Types, PollerP!TypeOK
    <3>3. \A k \in DOMAIN Tail(work[w]) :
            k + 1 \in DOMAIN work[w] /\ Tail(work[w])[k] = work[w][k + 1]
      BY <3>2, HeadTailProperties, LenProperties
    <3>4. Dooms(w, j)
      BY <1>3, <3>1, <3>3 DEF Dooms
    <3>5. hpc[w] = "load"
      BY <3>1 DEF Types, Placed
    <3> QED
      BY <1>i, <3>4, <3>5 DEF IsToUndo, Undoing
  <2> QED
    BY <1>3, <2>1, <2>2, RestMoves
<1>4. ASSUME NEW w \in Workers, Handle(w), Dooms(w, j)'
      PROVE  \/ IsToUndo(w, ad.ctx)' \/ On(head', ad)
             \/ UndoMeta(w) /\ Undone(w) = ad.ctx
  <2>h. DOMAIN work[w] = 1..Len(work[w]) /\ seen[w] \in Seq(Advert) /\ wpc[w] = "handle"
        /\ Len(seen[w]) \in Nat /\ DOMAIN seen[w] = 1..Len(seen[w])
    BY <1>4, HandlerHas
    DEF Link, Handle, Load, AppendAd, AllAdded, Take, Clear, ReadHead, PutAd, CommitHead,
        CommitFails, UndoChunk, UndoMeta, Return, At
  <2>1. CASE Load(w) \/ AppendAd(w) \/ AllAdded(w) \/ Take(w) \/ Clear(w) \/ PutAd(w)
    <3>1. wpc'[w] = "handle" /\ hpc'[w] \notin Undoing \cup {"return"}
      BY <2>1, <1>t, <2>h
      DEF Load, AppendAd, AllAdded, Take, Clear, PutAd, Goto, unhandled, poller, Undoing
    <3> QED
      BY <1>4, <3>1 DEF Dooms
  <2>2. CASE ReadHead(w) \/ CommitHead(w) \/ CommitFails(w)
    <3>1. /\ hpc[w] \in {"readHead", "putAdvert", "replaceHead"} /\ UNCHANGED <<wpc, work, seen>>
      BY <2>2, <2>h DEF ReadHead, CommitHead, CommitFails, Fails, At, unhandled, poller
    <3>2. PICK k \in DOMAIN work[w] : work[w][k] = j
      BY <1>4, <3>1 DEF Dooms
    <3>3. PICK i \in DOMAIN seen[w] : seen[w][i] = ad
      BY <1>1, <3>1, <3>2 DEF JobsInv, Collected, InList
    <3>4. seen[w] # <<>> /\ i \in 1..Len(seen[w])
      BY <2>h, <3>3, EmptySeq
    <3>5. CASE ReadHead(w)
      <4>1. hpc'[w] = "putAdvert"
        BY <3>4, <3>5, <1>t DEF ReadHead, Goto
      <4> QED
        BY <1>4, <2>h, <3>1, <4>1 DEF Dooms, Undoing
    <3>6. CASE CommitHead(w)
      <4>1. On(head', seen[w][i])
        BY <3>4, <3>6, CommittedOn DEF CommitHead, ReplaceHead
      <4> QED
        BY <3>3, <4>1
    <3>7. CASE CommitFails(w)
      <4>1. hpc'[w] = "undoChunk" /\ n'[w] = Len(seen[w])
        BY <3>4, <3>7, <1>t DEF CommitFails, Fails, Goto
      <4> QED
        BY <3>1, <3>3, <3>4, <4>1 DEF IsToUndo, Undoing
    <3> QED
      BY <2>2, <3>5, <3>6, <3>7
  <2>3. CASE UndoChunk(w)
    <3>1. /\ hpc[w] = "undoChunk" /\ hpc'[w] = "undoMeta" /\ n'[w] = n[w]
          /\ UNCHANGED <<seen, work>>
      BY <2>3, <1>t DEF UndoChunk, At, Goto, unhandled, poller
    <3>2. Dooms(w, j)
      BY <1>4, <3>1 DEF Dooms, Undoing
    <3> QED
      BY <1>i, <3>1, <3>2 DEF IsToUndo, Undoing
  <2>4. CASE UndoMeta(w)
    <3>1. /\ hpc[w] = "undoMeta" /\ UNCHANGED <<seen, work>> /\ n[w] \in Nat
          /\ IF n[w] > 1 THEN hpc'[w] = "undoChunk" /\ n'[w] = n[w] - 1
                         ELSE hpc'[w] = "return"
      BY <2>4, <1>t DEF UndoMeta, At, Goto, unhandled, poller
    <3>2. Dooms(w, j)
      BY <1>4, <3>1 DEF Dooms, Undoing
    <3>3. PICK k \in 1..n[w] : seen[w][k].ctx = ad.ctx
      BY <1>i, <3>2 DEF IsToUndo
    <3>4. CASE k = n[w]
      BY <2>4, <3>3, <3>4 DEF Undone
    <3>5. CASE k # n[w]
      <4>1. n[w] > 1 /\ k \in 1..(n[w] - 1)
        BY <3>1, <3>5
      <4> QED
        BY <3>1, <3>3, <4>1 DEF IsToUndo, Undoing
    <3> QED
      BY <3>4, <3>5
  <2>5. CASE Return(w)
    <3>1. /\ hpc[w] = "return" /\ hpc'[w] = "load" /\ UNCHANGED work
          /\ result' = [result EXCEPT
               ![w] = [i \in Jobs |-> IF i \in Range(work[w]) THEN err[w] ELSE "ok"]]
      BY <2>5, <1>t DEF Return, At, Goto, Poller!Return
    <3>2. PICK k \in DOMAIN work[w] : work[w][k] = j
      BY <1>4, <3>1 DEF Dooms
    <3>3. j \in Range(work[w])
      BY <3>2 DEF Range
    <3>4. result'[w][j] = err[w] /\ result'[w][j] # "error"
      BY <1>4, <1>t, <3>1, <3>3 DEF Dooms, Undoing
    <3>5. Dooms(w, j)
      BY <3>1, <3>2, <3>4 DEF Dooms
    <3> QED
      BY <1>i, <3>1, <3>5 DEF IsToUndo, Undoing
  <2> QED
    BY <1>4, <2>1, <2>2, <2>3, <2>4, <2>5 DEF Handle
<1> QED
  BY <1>b, <1>3, <1>4

LEMMA TruthfulStep ==
  ASSUME Types, JobsInv, OneWorker, ~CallsFail, MapsInv, [Next]_vars,
         NEW c \in Contexts, Quiet(c)'
  PROVE  Truthful(c)'
<1>t. /\ chunkLink \in [Contexts -> Digests \cup {Nil}]
      /\ metadata \in [Contexts -> Metadatas \cup {Nil}] /\ torn \subseteq Contexts
      /\ \A p \in Publishers : pc[p] # "idle" => Gen!Ctx(p) \in Contexts
  BY DEF Types, StoreTypeOK, HistoryType, GenLocals, Gen!Ctx, GenP!Request
<1> SUFFICES ASSUME c \notin torn', chunkLink'[c] # Nil, metadata'[c] # Nil
             PROVE  OnChain(Mapped(c))' \/ \E j \in Jobs : Backs(j, Mapped(c))'
  BY DEF Truthful
<1> DEFINE ad == [ctx |-> c, entries |-> chunkLink[c], md |-> metadata[c]]
\* What was true of the mappings stays true while they stay.
<1>s. ASSUME chunkLink'[c] = chunkLink[c], metadata'[c] = metadata[c], Quiet(c), c \notin torn,
             \A w \in Workers : ~(UndoMeta(w) /\ Undone(w) = c)
      PROVE  OnChain(Mapped(c))' \/ \E j \in Jobs : Backs(j, Mapped(c))'
  <2>1. OnChain(ad) \/ \E j \in Jobs : Backs(j, ad)
    BY <1>s DEF MapsInv, Truthful, Mapped
  <2>2. ad' = ad /\ ad.ctx = c
    BY <1>s
  <2>3. PICK x : x = ad
    OBVIOUS
  <2>4. On(head', x) \/ \E j \in Jobs : Backs(j, x)'
    <3>1. OnChain(x) \/ \E j \in Jobs : Backs(j, x)
      BY <2>1, <2>3
    <3>2. x.ctx = c
      BY <2>2, <2>3
    <3> QED
      BY <1>s, <3>1, <3>2, OnChainStays, BacksStep
  <2>5. Mapped(c)' = x
    BY <2>2, <2>3 DEF Mapped
  <2> QED
    BY <2>4, <2>5 DEF OnChain, On, Backs
<1>1. ASSUME NEW p \in Publishers, Generate(p)
      PROVE  OnChain(Mapped(c))' \/ \E j \in Jobs : Backs(j, Mapped(c))'
  <2>1. /\ torn' = torn /\ (pc'[p] \in Reading => pc[p] \in Reading)
        /\ pc'[p] # "idle" /\ pc[p] # "idle" => Gen!Ctx(p)' = Gen!Ctx(p)
        /\ \A q \in Publishers \ {p} : pc'[q] = pc[q] /\ call'[q] = call[q]
        /\ \/ UNCHANGED <<chunkLink, metadata>>
           \/ /\ pc[p] # "idle" /\ pc'[p] \notin Reading
              /\ \A d \in Contexts \ {Gen!Ctx(p)} :
                   chunkLink'[d] = chunkLink[d] /\ metadata'[d] = metadata[d]
    BY <1>1, GenerateMaps DEF MapsInv
  <2>2. pc'[p] \notin Reading /\ pc[p] # "idle" => Gen!Ctx(p) # c
    BY <2>1 DEF Quiet, Reading
  <2>3. chunkLink'[c] = chunkLink[c] /\ metadata'[c] = metadata[c]
    BY <2>1, <2>2
  <2>4. ASSUME NEW q \in Publishers, pc[q] \notin Reading PROVE Gen!Ctx(q) # c
    <3>1. CASE q = p
      BY <2>1, <2>2, <2>4, <3>1 DEF Reading
    <3>2. CASE q # p
      BY <2>1, <2>4, <3>2 DEF Quiet, Gen!Ctx
    <3> QED
      BY <3>1, <3>2
  <2>5. \A w \in Workers : ~UndoMeta(w)
    <3>1. pc'[p] # pc[p]
      BY <1>1, NoStutter
    <3> QED
      BY <3>1 DEF UndoMeta, unhandled, generating
  <2> QED
    BY <1>s, <2>1, <2>3, <2>4, <2>5 DEF Quiet
<1>2. ASSUME NEW p \in Publishers, Enqueue(p)
      PROVE  OnChain(Mapped(c))' \/ \E j \in Jobs : Backs(j, Mapped(c))'
  <2>1. /\ pc[p] = "readHead" /\ Gen!Return(p) /\ torn' = torn \ {Gen!Ctx(p)}
        /\ UNCHANGED <<head, chunkLink, metadata, hpc, n, seen, err, wpc, work, result>>
    BY <1>2 DEF Enqueue, QueueAd, Poller!Queue, handler, store
  <2>2. PICK j \in Jobs : /\ status[j] = "none" /\ status' = [status EXCEPT ![j] = "visible"]
                          /\ payload' = [payload EXCEPT ![j] = Gen!Ad(p)]
    BY <1>2 DEF Enqueue, QueueAd, Unqueued, Poller!Queue
  <2>3. CASE c = Gen!Ctx(p)
    <3>1. Writes(p)
      BY DEF MapsInv
    <3>2. chunkLink[c] = new[p].chunk /\ metadata[c] = new[p].md
      BY <2>1, <2>3, <3>1 DEF Writes
    <3>3. Gen!Ad(p) = [ctx |-> c, entries |-> chunkLink[c], md |-> metadata[c]]
      BY <2>3, <3>2 DEF Gen!Ad
    <3>4. Mapped(c)' = payload'[j]
      BY <2>1, <2>2, <3>3 DEF Mapped, Types, PayloadType
    <3>5. status'[j] = "visible"
      BY <2>2 DEF Types, PollerP!TypeOK
    <3>6. ASSUME NEW w \in Workers, NEW k \in DOMAIN work'[w] PROVE work'[w][k] # j
      <4>1. k \in 1..Len(work[w])
        BY <2>1, <3>6, HandlerHas
      <4> QED
        BY <2>1, <2>2, <4>1, HandlerHas
    <3> QED
      BY <3>4, <3>5, <3>6 DEF Backs, Dooms
  <2>4. CASE c # Gen!Ctx(p)
    <3>1. ASSUME NEW q \in Publishers, pc[q] \notin Reading PROVE Gen!Ctx(q) # c
      <4>1. CASE q = p
        BY <2>4, <4>1
      <4>2. CASE q # p
        <5>1. pc'[q] = pc[q] /\ call'[q] = call[q]
          BY <2>1, <4>2 DEF Gen!Return, Gen!Goto, Types, GenLocals
        <5> QED
          BY <3>1, <5>1 DEF Quiet, Gen!Ctx
      <4> QED
        BY <4>1, <4>2
    <3>2. \A w \in Workers : ~UndoMeta(w)
      <4>1. pc'[p] # pc[p]
        BY <2>1 DEF Gen!Return, Gen!Goto, Types, GenLocals
      <4> QED
        BY <4>1 DEF UndoMeta, unhandled, generating
    <3> QED
      BY <1>s, <2>1, <2>4, <3>1, <3>2 DEF Quiet
  <2> QED
    BY <2>3, <2>4
<1>3. ASSUME \A p \in Publishers : ~Generate(p) /\ ~Enqueue(p)
      PROVE  OnChain(Mapped(c))' \/ \E j \in Jobs : Backs(j, Mapped(c))'
  <2>1. ASSUME NEW p \in Publishers, EnqueueFails(p) PROVE FALSE
    BY <2>1 DEF EnqueueFails
  <2>2. UNCHANGED <<pc, call>>
    BY <1>3, <2>1, OthersMap
  <2>3. Quiet(c)
    BY <2>2 DEF Quiet, Gen!Ctx
  <2>4. torn \subseteq torn'
    <3>1. \A w \in Workers : Handle(w) => torn \subseteq torn'
      BY DEF Handle, Load, AppendAd, AllAdded, Take, Clear, ReadHead, PutAd, CommitHead,
             CommitFails, Fails, UndoFails, UndoChunk, UndoMeta, Return
    <3> QED
      BY <1>3, <2>1, <3>1 DEF Next, PollerStep, Crash, vars
  <2>5. ASSUME NEW w \in Workers, UndoMeta(w), Undone(w) = c PROVE FALSE
    <3>1. metadata' = [metadata EXCEPT ![c] = Nil] \/ c \in torn'
      BY <2>5 DEF UndoMeta, UndoFails, PutMetadata
    <3> QED
      BY <1>t, <3>1
  <2>6. chunkLink'[c] = chunkLink[c] /\ metadata'[c] = metadata[c]
    BY <1>3, OthersMap
  <2> QED
    BY <1>s, <2>3, <2>4, <2>5, <2>6
<1> QED
  BY <1>1, <1>2, <1>3

\* What a call that is told "already advertised" relies on, with one worker, one
\* publisher to a context, and calls of Publish that succeed: however commits fail,
\* are undone and tried again, and the process stops.
THEOREM AdvertisedStaysTrue ==
  ASSUME OneWorker, Private, ~CallsFail
  PROVE  Spec => []AdvertisedIsTrue
<1>1. Init => JobsInv /\ MapsInv
  <2> SUFFICES ASSUME Init PROVE MapsInv
    BY JobsInit
  <2>1. \A p \in Publishers : Writes(p)
    BY DEF Init, Gen!Init, Writes, Reading
  <2>2. \A c \in Contexts : Truthful(c)
    BY DEF Init, Gen!Init, Gen!StoreInit, Truthful
  <2> QED
    BY <2>1, <2>2 DEF MapsInv
<1>2. Types /\ JobsInv /\ MapsInv /\ [Next]_vars => JobsInv' /\ MapsInv'
  <2> SUFFICES ASSUME Types, JobsInv, MapsInv, [Next]_vars PROVE MapsInv'
    BY JobsStep
  <2>1. \A p \in Publishers : Writes(p)'
    BY WritesStep DEF MapsInv
  <2>2. \A c \in Contexts : Quiet(c)' => Truthful(c)'
    BY TruthfulStep
  <2> QED
    BY <2>1, <2>2 DEF MapsInv
<1>3. MapsInv => AdvertisedIsTrue
  <2> SUFFICES ASSUME MapsInv, NEW c \in Contexts, c \notin torn,
                      \A p \in Publishers : pc[p] # "idle" => Gen!Ctx(p) # c,
                      chunkLink[c] # Nil, metadata[c] # Nil
               PROVE  \/ OnChain(Mapped(c))
                      \/ \E j \in Jobs : status[j] \notin {"none", "deleted"} /\ payload[j] = Mapped(c)
    BY DEF AdvertisedIsTrue, Mapped
  <2>1. Quiet(c)
    BY DEF Quiet, Reading
  <2> QED
    BY <2>1 DEF MapsInv, Truthful, Backs
<1> QED
  BY <1>1, <1>2, <1>3, Typed, PTL DEF Spec

=============================================================================
