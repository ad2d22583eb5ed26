----------------------------- MODULE AdvertQueue -----------------------------
(***************************************************************************)
(* Publishing advertisements through a queue (pkg/queue/queue.go).         *)
(* AdvertisementQueuePublisher.Publish generates an advert, which writes   *)
(* the context's mappings, and queues it.  The poller's workers share one  *)
(* AdvertisementPublisher (pkg/publisher/advertisementpublisher.go): the   *)
(* handler adds the adverts of its batch to the pending ones and commits   *)
(* what is pending.  A commit that fails drops the mappings of its adverts *)
(* (forgetMappings), and the jobs are released.                            *)
(*                                                                         *)
(* This module composes the generating half of Publish, the QueuePoller    *)
(* and the handler.                                                        *)
(***************************************************************************)
EXTENDS AdStore

CONSTANTS
  Publishers,  \* the callers of AdvertisementQueuePublisher.Publish
  Owns,        \* Owns[p]: the contexts p publishes
  Jobs, Workers, BatchSize, Buffer, Flaky, EarlyTimeout, MayCrash, \* of the poller
  CallsFail,   \* may calls of Publish fail: at the store, or queueing the job?
  MaxAdverts   \* bound: no call, and no Read, once the chain has this many adverts

ASSUME CallsFailAssumption == CallsFail \in BOOLEAN
ASSUME OwnsAssumption == Owns \in [Publishers -> SUBSET Contexts]
ASSUME PollerAssumption ==
  /\ BatchSize \in Nat \ {0} /\ Buffer \in Nat \ {0}
  /\ {Flaky, EarlyTimeout, MayCrash} \subseteq BOOLEAN
ASSUME MaxAdvertsAssumption == MaxAdverts \in Nat
ASSUME NoPayloadAssumption == Nil \notin Advert

VARIABLES
  pc, call, old, new, base,  \* of the calls of Publish
  acked,   \* history: the links that Commit has returned
  torn,    \* history: the contexts that an undo reported it could not put back
  single, status, loop, got, handed, wpc, work, result, stop, finished,  \* of the poller
  payload, \* payload[j]: the advert that job j carries
  pending, \* AdvertisementPublisher.pending
  hpc,     \* hpc[w]: the step that w's handler is about to make
  n,       \* n[w]: the index of the loop that it is in
  seen,    \* seen[w]: what it read of pending
  found,   \* found[w]: the head its commit found
  err,     \* err[w]: the error its commit returns
  expired  \* history: the jobs that failed with a timeout

generating == <<pc, call, old, new, base>>
poller == <<single, status, loop, got, handed, wpc, work, result, stop, finished>>
handler == <<hpc, n, seen, found, err>>
vars == <<head, adverts, blocks, chunkLink, metadata, generating, acked, torn,
          poller, payload, pending, handler, expired>>

\* Crashes of a caller are those of Publish, and are checked there.
Gen == INSTANCE Publish WITH MayCrash <- FALSE, Faulty <- CallsFail

Poller == INSTANCE QueuePoller WITH MayStop <- FALSE

Steps == {"load", "append", "take", "clear", "readHead", "putAdvert", "replaceHead",
          "undoChunk", "undoMeta", "return"}

TypeOK ==
  /\ Gen!TypeOK
  /\ Poller!TypeOK
  /\ payload \in [Jobs -> Advert \cup {Nil}]
  /\ pending \in Link
  /\ hpc \in [Workers -> Steps]
  /\ n \in [Workers -> Nat]
  /\ seen \in [Workers -> Link]
  /\ found \in [Workers -> Link]
  /\ err \in [Workers -> Poller!Outcome]
  /\ expired \subseteq Jobs
  /\ \A j \in Jobs : status[j] # "none" => payload[j] # Nil

HandlerInit ==
  /\ pending = <<>>
  /\ hpc = [w \in Workers |-> "load"]
  /\ n = [w \in Workers |-> 1]
  /\ seen = [w \in Workers |-> <<>>]
  /\ found = [w \in Workers |-> <<>>]
  /\ err = [w \in Workers |-> "ok"]

Init ==
  /\ Gen!Init
  /\ Poller!Init /\ ~single  \* the handler is a BatchJobHandler
  /\ HandlerInit
  /\ payload = [j \in Jobs |-> Nil]
  /\ expired = {}

-----------------------------------------------------------------------------
(* AdvertisementQueuePublisher.Publish *)

Unqueued == {j \in Jobs : status[j] = "none"}

Generate(p) ==
  /\ \/ Gen!Call(p) /\ Cardinality(Unqueued) > Cardinality({q \in Publishers : pc[q] # "idle"})
     \/ Gen!ReadChunk(p) \/ Gen!ReadMeta(p) \/ Gen!ReadMappingsFails(p)
     \/ Gen!PutEntriesOf(p) \/ Gen!PutChunk(p) \/ Gen!PutMeta(p)
     \/ Gen!GenerateFails(p) \/ Gen!UndoChunk(p) \/ Gen!UndoMeta(p)
  /\ UNCHANGED <<poller, payload, pending, handler, expired>>

\* A job is queued that carries the advert of p.
QueueAd(p) ==
  \E j \in Unqueued :
    /\ Poller!Queue(j)
    /\ payload' = [payload EXCEPT ![j] = Gen!Ad(p)]

\* Variant: the error of generating the advert is not looked at.
EnqueueUnchecked(p) ==
  /\ pc[p] \in {"readHead", "undoChunk"}
  /\ QueueAd(p)
  /\ Gen!Return(p)
  /\ torn' = torn \ {Gen!Ctx(p)}
  /\ UNCHANGED <<store, acked, pending, handler, expired>>

\* The advert is generated and its job is queued.
Enqueue(p) ==
  /\ pc[p] = "readHead"
  /\ QueueAd(p)
  /\ Gen!Return(p)
  /\ torn' = torn \ {Gen!Ctx(p)}
  /\ UNCHANGED <<store, acked, pending, handler, expired>>

\* Queueing is reported as failed, the job being queued or not: the error is
\* returned, and the mappings stay.
EnqueueFails(p) ==
  /\ pc[p] = "readHead"
  /\ CallsFail
  /\ QueueAd(p) \/ UNCHANGED <<poller, payload>>
  /\ Gen!Return(p)
  /\ UNCHANGED <<store, acked, torn, pending, handler, expired>>

-----------------------------------------------------------------------------
(* The handler: AddToBatch and Commit of the shared AdvertisementPublisher.  *)
(* Its pending adverts are read and written without a lock.                  *)

At(w, step) == wpc[w] = "handle" /\ hpc[w] = step

Goto(w, step, index) ==
  /\ hpc' = [hpc EXCEPT ![w] = step]
  /\ n' = [n EXCEPT ![w] = index]

unhandled == <<generating, poller, payload, expired>>

\* AddToBatch appends the advert of the next job: it reads what is pending.
Load(w) ==
  /\ At(w, "load") /\ n[w] <= Len(work[w])
  /\ seen' = [seen EXCEPT ![w] = pending]
  /\ Goto(w, "append", n[w])
  /\ UNCHANGED <<store, acked, torn, unhandled, pending, found, err>>

\* Variant: the advert takes the place of those that are pending.
AppendAdAlone(w) ==
  /\ At(w, "append")
  /\ pending' = <<payload[work[w][n[w]]]>>
  /\ seen' = [seen EXCEPT ![w] = <<>>]
  /\ Goto(w, "load", n[w] + 1)
  /\ UNCHANGED <<store, acked, torn, unhandled, found, err>>

AppendAd(w) ==
  /\ At(w, "append")
  /\ pending' = Append(seen[w], payload[work[w][n[w]]])
  /\ seen' = [seen EXCEPT ![w] = <<>>]
  /\ Goto(w, "load", n[w] + 1)
  /\ UNCHANGED <<store, acked, torn, unhandled, found, err>>

AllAdded(w) ==
  /\ At(w, "load") /\ n[w] > Len(work[w])
  /\ Goto(w, "take", 1)
  /\ UNCHANGED <<store, acked, torn, unhandled, pending, seen, found, err>>

\* Commit takes what is pending, whoever added it.
Take(w) ==
  /\ At(w, "take")
  /\ seen' = [seen EXCEPT ![w] = pending]
  /\ Goto(w, "clear", 1)
  /\ UNCHANGED <<store, acked, torn, unhandled, pending, found, err>>

Clear(w) ==
  /\ At(w, "clear")
  /\ pending' = <<>>
  /\ Goto(w, "readHead", 1)
  /\ UNCHANGED <<store, acked, torn, unhandled, seen, found, err>>

\* With nothing to commit, the head is all that Commit returns.
ReadHead(w) ==
  /\ At(w, "readHead")
  /\ found' = [found EXCEPT ![w] = head]
  /\ IF seen[w] = <<>>
     THEN acked' = acked \cup {head} /\ Goto(w, "return", 1)
     ELSE UNCHANGED acked /\ Goto(w, "putAdvert", 1)
  /\ UNCHANGED <<store, torn, unhandled, pending, seen, err>>

\* The link of the k-th advert being committed.
AdLink(w, k) == found[w] \o SubSeq(seen[w], 1, k)
NewHead(w) == AdLink(w, Len(seen[w]))

\* Variant: every advert is linked to the head that was found.
PutAdUnlinked(w) ==
  /\ At(w, "putAdvert")
  /\ PutAdvert(Append(found[w], seen[w][n[w]]))
  /\ IF n[w] < Len(seen[w]) THEN Goto(w, "putAdvert", n[w] + 1) ELSE Goto(w, "replaceHead", 1)
  /\ UNCHANGED <<acked, torn, unhandled, pending, seen, found, err>>

PutAd(w) ==
  /\ At(w, "putAdvert")
  /\ PutAdvert(AdLink(w, n[w]))
  /\ IF n[w] < Len(seen[w]) THEN Goto(w, "putAdvert", n[w] + 1) ELSE Goto(w, "replaceHead", 1)
  /\ UNCHANGED <<acked, torn, unhandled, pending, seen, found, err>>

\* Variant: the head is made from the link before the last advert's.
CommitHeadEarly(w) ==
  /\ At(w, "replaceHead")
  /\ ReplaceHead(found[w], AdLink(w, Len(seen[w]) - 1))
  /\ acked' = acked \cup {NewHead(w)}
  /\ Goto(w, "return", 1)
  /\ UNCHANGED <<torn, unhandled, pending, seen, found, err>>

CommitHead(w) ==
  /\ At(w, "replaceHead")
  /\ ReplaceHead(found[w], NewHead(w))
  /\ acked' = acked \cup {NewHead(w)}
  /\ Goto(w, "return", 1)
  /\ UNCHANGED <<torn, unhandled, pending, seen, found, err>>

\* Variant: the undo runs under the commit's context, which ends at a timeout.
FailsNotUndone(w, e) ==
  /\ err' = [err EXCEPT ![w] = e]
  /\ IF seen[w] = <<>> \/ e = "timeout" THEN Goto(w, "return", 1)
                                       ELSE Goto(w, "undoChunk", Len(seen[w]))
  /\ UNCHANGED <<acked, torn, unhandled, pending, seen, found>>

\* The commit fails, with an error that is known for a timeout or is not.
\* Nothing is undone where nothing was pending.
Fails(w, e) ==
  /\ err' = [err EXCEPT ![w] = e]
  /\ IF seen[w] = <<>> THEN Goto(w, "return", 1) ELSE Goto(w, "undoChunk", Len(seen[w]))
  /\ UNCHANGED <<acked, torn, unhandled, pending, seen, found>>

\* The error of reading the head is not wrapped: a timeout is not known there.
CommitFails(w) ==
  \/ At(w, "readHead") /\ ReadFails /\ Fails(w, "error")
  \/ /\ At(w, "putAdvert") /\ WriteFails(PutAdvert(AdLink(w, n[w])))
     /\ \E e \in {"error", "timeout"} : Fails(w, e)
  \/ /\ At(w, "replaceHead") /\ ReplaceHeadFails(found[w], NewHead(w))
     /\ \E e \in {"error", "timeout"} : (e = "timeout" => Faulty) /\ Fails(w, e)

\* undoAll, newest first: forgetMappings of every advert.  Both mappings are
\* deleted, the second whether or not the first was; the error of an undo that
\* fails is joined to the commit's, and makes a timeout of it if it is one.
Undone(w) == seen[w][n[w]].ctx

UndoFails(w) ==
  /\ torn' = torn \cup {Undone(w)}
  /\ \E e \in {err[w], "timeout"} : err' = [err EXCEPT ![w] = e]

UndoChunk(w) ==
  /\ At(w, "undoChunk")
  /\ \/ PutChunkLink(Undone(w), Nil) /\ UNCHANGED <<torn, err>>
     \/ WriteFails(PutChunkLink(Undone(w), Nil)) /\ UndoFails(w)
  /\ Goto(w, "undoMeta", n[w])
  /\ UNCHANGED <<acked, unhandled, pending, seen, found>>

UndoMeta(w) ==
  /\ At(w, "undoMeta")
  /\ \/ PutMetadata(Undone(w), Nil) /\ UNCHANGED <<torn, err>>
     \/ WriteFails(PutMetadata(Undone(w), Nil)) /\ UndoFails(w)
  /\ IF n[w] > 1 THEN Goto(w, "undoChunk", n[w] - 1) ELSE Goto(w, "return", 1)
  /\ UNCHANGED <<acked, unhandled, pending, seen, found>>

\* Handle returns one result for every job of its batch.
Return(w) ==
  /\ At(w, "return")
  /\ Poller!Return(w, [j \in Jobs |-> IF j \in Range(work[w]) THEN err[w] ELSE "ok"])
  /\ expired' = IF err[w] = "timeout" THEN expired \cup Range(work[w]) ELSE expired
  /\ Goto(w, "load", 1)
  /\ seen' = [seen EXCEPT ![w] = <<>>]
  /\ found' = [found EXCEPT ![w] = <<>>]
  /\ err' = [err EXCEPT ![w] = "ok"]
  /\ UNCHANGED <<store, acked, torn, generating, payload, pending>>

Handle(w) ==
  \/ Load(w) \/ AppendAd(w) \/ AllAdded(w) \/ Take(w) \/ Clear(w)
  \/ ReadHead(w) \/ PutAd(w) \/ CommitHead(w) \/ CommitFails(w)
  \/ UndoChunk(w) \/ UndoMeta(w) \/ Return(w)

-----------------------------------------------------------------------------
(* The poller, apart from its calls of the handler *)

PollerStep ==
  /\ \/ Poller!Start
     \/ Poller!Read /\ Len(head) < MaxAdverts
     \/ Poller!ReadFails \/ Poller!HandOverBatch
     \/ \E j \in Jobs : Poller!TimeOutVisibility(j)
     \/ \E w \in Workers :
          Poller!Receive(w) \/ Poller!ReleaseJob(w) \/ Poller!DeleteJob(w)
  /\ UNCHANGED <<store, generating, acked, torn, payload, pending, handler, expired>>

\* The poller's process stops and is started again: what was pending is gone.
Crash ==
  /\ Poller!Crash
  /\ pending' = <<>>
  /\ hpc' = [w \in Workers |-> "load"]
  /\ n' = [w \in Workers |-> 1]
  /\ seen' = [w \in Workers |-> <<>>]
  /\ found' = [w \in Workers |-> <<>>]
  /\ err' = [w \in Workers |-> "ok"]
  /\ UNCHANGED <<store, generating, acked, torn, payload, expired>>

Next ==
  \/ \E p \in Publishers : Generate(p) \/ Enqueue(p) \/ EnqueueFails(p)
  \/ \E w \in Workers : Handle(w)
  \/ PollerStep \/ Crash

Spec == Init /\ [][Next]_vars

-----------------------------------------------------------------------------
(* Properties *)

OnChain(ad) == \E k \in DOMAIN head : head[k] = ad

\* A job leaves the queue with its advert on the chain, unless it failed with a
\* timeout, or a worker is still committing the advert: "delete the job too if
\* processing was successful" (poller.go).
JobsPublished ==
  \A j \in Jobs : status[j] = "deleted" =>
    \/ OnChain(payload[j]) \/ j \in expired
    \/ \E w \in Workers : payload[j] \in Range(seen[w])

\* Commit is an implementation of the abstract chain for batches of queued
\* adverts too, that are committed again when a job is not deleted in time.
Chain == INSTANCE AdvertChain

ChainSpec == Chain!Spec

\* What ErrAlreadyAdvertised relies on: with no call at work on the context,
\* what its mappings say has been published, or is queued to be, unless an undo
\* reported that it failed ("signals that an advertisement for identical
\* content was already published", errors.go).
AdvertisedIsTrue ==
  \A c \in Contexts \ torn :
    (\A p \in Publishers : pc[p] # "idle" => Gen!Ctx(p) # c)
    /\ chunkLink[c] # Nil /\ metadata[c] # Nil
    => LET ad == [ctx |-> c, entries |-> chunkLink[c], md |-> metadata[c]]
       IN  \/ OnChain(ad)
           \/ \E j \in Jobs : status[j] \notin {"none", "deleted"} /\ payload[j] = ad
=============================================================================
