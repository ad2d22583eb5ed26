# A TLA+ model of go-ipni-tools

go-ipni-tools publishes *advertisements* to the IPNI network: signed records
that say "this provider has these multihashes, under this context ID, with this
metadata". Adverts form one chain; a signed *head* names the newest; an indexer
fetches the head and walks the chain. This directory models the code that builds
that chain and the code that tells of its progress, model-checks it with TLC and proves
its main theorems with TLAPS.

## The system

| component | state | operations | modelled |
|---|---|---|---|
| `pkg/store` AdStore | signed head; advert and entries blocks; tables from (provider, context ID) to entries link and to metadata | PutEntries, PutAdvert, Head, ReplaceHead (conditional), Get/Put/Delete of both mappings | `AdStore` |
| `pkg/publisher` Publish | the call's locals; the advert pending in the AdvertisementPublisher | generateAd, Commit, undo | `Publish` |
| `pkg/publisher` PublishBatch | the call's locals; the planned changes | LoadContexts, plan, PutAdverts, CommitBatch, rollback | `PublishBatch` |
| `pkg/queue` poller | jobs read, jobs with the workers, the stop flags | Start, Stop, the loop of Read and Queue, Release, Delete | `QueuePoller` |
| `pkg/queue` advertisement publisher and handler, `pkg/publisher` AdvertisementPublisher | the adverts pending in it, which all workers share | Publish (GenerateAd, then queue the job), Handle (AddToBatch, then Commit), forgetMappings | `AdvertQueue` |
| `pkg/publisher` AdvertisementPublisher, used directly | its pending adverts | GenerateAd of additions and removals, AddToBatch, Commit, Discard | `AdPublisher` |
| `pkg/queue` publishing handler | none | Publish, once per job | as a handler of `QueuePoller` |
| `pkg/store` directory store, putEntries | files, the mutex of writers; the chunks written so far | Get, Put, Replace (truncate, then copy); cutting a list into chunks, inlining | `LocalStore` |
| `pkg/server` | none | what is answered for the head and for a block | `LocalStore` (ServeHTTP) |
| `pkg/notifier` | the persisted and cached remote head, the registered functions, the done channel | New, Notify, Start, Update, Stop | `Notifier` |
| `pkg/client` TieredFinder | none | Find | not modelled |
| `pkg/advertisement`, `pkg/metadata` | none | encoding | not modelled |

How they interact: `Publish` and `PublishBatch` are sequences of store calls with
no lock around them, so publishers that share a store interleave at every call. The
store makes one promise across calls, the conditional write of the head
(`ReplaceHead`). The queue handlers call `Publish` for each job, or drive the one
`AdvertisementPublisher` that all the workers of the poller's pool share. The notifier
uses the store only for the remote head it persists.

What is hard: the mappings are written *before* the head, so every failure after
the first write needs an undo, whose own writes can fail; the mappings are *read*
before the head, so that the conditional write protects the chain but not them;
a crash runs no undo; a batch can name one context twice and fail halfway through
a record; the head's write can take effect and be reported as failed; an advert waits
in the queue between its mappings and its commit, while jobs are released, come back,
are dropped at Stop and are committed twice; the workers share the pending adverts with
no lock; a removal deletes the mappings that its undo needs; a directory's files are
torn while they are written, and after a write that failed; the notifier saves a head
before it tells of it, and can stop, fail or restart in between. `PROJECT.json` lists each of these under "hazards", at its line.

## Modules

`AdStore` is the store. Links are content addressed, so a link is modelled by what
it hashes: an advert's link is the whole chain that ends in it, a sequence of
adverts, and the link of an entries list is the list. No advert is `<<>>`, a
missing mapping is `Nil`, a context is a pair of a provider and a context ID. Each
operator is one call; a call that fails may have been applied (`WriteFails`), and
a `ReplaceHead` that is reported as failed may have been too (`LostReply`). A list
whose link is an identity CID, and the empty list (whose link is
`schema.NoEntries`), need no block: `Blockless`.

`Publish` is `IPNIPublisher.Publish`. A publisher `p` is an `IPNIPublisher` of its own, which
makes one call at a time, as its documentation asks; several share a store. (What
calls of one publisher at once would share is the list of pending adverts; see the
disagreements.) `pc[p]` is the store call that `p` makes next. `readChunk`, `readMeta`, `putEntries`, `putChunk`, `putMeta` are
generateAd; `readHead`, `putAdvert`, `replaceHead` are Commit; `undoChunk`,
`undoMeta` are restoreMappings. `old[p]` is the snapshot the undo restores,
`new[p]` the record being advertised, `base[p]` the head the commit read. What
computes on locals alone (nextRecord, building, signing and validating the advert)
belongs to the store call before it; its errors are among the failures of the
call after it. `acked` (links that calls have returned) and `torn` (contexts
whose undo failed, and was reported) are history variables, read by no action.

`PublishBatch` is `IPNIPublisher.PublishBatch`, with the default batch store
(`perItemBatchStore`, one call per mapping and a rollback) or, where
`Transactional` holds, a store that meets the contract of `store.BatchStore`.
`changes[p]` is the list of `ContextChange`s, with `old` and `new` records, that
the code plans; `prev[p]` is prevLink.

`AdvertChain` is what both promise: a chain that only grows at its head, and
acknowledged links that stay on it. `Chain == INSTANCE AdvertChain` maps `head` and
`acked` to themselves, and `ChainSpec` is checked as a PROPERTY and, for Publish,
proved.

`QueuePoller` is the poller, with the queue and the worker pool that are outside this
repository modelled from how it uses them. `status[j]` is what the queue knows of a
job: visible, invisible since it was read, or deleted. `loop` is the polling goroutine,
`got` the batch it read, `handed` the pool's channel; `wpc[w]`, `work[w]` and `result[w]`
are a worker's function, made by `toJobQueue`: what it does next, the jobs of its batch
that it has not settled, and the handler's results. `single` tells the two kinds of
handler apart, which differ in how a batch is handed over; a worker of a single handler
has a batch of one. Checking the context and reading are one step: a context
cancelled between them is the same as one cancelled just after the read. Handing over
fails only because the context is cancelled. `finished` is a history variable.

`AdvertQueue` composes three parts: `Gen`, the generating half of `Publish`, for the
callers of `AdvertisementQueuePublisher.Publish`; `Poller`, the whole `QueuePoller` but
for `Stop`, whose `Handle` it replaces by the steps of the handler; and that handler,
AddToBatch and Commit on the shared `pending`. Appending reads `pending` and writes it
in two steps, and taking it reads it and clears it in two, because no lock orders them.
The torn slice headers that such a race may also produce are left out. `seen[w]` holds
what a worker read of `pending` (the adverts it is committing, once it has cleared it),
`found[w]` the head of its commit, `err[w]` the error it returns. `payload` and
`expired` are history variables.

`AdPublisher` is the AdvertisementPublisher in the hands of a caller of its own, one per
publisher, on one store. `Gen` is the generating half of `Publish` again; the steps that
a removal takes differently (it needs an entries mapping, deletes both mappings, writes
no entries and is built with `Removal`, the empty metadata) are actions of this module.
`pending` is the list of adverts that AddToBatch appends to; `cpc`, `taken` and `n` are
Commit and Discard, which take the list and go through it: the blocks first to last, the
undos last to first. `forgetMappings` deletes the mappings of an addition and reports
that it cannot restore those of a removal (`torn`). `dropped` and `torn` are history.

`LocalStore` is publishing to a directory. Its files are whole or torn; a block's key is
what it holds, so that an advert published twice is written to one file. `pc`, `list`,
`rest`, `link` and `old` are the locals of `Publish` over `putEntries`, the loop of which
writes one chunk a round: `rest` are the multihashes that no chunk holds yet. `mutex` is `directoryStore.mutex`, held from the truncation of a file
to its last byte; readers do not take it, and the conditional `Replace` compares the head
inside it. `ServeHTTP` is an operator: what the server would answer at that moment. The
mappings are left out, as they live in a datastore of their own. `damaged` is history.

`Notifier` is the remote sync notifier, with the indexer modelled by the heads it
answers, numbered in the order it ingests them. `loop` is the notifier's goroutine: a
round is `Fetch`, `Save` and one `Call` for each function; `saved` is what is in the
store and `cached` what is in `HeadState`. A restart loses all but `saved`. `told` and
`toldHere` are history.

The `MC` modules are those TLC checks; they give `Owns`, `Lists` and `Seed` their values
and name the symmetries. The proofs about a module are in the module of its name with
`Proofs` behind it; `AdStoreProofs` holds the lemmas about chains, links and the store
that several of them use.

A definition whose comment begins with "Variant" is what the definition after it
would be with a plausible mistake in the code. Specifications never use one; it is
put in the definition's place to see that the property it is paired with in
`PROJECT.json` ("mutants") fails.

## Runs

| run | question | bounds |
|---|---|---|
| publish_shared | is the chain safe when separate publishers share a store and its contexts, under any failure, lost replies and crashes? | 2 publishers, each with one call at a time, 2 shared contexts, 1 list, 1 metadata; no call starts on a chain of 2 adverts |
| publish_private | does a failed call leave the mappings in line with the chain? | 2 publishers, a context each, 2 metadata; no call starts on a chain of 2 |
| publish_retry | do the losers of the head publish in the end? | 3 publishers, a context each, 1 metadata |
| batch_private | is the chain safe under batches, and a failed batch written back? | 2 publishers, one with 2 contexts and one with 1, 2 metadata, 2 calls of up to 2 specs |
| batch_transactional | do mappings and chain agree at every moment? | 2 publishers, 2 shared contexts, 2 metadata, 3 calls of up to 2 specs |
| poller | is a job in one place at a time, settled as its handler says, and deleted in the end, and does Stop return? | 2 jobs, 2 workers, batches of up to 2, 1 batch in the pool's channel, both kinds of handler, crashes and Stop |
| advert_queue_chain | is the chain safe when queued adverts are committed in batches and again after a crash? | 1 caller, 1 context, 1 metadata, 2 jobs in batches of up to 2, 1 worker; no call or read on a chain of 2 adverts |
| advert_queue_mappings | do the mappings say only what is published or queued, and is a deleted job's advert on the chain? | 1 caller, 1 context, 2 metadata, 2 jobs in batches of up to 2, 1 worker, failing calls of the store (but for the caller's) and of the queue; no crash, no lost reply |
| advert_queue_shared | (violation) and is a deleted job's advert published by workers that share the publisher? | 2 workers, 2 contexts, 2 jobs in batches of 1 |
| ad_publisher | are mappings and chain in line under additions and removals, queued, committed or discarded? | 2 publishers, a context each, 1 list, 2 metadata and the removal, up to 2 pending, 3 calls of GenerateAd, failures, lost replies |
| local_store | is what a directory serves a chain that can be walked, with every advert reported as published until a write of the head fails, and what putEntries wrote the list it was given? | 2 writers, lists of 0 to 3 multihashes, chunks of 2, 1 inlined, 3 calls, failures, crashes, an empty directory or one with a chain of 1 |
| notifier | is no function told twice, or out of order, and every sync that stays told, and does Stop return? | 2 functions, 3 syncs, failing writes, restarts, the end of the context, Stop |

Why the bounds are enough. Two publishers are enough for a lost conditional write,
an undo that races a commit, and a reader between two writes. A chain of two adverts
(three, with the call that is under way) has a first advert, which replaces a nil
head, and a later one, which replaces another. Two metadata let a context be
advertised again, so that an undo has a record to restore. Two specs let a batch
name a context twice, and change two contexts and fail at the second. The number of
calls in the Publish runs is not bounded: `MaxAdverts` bounds the length of the
chain at which a call may start, and calls that fail are free. The batch runs bound
the calls (`MaxCalls`). In the queue runs every job is queued once, and `MaxAdverts`
stops calls and reads once the chain is that long. Two jobs and two workers let a job be
taken while another is settled, let a batch end in two ways at once, and fill the pool
with the loop blocked on it. Batches of two make a commit link one queued advert to
another; in advert_queue_mappings the two have different metadata, so that a batch that
commits one of them only has a deleted job whose advert is nowhere. Crashes and lost
replies are left to advert_queue_chain and to the proofs of `JobsPublished` and
`AdvertisedIsTrue`: with them that instance takes too long. A job that comes back does
so there when its deletion or release fails. In ad_publisher a context can be added, removed and added again, within one
commit, or across a commit that failed; the two publishers contend for the head. The
lists of local_store are those at the boundaries of a chunk: none, one that is inlined,
a full chunk, and one multihash more, with which the last chunk is as short as an
inlined list. A list that is a full chunk *and* is inlined needs a larger limit than
this run has; `EntriesAreRight` is proved for every limit. Three syncs let the indexer move on twice while a round is under way. The bounds make the systems stop, as does a poller that was stopped, hence
`CHECK_DEADLOCK FALSE`.

The mappings are checked against the chain only where the code is documented to keep
them so: publishers that do not share a context, no crash between the writes,
and no lost reply of `ReplaceHead`. (AdPublisher needs no such exception: where a reply
is lost it forgets the mappings, and counts the context as `dropped`.) A context whose undo failed is exempt until it is
next published, because the call said so (`torn`). The transactional batch store
needs none of these.

The mappings of queued adverts (`AdvertisedIsTrue`) are checked where the callers' own
calls succeed (`CallsFail` is FALSE) and everything on the poller's side may fail or
stop; the first disagreement below says why. `JobsPublished` is checked for one worker;
advert_queue_shared shows why. `OneHolder` and the queue runs suppose that a job's
visibility does not time out while the poller holds it (`EarlyTimeout`), which is the
queue's configuration: a handler has five minutes. The proof of `OneHolder` supposes it too;
that of `NoJobLost` does not.

Fairness of publish_retry: every publisher that can take a step does, and a caller
calls again after an error, as the repository's own test of concurrent publishing
does. Nothing is assumed about who wins the head. Calls do not fail in that run
except by losing the head: a store that fails for ever publishes nothing.

Fairness of poller. `StopEnds` assumes that the polling goroutine and the goroutine in
Stop run (`PollFairness`), which the Go scheduler does, and nothing of handlers and
workers, which may never go on: what frees the loop is that handing over to the pool
gives up when the context is cancelled. It is about a poller that was started: Stop on
another waits for a loop that is not there. `EveryJobDone` assumes more, and says so in
its own statement (`JobFairness`): the process stops finitely often, Start is called, workers run, visibilities time out,
a job that is visible again and again is in the answer of a Read in the end, and of the
handler's and the queue's answers for it not all are errors. These are promises of the
queue and the handler; that the poller adds no loss of its own is what is checked.

Fairness of local_store. Each writer's `Step` is strongly fair: a goroutine that waits for
a mutex that is free again and again gets it in the end, which Go's mutex promises
(its starvation mode). A step of writing includes failing, so nothing is assumed of the
disk but that it answers.

Fairness of notifier. The ticker keeps ticking and the indexer answers in the end (`Fetch`);
registered functions return (`Call`, `AllCalled`); the write of the head does not fail for
ever (`Save`, strongly, because a failed save goes back to a fetch); and Go's `select`, which
chooses at random among the cases that are ready, does not pass over the done channel for
ever (`ReceiveDone`, strongly). Nothing is assumed of the indexer's syncs.

## Disagreements between code and documentation

`AdvertisementQueuePublisher.Publish` (`pkg/queue/queue.go:128`) generates the advert, which
writes the mappings, and returns the error of queueing its job without undoing them.
A retry is told `ErrAlreadyAdvertised`, "an advertisement for identical content was
already published" (`pkg/publisher/errors.go:10`), while the chain and the queue are
empty. A process that stops between the mappings and the head, with `Publish` or the
default batch store, leaves the same state behind: no run checks the agreement of
mappings and chain with crashes, except for the transactional store. The queue's runs
have `CallsFail` for it: with TRUE, TLC finds `AdvertisedIsTrue` violated. (The error may
also be of a job that was queued all the same; `EnqueueFails` has both.)

`advert_queue_shared`: two workers add their adverts to the same pending list. One
takes the list, the other adds its advert, the first clears the list. The second
worker's Commit finds nothing to commit and reports no error, and its job is deleted,
though its advert is in nobody's hands; `pkg/queue/poller.go:300` deletes a job "if
processing was successful". The concurrency is 100 workers by default.

`Publish` "is not safe for concurrent use and advertisements may be lost if called
concurrently" (`pkg/publisher/publisher.go:40`; `New` says the same, line 89). No run
contradicts that: publish_shared has separate `IPNIPublisher`s, each called serially, and
what `NoAdvertLost` shows is that between *those* the conditional write of the head is
enough for the chain. Concurrent calls on *one* IPNIPublisher share
`batchPublisher.pending` (lines 122 and 123). There the Commit of one call may take, and commit
or fail with, the advert another has added; the other's Commit then finds nothing pending
and returns the old head and no error. It is the race of advert_queue_shared, between
goroutines instead of workers, and `Publish` does not model it. `NewPublishingQueuePoller`
runs its handler on up to 100 workers that share the publisher it is given, so that one must
have the mutex, or be used with a concurrency of one.

When a write of the head file of a directory store fails or is interrupted after the file was
truncated (`pkg/store/store.go:658`), the file stays as it is: `Publish` reads the head first and
fails on it, `Replace` refuses it, and the server answers 200 with what is there. Every
advert that was published is out of reach for good, unless somebody repairs the file
by hand. Nothing in the repository says otherwise, and `PublishedServed` states it: until then what
calls returned stays on the chain that is served, and from then on no call returns a link.

A directory store's missing file is `os.ErrNotExist`, which `IsNotFound` does not know
(`pkg/store/store.go:504`). So `Publish` to an empty directory fails at reading the head, and
the server answers 500 for a directory without a head. LocalStore has it so
(`ReadHeadFails`, `ServeHTTP`), and starts with an empty directory or with a chain.

A tiered finder's documentation says that a finder that finds nothing counts as failed
and that "an error is returned" if all fail (`pkg/client/tiered.go:31`); when all of
them answer and none finds anything, the code returns an empty response and no error.

## Proofs

For any sets of publishers, contexts, lists and metadata, any bounds, and any
combination of failures, lost replies and crashes, from the assumptions that `Nil` is
neither a list nor a metadata and that `Blockless` lists are lists:

- `TypeCorrect`: `Spec => []TypeOK`. TypeOK says also that what a committing publisher
  advertises is not `Nil`; without it the links would not be sequences of adverts.
- `NoAdvertIsLost`: `Spec => []NoAdvertLost`, from `HeadStep`: a step leaves the head,
  or appends one advert to the head that it was read as. A chain that is appended to
  keeps its prefixes (`AppendPrefixes`).
- `ImplementsChain`: `Spec => ChainSpec`, from the same `HeadStep`.
- `HeadIsClosed`: `Spec => []HeadClosed`. HeadClosed alone is not inductive: the
  conjunction `ChainInv` says that *every* stored advert can be walked from, that the
  head a publisher builds on can, that its advert is stored by the time it replaces
  the head (`WalkInv`), and that every entries link mapped or held in a local has its
  blocks (`EntriesInv`). Blocks are never deleted, so what can be walked stays so.

Of Publish where each context has one publisher, processes do not stop within a call and
a write of the head that is reported as failed did fail (`Private`, the conditions the
runs check these properties under; any other failure may happen):

- `MappingsStayAgreed`: `Spec => []MappingsAgree`. The invariant `AgreeInv` follows the record
  through a call: until a call has read the mappings they agree with the chain; from then
  on the record it restores on failure does (`old`), whatever other contexts are
  published meanwhile; and the mappings hold what it has written so far. An advert
  changes what the chain says of its own context only (`AgreesOther`, `AgreesNewest`).
- `AlreadyAdvertisedStaysTrue`: `Spec => AlreadyAdvertisedIsTrue`, from the same invariant.

Of PublishBatch, through either batch store, for any failures, lost replies and crashes:

- `TypeCorrect`, `NoAdvertIsLost`, `ImplementsChain` and `HeadIsClosed`, as for Publish. The
  invariant says of a call more than Publish's: that the planned chain extends the head it
  found, advert by advert (`Extends`), which adverts of it are stored, and that
  every record it loaded, planned or may write back has its blocks, since a rollback
  writes old records.

Of PublishBatch through a transactional batch store (`Transactional`), where publishers may share
every context, crash, and lose replies:

- `MappingsNeverDisagree`: `Spec => []MappingsAlwaysAgree`, and `NoAdvertIsRepeated`:
  `Spec => []NoRepeatedAdvert`. `AgreeInv` says of a plan whose head is still the head of the
  store (`PlanAgrees`) that the records it loaded are those of the store, that each change
  is what the planned chain says of its context, and that the contexts it leaves alone
  agree with the planned chain as they are. A commit of another publisher makes the head
  longer (`BaseInv`: what a call found is a prefix of the head), so a plan whose head is
  gone stays without one, and the conditional commit refuses it.

Of PublishBatch through the default batch store, under the conditions of Publish's theorem
(each context has one publisher, no crash within a call, no lost reply; `~Transactional`, `Private`,
`~MayCrash`, `~LostReply`, as in the run `batch_private`):

- `MappingsStayAgreed`: `Spec => []MappingsAgree`, at whichever write of whichever change a batch
  fails. The invariant `DefaultInv` was checked by TLC on that run's instance before it was
  proved. It says of each change of a call which of its two mappings hold the old value and which
  the new (`ChangesStand`, by the label and index of the loop the call is in, while it writes and
  while it writes back); that the old record of each change is what the head says, whatever
  others have committed (`RestAgrees`); and that the planned chain says the new record of what
  it changes, and of any other context what the head that was found says (`PlanSays`). So a
  commit, which finds that head, makes the mappings true, and a rollback leaves them
  true. That a context has one change (`OneChangeEach`) is what the rollback rests on: the old
  record of a context named twice is the one from before both adverts. A context that an
  undo could not put back is exempt (`torn`) until a commit writes it again.

Of AdPublisher, for any publishers, contexts, bounds, failures and lost replies:

- `TypeCorrect`: `Spec => []TypeOK`. It says that a loop over the adverts a commit took stays
  among them (`NextUndo` counts down, `PutAd` up), so that each step has an advert.
- `ImplementsChain`: `Spec => ChainSpec`, from `HeadStep`: only a commit moves the head, from the
  head it read to that head with all it took behind it (`LinksOf`).
- `HeadIsClosed`: `Spec => []HeadClosed`. The invariant adds to the entries that are mapped or
  held by a call (`MapsInv`, `LocalsInv`) those of every advert that waits in a batch
  (`BatchInv`), and says how far the chain of a commit can be walked by now (`Walks`): up to
  the advert before the one it writes next, and all of it once it replaces the head.

- `MappingsStayAgreed`: `Spec => []MappingsAgree`, with no condition on who fails: this is the
  one part of the system where lost replies are allowed for. The invariant `AgreeInv` says of each publisher that its adverts are
  its own contexts' (`Mine`); of a call of GenerateAd, what Publish's says, of the chain with
  the pending adverts behind it (`GenAgrees`); of the other contexts, that their mappings say
  what the chain and the batch say, while it is pending and while it is committed
  (`RestAgrees`); and of an undo, which runs newest first, that the contexts it has been at
  are given up and unmapped and those it is not about are left alone (`UndoAgrees`).
  What two chains say one behind the other is what the second says, if it mentions the
  context (`AgreesConcat`), so that adverts of others can come between head and batch
  (`OthersStayAgreed`), and it is all the same whether a failed commit moved the head.

Of QueuePoller, for any jobs, workers, batch size, buffer and modes, early visibility
timeouts and crashes included, where batch size and buffer are positive:

- `TypeCorrect`: `Spec => []TypeOK`. It says that a worker that settles a batch has a
  job to settle: without it, the job that is released or deleted would not be one.
- `NoJobIsLost`: `Spec => []NoJobLost`. What a worker deletes, it deletes several steps
  after the handler returned; `SettledAreFinished` carries the handler's answer over
  those steps: a job left in a settling worker's batch whose result is not an error is
  finished. `NextJob` only shortens the batch, so it stays true of what is left.

- `EachJobHasOneHolder`: `Spec => []OneHolder`, where visibilities do not end early
  (`~EarlyTimeout`). The invariant `HoldInv` says that the loop's batch, the batches in the
  pool's channel and those of the workers share no job and repeat none (`Apart`), and that the
  queue shows nobody a job that is in one of them: what Read answers is new to them all.

Of AdvertQueue, for any callers, contexts, jobs, workers and bounds, where any call may fail,
replies may be lost and the process may crash. Its callers are `Publish`'s generating half and
its poller is `QueuePoller`, so the proofs take over what is shown of those: `GenP` and
`PollerP` are instances of their proof modules.

- `ImplementsPoller`: `Spec => PollerP!Spec`. Each step of the handler is a stutter of the poller
  or the return of its handler with some results, so that what is proved of QueuePoller
  with any handler is true of this one.
- `TypeCorrect`: `Spec => []TypeOK`, with `Placed`: a worker's index stays in its batch, and in
  what it took to commit, though other workers change the pending adverts.
- `ImplementsChain` and `HeadIsClosed`, with several workers as with one. `EntriesInv` adds to what
  Publish's says the adverts of jobs, pending or taken (`QueuedInv`).
- `JobsGetPublished`: with `OneWorker`, `Spec => []JobsPublished`. With more the property fails
  (advert_queue_shared). `Collected` follows the adverts of a batch: into what is pending,
  into what the commit takes, to the end of the commit; `Settles` says that a handler
  whose commit had no error has them on the chain, and that the results the poller settles
  by say so for each job until it is deleted.
- `AdvertisedStaysTrue`: with `OneWorker`, one publisher to a context (`Private`) and `~CallsFail`,
  `Spec => []AdvertisedIsTrue`. `CallsFail` is refuted by the first disagreement above. A commit
  that fails deletes the mappings of its adverts while a call may be between reading
  and writing them, hence `Writes` (they are as the call read and wrote them, or gone) and
  `Quiet`; a job that is committed and not yet deleted backs its mappings, one whose
  mappings are about to be deleted need not (`Backs`, `Dooms`).

Of LocalStore, for any writers, lists and chunk sizes, any failures and crashes:

- `TypeCorrect`: `Spec => []TypeOK`, together with `MutexInv`: who holds the mutex is at a
  write, whose file is torn, and if it is the head file, the head is what the writer read.
- `ImplementsChain`, from `HeadStep`: since the comparison of the head is made under the
  mutex, a write of the head file appends one advert to what is there. `head` is the last
  head that was written whole: this is about what calls build on, not about what can
  be read.
- `PublishedStaysServed`: `Spec => PublishedServed`, which is about what can be read. `Linked` says that
  what calls returned is behind the last whole head, from `HeadStep`; `TornInv` that
  the head file is torn only while it is written or since a write of it failed; and `HeadRuined`
  that such a file is not written again, since its writer compares the head first.
- `HeadIsServed`: `Spec => []HeadServed`, from `StoredInv` (every block the head reaches, and
  each that a writer has put for its next head, has a file, torn or whole: no write removes
  a file) and `TornInv` (a file is torn only while the mutex's holder fills it, or since a
  write of it failed).
- `EntriesAreRight`: `Spec => []EntriesRight`, for every list, chunk size and limit of inlining,
  from `EntriesInv`: at each chunk putEntries writes, the chunks so far and what is left are
  the list (`Chunked`), all chunks are full while something is left, and nothing short has
  been written out. `CountSplit` and the lemmas after it count the multihashes.

Of Notifier, for any functions, any number of syncs, and any failures and restarts:

- `Typed`, `NeverToldTwice` (`Spec => []NoHeadTwice`) and `ToldInOrder` (`Spec => []CallsLinkUp`),
  from the invariant `IInv`: what is cached is no newer than what is saved, and that no
  newer than the indexer's head (`Ordered`); no function was told of more than is saved,
  and outside a round no more than is cached (`ToldSaved`), so that a head saved and not
  told is not fetched as an older one; a function is registered once (`CallsOnce`); and
  the functions told by this process were told the cached head (`ToldHere`).

Model-checked only: liveness, of which TLAPS has no proof under fairness. Every invariant of a
passing run is stated by a theorem. Induction over data is out of the prover's reach, and the
model avoids it: links are compared by their prefixes and indices, and what Entries yields
is a function from the places in the chunks, not their concatenation.
Not proved either is what holds of the mappings under a crash, a lost reply or a shared context with
the default batch store: there they may disagree with the chain, as the hazards say.

## Not modelled

- `pkg/metadata` and `pkg/advertisement`: each function encodes, decodes or rewrites one value
  (a metadata record, a context ID, the addresses of a provider); there is no state and
  no order of events, and their layout is all there is to them.
- `pkg/client` TieredFinder: a loop over finders with no state between calls; what its result
  is was compared with its documentation (above).
- `pkg/server` Start, Shutdown and the paths it refuses: they touch no state of the system.
- Options and test helpers: configuration.
- Signing, hashing and the encoding of blocks: links are what they hash.

## Plan

1. (done) `AdStore`, `AdvertChain`, `Publish`, `PublishBatch`, `QueuePoller`, `AdvertQueue`.
2. (done) `Notifier`, `LocalStore`, `AdPublisher`.
3. (done) Proofs about every module.
4. (done) The rollback of the default batch store: `MappingsAgree` of PublishBatch.
5. `TieredFinder` as an operator against its documented result.
