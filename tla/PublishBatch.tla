---------------------------- MODULE PublishBatch ----------------------------
(***************************************************************************)
(* IPNIPublisher.PublishBatch (pkg/publisher/batch.go): publishers that    *)
(* share one store, each publishing a batch of adverts under one head.  A  *)
(* call reads the head and the records of its contexts, plans the adverts  *)
(* in memory, stores them, and commits the records with the head.          *)
(*                                                                         *)
(* The batch store is either the default one, which makes one call of the  *)
(* store per mapping and writes back what it wrote when a call fails, or a *)
(* transactional one that meets the contract of store.BatchStore.          *)
(***************************************************************************)
EXTENDS AdStore

CONSTANTS
  Publishers,
  Owns,           \* Owns[p]: the contexts p publishes
  Transactional,  \* is the batch store transactional?
  MayCrash,       \* may a publisher stop in the middle of a call?
  MaxSpecs,       \* bound: the adverts asked for in one call
  MaxCalls        \* bound: the calls of all the publishers

ASSUME OwnsAssumption == Owns \in [Publishers -> SUBSET Contexts]
ASSUME ModeAssumption == Transactional \in BOOLEAN /\ MayCrash \in BOOLEAN
ASSUME BoundsAssumption == MaxSpecs \in Nat /\ MaxCalls \in Nat

AdvertSpec == [ctx : Contexts, digests : Digests, md : Metadatas]

\* A context's record before and after the batch.
ContextChange == [ctx : Contexts, old : ContextRecord, new : ContextRecord]

VARIABLES
  pc,       \* pc[p]: the store call p is about to make, or "idle"
  specs,    \* specs[p]: the arguments of p's call
  i,        \* i[p]: the index of the loop that p is in
  base,     \* base[p]: the head the call found
  records,  \* records[p]: the records LoadContexts found
  changes,  \* changes[p]: the records it plans to write, in the order of the specs
  prev,     \* prev[p]: prevLink, the link of the last advert it planned
  calls,    \* the calls made, for the bound
  acked,    \* history: the links that calls have returned
  torn      \* history: the contexts a call reported it could not put back

vars == <<head, adverts, blocks, chunkLink, metadata,
          pc, specs, i, base, records, changes, prev, calls, acked, torn>>

Labels == {"idle", "readHead", "loadChunk", "loadMeta", "plan", "putAdvert",
           "writeChunk", "writeMeta", "replaceHead", "commitBatch",
           "undoChunk", "undoMeta"}

NoRecords == [c \in Contexts |-> NoRecord]

TypeOK ==
  /\ StoreTypeOK
  /\ pc \in [Publishers -> Labels]
  /\ specs \in [Publishers -> Seq(AdvertSpec)]
  /\ i \in [Publishers -> Nat \ {0}]
  /\ base \in [Publishers -> Link]
  /\ records \in [Publishers -> [Contexts -> ContextRecord]]
  /\ changes \in [Publishers -> Seq(ContextChange)]
  /\ prev \in [Publishers -> Link]
  /\ calls \in 0..MaxCalls
  /\ acked \subseteq Link
  /\ torn \subseteq Contexts

Init ==
  /\ StoreInit
  /\ pc = [p \in Publishers |-> "idle"]
  /\ specs = [p \in Publishers |-> <<>>]
  /\ i = [p \in Publishers |-> 1]
  /\ base = [p \in Publishers |-> <<>>]
  /\ records = [p \in Publishers |-> NoRecords]
  /\ changes = [p \in Publishers |-> <<>>]
  /\ prev = [p \in Publishers |-> <<>>]
  /\ calls = 0
  /\ acked = {}
  /\ torn = {}

\* The next store call, and where in its loop it is.
Goto(p, label, index) ==
  /\ pc' = [pc EXCEPT ![p] = label]
  /\ i' = [i EXCEPT ![p] = index]

Advance(p) == Goto(p, pc[p], i[p] + 1)

\* The call returns, with a link or an error, and its locals are gone.
Return(p) ==
  /\ Goto(p, "idle", 1)
  /\ specs' = [specs EXCEPT ![p] = <<>>]
  /\ base' = [base EXCEPT ![p] = <<>>]
  /\ records' = [records EXCEPT ![p] = NoRecords]
  /\ changes' = [changes EXCEPT ![p] = <<>>]
  /\ prev' = [prev EXCEPT ![p] = <<>>]

ASpec(p) == specs[p][i[p]]
Change(p) == changes[p][i[p]]
ChangedContexts(p) == {changes[p][k].ctx : k \in DOMAIN changes[p]}

-----------------------------------------------------------------------------
(* Reading *)

\* PublishBatch is called.
Call(p) ==
  /\ pc[p] = "idle"
  /\ calls < MaxCalls
  /\ calls' = calls + 1
  /\ \E s \in BoundedSeq({r \in AdvertSpec : r.ctx \in Owns[p]}, MaxSpecs) :
       specs' = [specs EXCEPT ![p] = s]
  /\ Goto(p, "readHead", 1)
  /\ UNCHANGED <<store, base, records, changes, prev, acked, torn>>

\* The head is read before the records: the commit's conditional write of the
\* head then covers the records too.
ReadHead(p) ==
  /\ pc[p] = "readHead"
  /\ base' = [base EXCEPT ![p] = head]
  /\ prev' = [prev EXCEPT ![p] = head]
  /\ Goto(p, "loadChunk", 1)
  /\ UNCHANGED <<store, specs, records, changes, acked, torn>>

\* A context that an earlier spec names has been loaded already.
Loaded(p) == \E k \in 1..i[p]-1 : specs[p][k].ctx = ASpec(p).ctx

\* LoadContexts of the default batch store: the two mappings of one context
\* after the other.
LoadChunk(p) ==
  /\ pc[p] = "loadChunk" /\ ~Transactional /\ i[p] <= Len(specs[p])
  /\ IF Loaded(p)
     THEN Advance(p) /\ UNCHANGED records
     ELSE /\ records' = [records EXCEPT ![p][ASpec(p).ctx].chunk = chunkLink[ASpec(p).ctx]]
          /\ Goto(p, "loadMeta", i[p])
  /\ UNCHANGED <<store, specs, base, changes, prev, acked, torn>>

LoadMeta(p) ==
  /\ pc[p] = "loadMeta"
  /\ records' = [records EXCEPT ![p][ASpec(p).ctx].md = metadata[ASpec(p).ctx]]
  /\ Goto(p, "loadChunk", i[p] + 1)
  /\ UNCHANGED <<store, specs, base, changes, prev, acked, torn>>

AllLoaded(p) ==
  /\ pc[p] = "loadChunk" /\ ~Transactional /\ i[p] > Len(specs[p])
  /\ Goto(p, "plan", 1)
  /\ UNCHANGED <<store, specs, base, records, changes, prev, acked, torn>>

\* LoadContexts of a transactional batch store reads every record at once.
LoadContexts(p) ==
  /\ pc[p] = "loadChunk" /\ Transactional
  /\ records' = [records EXCEPT ![p] =
       [c \in Contexts |-> IF \E k \in DOMAIN specs[p] : specs[p][k].ctx = c
                           THEN Record(c) ELSE NoRecord]]
  /\ Goto(p, "plan", 1)
  /\ UNCHANGED <<store, specs, base, changes, prev, acked, torn>>

\* A read fails: the call returns with nothing written.
LoadFails(p) ==
  /\ pc[p] \in {"readHead", "loadChunk", "loadMeta"}
  /\ ReadFails
  /\ Return(p)
  /\ UNCHANGED <<acked, torn>>

-----------------------------------------------------------------------------
(* Planning *)

\* Variant: what an earlier spec of the batch left is not looked at.
CurrentLoaded(p, c) == records[p][c]

\* What the context's record is by now: what an earlier spec of the batch left,
\* or what was loaded.
Current(p, c) ==
  IF c \in ChangedContexts(p)
  THEN changes[p][CHOOSE k \in DOMAIN changes[p] : changes[p][k].ctx = c].new
  ELSE records[p][c]

\* Variant: the entries mapping that was found is kept, though there was none.
NextRecordKept(cur, s) == [chunk |-> cur.chunk, md |-> s.md]

\* nextRecord: an existing entries mapping is kept.
NextRecord(cur, s) ==
  [chunk |-> IF cur.chunk = Nil THEN s.digests ELSE cur.chunk, md |-> s.md]

\* Variant: the change is not brought up to date by a later spec.
PlannedOnce(p, s, next) ==
  IF s.ctx \in ChangedContexts(p)
  THEN changes[p]
  ELSE Append(changes[p], [ctx |-> s.ctx, old |-> records[p][s.ctx], new |-> next])

\* A context advertised twice has one change, from the record it was loaded
\* with to the one its last advert leaves.
Planned(p, s, next) ==
  IF s.ctx \in ChangedContexts(p)
  THEN [k \in DOMAIN changes[p] |->
          IF changes[p][k].ctx = s.ctx THEN [changes[p][k] EXCEPT !.new = next]
                                       ELSE changes[p][k]]
  ELSE Append(changes[p], [ctx |-> s.ctx, old |-> records[p][s.ctx], new |-> next])

AlreadyAdvertised(cur, s) == cur.chunk # Nil /\ cur.md = s.md

\* One spec: skipped when it is already advertised, else its entries are
\* written unless they are mapped, and its advert is linked to the last one.
PlanSpec(p) ==
  /\ pc[p] = "plan" /\ i[p] <= Len(specs[p])
  /\ LET s == ASpec(p)
         cur == Current(p, s.ctx)
         next == NextRecord(cur, s)
     IN  IF AlreadyAdvertised(cur, s)
         THEN UNCHANGED <<store, changes, prev>>
         ELSE /\ IF cur.chunk = Nil THEN PutEntries(s.digests) ELSE UNCHANGED store
              /\ changes' = [changes EXCEPT ![p] = Planned(p, s, next)]
              /\ prev' = [prev EXCEPT ![p] = Append(prev[p],
                   [ctx |-> s.ctx, entries |-> next.chunk, md |-> next.md])]
  /\ Advance(p)
  /\ UNCHANGED <<specs, base, records, acked, torn>>

\* Writing entries, signing or validating fails: no mapping is written yet.
PlanFails(p) ==
  /\ pc[p] = "plan" /\ i[p] <= Len(specs[p])
  /\ LET cur == Current(p, ASpec(p).ctx)
     IN  ~AlreadyAdvertised(cur, ASpec(p)) /\
         IF cur.chunk = Nil THEN WriteFails(PutEntries(ASpec(p).digests))
                            ELSE ReadFails
  /\ Return(p)
  /\ UNCHANGED <<acked, torn>>

\* Every spec was skipped: the link of the head as it was found.
NothingToCommit(p) ==
  /\ pc[p] = "plan" /\ i[p] > Len(specs[p]) /\ prev[p] = base[p]
  /\ acked' = acked \cup {prev[p]}
  /\ Return(p)
  /\ UNCHANGED <<store, torn>>

AllPlanned(p) ==
  /\ pc[p] = "plan" /\ i[p] > Len(specs[p]) /\ prev[p] # base[p]
  /\ Goto(p, "putAdvert", Len(base[p]) + 1)
  /\ UNCHANGED <<store, specs, base, records, changes, prev, acked, torn>>

-----------------------------------------------------------------------------
(* Writing *)

\* Variant: the last advert of the batch is left out.
PutAdButLast(p) ==
  /\ pc[p] = "putAdvert"
  /\ IF i[p] < Len(prev[p])
     THEN PutAdvert(SubSeq(prev[p], 1, i[p])) /\ Advance(p)
     ELSE /\ UNCHANGED store
          /\ Goto(p, IF Transactional THEN "commitBatch" ELSE "writeChunk", 1)
  /\ UNCHANGED <<specs, base, records, changes, prev, acked, torn>>

\* PutAdverts, one advert after the other: no batch store promises more.
PutAd(p) ==
  /\ pc[p] = "putAdvert"
  /\ PutAdvert(SubSeq(prev[p], 1, i[p]))
  /\ IF i[p] < Len(prev[p])
     THEN Advance(p)
     ELSE Goto(p, IF Transactional THEN "commitBatch" ELSE "writeChunk", 1)
  /\ UNCHANGED <<specs, base, records, changes, prev, acked, torn>>

\* An advert or the signing of the head fails: no mapping is written yet.
PutAdvertsFails(p) ==
  /\ pc[p] = "putAdvert"
  /\ WriteFails(PutAdvert(SubSeq(prev[p], 1, i[p])))
  /\ Return(p)
  /\ UNCHANGED <<acked, torn>>

\* CommitBatch of a transactional batch store: every record and the head, or
\* nothing.
ApplyBatch(p) ==
  LET written == ChangedContexts(p)
  IN  /\ head = base[p]
      /\ head' = prev[p]
      /\ chunkLink' = [c \in Contexts |->
                         IF c \in written THEN Current(p, c).chunk ELSE chunkLink[c]]
      /\ metadata' = [c \in Contexts |->
                        IF c \in written THEN Current(p, c).md ELSE metadata[c]]
      /\ UNCHANGED <<adverts, blocks>>

\* The commit succeeds and the call returns the new head; the announce that
\* follows changes nothing, and its failure is only logged.
Commit(p) ==
  /\ acked' = acked \cup {prev[p]}
  /\ torn' = torn \ ChangedContexts(p)
  /\ Return(p)

CommitBatch(p) == pc[p] = "commitBatch" /\ ApplyBatch(p) /\ Commit(p)

CommitBatchFails(p) ==
  /\ pc[p] = "commitBatch"
  /\ \/ (head # base[p] \/ Faulty) /\ UNCHANGED store
     \/ Faulty /\ LostReply /\ ApplyBatch(p)
  /\ Return(p)
  /\ UNCHANGED <<acked, torn>>

\* CommitBatch of the default batch store.  writeRecord writes the mappings
\* that the change changes, the entries link and then the metadata.
WriteChunk(p) ==
  /\ pc[p] = "writeChunk"
  /\ LET c == Change(p)
     IN  IF c.new.chunk = c.old.chunk THEN UNCHANGED store
                                      ELSE PutChunkLink(c.ctx, c.new.chunk)
  /\ Goto(p, "writeMeta", i[p])
  /\ UNCHANGED <<specs, base, records, changes, prev, acked, torn>>

WriteMeta(p) ==
  /\ pc[p] = "writeMeta"
  /\ LET c == Change(p)
     IN  IF c.new.md = c.old.md THEN UNCHANGED store ELSE PutMetadata(c.ctx, c.new.md)
  /\ IF i[p] < Len(changes[p]) THEN Goto(p, "writeChunk", i[p] + 1)
                               ELSE Goto(p, "replaceHead", 1)
  /\ UNCHANGED <<specs, base, records, changes, prev, acked, torn>>

\* Variant: the head to replace is read again.
CommitHeadReread(p) ==
  /\ pc[p] = "replaceHead"
  /\ ReplaceHead(head, prev[p])
  /\ Commit(p)

CommitHead(p) ==
  /\ pc[p] = "replaceHead"
  /\ ReplaceHead(base[p], prev[p])
  /\ Commit(p)

-----------------------------------------------------------------------------
(* Rolling back, with the default batch store                              *)

\* Variant: the change whose writing failed is not written back.
RollbackWritten(p, n) ==
  /\ changes' = [changes EXCEPT ![p] = SubSeq(changes[p], 1, IF n > 1 THEN n - 1 ELSE n)]
  /\ Goto(p, "undoChunk", 1)

\* The changes whose writing has begun are the ones to write back.
Rollback(p, n) ==
  /\ changes' = [changes EXCEPT ![p] = SubSeq(changes[p], 1, n)]
  /\ Goto(p, "undoChunk", 1)

WriteRecordFails(p) ==
  /\ LET c == Change(p)
     IN  \/ /\ pc[p] = "writeChunk" /\ c.new.chunk # c.old.chunk
            /\ WriteFails(PutChunkLink(c.ctx, c.new.chunk))
         \/ /\ pc[p] = "writeMeta" /\ c.new.md # c.old.md
            /\ WriteFails(PutMetadata(c.ctx, c.new.md))
  /\ Rollback(p, i[p])
  /\ UNCHANGED <<specs, base, records, prev, acked, torn>>

CommitHeadFails(p) ==
  /\ pc[p] = "replaceHead"
  /\ ReplaceHeadFails(base[p], prev[p])
  /\ Rollback(p, Len(changes[p]))
  /\ UNCHANGED <<specs, base, records, prev, acked, torn>>

\* restoreMappings of one change: both mappings are put back, the second
\* whether or not the first was.
UndoChunk(p) ==
  /\ pc[p] = "undoChunk"
  /\ LET c == Change(p)
     IN  \/ PutChunkLink(c.ctx, c.old.chunk) /\ UNCHANGED torn
         \/ WriteFails(PutChunkLink(c.ctx, c.old.chunk)) /\ torn' = torn \cup {c.ctx}
  /\ Goto(p, "undoMeta", i[p])
  /\ UNCHANGED <<specs, base, records, changes, prev, acked>>

UndoMeta(p) ==
  /\ pc[p] = "undoMeta"
  /\ LET c == Change(p)
     IN  \/ PutMetadata(c.ctx, c.old.md) /\ UNCHANGED torn
         \/ WriteFails(PutMetadata(c.ctx, c.old.md)) /\ torn' = torn \cup {c.ctx}
  /\ IF i[p] < Len(changes[p])
     THEN /\ Goto(p, "undoChunk", i[p] + 1)
          /\ UNCHANGED <<specs, base, records, changes, prev>>
     ELSE Return(p)
  /\ UNCHANGED acked

-----------------------------------------------------------------------------

\* The process stops; what it wrote stays, what it held in memory is gone.
Crash(p) ==
  /\ MayCrash
  /\ pc[p] # "idle"
  /\ Return(p)
  /\ UNCHANGED <<store, acked, torn>>

Step(p) ==
  \/ ReadHead(p) \/ LoadChunk(p) \/ LoadMeta(p) \/ AllLoaded(p)
  \/ LoadContexts(p) \/ LoadFails(p)
  \/ PlanSpec(p) \/ PlanFails(p) \/ NothingToCommit(p) \/ AllPlanned(p)
  \/ PutAd(p) \/ PutAdvertsFails(p)
  \/ CommitBatch(p) \/ CommitBatchFails(p)
  \/ WriteChunk(p) \/ WriteMeta(p) \/ CommitHead(p)
  \/ WriteRecordFails(p) \/ CommitHeadFails(p)
  \/ UndoChunk(p) \/ UndoMeta(p)

Next == \E p \in Publishers : Call(p) \/ ((Step(p) \/ Crash(p)) /\ UNCHANGED calls)

Spec == Init /\ [][Next]_vars

-----------------------------------------------------------------------------
(* Properties *)

\* A link that a call returned is on the chain for good: the head is replaced
\* only where it is the head the batch linked its first advert to (batch.go,
\* CommitBatch).
NoAdvertLost == acked \subseteq Prefixes(head)

Chain == INSTANCE AdvertChain

\* Publishing batches implements the abstract chain: a commit adds its adverts
\* behind the head, a call with nothing to add acknowledges a link of the chain.
ChainSpec == Chain!Spec

\* No call is at work on the context.
Settled(c) ==
  \A p \in Publishers : \A k \in DOMAIN specs[p] : specs[p][k].ctx # c

\* Between calls the mappings of a context say what the newest advert for it on
\* the chain says, unless a call reported that it could not put them back: "on
\* failure the store holds the mappings it held before the call"
\* (publisher.go, PublishBatch), at whichever write it failed.
MappingsAgree ==
  \A c \in Contexts \ torn : Settled(c) => Agrees(Record(c), head, c)

\* With a transactional batch store the mappings say so at every moment, for
\* contexts that publishers share and through crashes too: the head is read
\* before the records, so the conditional write of the head guards them.
MappingsAlwaysAgree == \A c \in Contexts : Agrees(Record(c), head, c)

\* No advert repeats the metadata of the advert before it for the same context,
\* though calls race, are retried after errors, and name a context twice: "a
\* spec whose content is already advertised with identical metadata is skipped"
\* (publisher.go, PublishBatch).
NoRepeatedAdvert ==
  \A j, k \in DOMAIN head :
    /\ j < k /\ head[j].ctx = head[k].ctx
    /\ \A n \in j+1..k-1 : head[n].ctx # head[j].ctx
    => head[j].md # head[k].md
=============================================================================
