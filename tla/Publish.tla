------------------------------ MODULE Publish ------------------------------
(***************************************************************************)
(* IPNIPublisher.Publish (pkg/publisher): publishers that share one store. *)
(* Each is an IPNIPublisher of its own, used as its documentation asks,    *)
(* one call at a time, so that what it has pending is the advert of that   *)
(* call.  A call generates the advert, which writes the context's          *)
(* mappings, then commits it: stores the advert after the head it reads    *)
(* and replaces that head.  A call that fails after it has read what the   *)
(* mappings were puts them back.                                           *)
(*                                                                         *)
(* One step is one call of the store, so the steps of different publishers *)
(* interleave wherever the code leaves the store.                          *)
(***************************************************************************)
EXTENDS AdStore

CONSTANTS
  Publishers,
  Owns,        \* Owns[p]: the contexts p publishes
  MayCrash,    \* may a publisher stop in the middle of a call?
  MaxAdverts   \* bound: no call starts once the chain has this many adverts

ASSUME OwnsAssumption == Owns \in [Publishers -> SUBSET Contexts]
ASSUME CrashAssumption == MayCrash \in BOOLEAN
ASSUME MaxAdvertsAssumption == MaxAdverts \in Nat

\* The arguments of a call.
Request == [ctx : Contexts, digests : Digests, md : Metadatas]

VARIABLES
  pc,     \* pc[p]: the store call p is about to make, or "idle"
  call,   \* call[p]: the arguments of p's call
  old,    \* old[p]: the record its generateAd found, for the undo
  new,    \* new[p]: the record it is advertising
  base,   \* base[p]: the head its commit found
  acked,  \* history: the links that calls have returned
  torn    \* history: the contexts a call reported it could not put back

local == <<pc, call, old, new, base>>
vars == <<head, adverts, blocks, chunkLink, metadata,
          pc, call, old, new, base, acked, torn>>

Generating == {"readChunk", "readMeta", "putEntries", "putChunk", "putMeta"}
Committing == {"readHead", "putAdvert", "replaceHead"}
Undoing    == {"undoChunk", "undoMeta"}
Labels     == {"idle"} \cup Generating \cup Committing \cup Undoing

TypeOK ==
  /\ StoreTypeOK
  /\ pc \in [Publishers -> Labels]
  /\ call \in [Publishers -> Request \cup {Nil}]
  /\ old \in [Publishers -> ContextRecord]
  /\ new \in [Publishers -> ContextRecord]
  /\ base \in [Publishers -> Link]
  /\ acked \subseteq Link
  /\ torn \subseteq Contexts
  /\ \A p \in Publishers : pc[p] # "idle" => call[p] \in Request
  /\ \A p \in Publishers :
       /\ pc[p] \in {"putEntries", "putChunk", "putMeta"} \cup Committing => new[p].md # Nil
       /\ pc[p] \in {"putChunk", "putMeta"} \cup Committing => new[p].chunk # Nil

Init ==
  /\ StoreInit
  /\ pc = [p \in Publishers |-> "idle"]
  /\ call = [p \in Publishers |-> Nil]
  /\ old = [p \in Publishers |-> NoRecord]
  /\ new = [p \in Publishers |-> NoRecord]
  /\ base = [p \in Publishers |-> <<>>]
  /\ acked = {}
  /\ torn = {}

Goto(p, label) == pc' = [pc EXCEPT ![p] = label]

\* The call returns, with a link or an error, and its locals are gone.
Return(p) ==
  /\ Goto(p, "idle")
  /\ call' = [call EXCEPT ![p] = Nil]
  /\ old' = [old EXCEPT ![p] = NoRecord]
  /\ new' = [new EXCEPT ![p] = NoRecord]
  /\ base' = [base EXCEPT ![p] = <<>>]

\* Variant: the error is returned and the undo forgotten.
UndoForgotten(p) == Return(p)

\* The call fails with its undo in hand.
Undo(p) == Goto(p, "undoChunk") /\ UNCHANGED <<call, old, new, base>>

Ctx(p) == call[p].ctx

\* The advert p commits, and the link it has behind the head p read.
Ad(p) == [ctx |-> Ctx(p), entries |-> new[p].chunk, md |-> new[p].md]
NewHead(p) == Append(base[p], Ad(p))

-----------------------------------------------------------------------------
(* generateAd *)

\* Publish is called.
Call(p) ==
  /\ pc[p] = "idle"
  /\ Len(head) < MaxAdverts
  /\ \E r \in Request :
       /\ r.ctx \in Owns[p]
       /\ call' = [call EXCEPT ![p] = r]
  /\ Goto(p, "readChunk")
  /\ UNCHANGED <<store, old, new, base, acked, torn>>

\* ChunkLinkForProviderAndContextID.
ReadChunk(p) ==
  /\ pc[p] = "readChunk"
  /\ old' = [old EXCEPT ![p].chunk = chunkLink[Ctx(p)]]
  /\ Goto(p, "readMeta")
  /\ UNCHANGED <<store, call, new, base, acked, torn>>

\* nextRecord: the content is mapped and carries the metadata already.
AlreadyAdvertised(p) == old[p].chunk # Nil /\ metadata[Ctx(p)] = call[p].md

\* Variant: a metadata row without an entries mapping passes for one with.
LacksMappings(p) == old[p].chunk = Nil /\ metadata[Ctx(p)] = Nil

\* nextRecord: the entries are written unless they are mapped.
LacksEntries(p) == old[p].chunk = Nil

\* MetadataForProviderAndContextID, with nextRecord's decision: the content is
\* already advertised, or is mapped and advertised again with the metadata, or
\* is not mapped and its entries come first.
ReadMeta(p) ==
  /\ pc[p] = "readMeta"
  /\ IF AlreadyAdvertised(p)
     THEN Return(p)
     ELSE /\ old' = [old EXCEPT ![p].md = metadata[Ctx(p)]]
          /\ new' = [new EXCEPT ![p] = [chunk |-> old[p].chunk, md |-> call[p].md]]
          /\ Goto(p, IF LacksEntries(p) THEN "putEntries" ELSE "putMeta")
          /\ UNCHANGED <<call, base>>
  /\ UNCHANGED <<store, acked, torn>>

\* Neither read leaves an undo: the call returns with nothing written.
ReadMappingsFails(p) ==
  /\ pc[p] \in {"readChunk", "readMeta"}
  /\ ReadFails
  /\ Return(p)
  /\ UNCHANGED <<acked, torn>>

PutEntriesOf(p) ==
  /\ pc[p] = "putEntries"
  /\ PutEntries(call[p].digests)
  /\ new' = [new EXCEPT ![p].chunk = call[p].digests]
  /\ Goto(p, "putChunk")
  /\ UNCHANGED <<call, old, base, acked, torn>>

PutChunk(p) ==
  /\ pc[p] = "putChunk"
  /\ PutChunkLink(Ctx(p), new[p].chunk)
  /\ Goto(p, "putMeta")
  /\ UNCHANGED <<call, old, new, base, acked, torn>>

\* The advert is made and handed to the AdvertisementPublisher with its undo.
PutMeta(p) ==
  /\ pc[p] = "putMeta"
  /\ PutMetadata(Ctx(p), new[p].md)
  /\ Goto(p, "readHead")
  /\ UNCHANGED <<call, old, new, base, acked, torn>>

\* One of generateAd's writes fails.
GenerateFails(p) ==
  /\ \/ pc[p] = "putEntries" /\ WriteFails(PutEntries(call[p].digests))
     \/ pc[p] = "putChunk" /\ WriteFails(PutChunkLink(Ctx(p), new[p].chunk))
     \/ pc[p] = "putMeta" /\ WriteFails(PutMetadata(Ctx(p), new[p].md))
  /\ Undo(p)
  /\ UNCHANGED <<acked, torn>>

-----------------------------------------------------------------------------
(* Commit *)

\* Variant: the head the publisher started with is remembered.
ReadHeadOnce(p) ==
  /\ pc[p] = "readHead"
  /\ base' = [base EXCEPT ![p] = <<>>]
  /\ Goto(p, "putAdvert")
  /\ UNCHANGED <<store, call, old, new, acked, torn>>

ReadHead(p) ==
  /\ pc[p] = "readHead"
  /\ base' = [base EXCEPT ![p] = head]
  /\ Goto(p, "putAdvert")
  /\ UNCHANGED <<store, call, old, new, acked, torn>>

\* Variant: the advert's link is computed and its block is not written.
PutAdLinkOnly(p) ==
  /\ pc[p] = "putAdvert"
  /\ Goto(p, "replaceHead")
  /\ UNCHANGED <<store, call, old, new, base, acked, torn>>

PutAd(p) ==
  /\ pc[p] = "putAdvert"
  /\ PutAdvert(NewHead(p))
  /\ Goto(p, "replaceHead")
  /\ UNCHANGED <<call, old, new, base, acked, torn>>

\* Variant: the head is read again for the conditional write, and not for the
\* advert's link.
CommitHeadReread(p) ==
  /\ pc[p] = "replaceHead"
  /\ ReplaceHead(head, NewHead(p))
  /\ acked' = acked \cup {NewHead(p)}
  /\ torn' = torn \ {Ctx(p)}
  /\ Return(p)

\* The head is replaced and the call returns the advert's link; the announce
\* that follows changes nothing, and its failure is only logged.
CommitHead(p) ==
  /\ pc[p] = "replaceHead"
  /\ ReplaceHead(base[p], NewHead(p))
  /\ acked' = acked \cup {NewHead(p)}
  /\ torn' = torn \ {Ctx(p)}
  /\ Return(p)

\* Reading the head, signing, validating or writing the advert fails, or the
\* head cannot be replaced.
CommitFails(p) ==
  /\ \/ pc[p] = "readHead" /\ ReadFails
     \/ pc[p] = "putAdvert" /\ WriteFails(PutAdvert(NewHead(p)))
     \/ pc[p] = "replaceHead" /\ ReplaceHeadFails(base[p], NewHead(p))
  /\ Undo(p)
  /\ UNCHANGED <<acked, torn>>

-----------------------------------------------------------------------------
(* restoreMappings: both mappings are put back, the second whether or not    *)
(* the first was, and the call returns its error joined with theirs.         *)

UndoChunk(p) ==
  /\ pc[p] = "undoChunk"
  /\ \/ PutChunkLink(Ctx(p), old[p].chunk) /\ UNCHANGED torn
     \/ WriteFails(PutChunkLink(Ctx(p), old[p].chunk)) /\ torn' = torn \cup {Ctx(p)}
  /\ Goto(p, "undoMeta")
  /\ UNCHANGED <<call, old, new, base, acked>>

\* Variant: the undo of the metadata is a delete.
UndoMetaDeletes(p) ==
  /\ pc[p] = "undoMeta"
  /\ PutMetadata(Ctx(p), Nil)
  /\ Return(p)
  /\ UNCHANGED <<acked, torn>>

UndoMeta(p) ==
  /\ pc[p] = "undoMeta"
  /\ \/ PutMetadata(Ctx(p), old[p].md) /\ UNCHANGED torn
     \/ WriteFails(PutMetadata(Ctx(p), old[p].md)) /\ torn' = torn \cup {Ctx(p)}
  /\ Return(p)
  /\ UNCHANGED acked

-----------------------------------------------------------------------------

\* The process stops; what it wrote stays, what it held in memory is gone.
Crash(p) ==
  /\ MayCrash
  /\ pc[p] # "idle"
  /\ Return(p)
  /\ UNCHANGED <<store, acked, torn>>

Step(p) ==
  \/ ReadChunk(p) \/ ReadMeta(p) \/ ReadMappingsFails(p)
  \/ PutEntriesOf(p) \/ PutChunk(p) \/ PutMeta(p) \/ GenerateFails(p)
  \/ ReadHead(p) \/ PutAd(p) \/ CommitHead(p) \/ CommitFails(p)
  \/ UndoChunk(p) \/ UndoMeta(p)

Next == \E p \in Publishers : Call(p) \/ Step(p) \/ Crash(p)

Spec == Init /\ [][Next]_vars

-----------------------------------------------------------------------------
(* Properties *)

\* A link that a call returned is on the chain for good: commits of separate
\* IPNIPublishers do not lose each other's adverts, since the head is replaced
\* only where it is the head the commit linked its advert to
\* (advertisementpublisher.go, ReplaceHead).
NoAdvertLost == acked \subseteq Prefixes(head)

Chain == INSTANCE AdvertChain

\* Publishing implements the abstract chain: every step adds adverts behind the
\* head, acknowledges a link, or changes neither.
ChainSpec == Chain!Spec

\* No call is at work on the context.
Settled(c) == \A p \in Publishers : pc[p] # "idle" => Ctx(p) # c

\* Between calls the mappings of a context say what the newest advert for it on
\* the chain says, unless a call reported that it could not put them back:
\* however a call fails, its undo leaves no mapping that no advert announces,
\* which would make the content unpublishable (rollback.go, generate_ad.go).
MappingsAgree ==
  \A c \in Contexts \ torn : Settled(c) => Agrees(Record(c), head, c)

\* The chain's newest advert for the context carries the metadata.
Announced(c, m) ==
  \E i \in DOMAIN head :
    /\ head[i].ctx = c /\ head[i].md = m
    /\ \A j \in i+1..Len(head) : head[j].ctx # c

\* ErrAlreadyAdvertised "signals that an advertisement for identical content was
\* already published" (errors.go): a call ends with it only when the chain's
\* newest advert for the context carries the metadata of the call.
AlreadyAdvertisedIsTrue ==
  [][\A p \in Publishers :
       ReadMeta(p) /\ pc'[p] = "idle" =>
         Ctx(p) \in torn \/ Announced(Ctx(p), call[p].md)]_vars

-----------------------------------------------------------------------------
(* Liveness *)

\* A goroutine that can run does, and a caller calls again after an error.
Fairness == \A p \in Publishers : WF_vars(Step(p)) /\ WF_vars(Call(p))

FairSpec == Spec /\ Fairness

\* Calling again publishes in the end, however often the head was replaced by
\* others meanwhile: a call that lost the head undoes its mappings, so that
\* nothing turns its retry away.
EveryContextPublished ==
  \A p \in Publishers : \A c \in Owns[p] :
    <>(\E i \in DOMAIN head : head[i].ctx = c)
=============================================================================
