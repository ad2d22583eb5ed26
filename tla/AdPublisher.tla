----------------------------- MODULE AdPublisher -----------------------------
(***************************************************************************)
(* Using the AdvertisementPublisher itself (pkg/publisher): its caller     *)
(* generates adverts with GenerateAd, additions and removals of content,   *)
(* adds them to the batch with AddToBatch, and then commits or discards    *)
(* what is pending.  GenerateAd that fails puts the mappings back as they  *)
(* were; a commit that fails, and Discard, forget the mappings of the      *)
(* additions, and cannot restore those that removals deleted.              *)
(*                                                                         *)
(* Generating an addition is the first half of Publish.  Each publisher    *)
(* has one caller; the publishers share the store and its head.            *)
(***************************************************************************)
EXTENDS AdStore

CONSTANTS
  Publishers,  \* the AdvertisementPublishers
  Owns,        \* Owns[p]: the contexts p publishes
  NoEntries,   \* the entries of a removal
  Removal,     \* the empty metadata of a removal; no addition carries it
  MaxPending,  \* bound: the adverts that are pending
  MaxCalls     \* bound: the calls of GenerateAd

ASSUME RemovalAssumption == NoEntries \in Blockless /\ Removal \in Metadatas
ASSUME CallsAssumption == MaxCalls \in Nat
ASSUME OwnsAssumption == Owns \in [Publishers -> SUBSET Contexts]
ASSUME OwnersAssumption ==
  \A p, q \in Publishers : p # q => Owns[p] \cap Owns[q] = {}

VARIABLES
  pc, call, old, new, base,  \* of GenerateAd; base also of Commit
  pending, \* pending[p]: AdvertisementPublisher.pending
  cpc,     \* cpc[p]: the step of Commit or Discard that p is about to make
  taken,   \* taken[p]: the adverts that Commit or Discard has taken
  n,       \* n[p]: the index of the loop that it is in
  calls,   \* how many calls of GenerateAd there were
  acked,   \* history: the links that Commit has returned
  torn,    \* history: the contexts that an undo reported it could not put back
  dropped  \* history: the contexts whose addition was forgotten, until the next

generating == <<pc, call, old, new>>
committing == <<base, cpc, taken, n>>
vars == <<head, adverts, blocks, chunkLink, metadata, generating, committing,
          pending, calls, acked, torn, dropped>>

Gen == INSTANCE Publish WITH MayCrash <- FALSE, MaxAdverts <- MaxCalls

TypeOK ==
  /\ Gen!TypeOK
  /\ pending \in [Publishers -> Link]
  /\ cpc \in [Publishers -> {"none", "readHead", "putAdvert", "replaceHead",
                             "forgetChunk", "forgetMeta"}]
  /\ taken \in [Publishers -> Link]
  /\ n \in [Publishers -> Nat]
  /\ \A p \in Publishers :
       cpc[p] \in {"putAdvert", "forgetChunk", "forgetMeta"} => n[p] \in DOMAIN taken[p]
  /\ calls \in 0..MaxCalls
  /\ dropped \subseteq Contexts

Init ==
  /\ Gen!Init
  /\ \A c \in Contexts : metadata[c] # Removal
  /\ pending = [p \in Publishers |-> <<>>]
  /\ cpc = [p \in Publishers |-> "none"]
  /\ taken = [p \in Publishers |-> <<>>]
  /\ n = [p \in Publishers |-> 1]
  /\ calls = 0
  /\ dropped = {}

-----------------------------------------------------------------------------
(* GenerateAd and AddToBatch.  A "variant" is as in AdStore.                *)

IsRm(p) == call[p].md = Removal

Idle(p) == pc[p] = "idle" /\ cpc[p] = "none"

GenerateAd(p) ==
  /\ Idle(p)
  /\ Len(pending[p]) < MaxPending
  /\ calls < MaxCalls
  /\ calls' = calls + 1
  /\ Gen!Call(p)
  /\ call'[p].md = Removal <=> call'[p].digests = NoEntries
  /\ UNCHANGED <<pending, cpc, taken, n, dropped>>

\* ErrContextIDNotFound: a removal of what is not mapped.
NotFound(p) ==
  /\ pc[p] = "readChunk" /\ IsRm(p)
  /\ chunkLink[Gen!Ctx(p)] = Nil
  /\ Gen!Return(p)
  /\ UNCHANGED <<store, acked, torn>>

\* A removal reads the metadata for its undo only.
ReadMetaOfRm(p) ==
  /\ pc[p] = "readMeta" /\ IsRm(p)
  /\ old' = [old EXCEPT ![p].md = metadata[Gen!Ctx(p)]]
  /\ new' = [new EXCEPT ![p] = [chunk |-> NoEntries, md |-> Removal]]
  /\ Gen!Goto(p, "putChunk")
  /\ UNCHANGED <<store, call, base, acked, torn>>

ReadMappings(p) ==
  \/ Gen!ReadChunk(p) /\ ~(IsRm(p) /\ chunkLink[Gen!Ctx(p)] = Nil)
  \/ NotFound(p)
  \/ Gen!ReadMeta(p) /\ ~IsRm(p)
  \/ ReadMetaOfRm(p)
  \/ Gen!ReadMappingsFails(p)

\* What generating leaves mapped: a removal deletes both mappings.
Mapped(p) == IF IsRm(p) THEN NoRecord ELSE new[p]

PutChunk(p) ==
  /\ pc[p] = "putChunk"
  /\ PutChunkLink(Gen!Ctx(p), Mapped(p).chunk)
  /\ Gen!Goto(p, "putMeta")
  /\ UNCHANGED <<call, old, new, base, acked, torn>>

\* One of the writes fails; both mappings are put back as they were read.
GenerateFails(p) ==
  /\ \/ pc[p] = "putEntries" /\ WriteFails(PutEntries(call[p].digests))
     \/ pc[p] = "putChunk" /\ WriteFails(PutChunkLink(Gen!Ctx(p), Mapped(p).chunk))
     \/ pc[p] = "putMeta" /\ WriteFails(PutMetadata(Gen!Ctx(p), Mapped(p).md))
  /\ Gen!Undo(p)
  /\ UNCHANGED <<acked, torn>>

Generate(p) ==
  /\ \/ ReadMappings(p)
     \/ Gen!PutEntriesOf(p) \/ PutChunk(p) \/ GenerateFails(p)
     \/ Gen!UndoChunk(p) \/ Gen!UndoMeta(p)
  /\ UNCHANGED <<pending, cpc, taken, n, calls, dropped>>

\* The last mapping is written, GenerateAd returns the advert and the caller
\* adds it to the batch.
AddToBatch(p) ==
  /\ pc[p] = "putMeta"
  /\ PutMetadata(Gen!Ctx(p), Mapped(p).md)
  /\ pending' = [pending EXCEPT ![p] = Append(@, Gen!Ad(p))]
  /\ Gen!Return(p)
  /\ torn' = torn \ {Gen!Ctx(p)}
  /\ dropped' = dropped \ {Gen!Ctx(p)}
  /\ UNCHANGED <<calls, acked, cpc, taken, n>>

-----------------------------------------------------------------------------
(* Commit and Discard *)

Goto(p, step, index) ==
  /\ cpc' = [cpc EXCEPT ![p] = step]
  /\ n' = [n EXCEPT ![p] = index]

Done(p) ==
  /\ Goto(p, "none", 1)
  /\ taken' = [taken EXCEPT ![p] = <<>>]
  /\ base' = [base EXCEPT ![p] = <<>>]

Take(p) ==
  /\ Idle(p)
  /\ taken' = [taken EXCEPT ![p] = pending[p]]
  /\ pending' = [pending EXCEPT ![p] = <<>>]

Commit(p) ==
  /\ Take(p)
  /\ Goto(p, "readHead", 1)
  /\ UNCHANGED <<store, generating, base, acked, torn, calls, dropped>>

\* With nothing to commit, the head is all that Commit returns.
ReadHead(p) ==
  /\ cpc[p] = "readHead"
  /\ IF taken[p] = <<>>
     THEN acked' = acked \cup {head} /\ Done(p)
     ELSE /\ base' = [base EXCEPT ![p] = head]
          /\ Goto(p, "putAdvert", 1)
          /\ UNCHANGED <<acked, taken>>
  /\ UNCHANGED <<store, generating, pending, torn, calls, dropped>>

\* The link of the k-th advert that is committed.
AdLink(p, k) == base[p] \o SubSeq(taken[p], 1, k)
NewHead(p) == AdLink(p, Len(taken[p]))

\* Variant: the last advert's block is not written.
PutAdButLast(p) ==
  /\ cpc[p] = "putAdvert"
  /\ IF n[p] < Len(taken[p])
     THEN PutAdvert(AdLink(p, n[p])) /\ Goto(p, "putAdvert", n[p] + 1)
     ELSE UNCHANGED store /\ Goto(p, "replaceHead", 1)
  /\ UNCHANGED <<generating, base, taken, pending, acked, torn, calls, dropped>>

PutAd(p) ==
  /\ cpc[p] = "putAdvert"
  /\ PutAdvert(AdLink(p, n[p]))
  /\ IF n[p] < Len(taken[p]) THEN Goto(p, "putAdvert", n[p] + 1)
                             ELSE Goto(p, "replaceHead", 1)
  /\ UNCHANGED <<generating, base, taken, pending, acked, torn, calls, dropped>>

\* Variant: the head is read again for the conditional write.
CommitHeadReread(p) ==
  /\ cpc[p] = "replaceHead"
  /\ ReplaceHead(head, NewHead(p))
  /\ acked' = acked \cup {NewHead(p)}
  /\ Done(p)
  /\ UNCHANGED <<generating, pending, torn, calls, dropped>>

CommitHead(p) ==
  /\ cpc[p] = "replaceHead"
  /\ ReplaceHead(base[p], NewHead(p))
  /\ acked' = acked \cup {NewHead(p)}
  /\ Done(p)
  /\ UNCHANGED <<generating, pending, torn, calls, dropped>>

\* Variant: no care is taken of there being nothing to undo.
UndoAllUnchecked(p) == Goto(p, "forgetChunk", Len(taken'[p]))

\* undoAll starts with the newest advert.
UndoAll(p) ==
  IF taken'[p] = <<>> THEN Goto(p, "none", 1)
                      ELSE Goto(p, "forgetChunk", Len(taken'[p]))

CommitFails(p) ==
  /\ \/ cpc[p] = "readHead" /\ ReadFails
     \/ cpc[p] = "putAdvert" /\ WriteFails(PutAdvert(AdLink(p, n[p])))
     \/ cpc[p] = "replaceHead" /\ ReplaceHeadFails(base[p], NewHead(p))
  /\ UNCHANGED taken /\ UndoAll(p)
  /\ base' = [base EXCEPT ![p] = <<>>]
  /\ UNCHANGED <<generating, pending, acked, torn, calls, dropped>>

\* Variant: what was pending is dropped and its mappings stay.
DiscardKept(p) ==
  /\ Idle(p)
  /\ pending' = [pending EXCEPT ![p] = <<>>]
  /\ UNCHANGED <<store, generating, committing, acked, torn, calls, dropped>>

Discard(p) ==
  /\ Take(p) /\ UndoAll(p)
  /\ UNCHANGED <<store, generating, base, acked, torn, calls, dropped>>

Undone(p) == taken[p][n[p]].ctx

NextUndo(p) ==
  IF n[p] > 1 THEN Goto(p, "forgetChunk", n[p] - 1) /\ UNCHANGED <<taken, base>>
              ELSE Done(p)

\* forgetMappings of a removal reports that it cannot put its mappings back.
ForgetRm(p) ==
  /\ cpc[p] = "forgetChunk"
  /\ taken[p][n[p]].md = Removal
  /\ torn' = torn \cup {Undone(p)}
  /\ NextUndo(p)
  /\ UNCHANGED <<store, generating, pending, acked, calls, dropped>>

\* forgetMappings of an addition deletes both mappings, the second whether or
\* not the first was, and reports what failed.
ForgetChunk(p) ==
  /\ cpc[p] = "forgetChunk"
  /\ taken[p][n[p]].md # Removal
  /\ \/ PutChunkLink(Undone(p), Nil) /\ UNCHANGED torn
     \/ WriteFails(PutChunkLink(Undone(p), Nil)) /\ torn' = torn \cup {Undone(p)}
  /\ dropped' = dropped \cup {Undone(p)}
  /\ Goto(p, "forgetMeta", n[p])
  /\ UNCHANGED <<generating, base, taken, pending, calls, acked>>

ForgetMeta(p) ==
  /\ cpc[p] = "forgetMeta"
  /\ \/ PutMetadata(Undone(p), Nil) /\ UNCHANGED torn
     \/ WriteFails(PutMetadata(Undone(p), Nil)) /\ torn' = torn \cup {Undone(p)}
  /\ NextUndo(p)
  /\ UNCHANGED <<generating, pending, acked, calls, dropped>>

Next ==
  \E p \in Publishers :
    \/ GenerateAd(p) \/ Generate(p) \/ AddToBatch(p)
    \/ Commit(p) \/ ReadHead(p) \/ PutAd(p) \/ CommitHead(p) \/ CommitFails(p)
    \/ Discard(p) \/ ForgetRm(p) \/ ForgetChunk(p) \/ ForgetMeta(p)

Spec == Init /\ [][Next]_vars

-----------------------------------------------------------------------------
(* Properties *)

\* The chain as it is once what p has pending is committed.
Promised(p) == head \o pending[p]

\* What the advert of a removal says of its context.
Removed == [chunk |-> NoEntries, md |-> Removal]

\* The record r is what the chain l says of the context c: what its newest advert
\* for c announces, and nothing mapped when that removes it or there is none.
Says(r, l, c) ==
  \/ r.md # Removal /\ Agrees(r, l, c)
  \/ r.chunk = Nil /\ Agrees(Removed, l, c)

\* Between calls the mappings of a context say what the chain will say once the
\* pending adverts are committed, unless an undo reported that it failed: so
\* what is advertised is neither advertised again nor refused its removal, and
\* what is removed can be advertised again.  Content whose advert a commit or
\* Discard gave up is not mapped, so that generating it again advertises it,
\* though an older advert may stand (GenerateAd, AddToBatch, Discard).
MappingsAgree ==
  \A p \in Publishers : \A c \in Owns[p] \ torn :
    Idle(p) => \/ Says(Record(c), Promised(p), c)
               \/ chunkLink[c] = Nil /\ c \in dropped

Chain == INSTANCE AdvertChain

\* Whatever mixture of additions and removals is committed at once, a commit
\* only adds to the chain, and a link it returned stays on it.
ChainSpec == Chain!Spec
=============================================================================
