------------------------- MODULE AdPublisherProofs -------------------------
(***************************************************************************)
(* Theorems about the AdvertisementPublisher, for any contexts, publishers *)
(* and bounds, with their proofs.                                          *)
(***************************************************************************)
EXTENDS AdPublisher, AdStoreProofs

-----------------------------------------------------------------------------
(* Types *)

\* What Publish says of the types of what generates an advert.
LabelsType ==
  {"idle", "readChunk", "readMeta", "putEntries", "putChunk", "putMeta",
   "readHead", "putAdvert", "replaceHead", "undoChunk", "undoMeta"}

Requests == [ctx : Contexts, digests : Digests, md : Metadatas]

Decided == {"putChunk", "putMeta", "readHead", "putAdvert", "replaceHead"}

LocalsType ==
  /\ pc \in [Publishers -> LabelsType]
  /\ call \in [Publishers -> Requests \cup {Nil}]
  /\ old \in [Publishers -> ContextRecord]
  /\ new \in [Publishers -> ContextRecord]
  /\ base \in [Publishers -> Link]
  /\ \A p \in Publishers : pc[p] # "idle" => call[p] \in Requests
  /\ \A p \in Publishers :
       /\ pc[p] \in {"putEntries"} \cup Decided => new[p].md # Nil
       /\ pc[p] \in Decided => new[p].chunk # Nil

HistoryType == acked \subseteq Link /\ torn \subseteq Contexts

BatchType ==
  /\ pending \in [Publishers -> Link]
  /\ cpc \in [Publishers -> {"none", "readHead", "putAdvert", "replaceHead",
                             "forgetChunk", "forgetMeta"}]
  /\ taken \in [Publishers -> Link]
  /\ n \in [Publishers -> Nat]
  /\ \A p \in Publishers :
       cpc[p] \in {"putAdvert", "forgetChunk", "forgetMeta"} => n[p] \in DOMAIN taken[p]

BoundsType == calls \in 0..MaxCalls /\ dropped \subseteq Contexts

Types == StoreTypeOK /\ LocalsType /\ HistoryType /\ BatchType /\ BoundsType

LEMMA TypesAre == TypeOK <=> Types
<1>1. Gen!StoreTypeOK <=> StoreTypeOK
  BY DEF StoreTypeOK, Gen!StoreTypeOK, Link, Gen!Link, Advert, Gen!Advert
<1>2. Gen!Labels = LabelsType
  BY DEF LabelsType, Gen!Labels, Gen!Generating, Gen!Committing, Gen!Undoing
<1>3. /\ Gen!ContextRecord = ContextRecord /\ Gen!Request = Requests /\ Gen!Link = Link
      /\ Gen!Committing = {"readHead", "putAdvert", "replaceHead"}
  BY DEF ContextRecord, Gen!ContextRecord, Requests, Gen!Request, Gen!Committing,
         Link, Gen!Link, Advert, Gen!Advert
<1>4. Gen!TypeOK <=> StoreTypeOK /\ LocalsType /\ HistoryType
  BY <1>1, <1>2, <1>3 DEF Gen!TypeOK, LocalsType, HistoryType, Decided
<1> QED
  BY <1>4 DEF TypeOK, Types, BatchType, BoundsType

\* The calls of the store that generating makes are those of AdStore.
LEMMA StoreCalls ==
  /\ \A d : Gen!PutEntries(d) <=> PutEntries(d)
  /\ \A c, l : Gen!PutChunkLink(c, l) <=> PutChunkLink(c, l)
  /\ \A c, m : Gen!PutMetadata(c, m) <=> PutMetadata(c, m)
  /\ Gen!ReadFails => UNCHANGED store
  /\ UNCHANGED Gen!store => UNCHANGED store
BY DEF PutEntries, Gen!PutEntries, PutChunkLink, Gen!PutChunkLink, PutMetadata,
       Gen!PutMetadata, ReadFails, Gen!ReadFails, store, Gen!store

LEMMA ReturnType ==
  ASSUME LocalsType, NEW p \in Publishers, Gen!Return(p)
  PROVE  LocalsType'
<1>1. NoRecord \in ContextRecord /\ Gen!NoRecord = NoRecord /\ <<>> \in Link
  BY EmptySeq DEF NoRecord, ContextRecord, Gen!NoRecord, Link
<1> QED
  BY <1>1 DEF LocalsType, Gen!Return, Gen!Goto, LabelsType, Decided

LEMMA UndoType ==
  ASSUME LocalsType, NEW p \in Publishers, pc[p] # "idle", Gen!Undo(p)
  PROVE  LocalsType'
BY DEF LocalsType, Gen!Undo, Gen!Goto, LabelsType, Decided

LEMMA RequestType ==
  ASSUME LocalsType, NEW p \in Publishers, pc[p] # "idle"
  PROVE  /\ call[p] \in Requests /\ Gen!Ctx(p) \in Contexts
         /\ call[p].digests \in Digests /\ call[p].md \in Metadatas
         /\ Mapped(p) \in ContextRecord
         /\ old[p].chunk \in Digests \cup {Nil} /\ old[p].md \in Metadatas \cup {Nil}
         /\ new[p].chunk \in Digests \cup {Nil} /\ new[p].md \in Metadatas \cup {Nil}
         /\ Mapped(p).chunk \in Digests \cup {Nil} /\ Mapped(p).md \in Metadatas \cup {Nil}
<1>1. call[p] \in Requests /\ old[p] \in ContextRecord /\ new[p] \in ContextRecord
  BY DEF LocalsType
<1>2. Mapped(p) \in ContextRecord
  BY <1>1 DEF Mapped, NoRecord, ContextRecord
<1> QED
  BY <1>1, <1>2 DEF Requests, ContextRecord, Gen!Ctx

LEMMA AdType ==
  ASSUME LocalsType, NEW p \in Publishers, pc[p] = "putMeta"
  PROVE  Gen!Ad(p) \in Advert
<1>1. new[p].chunk # Nil /\ new[p].md # Nil
  BY DEF LocalsType, Decided
<1> QED
  BY <1>1, RequestType DEF Gen!Ad, Advert

LEMMA GenerateLocals ==
  ASSUME StoreTypeOK, LocalsType, NEW p \in Publishers, Generate(p) \/ GenerateAd(p)
  PROVE  LocalsType'
<1>1. CASE GenerateAd(p)
  <2>1. Gen!Call(p)
    BY <1>1 DEF GenerateAd
  <2>2. PICK r \in Requests : call' = [call EXCEPT ![p] = r]
    BY <2>1 DEF Gen!Call, Gen!Request, Requests
  <2> QED
    BY <2>1, <2>2 DEF Gen!Call, Gen!Goto, LocalsType, LabelsType, Decided
<1>2. CASE Gen!ReadChunk(p)
  <2>1. chunkLink[Gen!Ctx(p)] \in Digests \cup {Nil}
    BY <1>2, RequestType DEF Gen!ReadChunk, StoreTypeOK
  <2> QED
    BY <1>2, <2>1 DEF Gen!ReadChunk, Gen!Goto, LocalsType, LabelsType, Decided, ContextRecord
<1>3. CASE NotFound(p)
  BY <1>3, ReturnType DEF NotFound
<1>4. CASE Gen!ReadMeta(p)
  <2>1. metadata[Gen!Ctx(p)] \in Metadatas \cup {Nil}
    BY <1>4, RequestType DEF Gen!ReadMeta, StoreTypeOK
  <2>2. CASE Gen!AlreadyAdvertised(p)
    BY <1>4, <2>2, ReturnType DEF Gen!ReadMeta
  <2>3. CASE ~Gen!AlreadyAdvertised(p)
    <3>1. /\ old' = [old EXCEPT ![p].md = metadata[Gen!Ctx(p)]]
          /\ new' = [new EXCEPT ![p] = [chunk |-> old[p].chunk, md |-> call[p].md]]
          /\ pc' = [pc EXCEPT ![p] = IF old[p].chunk = Nil THEN "putEntries" ELSE "putMeta"]
          /\ UNCHANGED <<call, base>>
      BY <1>4, <2>3 DEF Gen!ReadMeta, Gen!Goto, Gen!LacksEntries
    <3>2. pc[p] # "idle" /\ call[p].md \in Metadatas /\ call[p].md # Nil
          /\ old[p].chunk \in Digests \cup {Nil}
      BY <1>4, RequestType, NilAssumption DEF Gen!ReadMeta
    <3>3. [chunk |-> old[p].chunk, md |-> call[p].md] \in ContextRecord
      BY <3>2 DEF ContextRecord
    <3>4. old' \in [Publishers -> ContextRecord]
      BY <3>1, <2>1 DEF LocalsType, ContextRecord
    <3>5. new' \in [Publishers -> ContextRecord]
      BY <3>1, <3>3 DEF LocalsType
    <3> QED
      BY <3>1, <3>2, <3>4, <3>5 DEF LocalsType, LabelsType, Decided
  <2> QED
    BY <2>2, <2>3
<1>5. CASE ReadMetaOfRm(p)
  <2>1. metadata[Gen!Ctx(p)] \in Metadatas \cup {Nil}
    BY <1>5, RequestType DEF ReadMetaOfRm, StoreTypeOK
  <2>2. old' \in [Publishers -> ContextRecord]
    BY <1>5, <2>1 DEF ReadMetaOfRm, LocalsType, ContextRecord
  <2>3. [chunk |-> NoEntries, md |-> Removal] \in ContextRecord
        /\ NoEntries # Nil /\ Removal # Nil
    BY RemovalAssumption, BlocklessAssumption, NilAssumption DEF ContextRecord
  <2>4. new' \in [Publishers -> ContextRecord]
    BY <1>5, <2>3 DEF ReadMetaOfRm, LocalsType
  <2> QED
    BY <1>5, <2>2, <2>3, <2>4 DEF ReadMetaOfRm, Gen!Goto, LocalsType, LabelsType, Decided
<1>6. CASE Gen!ReadMappingsFails(p)
  BY <1>6, ReturnType DEF Gen!ReadMappingsFails
<1>7. CASE Gen!PutEntriesOf(p)
  <2>1. call[p].digests \in Digests /\ call[p].digests # Nil
    BY <1>7, RequestType, NilAssumption DEF Gen!PutEntriesOf
  <2> QED
    BY <1>7, <2>1 DEF Gen!PutEntriesOf, Gen!Goto, LocalsType, LabelsType, Decided, ContextRecord
<1>8. CASE PutChunk(p)
  BY <1>8 DEF PutChunk, Gen!Goto, LocalsType, LabelsType, Decided
<1>9. CASE GenerateFails(p)
  BY <1>9, UndoType DEF GenerateFails
<1>10. CASE Gen!UndoChunk(p)
  BY <1>10 DEF Gen!UndoChunk, Gen!Goto, LocalsType, LabelsType, Decided
<1>11. CASE Gen!UndoMeta(p)
  BY <1>11, ReturnType DEF Gen!UndoMeta
<1> QED
  BY <1>1, <1>2, <1>3, <1>4, <1>5, <1>6, <1>7, <1>8, <1>9, <1>10, <1>11
  DEF Generate, ReadMappings

LEMMA GenerateStore ==
  ASSUME StoreTypeOK, LocalsType, HistoryType, NEW p \in Publishers, Generate(p) \/ GenerateAd(p)
  PROVE  StoreTypeOK' /\ HistoryType'
<1>u. UNCHANGED store => StoreTypeOK'
  BY StoreCallsType
<1>1. CASE GenerateAd(p) \/ ReadMappings(p)
  <2>1. UNCHANGED store /\ UNCHANGED <<acked, torn>>
    BY <1>1, StoreCalls
    DEF GenerateAd, Gen!Call, ReadMappings, Gen!ReadChunk, NotFound, Gen!ReadMeta, ReadMetaOfRm,
        Gen!ReadMappingsFails
  <2> QED
    BY <2>1, <1>u DEF HistoryType
<1>2. CASE Gen!PutEntriesOf(p)
  <2>1. PutEntries(call[p].digests) /\ call[p].digests \in Digests /\ UNCHANGED <<acked, torn>>
    BY <1>2, StoreCalls, RequestType DEF Gen!PutEntriesOf
  <2> QED
    BY <2>1, StoreCallsType DEF HistoryType
<1>3. CASE PutChunk(p)
  <2>1. PutChunkLink(Gen!Ctx(p), Mapped(p).chunk) /\ UNCHANGED <<acked, torn>>
        /\ Gen!Ctx(p) \in Contexts /\ Mapped(p).chunk \in Digests \cup {Nil}
    BY <1>3, RequestType DEF PutChunk
  <2> QED
    BY <2>1, StoreCallsType DEF HistoryType
<1>4. CASE GenerateFails(p)
  <2>1. pc[p] # "idle" /\ UNCHANGED <<acked, torn>>
        /\ \/ UNCHANGED store \/ PutEntries(call[p].digests)
           \/ PutChunkLink(Gen!Ctx(p), Mapped(p).chunk)
           \/ PutMetadata(Gen!Ctx(p), Mapped(p).md)
    BY <1>4 DEF GenerateFails, WriteFails
  <2> QED
    BY <2>1, RequestType, StoreCallsType DEF HistoryType
<1>5. CASE Gen!UndoChunk(p)
  <2>1. pc[p] # "idle" /\ UNCHANGED acked /\ (torn' = torn \/ torn' = torn \cup {Gen!Ctx(p)})
        /\ (UNCHANGED store \/ PutChunkLink(Gen!Ctx(p), old[p].chunk))
    BY <1>5, StoreCalls DEF Gen!UndoChunk, Gen!WriteFails
  <2> QED
    BY <2>1, RequestType, StoreCallsType DEF HistoryType
<1>6. CASE Gen!UndoMeta(p)
  <2>1. pc[p] # "idle" /\ UNCHANGED acked /\ (torn' = torn \/ torn' = torn \cup {Gen!Ctx(p)})
        /\ (UNCHANGED store \/ PutMetadata(Gen!Ctx(p), old[p].md))
    BY <1>6, StoreCalls DEF Gen!UndoMeta, Gen!WriteFails
  <2> QED
    BY <2>1, RequestType, StoreCallsType DEF HistoryType
<1> QED
  BY <1>1, <1>2, <1>3, <1>4, <1>5, <1>6 DEF Generate

-----------------------------------------------------------------------------
(* The links of a commit *)

\* What each advert of a commit is linked to, and what the commit links in all.
LEMMA LinksOf ==
  ASSUME NEW p \in Publishers, base[p] \in Link, taken[p] \in Link
  PROVE  /\ AdLink(p, 0) = base[p]
         /\ \A k \in 0..Len(taken[p]) : AdLink(p, k) \in Link
         /\ \A k \in DOMAIN taken[p] :
              taken[p][k] \in Advert /\ AdLink(p, k) = Append(AdLink(p, k - 1), taken[p][k])
         /\ NewHead(p) = base[p] \o taken[p] /\ NewHead(p) \in Link
BY BatchLinks DEF AdLink, NewHead

\* Where a commit or Discard goes through its adverts, there is one.
LEMMA UndoneType ==
  ASSUME BatchType, NEW p \in Publishers, cpc[p] \in {"putAdvert", "forgetChunk", "forgetMeta"}
  PROVE  /\ n[p] \in 1..Len(taken[p]) /\ taken[p] \in Link /\ Len(taken[p]) \in Nat
         /\ taken[p][n[p]] \in Advert /\ Undone(p) \in Contexts
<1>1. taken[p] \in Seq(Advert) /\ n[p] \in DOMAIN taken[p]
  BY DEF BatchType, Link
<1>2. DOMAIN taken[p] = 1..Len(taken[p]) /\ Len(taken[p]) \in Nat
  BY <1>1, LenProperties
<1>3. taken[p][n[p]] \in Advert
  BY <1>1, <1>2, ElementOfSeq
<1> QED
  BY <1>1, <1>2, <1>3 DEF Undone, Advert, Link

LEMMA GotoType ==
  ASSUME BatchType, NEW p \in Publishers, NEW i \in Nat,
         NEW s \in {"none", "readHead", "putAdvert", "replaceHead", "forgetChunk", "forgetMeta"},
         Goto(p, s, i),
         s \in {"putAdvert", "forgetChunk", "forgetMeta"} => i \in DOMAIN taken'[p],
         pending' \in [Publishers -> Link], taken' \in [Publishers -> Link],
         \A q \in Publishers \ {p} : taken'[q] = taken[q]
  PROVE  BatchType'
<1>1. /\ cpc' \in [Publishers -> {"none", "readHead", "putAdvert", "replaceHead",
                                  "forgetChunk", "forgetMeta"}]
      /\ n' \in [Publishers -> Nat] /\ cpc'[p] = s /\ n'[p] = i
      /\ \A q \in Publishers \ {p} : cpc'[q] = cpc[q] /\ n'[q] = n[q]
  BY DEF Goto, BatchType
<1>2. ASSUME NEW q \in Publishers, cpc'[q] \in {"putAdvert", "forgetChunk", "forgetMeta"}
      PROVE  n'[q] \in DOMAIN taken'[q]
  <2>1. CASE q = p
    BY <1>1, <1>2, <2>1
  <2>2. CASE q # p
    BY <1>1, <1>2, <2>2 DEF BatchType
  <2> QED
    BY <2>1, <2>2
<1> QED
  BY <1>1, <1>2 DEF BatchType

LEMMA DoneType ==
  ASSUME LocalsType, BatchType, NEW p \in Publishers, Done(p)
  PROVE  /\ (UNCHANGED <<pc, call, old, new>> => LocalsType')
         /\ (UNCHANGED pending => BatchType')
<1>1. <<>> \in Link
  BY EmptySeq DEF Link
<1>2. ASSUME UNCHANGED <<pc, call, old, new>> PROVE LocalsType'
  BY <1>1, <1>2 DEF Done, LocalsType
<1>3. ASSUME UNCHANGED pending PROVE BatchType'
  BY <1>1, <1>3 DEF Done, Goto, BatchType
<1> QED
  BY <1>2, <1>3

\* Both undos of a list of adverts start at its last, if there is one.
LEMMA UndoAllType ==
  ASSUME BatchType, NEW p \in Publishers, UndoAll(p), pending' \in [Publishers -> Link],
         taken' \in [Publishers -> Link], \A q \in Publishers \ {p} : taken'[q] = taken[q]
  PROVE  BatchType'
<1>1. taken'[p] \in Seq(Advert)
  BY DEF Link
<1>2. CASE taken'[p] = <<>>
  <2>1. Goto(p, "none", 1)
    BY <1>2 DEF UndoAll
  <2> QED
    BY <2>1, GotoType
<1>3. CASE taken'[p] # <<>>
  <2>1. Len(taken'[p]) \in Nat /\ Len(taken'[p]) \in DOMAIN taken'[p]
    BY <1>1, <1>3, LenProperties, EmptySeq
  <2> QED
    BY <1>3, <2>1, GotoType DEF UndoAll
<1> QED
  BY <1>2, <1>3

LEMMA NextUndoType ==
  ASSUME LocalsType, BatchType, NEW p \in Publishers, cpc[p] \in {"forgetChunk", "forgetMeta"},
         NextUndo(p), UNCHANGED <<pc, call, old, new, pending>>
  PROVE  LocalsType' /\ BatchType'
<1>1. CASE n[p] > 1
  <2>1. n[p] - 1 \in DOMAIN taken[p] /\ n[p] - 1 \in Nat
    BY <1>1, UndoneType, LenProperties DEF Link
  <2>2. Goto(p, "forgetChunk", n[p] - 1) /\ UNCHANGED <<taken, base>>
    BY <1>1 DEF NextUndo
  <2> QED
    BY <2>1, <2>2 DEF Goto, LocalsType, BatchType
<1>2. CASE ~(n[p] > 1)
  BY <1>2, DoneType DEF NextUndo
<1> QED
  BY <1>1, <1>2

LEMMA TypeStep == Types /\ [Next]_vars => Types'
<1> SUFFICES ASSUME Types, [Next]_vars PROVE Types'
  OBVIOUS
<1>t. StoreTypeOK /\ LocalsType /\ HistoryType /\ BatchType /\ BoundsType
  BY DEF Types
<1>e. <<>> \in Link
  BY EmptySeq DEF Link
<1>1. ASSUME NEW p \in Publishers, GenerateAd(p) \/ Generate(p) PROVE Types'
  <2>1. StoreTypeOK' /\ LocalsType' /\ HistoryType'
    BY <1>1, <1>t, GenerateLocals, GenerateStore
  <2>2. BatchType' /\ BoundsType'
    BY <1>1, <1>t, CallsAssumption DEF GenerateAd, Generate, BatchType, BoundsType
  <2> QED
    BY <2>1, <2>2 DEF Types
<1>2. ASSUME NEW p \in Publishers, AddToBatch(p) PROVE Types'
  <2>1. pc[p] = "putMeta" /\ Gen!Ctx(p) \in Contexts /\ Mapped(p).md \in Metadatas \cup {Nil}
        /\ Gen!Ad(p) \in Advert
    BY <1>2, <1>t, RequestType, AdType DEF AddToBatch
  <2>2. StoreTypeOK' /\ LocalsType'
    BY <1>2, <2>1, <1>t, StoreCallsType, ReturnType DEF AddToBatch
  <2>3. Append(pending[p], Gen!Ad(p)) \in Link
    BY <2>1, <1>t, AppendProperties DEF BatchType, Link
  <2>4. BatchType'
    BY <1>2, <2>3, <1>t DEF AddToBatch, BatchType
  <2> QED
    BY <1>2, <2>2, <2>4, <1>t DEF AddToBatch, Types, HistoryType, BoundsType
<1>3. ASSUME NEW p \in Publishers, Commit(p) \/ Discard(p) PROVE Types'
  <2>1. StoreTypeOK' /\ LocalsType' /\ HistoryType' /\ BoundsType'
    BY <1>3, <1>t, StoreCallsType
    DEF Commit, Discard, generating, LocalsType, HistoryType, BoundsType
  <2>2. /\ taken' \in [Publishers -> Link] /\ pending' \in [Publishers -> Link]
        /\ \A q \in Publishers \ {p} : taken'[q] = taken[q]
    BY <1>3, <1>t, <1>e DEF Commit, Discard, Take, BatchType
  <2>3. ASSUME Commit(p) PROVE BatchType'
    <3>1. Goto(p, "readHead", 1)
      BY <2>3 DEF Commit
    <3> QED
      BY <3>1, <2>2, <1>t, GotoType
  <2>4. ASSUME Discard(p) PROVE BatchType'
    BY <2>4, <2>2, <1>t, UndoAllType DEF Discard
  <2> QED
    BY <1>3, <2>1, <2>3, <2>4 DEF Types
<1>4. ASSUME NEW p \in Publishers, ReadHead(p) PROVE Types'
  <2>1. StoreTypeOK' /\ BoundsType'
    BY <1>4, <1>t, StoreCallsType DEF ReadHead, BoundsType
  <2>2. CASE taken[p] = <<>>
    <3>1. Done(p) /\ UNCHANGED <<pc, call, old, new, pending, torn>> /\ acked' = acked \cup {head}
      BY <1>4, <2>2 DEF ReadHead, generating
    <3> QED
      BY <3>1, <2>1, <1>t, DoneType DEF Types, HistoryType, StoreTypeOK
  <2>3. CASE taken[p] # <<>>
    <3>1. /\ base' = [base EXCEPT ![p] = head] /\ Goto(p, "putAdvert", 1)
          /\ UNCHANGED <<pc, call, old, new, pending, torn, acked, taken>>
      BY <1>4, <2>3 DEF ReadHead, generating
    <3>2. taken[p] \in Seq(Advert)
      BY <1>t DEF BatchType, Link
    <3>3. 1 \in DOMAIN taken[p]
      BY <3>2, <2>3, EmptySeq, LenProperties
    <3> QED
      BY <3>1, <3>3, <2>1, <1>t DEF Types, LocalsType, HistoryType, StoreTypeOK, Goto, BatchType
  <2> QED
    BY <2>2, <2>3
<1>5. ASSUME NEW p \in Publishers, PutAd(p) PROVE Types'
  <2>1. n[p] \in 1..Len(taken[p]) /\ Len(taken[p]) \in Nat /\ taken[p] \in Link /\ base[p] \in Link
    BY <1>5, <1>t, UndoneType DEF PutAd, LocalsType
  <2>2. AdLink(p, n[p]) \in Link
    <3>1. n[p] \in 0..Len(taken[p])
      BY <2>1
    <3> QED
      BY <2>1, <3>1, LinksOf
  <2>3. StoreTypeOK'
    BY <1>5, <2>2, <1>t, StoreCallsType DEF PutAd
  <2>4. n[p] < Len(taken[p]) => n[p] + 1 \in DOMAIN taken[p] /\ n[p] + 1 \in Nat
    BY <2>1, LenProperties DEF Link
  <2>5. BatchType'
    BY <1>5, <2>4, <1>t DEF PutAd, Goto, BatchType
  <2> QED
    BY <1>5, <2>3, <2>5, <1>t DEF PutAd, generating, Types, LocalsType, HistoryType, BoundsType
<1>6. ASSUME NEW p \in Publishers, CommitHead(p) PROVE Types'
  <2>1. base[p] \in Link /\ NewHead(p) \in Link
    BY <1>t, LinksOf DEF LocalsType, BatchType
  <2>2. StoreTypeOK'
    BY <1>6, <2>1, <1>t, StoreCallsType DEF CommitHead
  <2>3. LocalsType' /\ BatchType'
    BY <1>6, <1>t, DoneType DEF CommitHead, generating
  <2> QED
    BY <1>6, <2>1, <2>2, <2>3, <1>t DEF CommitHead, Types, HistoryType, BoundsType
<1>7. ASSUME NEW p \in Publishers, CommitFails(p) PROVE Types'
  <2>1. base[p] \in Link /\ NewHead(p) \in Link /\ taken[p] \in Link
    BY <1>t, LinksOf DEF LocalsType, BatchType
  <2>2. cpc[p] = "putAdvert" => AdLink(p, n[p]) \in Link
    <3>1. cpc[p] = "putAdvert" => n[p] \in 0..Len(taken[p])
      BY <1>t, UndoneType
    <3> QED
      BY <2>1, <3>1, LinksOf
  <2>3. StoreTypeOK'
    BY <1>7, <2>1, <2>2, <1>t, StoreCallsType DEF CommitFails, ReadFails, WriteFails, ReplaceHeadFails
  <2>4. BatchType'
    BY <1>7, <1>t, UndoAllType DEF CommitFails, BatchType
  <2> QED
    BY <1>7, <1>e, <2>3, <2>4, <1>t
    DEF CommitFails, generating, Types, LocalsType, HistoryType, BoundsType
<1>8. ASSUME NEW p \in Publishers, ForgetRm(p) PROVE Types'
  <2>1. Undone(p) \in Contexts /\ LocalsType' /\ BatchType'
    BY <1>8, <1>t, UndoneType, NextUndoType DEF ForgetRm, generating
  <2> QED
    BY <1>8, <2>1, <1>t, StoreCallsType DEF ForgetRm, Types, HistoryType, BoundsType
<1>9. ASSUME NEW p \in Publishers, ForgetChunk(p) PROVE Types'
  <2>1. Undone(p) \in Contexts
    BY <1>9, <1>t, UndoneType DEF ForgetChunk
  <2>2. UNCHANGED store \/ PutChunkLink(Undone(p), Nil)
    BY <1>9 DEF ForgetChunk, WriteFails
  <2>3. StoreTypeOK'
    BY <2>1, <2>2, <1>t, StoreCallsType
  <2>4. BatchType' /\ LocalsType'
    BY <1>9, <1>t DEF ForgetChunk, generating, Goto, BatchType, LocalsType
  <2>5. HistoryType' /\ BoundsType'
    BY <1>9, <2>1, <1>t DEF ForgetChunk, HistoryType, BoundsType
  <2> QED
    BY <2>3, <2>4, <2>5 DEF Types
<1>10. ASSUME NEW p \in Publishers, ForgetMeta(p) PROVE Types'
  <2>1. Undone(p) \in Contexts /\ LocalsType' /\ BatchType'
    BY <1>10, <1>t, UndoneType, NextUndoType DEF ForgetMeta, generating
  <2>2. UNCHANGED store \/ PutMetadata(Undone(p), Nil)
    BY <1>10 DEF ForgetMeta, WriteFails
  <2>3. StoreTypeOK'
    BY <2>1, <2>2, <1>t, StoreCallsType
  <2>4. HistoryType' /\ BoundsType'
    BY <1>10, <2>1, <1>t DEF ForgetMeta, HistoryType, BoundsType
  <2> QED
    BY <2>1, <2>3, <2>4 DEF Types
<1>11. CASE UNCHANGED vars
  BY <1>11, <1>t, StoreCallsType
  DEF vars, store, generating, committing, Types, LocalsType, HistoryType, BatchType, BoundsType
<1> QED
  BY <1>1, <1>2, <1>3, <1>4, <1>5, <1>6, <1>7, <1>8, <1>9, <1>10, <1>11 DEF Next

LEMMA TypeInit == Init => Types
<1> SUFFICES ASSUME Init PROVE Types
  OBVIOUS
<1>1. <<>> \in Link /\ NoRecord \in ContextRecord /\ Gen!NoRecord = NoRecord
  BY EmptySeq DEF Link, NoRecord, ContextRecord, Gen!NoRecord
<1>2. StoreTypeOK /\ HistoryType
  BY <1>1 DEF Init, Gen!Init, Gen!StoreInit, StoreTypeOK, HistoryType
<1>3. LocalsType
  BY <1>1 DEF Init, Gen!Init, LocalsType, LabelsType, Decided
<1> QED
  BY <1>1, <1>2, <1>3, CallsAssumption DEF Init, Types, BatchType, BoundsType

LEMMA Typed == Spec => []Types
BY TypeInit, TypeStep, PTL DEF Spec

\* Every state is well formed, and Commit and Discard never go past the adverts
\* they have taken.
THEOREM TypeCorrect == Spec => []TypeOK
BY Typed, TypesAre, PTL

-----------------------------------------------------------------------------
(* The chain *)

\* Only a commit moves the head: to the adverts it took, behind the head it read.
LEMMA HeadStep ==
  ASSUME Types, [Next]_vars
  PROVE  \/ UNCHANGED <<head, acked>>
         \/ UNCHANGED head /\ acked' = acked \cup {head}
         \/ \E p \in Publishers :
              /\ cpc[p] = "replaceHead" /\ base[p] = head /\ head' = NewHead(p)
              /\ acked' = acked \/ acked' = acked \cup {head'}
<1>1. ASSUME NEW p \in Publishers, GenerateAd(p) \/ Generate(p) PROVE UNCHANGED <<head, acked>>
  BY <1>1, StoreCalls
  DEF GenerateAd, Gen!Call, Generate, ReadMappings, Gen!ReadChunk, NotFound, Gen!ReadMeta,
      ReadMetaOfRm, Gen!ReadMappingsFails, Gen!PutEntriesOf, PutChunk, GenerateFails, Gen!UndoChunk,
      Gen!UndoMeta, Gen!WriteFails, WriteFails, store, PutEntries, PutChunkLink, PutMetadata
<1>2. ASSUME NEW p \in Publishers,
             \/ AddToBatch(p) \/ Commit(p) \/ PutAd(p) \/ Discard(p)
             \/ ForgetRm(p) \/ ForgetChunk(p) \/ ForgetMeta(p)
      PROVE  UNCHANGED <<head, acked>>
  BY <1>2
  DEF AddToBatch, Commit, PutAd, Discard, ForgetRm, ForgetChunk, ForgetMeta, WriteFails, store,
      PutAdvert, PutChunkLink, PutMetadata
<1>3. ASSUME NEW p \in Publishers, ReadHead(p)
      PROVE  UNCHANGED head /\ (acked' = acked \/ acked' = acked \cup {head})
  BY <1>3 DEF ReadHead, store
<1>4. ASSUME NEW p \in Publishers, CommitHead(p)
      PROVE  /\ cpc[p] = "replaceHead" /\ base[p] = head /\ head' = NewHead(p)
             /\ acked' = acked \cup {head'}
  BY <1>4 DEF CommitHead, ReplaceHead
<1>5. ASSUME NEW p \in Publishers, CommitFails(p)
      PROVE  /\ UNCHANGED acked
             /\ \/ UNCHANGED head
                \/ cpc[p] = "replaceHead" /\ base[p] = head /\ head' = NewHead(p)
  BY <1>5 DEF CommitFails, ReadFails, WriteFails, PutAdvert, ReplaceHead, ReplaceHeadFails, store
<1>6. CASE UNCHANGED vars
  BY <1>6 DEF vars
<1> QED
  BY <1>1, <1>2, <1>3, <1>4, <1>5, <1>6 DEF Next

LEMMA ChainStep == Types /\ [Next]_vars => [Chain!Next]_<<head, acked>>
<1> SUFFICES ASSUME Types, [Next]_vars PROVE [Chain!Next]_<<head, acked>>
  OBVIOUS
<1>a. head \in Seq(Advert)
  BY DEF Types, StoreTypeOK, Link
<1>p. head \in Prefixes(head)
  BY <1>a, SelfPrefix
<1>1. ASSUME UNCHANGED head, acked' = acked \cup {head} PROVE Chain!Acknowledge
  BY <1>1, <1>p DEF Chain!Acknowledge, Chain!Prefixes, Prefixes
<1>2. ASSUME NEW p \in Publishers, base[p] = head, head' = NewHead(p),
             acked' = acked \/ acked' = acked \cup {head'}
      PROVE  [Chain!Next]_<<head, acked>>
  <2>1. head' = head \o taken[p] /\ taken[p] \in Seq(Advert)
    BY <1>2, LinksOf DEF Types, LocalsType, BatchType, Link
  <2>2. CASE taken[p] = <<>>
    <3>1. head' = head
      BY <1>a, <2>1, <2>2, ConcatEmptySeq
    <3> QED
      BY <1>1, <1>2, <3>1 DEF Chain!Next
  <2>3. CASE taken[p] # <<>>
    <3>1. IsStrictPrefix(head, head')
      BY <1>a, <2>1, <2>3, ConcatStrict
    <3> QED
      BY <1>2, <3>1 DEF Chain!Next, Chain!Extend, Chain!IsStrictPrefix, IsStrictPrefix,
                        Chain!IsPrefix, IsPrefix
  <2> QED
    BY <2>2, <2>3
<1> QED
  BY <1>1, <1>2, HeadStep DEF Chain!Next

\* Whatever additions and removals are committed at once, discarded or committed
\* again, publishing implements AdvertChain.
THEOREM ImplementsChain == Spec => ChainSpec
<1>1. Init => Chain!Init
  BY DEF Init, Gen!Init, Gen!StoreInit, Chain!Init
<1> QED
  BY <1>1, ChainStep, Typed, PTL DEF Spec, ChainSpec, Chain!Spec

-----------------------------------------------------------------------------
(* The head can be walked *)

Stored(l) == l \in blocks \cup Blockless

\* The entries of every advert of the chain l have their blocks.
HasEntries(l) == \A i \in DOMAIN l : Stored(l[i].entries)

\* So have the entries that are mapped, or held by a call that generates an
\* advert, and those of the adverts that are pending or being committed.
MapsInv == \A c \in Contexts : chunkLink[c] # Nil => Stored(chunkLink[c])

LocalsInv ==
  \A p \in Publishers : /\ old[p].chunk # Nil => Stored(old[p].chunk)
                        /\ new[p].chunk # Nil => Stored(new[p].chunk)

BatchInv == \A p \in Publishers : HasEntries(pending[p]) /\ HasEntries(taken[p])

EntriesInv == MapsInv /\ LocalsInv /\ BatchInv

\* A publisher does not generate and commit at once, and what its commit builds
\* on can be walked, up to the advert that it has just written.
Walks(p) ==
  /\ pc[p] = "idle" \/ cpc[p] = "none"
  /\ Walkable(base[p], adverts, blocks)
  /\ cpc[p] = "putAdvert" => Walkable(AdLink(p, n[p] - 1), adverts, blocks)
  /\ cpc[p] = "replaceHead" => Walkable(NewHead(p), adverts, blocks)

WalkInv == HeadClosed /\ \A p \in Publishers : Walks(p)

LEMMA BlocksGrow ==
  ASSUME [Next]_vars
  PROVE  adverts \subseteq adverts' /\ blocks \subseteq blocks'
<1> DEFINE Grow == adverts \subseteq adverts' /\ blocks \subseteq blocks'
<1>1. ASSUME NEW p \in Publishers, GenerateAd(p) \/ Generate(p) PROVE Grow
  BY <1>1, StoreCalls
  DEF GenerateAd, Gen!Call, Generate, ReadMappings, Gen!ReadChunk, NotFound, Gen!ReadMeta,
      ReadMetaOfRm, Gen!ReadMappingsFails, Gen!PutEntriesOf, PutChunk, GenerateFails, Gen!UndoChunk,
      Gen!UndoMeta, Gen!WriteFails, WriteFails, store, PutEntries, PutChunkLink, PutMetadata
<1>2. ASSUME NEW p \in Publishers,
             \/ AddToBatch(p) \/ Commit(p) \/ ReadHead(p) \/ PutAd(p) \/ CommitHead(p)
             \/ Discard(p) \/ ForgetRm(p) \/ ForgetChunk(p) \/ ForgetMeta(p)
      PROVE  Grow
  BY <1>2
  DEF AddToBatch, Commit, ReadHead, PutAd, CommitHead, Discard, ForgetRm, ForgetChunk, ForgetMeta,
      WriteFails, store, PutAdvert, PutChunkLink, PutMetadata, ReplaceHead
<1>3. ASSUME NEW p \in Publishers, CommitFails(p) PROVE Grow
  BY <1>3 DEF CommitFails, ReadFails, WriteFails, PutAdvert, ReplaceHead, ReplaceHeadFails, store
<1>4. CASE UNCHANGED vars
  BY <1>4 DEF vars
<1> QED
  BY <1>1, <1>2, <1>3, <1>4 DEF Next

LEMMA MapsStep == Types /\ EntriesInv /\ [Next]_vars => MapsInv'
<1> SUFFICES ASSUME Types, EntriesInv, [Next]_vars PROVE MapsInv'
  OBVIOUS
<1>b. blocks \subseteq blocks'
  BY BlocksGrow
<1>t. chunkLink \in [Contexts -> Digests \cup {Nil}] /\ LocalsType /\ BatchType
  BY DEF Types, StoreTypeOK
<1>u. ASSUME UNCHANGED chunkLink PROVE MapsInv'
  BY <1>u, <1>b DEF EntriesInv, MapsInv, Stored
<1>p. ASSUME NEW c \in Contexts, NEW l, l # Nil => Stored(l), PutChunkLink(c, l)
      PROVE  MapsInv'
  BY <1>p, <1>b, <1>t DEF PutChunkLink, EntriesInv, MapsInv, Stored
<1>1. ASSUME NEW p \in Publishers, GenerateAd(p) \/ Generate(p) PROVE MapsInv'
  <2>1. \/ UNCHANGED chunkLink
        \/ pc[p] # "idle" /\ PutChunkLink(Gen!Ctx(p), Mapped(p).chunk)
        \/ pc[p] # "idle" /\ PutChunkLink(Gen!Ctx(p), old[p].chunk)
    BY <1>1, StoreCalls
    DEF GenerateAd, Gen!Call, Generate, ReadMappings, Gen!ReadChunk, NotFound, Gen!ReadMeta,
        ReadMetaOfRm, Gen!ReadMappingsFails, Gen!PutEntriesOf, PutChunk, GenerateFails,
        Gen!UndoChunk, Gen!UndoMeta, Gen!WriteFails, WriteFails, store, PutEntries, PutMetadata
  <2>2. /\ Mapped(p).chunk # Nil => Stored(Mapped(p).chunk)
        /\ old[p].chunk # Nil => Stored(old[p].chunk)
    BY DEF Mapped, NoRecord, EntriesInv, LocalsInv
  <2>3. pc[p] # "idle" => Gen!Ctx(p) \in Contexts
    BY <1>t, RequestType
  <2> QED
    BY <2>1, <2>2, <2>3, <1>u, <1>p
<1>2. ASSUME NEW p \in Publishers,
             \/ AddToBatch(p) \/ Commit(p) \/ ReadHead(p) \/ PutAd(p) \/ CommitHead(p)
             \/ Discard(p) \/ ForgetRm(p) \/ ForgetMeta(p)
      PROVE  UNCHANGED chunkLink
  BY <1>2
  DEF AddToBatch, Commit, ReadHead, PutAd, CommitHead, Discard, ForgetRm, ForgetMeta,
      WriteFails, store, PutAdvert, PutMetadata, ReplaceHead
<1>3. ASSUME NEW p \in Publishers, CommitFails(p) PROVE UNCHANGED chunkLink
  BY <1>3 DEF CommitFails, ReadFails, WriteFails, PutAdvert, ReplaceHead, ReplaceHeadFails, store
<1>4. ASSUME NEW p \in Publishers, ForgetChunk(p) PROVE MapsInv'
  <2>1. UNCHANGED chunkLink \/ PutChunkLink(Undone(p), Nil)
    BY <1>4 DEF ForgetChunk, WriteFails, store
  <2>2. Undone(p) \in Contexts
    BY <1>4, <1>t, UndoneType DEF ForgetChunk
  <2> QED
    BY <2>1, <2>2, <1>u, <1>p
<1>5. CASE UNCHANGED vars
  BY <1>5, <1>u DEF vars
<1> QED
  BY <1>1, <1>2, <1>3, <1>4, <1>5, <1>u DEF Next

LEMMA LocalsStep == Types /\ EntriesInv /\ [Next]_vars => LocalsInv'
<1> SUFFICES ASSUME Types, EntriesInv, [Next]_vars PROVE LocalsInv'
  OBVIOUS
<1>b. blocks \subseteq blocks'
  BY BlocksGrow
<1>t. LocalsType /\ chunkLink \in [Contexts -> Digests \cup {Nil}] /\ blocks \subseteq Digests
  BY DEF Types, StoreTypeOK
<1>i. /\ \A c \in Contexts : chunkLink[c] # Nil => Stored(chunkLink[c])
      /\ \A p \in Publishers : /\ old[p].chunk # Nil => Stored(old[p].chunk)
                               /\ new[p].chunk # Nil => Stored(new[p].chunk)
  BY DEF EntriesInv, MapsInv, LocalsInv
<1>u. ASSUME UNCHANGED <<old, new>> PROVE LocalsInv'
  BY <1>u, <1>b, <1>i DEF LocalsInv, Stored
<1>s. ASSUME NEW p \in Publishers,
             \A q \in Publishers \ {p} : old'[q] = old[q] /\ new'[q] = new[q],
             old'[p].chunk # Nil => old'[p].chunk \in blocks' \cup Blockless,
             new'[p].chunk # Nil => new'[p].chunk \in blocks' \cup Blockless
      PROVE  LocalsInv'
  BY <1>s, <1>b, <1>i DEF LocalsInv, Stored
<1>r. ASSUME NEW p \in Publishers, Gen!Return(p) PROVE LocalsInv'
  <2>1. Gen!NoRecord.chunk = Nil
    BY DEF Gen!NoRecord
  <2>2. old'[p].chunk = Nil /\ new'[p].chunk = Nil
        /\ \A q \in Publishers \ {p} : old'[q] = old[q] /\ new'[q] = new[q]
    BY <1>r, <2>1, <1>t DEF Gen!Return, LocalsType
  <2> QED
    BY <2>2, <1>s
<1>1. ASSUME NEW p \in Publishers, Gen!ReadChunk(p) PROVE LocalsInv'
  <2>1. chunkLink[Gen!Ctx(p)] # Nil => Stored(chunkLink[Gen!Ctx(p)])
    BY <1>1, <1>t, <1>i, RequestType DEF Gen!ReadChunk
  <2>2. old'[p].chunk = chunkLink[Gen!Ctx(p)] /\ new' = new
        /\ \A q \in Publishers \ {p} : old'[q] = old[q]
    BY <1>1, <1>t DEF Gen!ReadChunk, LocalsType, ContextRecord
  <2> QED
    BY <2>1, <2>2, <1>b, <1>i, <1>s DEF Stored
<1>2. ASSUME NEW p \in Publishers, Gen!ReadMeta(p) PROVE LocalsInv'
  <2>1. CASE Gen!AlreadyAdvertised(p)
    BY <1>2, <2>1, <1>r DEF Gen!ReadMeta
  <2>2. CASE ~Gen!AlreadyAdvertised(p)
    <3>1. old'[p].chunk = old[p].chunk /\ new'[p].chunk = old[p].chunk
          /\ \A q \in Publishers \ {p} : old'[q] = old[q] /\ new'[q] = new[q]
      BY <1>2, <2>2, <1>t DEF Gen!ReadMeta, LocalsType, ContextRecord
    <3> QED
      BY <3>1, <1>b, <1>i, <1>s DEF Stored
  <2> QED
    BY <2>1, <2>2
<1>3. ASSUME NEW p \in Publishers, ReadMetaOfRm(p) PROVE LocalsInv'
  <2>1. old'[p].chunk = old[p].chunk /\ new'[p].chunk = NoEntries
        /\ \A q \in Publishers \ {p} : old'[q] = old[q] /\ new'[q] = new[q]
    BY <1>3, <1>t DEF ReadMetaOfRm, LocalsType, ContextRecord
  <2> QED
    BY <2>1, <1>b, <1>i, <1>s, RemovalAssumption DEF Stored
<1>4. ASSUME NEW p \in Publishers, Gen!PutEntriesOf(p) PROVE LocalsInv'
  <2>1. new'[p].chunk = call[p].digests /\ old' = old
        /\ \A q \in Publishers \ {p} : new'[q] = new[q]
    BY <1>4, <1>t DEF Gen!PutEntriesOf, LocalsType, ContextRecord
  <2>2. call[p].digests \in blocks' \cup Blockless
    BY <1>4, StoreCalls DEF Gen!PutEntriesOf, PutEntries
  <2> QED
    BY <2>1, <2>2, <1>b, <1>i, <1>s DEF Stored
<1>5. ASSUME NEW p \in Publishers,
             \/ NotFound(p) \/ Gen!ReadMappingsFails(p) \/ Gen!UndoMeta(p) \/ AddToBatch(p)
      PROVE  LocalsInv'
  BY <1>5, <1>r DEF NotFound, Gen!ReadMappingsFails, Gen!UndoMeta, AddToBatch
<1>6. ASSUME NEW p \in Publishers,
             \/ GenerateAd(p) \/ PutChunk(p) \/ GenerateFails(p) \/ Gen!UndoChunk(p)
             \/ Commit(p) \/ ReadHead(p) \/ PutAd(p) \/ CommitHead(p) \/ CommitFails(p)
             \/ Discard(p) \/ ForgetRm(p) \/ ForgetChunk(p) \/ ForgetMeta(p)
      PROVE  UNCHANGED <<old, new>>
  BY <1>6
  DEF GenerateAd, Gen!Call, PutChunk, GenerateFails, Gen!Undo, Gen!UndoChunk, Commit, ReadHead,
      PutAd, CommitHead, CommitFails, Discard, ForgetRm, ForgetChunk, ForgetMeta, generating
<1>7. CASE UNCHANGED vars
  BY <1>7, <1>u DEF vars, generating
<1> QED
  BY <1>1, <1>2, <1>3, <1>4, <1>5, <1>6, <1>7, <1>u DEF Next, Generate, ReadMappings

\* What becomes of the adverts that are pending or being committed.
LEMMA BatchMoves ==
  ASSUME Types, [Next]_vars
  PROVE  \/ UNCHANGED <<pending, taken>>
         \/ \E p \in Publishers :
              /\ pc[p] = "putMeta" /\ UNCHANGED taken
              /\ pending' = [pending EXCEPT ![p] = Append(@, Gen!Ad(p))]
         \/ \E p \in Publishers :
              /\ pending' \in {pending, [pending EXCEPT ![p] = <<>>]}
              /\ taken' \in {[taken EXCEPT ![p] = pending[p]], [taken EXCEPT ![p] = <<>>]}
<1>1. ASSUME NEW p \in Publishers,
             \/ GenerateAd(p) \/ Generate(p) \/ PutAd(p) \/ CommitFails(p) \/ ForgetChunk(p)
      PROVE  UNCHANGED <<pending, taken>>
  BY <1>1 DEF GenerateAd, Generate, PutAd, CommitFails, ForgetChunk
<1>2. ASSUME NEW p \in Publishers, AddToBatch(p)
      PROVE  /\ pc[p] = "putMeta" /\ UNCHANGED taken
             /\ pending' = [pending EXCEPT ![p] = Append(@, Gen!Ad(p))]
  BY <1>2 DEF AddToBatch
<1>3. ASSUME NEW p \in Publishers, Commit(p) \/ Discard(p)
      PROVE  /\ pending' = [pending EXCEPT ![p] = <<>>]
             /\ taken' = [taken EXCEPT ![p] = pending[p]]
  BY <1>3 DEF Commit, Discard, Take
<1>4. ASSUME NEW p \in Publishers, ReadHead(p) \/ CommitHead(p) \/ ForgetRm(p) \/ ForgetMeta(p)
      PROVE  UNCHANGED pending /\ (UNCHANGED taken \/ taken' = [taken EXCEPT ![p] = <<>>])
  BY <1>4 DEF ReadHead, CommitHead, ForgetRm, ForgetMeta, NextUndo, Done
<1>5. UNCHANGED vars => UNCHANGED <<pending, taken>>
  BY DEF vars, committing
<1> QED
  BY <1>1, <1>2, <1>3, <1>4, <1>5 DEF Next

LEMMA BatchStep == Types /\ EntriesInv /\ [Next]_vars => BatchInv'
<1> SUFFICES ASSUME Types, EntriesInv, [Next]_vars PROVE BatchInv'
  OBVIOUS
<1> DEFINE Has(l) == \A k \in DOMAIN l : l[k].entries \in blocks' \cup Blockless
<1>b. blocks \subseteq blocks'
  BY BlocksGrow
<1>t. pending \in [Publishers -> Link] /\ taken \in [Publishers -> Link] /\ LocalsType
  BY DEF Types, BatchType
<1>h. \A q \in Publishers : Has(pending[q]) /\ Has(taken[q])
  BY <1>b DEF EntriesInv, BatchInv, HasEntries, Stored
<1>e. Has(<<>>)
  <2>1. <<>> \in Seq({}) /\ DOMAIN <<>> = 1..Len(<<>>) /\ Len(<<>>) = 0
    BY EmptySeq, LenProperties
  <2> QED
    BY <2>1
<1>d. (\A q \in Publishers : Has(pending'[q]) /\ Has(taken'[q])) => BatchInv'
  BY DEF BatchInv, HasEntries, Stored
<1> HIDE DEF Has
<1>1. CASE UNCHANGED <<pending, taken>>
  BY <1>1, <1>d, <1>h
<1>2. ASSUME NEW p \in Publishers, pc[p] = "putMeta", UNCHANGED taken,
             pending' = [pending EXCEPT ![p] = Append(@, Gen!Ad(p))]
      PROVE  BatchInv'
  <2>1. Gen!Ad(p) \in Advert /\ Gen!Ad(p).entries = new[p].chunk /\ new[p].chunk # Nil
    BY <1>2, <1>t, AdType DEF Gen!Ad, LocalsType, Decided
  <2>2. Gen!Ad(p).entries \in blocks' \cup Blockless
    BY <2>1, <1>b DEF EntriesInv, LocalsInv, Stored
  <2> DEFINE l == pending[p]
             ad == Gen!Ad(p)
             m == Append(l, ad)
  <2>3. l \in Seq(Advert) /\ ad \in Advert /\ Has(l) /\ ad.entries \in blocks' \cup Blockless
    BY <1>t, <1>h, <2>1, <2>2 DEF Link
  <2> HIDE DEF l, ad
  <2>4. /\ Len(l) \in Nat /\ DOMAIN l = 1..Len(l) /\ DOMAIN m = 1..(Len(l) + 1)
        /\ \A k \in 1..Len(l) : m[k] = l[k]
        /\ m[Len(l) + 1] = ad
    BY <2>3, LenProperties, AppendProperties
  <2> HIDE DEF m
  <2>5. Has(m)
    BY <2>3, <2>4 DEF Has
  <2>6. pending'[p] = m /\ \A q \in Publishers \ {p} : pending'[q] = pending[q]
    BY <1>2, <1>t DEF l, ad, m
  <2> QED
    BY <1>2, <2>5, <2>6, <1>d, <1>h
<1>3. ASSUME NEW p \in Publishers,
             pending' \in {pending, [pending EXCEPT ![p] = <<>>]},
             taken' \in {[taken EXCEPT ![p] = pending[p]], [taken EXCEPT ![p] = <<>>]}
      PROVE  BatchInv'
  <2>1. \A q \in Publishers : pending'[q] = pending[q] \/ pending'[q] = <<>>
    BY <1>3, <1>t
  <2>2. \A q \in Publishers :
          taken'[q] = taken[q] \/ taken'[q] = pending[q] \/ taken'[q] = <<>>
    BY <1>3, <1>t
  <2>3. \A q \in Publishers : Has(pending'[q])
    BY <1>e, <1>h, <2>1
  <2>4. \A q \in Publishers : Has(taken'[q])
    BY <1>e, <1>h, <2>2
  <2> QED
    BY <1>d, <2>3, <2>4
<1> QED
  BY <1>1, <1>2, <1>3, BatchMoves

-----------------------------------------------------------------------------

\* A publisher that does not commit, or whose commit stays where it is, still
\* walks: blocks are never deleted.
LEMMA WalksRest ==
  ASSUME Types, [Next]_vars, NEW q \in Publishers, Walks(q),
         pc'[q] = "idle" \/ cpc'[q] = "none",
         \/ base'[q] = base[q] /\ taken'[q] = taken[q] /\ n'[q] = n[q] /\ cpc'[q] = cpc[q]
         \/ base'[q] \in {base[q], <<>>} /\ cpc'[q] \notin {"putAdvert", "replaceHead"}
  PROVE  Walks(q)'
<1>b. adverts \subseteq adverts' /\ blocks \subseteq blocks'
  BY BlocksGrow
<1>g. \A l : Walkable(l, adverts, blocks) => Walkable(l, adverts', blocks')
  BY <1>b, WalkableGrows
<1>w. Walkable(<<>>, adverts', blocks')
  BY WalkableEmpty
<1>1. Walkable(base'[q], adverts', blocks')
  BY <1>g, <1>w DEF Walks
<1>2. CASE base'[q] = base[q] /\ taken'[q] = taken[q] /\ n'[q] = n[q] /\ cpc'[q] = cpc[q]
  <2>1. /\ cpc'[q] = "putAdvert"
             => Walkable(base'[q] \o SubSeq(taken'[q], 1, n'[q] - 1), adverts', blocks')
        /\ cpc'[q] = "replaceHead"
             => Walkable(base'[q] \o SubSeq(taken'[q], 1, Len(taken'[q])), adverts', blocks')
    BY <1>2, <1>g DEF Walks, AdLink, NewHead
  <2> QED
    BY <1>1, <2>1 DEF Walks, AdLink, NewHead
<1>3. CASE cpc'[q] \notin {"putAdvert", "replaceHead"}
  BY <1>1, <1>3 DEF Walks
<1> QED
  BY <1>2, <1>3

\* The steps of the publisher p that write no part of what a commit builds on.
Quiet(p) ==
  \/ GenerateAd(p) \/ Generate(p) \/ AddToBatch(p)
  \/ Commit(p) \/ CommitHead(p) \/ CommitFails(p)
  \/ Discard(p) \/ ForgetRm(p) \/ ForgetChunk(p) \/ ForgetMeta(p)

LEMMA OthersRest ==
  ASSUME Types, NEW p \in Publishers, Quiet(p) \/ ReadHead(p) \/ PutAd(p),
         NEW q \in Publishers, q # p
  PROVE  /\ pc'[q] = pc[q] /\ base'[q] = base[q]
         /\ taken'[q] = taken[q] /\ n'[q] = n[q] /\ cpc'[q] = cpc[q]
<1>t. /\ pc \in [Publishers -> LabelsType] /\ base \in [Publishers -> Link]
      /\ taken \in [Publishers -> Link] /\ n \in [Publishers -> Nat]
      /\ DOMAIN cpc = Publishers
  BY DEF Types, LocalsType, BatchType
<1>1. CASE GenerateAd(p) \/ Generate(p) \/ AddToBatch(p)
  <2>1. UNCHANGED <<cpc, taken, n>>
    BY <1>1 DEF GenerateAd, Generate, AddToBatch
  <2>2. \E s : pc' = [pc EXCEPT ![p] = s]
    BY <1>1
    DEF GenerateAd, Gen!Call, Generate, ReadMappings, Gen!ReadChunk, NotFound, Gen!ReadMeta,
        ReadMetaOfRm, Gen!ReadMappingsFails, Gen!PutEntriesOf, PutChunk, GenerateFails,
        Gen!Undo, Gen!UndoChunk, Gen!UndoMeta, AddToBatch, Gen!Return, Gen!Goto
  <2>3. UNCHANGED base \/ base' = [base EXCEPT ![p] = <<>>]
    BY <1>1
    DEF GenerateAd, Gen!Call, Generate, ReadMappings, Gen!ReadChunk, NotFound, Gen!ReadMeta,
        ReadMetaOfRm, Gen!ReadMappingsFails, Gen!PutEntriesOf, PutChunk, GenerateFails,
        Gen!Undo, Gen!UndoChunk, Gen!UndoMeta, AddToBatch, Gen!Return
  <2> QED
    BY <2>1, <2>2, <2>3, <1>t
<1>2. CASE Commit(p) \/ Discard(p) \/ ReadHead(p) \/ PutAd(p)
  BY <1>2, <1>t
  DEF Commit, Discard, ReadHead, PutAd, Take, Goto, Done, UndoAll, generating
<1>3. CASE CommitHead(p) \/ CommitFails(p) \/ ForgetRm(p) \/ ForgetChunk(p) \/ ForgetMeta(p)
  BY <1>3, <1>t
  DEF CommitHead, CommitFails, ForgetRm, ForgetChunk, ForgetMeta, Goto, Done, UndoAll, NextUndo,
      generating
<1> QED
  BY <1>1, <1>2, <1>3 DEF Quiet

LEMMA QuietRest ==
  ASSUME Types, NEW p \in Publishers, Quiet(p), pc[p] = "idle" \/ cpc[p] = "none"
  PROVE  /\ pc'[p] = "idle" \/ cpc'[p] = "none"
         /\ base'[p] \in {base[p], <<>>} /\ cpc'[p] \notin {"putAdvert", "replaceHead"}
<1>t. pc \in [Publishers -> LabelsType] /\ base \in [Publishers -> Link] /\ DOMAIN cpc = Publishers
  BY DEF Types, LocalsType, BatchType
<1>1. CASE GenerateAd(p) \/ Generate(p) \/ AddToBatch(p)
  <2>1. UNCHANGED cpc /\ (Idle(p) \/ pc[p] # "idle")
    BY <1>1
    DEF GenerateAd, Generate, ReadMappings, Gen!ReadChunk, NotFound, Gen!ReadMeta, ReadMetaOfRm,
        Gen!ReadMappingsFails, Gen!PutEntriesOf, PutChunk, GenerateFails, Gen!UndoChunk,
        Gen!UndoMeta, AddToBatch
  <2>2. cpc'[p] = "none"
    BY <2>1 DEF Idle
  <2>3. UNCHANGED base \/ base' = [base EXCEPT ![p] = <<>>]
    BY <1>1
    DEF GenerateAd, Gen!Call, Generate, ReadMappings, Gen!ReadChunk, NotFound, Gen!ReadMeta,
        ReadMetaOfRm, Gen!ReadMappingsFails, Gen!PutEntriesOf, PutChunk, GenerateFails,
        Gen!Undo, Gen!UndoChunk, Gen!UndoMeta, AddToBatch, Gen!Return
  <2> QED
    BY <2>2, <2>3, <1>t
<1>2. CASE Commit(p) \/ Discard(p)
  BY <1>2, <1>t DEF Commit, Discard, Take, Idle, Goto, UndoAll, generating
<1>3. CASE CommitHead(p) \/ CommitFails(p) \/ ForgetRm(p) \/ ForgetChunk(p) \/ ForgetMeta(p)
  <2>1. pc'[p] = "idle"
    BY <1>3 DEF CommitHead, CommitFails, ForgetRm, ForgetChunk, ForgetMeta, generating
  <2>2. base'[p] \in {base[p], <<>>} /\ cpc'[p] \notin {"putAdvert", "replaceHead"}
    BY <1>3, <1>t
    DEF CommitHead, CommitFails, ForgetRm, ForgetChunk, ForgetMeta, Goto, Done, UndoAll, NextUndo
  <2> QED
    BY <2>1, <2>2
<1> QED
  BY <1>1, <1>2, <1>3 DEF Quiet

\* Reading the head starts a walk, and writing an advert carries it on.
LEMMA ReadHeadWalks ==
  ASSUME Types, HeadClosed, NEW p \in Publishers, Walks(p), ReadHead(p)
  PROVE  Walks(p)'
<1>t. base \in [Publishers -> Link] /\ taken \in [Publishers -> Link] /\ n \in [Publishers -> Nat]
      /\ DOMAIN cpc = Publishers /\ head \in Seq(Advert)
  BY DEF Types, LocalsType, BatchType, StoreTypeOK, Link
<1>1. UNCHANGED <<adverts, blocks, pc>> /\ pc[p] = "idle"
  BY DEF ReadHead, Walks, store, generating
<1>2. CASE taken[p] = <<>>
  <2>1. base'[p] = <<>> /\ cpc'[p] = "none"
    BY <1>2, <1>t DEF ReadHead, Done, Goto
  <2> QED
    BY <2>1, <1>1, WalkableEmpty DEF Walks
<1>3. CASE taken[p] # <<>>
  <2>1. /\ base'[p] = head /\ cpc'[p] = "putAdvert" /\ n'[p] = 1 /\ UNCHANGED taken
    BY <1>3, <1>t DEF ReadHead, Goto
  <2>2. base'[p] \o SubSeq(taken'[p], 1, n'[p] - 1) = head
    <3>1. SubSeq(taken[p], 1, 0) = <<>>
      BY SubSeqEmpty
    <3>2. n'[p] - 1 = 0
      BY <2>1
    <3>3. SubSeq(taken'[p], 1, n'[p] - 1) = <<>>
      BY <3>1, <3>2, <2>1
    <3> QED
      BY <2>1, <3>3, <1>t, ConcatEmptySeq
  <2> QED
    BY <1>1, <2>1, <2>2 DEF Walks, AdLink, HeadClosed
<1> QED
  BY <1>2, <1>3

LEMMA PutAdWalks ==
  ASSUME Types, EntriesInv, NEW p \in Publishers, Walks(p), PutAd(p)
  PROVE  Walks(p)'
<1>t. base \in [Publishers -> Link] /\ taken \in [Publishers -> Link] /\ n \in [Publishers -> Nat]
      /\ DOMAIN cpc = Publishers /\ BatchType
  BY DEF Types, LocalsType, BatchType
<1>1. /\ cpc[p] = "putAdvert" /\ UNCHANGED <<pc, base, taken, blocks>> /\ pc[p] = "idle"
      /\ adverts' = adverts \cup {AdLink(p, n[p])}
  BY DEF PutAd, PutAdvert, Walks, generating
<1>2. n[p] \in 1..Len(taken[p]) /\ Len(taken[p]) \in Nat /\ DOMAIN taken[p] = 1..Len(taken[p])
  BY <1>1, <1>t, UndoneType, LenProperties DEF Link
<1>3. /\ taken[p][n[p]] \in Advert /\ AdLink(p, n[p] - 1) \in Link
      /\ AdLink(p, n[p]) = Append(AdLink(p, n[p] - 1), taken[p][n[p]])
  <2>1. n[p] - 1 \in 0..Len(taken[p])
    BY <1>2
  <2> QED
    BY <2>1, <1>2, <1>t, LinksOf
<1>4. taken[p][n[p]].entries \in blocks \cup Blockless
  BY <1>2 DEF EntriesInv, BatchInv, HasEntries, Stored
<1>g. \A l : Walkable(l, adverts, blocks) => Walkable(l, adverts', blocks')
  BY <1>1, WalkableGrows
<1>5. Walkable(AdLink(p, n[p]), adverts', blocks')
  <2> DEFINE l == AdLink(p, n[p] - 1)
             ad == taken[p][n[p]]
  <2>1. /\ l \in Link /\ ad \in Advert /\ Walkable(l, adverts', blocks')
        /\ Append(l, ad) \in adverts' /\ ad.entries \in blocks' \cup Blockless
    BY <1>1, <1>3, <1>4, <1>g DEF Walks
  <2> HIDE DEF l, ad
  <2>2. Walkable(Append(l, ad), adverts', blocks')
    BY <2>1, WalkableAppend
  <2> QED
    BY <2>2, <1>3 DEF l, ad
<1>6. Walkable(base'[p], adverts', blocks')
  BY <1>1, <1>g DEF Walks
<1>7. CASE n[p] < Len(taken[p])
  <2>1. cpc'[p] = "putAdvert" /\ n'[p] = n[p] + 1
    BY <1>7, <1>t DEF PutAd, Goto
  <2>2. n'[p] - 1 = n[p]
    BY <2>1, <1>2
  <2>3. Walkable(base'[p] \o SubSeq(taken'[p], 1, n'[p] - 1), adverts', blocks')
    BY <2>2, <1>1, <1>5 DEF AdLink
  <2> QED
    BY <1>1, <1>6, <2>1, <2>3 DEF Walks, AdLink
<1>8. CASE ~(n[p] < Len(taken[p]))
  <2>1. cpc'[p] = "replaceHead" /\ n[p] = Len(taken[p])
    BY <1>8, <1>t, <1>2 DEF PutAd, Goto
  <2>2. Walkable(base'[p] \o SubSeq(taken'[p], 1, Len(taken'[p])), adverts', blocks')
    BY <2>1, <1>1, <1>5 DEF AdLink
  <2> QED
    BY <1>1, <1>6, <2>1, <2>2 DEF Walks, NewHead, AdLink
<1> QED
  BY <1>7, <1>8

LEMMA WalkStep == Types /\ EntriesInv /\ WalkInv /\ [Next]_vars => WalkInv'
<1> SUFFICES ASSUME Types, EntriesInv, WalkInv, [Next]_vars PROVE WalkInv'
  OBVIOUS
<1>i. HeadClosed /\ \A p \in Publishers : Walks(p)
  BY DEF WalkInv
<1>b. adverts \subseteq adverts' /\ blocks \subseteq blocks'
  BY BlocksGrow
<1>g. \A l : Walkable(l, adverts, blocks) => Walkable(l, adverts', blocks')
  BY <1>b, WalkableGrows
<1>1. HeadClosed'
  <2>1. Walkable(head', adverts, blocks)
    BY <1>i, HeadStep DEF HeadClosed, Walks
  <2> QED
    BY <2>1, <1>g DEF HeadClosed
<1>2. ASSUME NEW p \in Publishers, Quiet(p) \/ ReadHead(p) \/ PutAd(p), NEW q \in Publishers
      PROVE  Walks(q)'
  <2>1. CASE q # p
    <3>1. /\ pc'[q] = pc[q] /\ base'[q] = base[q]
          /\ taken'[q] = taken[q] /\ n'[q] = n[q] /\ cpc'[q] = cpc[q]
      BY <1>2, <2>1, OthersRest
    <3>2. Walks(q) /\ (pc'[q] = "idle" \/ cpc'[q] = "none")
      BY <3>1, <1>i DEF Walks
    <3> QED
      BY <3>1, <3>2, WalksRest
  <2>2. CASE q = p /\ Quiet(p)
    <3>1. Walks(p) /\ (pc[p] = "idle" \/ cpc[p] = "none")
      BY <1>i DEF Walks
    <3>2. /\ pc'[p] = "idle" \/ cpc'[p] = "none"
          /\ base'[p] \in {base[p], <<>>} /\ cpc'[p] \notin {"putAdvert", "replaceHead"}
      BY <2>2, <3>1, QuietRest
    <3>3. Walks(p)'
      BY <3>1, <3>2, WalksRest
    <3> QED
      BY <2>2, <3>3
  <2>3. CASE q = p /\ ReadHead(p)
    BY <2>3, <1>i, ReadHeadWalks
  <2>4. CASE q = p /\ PutAd(p)
    BY <2>4, <1>i, PutAdWalks
  <2> QED
    BY <1>2, <2>1, <2>2, <2>3, <2>4
<1>3. ASSUME UNCHANGED vars, NEW q \in Publishers PROVE Walks(q)'
  <2>1. /\ pc' = pc /\ base' = base /\ taken' = taken /\ n' = n /\ cpc' = cpc
    BY <1>3 DEF vars, generating, committing
  <2>2. Walks(q) /\ (pc'[q] = "idle" \/ cpc'[q] = "none")
    BY <2>1, <1>i DEF Walks
  <2> QED
    BY <2>1, <2>2, WalksRest
<1> QED
  BY <1>1, <1>2, <1>3 DEF Next, Quiet, WalkInv

IInv == Types /\ EntriesInv /\ WalkInv

LEMMA IInvInit == Init => IInv
<1> SUFFICES ASSUME Init PROVE IInv
  OBVIOUS
<1>1. DOMAIN <<>> = {}
  <2>1. <<>> \in Seq({}) /\ DOMAIN <<>> = 1..Len(<<>>) /\ Len(<<>>) = 0
    BY EmptySeq, LenProperties
  <2> QED
    BY <2>1
<1>2. Gen!NoRecord.chunk = Nil
  BY DEF Gen!NoRecord
<1>3. EntriesInv
  BY <1>1, <1>2
  DEF Init, Gen!Init, Gen!StoreInit, EntriesInv, MapsInv, LocalsInv, BatchInv, HasEntries
<1>4. WalkInv
  BY WalkableEmpty DEF Init, Gen!Init, Gen!StoreInit, WalkInv, HeadClosed, Walks
<1> QED
  BY <1>3, <1>4, TypeInit DEF IInv

\* Whatever is committed at once, and however generating, commits and their undos
\* fail and interleave, an indexer can fetch all that the head reaches.
THEOREM HeadIsClosed == Spec => []HeadClosed
<1>1. IInv /\ [Next]_vars => IInv'
  BY TypeStep, MapsStep, LocalsStep, BatchStep, WalkStep DEF IInv, EntriesInv
<1>2. IInv => HeadClosed
  BY DEF IInv, WalkInv
<1> QED
  BY <1>1, <1>2, IInvInit, PTL DEF Spec

-----------------------------------------------------------------------------
(* What the mappings say of the chain *)

\* What is mapped as r under c says what the chain l says, or nothing is mapped
\* and an addition of c is among those given up, which are d.
Fits(r, l, c, d) == Says(r, l, c) \/ (r.chunk = Nil /\ c \in d)

\* What p is about to put behind the head, and the chain that makes.
Batch(p) == IF cpc[p] = "none" THEN pending[p] ELSE taken[p]
Line(p) == head \o Batch(p)

Forgetting(p) == cpc[p] \in {"forgetChunk", "forgetMeta"}

\* An undo of p has been at the context c.
Forgotten(p, c) ==
  \E k \in DOMAIN taken[p] :
    /\ taken[p][k].ctx = c
    /\ k > n[p] \/ (k = n[p] /\ cpc[p] = "forgetMeta")

OwnOnly(l, p) == \A k \in DOMAIN l : l[k].ctx \in Owns[p]

\* A publisher's adverts are for its own contexts, and it does not generate any
\* while it commits.
Mine(p) ==
  /\ OwnOnly(pending[p], p) /\ OwnOnly(taken[p], p)
  /\ cpc[p] # "none" => pending[p] = <<>> /\ pc[p] = "idle"

\* The steps of generating at which what it will map is decided.
Writing == {"putEntries", "putChunk", "putMeta"}

Reading == {"readChunk", "readMeta"}

\* What a call of GenerateAd knows of its context: until it has read the mappings
\* they fit the chain, from then on the record that it restores on failure does,
\* and the mappings hold what it has written.
GenAgrees(p) ==
  pc[p] # "idle" =>
    LET c == Gen!Ctx(p)
    IN  /\ c \in Owns[p]
        /\ pc[p] \in Reading /\ c \notin torn => Fits(Record(c), Line(p), c, dropped)
        /\ pc[p] = "readMeta" => old[p].chunk = chunkLink[c]
        /\ pc[p] \notin Reading /\ c \notin torn => Fits(old[p], Line(p), c, dropped)
        /\ pc[p] = "putMeta" => chunkLink[c] = Mapped(p).chunk
        /\ pc[p] = "undoMeta" /\ c \notin torn => chunkLink[c] = old[p].chunk
        /\ pc[p] \in Writing => new[p].md = call[p].md
        /\ pc[p] \in Writing /\ IsRm(p) => pc[p] # "putEntries" /\ new[p].chunk = NoEntries

\* The mappings of the other contexts fit the chain that p is making.
RestAgrees(p) ==
  ~Forgetting(p) =>
    \A c \in Owns[p] \ torn :
      (pc[p] # "idle" => Gen!Ctx(p) # c) => Fits(Record(c), Line(p), c, dropped)

\* An undo leaves alone what it is not about, and what it has forgotten is not
\* mapped and given up.
UndoAgrees(p) ==
  Forgetting(p) =>
    \A c \in Owns[p] \ torn :
      /\ ~Mentions(taken[p], c) => Fits(Record(c), head, c, dropped)
      /\ Forgotten(p, c) => chunkLink[c] = Nil /\ c \in dropped

Agreed(p) == Mine(p) /\ GenAgrees(p) /\ RestAgrees(p) /\ UndoAgrees(p)

AgreeInv == \A p \in Publishers : Agreed(p)

-----------------------------------------------------------------------------
(* Records and chains *)

LEMMA FitsConcat ==
  ASSUME NEW h \in Link, NEW l \in Link, NEW c, NEW r, NEW d
  PROVE  Fits(r, h \o l, c, d) <=> IF Mentions(l, c) THEN Fits(r, l, c, d) ELSE Fits(r, h, c, d)
BY AgreesConcat DEF Fits, Says

LEMMA MentionsEmpty == \A c : ~Mentions(<<>>, c)
<1>1. <<>> \in Seq({}) /\ DOMAIN <<>> = 1..Len(<<>>) /\ Len(<<>>) = 0
  BY EmptySeq, LenProperties
<1> QED
  BY <1>1 DEF Mentions

\* Adverts for other contexts that come between change nothing.
LEMMA FitsInsert ==
  ASSUME NEW h \in Link, NEW t \in Link, NEW l \in Link, NEW c, ~Mentions(t, c), NEW r, NEW d
  PROVE  Fits(r, h \o l, c, d) <=> Fits(r, (h \o t) \o l, c, d)
<1>1. h \o t \in Link
  BY ConcatProperties DEF Link
<1> QED
  BY <1>1, FitsConcat

\* An advert that is added says of its context what it announces or removes.
LEMMA FitsAppend ==
  ASSUME NEW h \in Link, NEW l \in Link, NEW ad \in Advert, NEW c, NEW r, NEW d
  PROVE  /\ ad.ctx # c /\ Fits(r, h \o l, c, d) => Fits(r, h \o Append(l, ad), c, d)
         /\ ad.ctx = c /\ ad.md # Removal /\ r = [chunk |-> ad.entries, md |-> ad.md]
              => Fits(r, h \o Append(l, ad), c, d)
         /\ ad.ctx = c /\ ad.md = Removal /\ ad.entries = NoEntries /\ r = NoRecord
              => Fits(r, h \o Append(l, ad), c, d)
<1>1. h \o Append(l, ad) = Append(h \o l, ad) /\ h \o l \in Link
  BY ConcatAppend, ConcatProperties DEF Link
<1> DEFINE s == h \o l
<1> HIDE DEF s
<1>2. s \in Link /\ h \o Append(l, ad) = Append(s, ad)
  BY <1>1 DEF s
<1>3. ASSUME ad.ctx # c, Fits(r, s, c, d) PROVE Fits(r, Append(s, ad), c, d)
  BY <1>2, <1>3, AgreesOther DEF Fits, Says
<1>4. ASSUME ad.ctx = c, ad.md # Removal, r = [chunk |-> ad.entries, md |-> ad.md]
      PROVE  Fits(r, Append(s, ad), c, d)
  BY <1>2, <1>4, AgreesNewest DEF Fits, Says
<1>5. ASSUME ad.ctx = c, ad.md = Removal, ad.entries = NoEntries, r = NoRecord
      PROVE  Fits(r, Append(s, ad), c, d)
  BY <1>2, <1>5, AgreesNewest DEF Fits, Says, Removed, NoRecord
<1> QED
  BY <1>2, <1>3, <1>4, <1>5 DEF s

LEMMA FitsGrows ==
  ASSUME NEW r, NEW l, NEW c, NEW d, NEW e, d \subseteq e, Fits(r, l, c, d)
  PROVE  Fits(r, l, c, e)
BY DEF Fits


-----------------------------------------------------------------------------
(* What a step of one publisher leaves alone *)

\* A step of p leaves alone what the other publishers hold, and all of the
\* contexts that are not its own; the chain can grow by adverts for its own.
Touches(p) ==
  /\ \A q \in Publishers \ {p} :
       /\ pc'[q] = pc[q] /\ call'[q] = call[q] /\ old'[q] = old[q] /\ new'[q] = new[q]
       /\ cpc'[q] = cpc[q] /\ taken'[q] = taken[q] /\ n'[q] = n[q] /\ pending'[q] = pending[q]
  /\ \A c \in Contexts \ Owns[p] :
       /\ chunkLink'[c] = chunkLink[c] /\ metadata'[c] = metadata[c]
       /\ c \in torn' <=> c \in torn
       /\ c \in dropped' <=> c \in dropped
  /\ \E t \in Link : OwnOnly(t, p) /\ head' = head \o t

LEMMA OthersStayAgreed ==
  ASSUME Types, NEW p \in Publishers, NEW q \in Publishers, p # q, Touches(p), Agreed(q)
  PROVE  Agreed(q)'
<1>1. /\ pc'[q] = pc[q] /\ call'[q] = call[q] /\ old'[q] = old[q] /\ new'[q] = new[q]
      /\ cpc'[q] = cpc[q] /\ taken'[q] = taken[q] /\ n'[q] = n[q] /\ pending'[q] = pending[q]
  BY DEF Touches
<1>2. ASSUME NEW c \in Owns[q]
      PROVE  /\ c \in Contexts /\ chunkLink'[c] = chunkLink[c] /\ metadata'[c] = metadata[c]
             /\ c \in torn' <=> c \in torn
             /\ c \in dropped' <=> c \in dropped
  <2>1. c \in Contexts /\ c \notin Owns[p]
    BY OwnsAssumption, OwnersAssumption
  <2> QED
    BY <2>1 DEF Touches
<1>3. /\ head \in Link /\ pending[q] \in Link /\ taken[q] \in Link /\ <<>> \in Link
  BY EmptySeq DEF Types, StoreTypeOK, BatchType, Link
<1>4. PICK t \in Link : OwnOnly(t, p) /\ head' = head \o t
  BY DEF Touches
<1>5. \A c \in Owns[q] : ~Mentions(t, c)
  <2>1. DOMAIN t = 1..Len(t) /\ \A k \in DOMAIN t : t[k].ctx \in Owns[p]
    BY <1>4, LenProperties DEF OwnOnly, Link
  <2> QED
    BY <2>1, OwnersAssumption DEF Mentions
<1>6. ASSUME NEW c \in Owns[q], NEW r
      PROVE  /\ \A l \in Link : Fits(r, head \o l, c, dropped) => Fits(r, head' \o l, c, dropped')
             /\ Fits(r, head, c, dropped) => Fits(r, head', c, dropped')
  <2>1. \A l \in Link : Fits(r, head \o l, c, dropped) => Fits(r, (head \o t) \o l, c, dropped)
    BY <1>3, <1>5, FitsInsert
  <2>2. Fits(r, head, c, dropped) => Fits(r, head \o t, c, dropped)
    BY <1>3, <1>5, FitsConcat
  <2>3. \A l : Fits(r, l, c, dropped) => Fits(r, l, c, dropped')
    BY <1>2 DEF Fits
  <2> QED
    BY <2>1, <2>2, <2>3, <1>4
<1>7. Batch(q)' = Batch(q) /\ Batch(q) \in Link
  BY <1>1, <1>3 DEF Batch
<1>8. Line(q)' = head' \o Batch(q)
  BY <1>7 DEF Line
<1>9. \A c \in Owns[q] : Record(c)' = Record(c)
  BY <1>2 DEF Record
<1>10. Mine(q)'
  BY <1>1 DEF Agreed, Mine, OwnOnly
<1>11. \A c \in Owns[q] : \A r : Fits(r, Line(q), c, dropped) => Fits(r, Line(q)', c, dropped')
  BY <1>6, <1>7, <1>8 DEF Line
<1>12. GenAgrees(q)'
  <2>1. CASE pc[q] = "idle"
    BY <1>1, <2>1 DEF GenAgrees
  <2>2. CASE pc[q] # "idle"
    <3>1. PICK c \in Owns[q] : Gen!Ctx(q) = c
      BY <2>2 DEF Agreed, GenAgrees
    <3>2. Gen!Ctx(q)' = c /\ Mapped(q)' = Mapped(q) /\ (IsRm(q)' <=> IsRm(q))
      BY <3>1, <1>1 DEF Gen!Ctx, Mapped, IsRm
    <3>3. /\ GenAgrees(q) /\ Record(c)' = Record(c) /\ chunkLink'[c] = chunkLink[c]
          /\ c \in torn' <=> c \in torn
          /\ \A r : Fits(r, Line(q), c, dropped) => Fits(r, Line(q)', c, dropped')
      BY <1>2, <1>9, <1>11 DEF Agreed
    <3> HIDE DEF Fits, Record, Line
    <3> QED
      BY <1>1, <2>2, <3>1, <3>2, <3>3 DEF GenAgrees
  <2> QED
    BY <2>1, <2>2
<1>13. RestAgrees(q)'
  <2> SUFFICES ASSUME ~Forgetting(q)', NEW c \in Owns[q], c \notin torn',
                      pc'[q] # "idle" => Gen!Ctx(q)' # c
               PROVE  Fits(Record(c)', Line(q)', c, dropped')
    BY DEF RestAgrees
  <2>1. ~Forgetting(q) /\ (pc[q] # "idle" => Gen!Ctx(q) # c) /\ c \notin torn
    BY <1>1, <1>2 DEF Forgetting, Gen!Ctx
  <2>2. Fits(Record(c), Line(q), c, dropped)
    BY <2>1 DEF Agreed, RestAgrees
  <2> QED
    BY <2>2, <1>9, <1>11
<1>14. UndoAgrees(q)'
  <2> SUFFICES ASSUME Forgetting(q)', NEW c \in Owns[q], c \notin torn'
               PROVE  /\ ~Mentions(taken'[q], c) => Fits(Record(c)', head', c, dropped')
                      /\ Forgotten(q, c)' => chunkLink'[c] = Nil /\ c \in dropped'
    BY DEF UndoAgrees
  <2>1. Forgetting(q) /\ c \notin torn /\ (Forgotten(q, c)' <=> Forgotten(q, c))
    BY <1>1, <1>2 DEF Forgetting, Forgotten
  <2> QED
    BY <2>1, <1>1, <1>2, <1>6, <1>9 DEF Agreed, UndoAgrees
<1> QED
  BY <1>10, <1>12, <1>13, <1>14 DEF Agreed


\* A call, a commit and its undo are about contexts of their publisher.
LEMMA OwnContexts ==
  ASSUME Types, NEW p \in Publishers, Agreed(p)
  PROVE  /\ pc[p] # "idle" => Gen!Ctx(p) \in Owns[p] /\ Gen!Ctx(p) \in Contexts
         /\ Forgetting(p) => Undone(p) \in Owns[p] /\ Undone(p) \in Contexts
<1>1. ASSUME Forgetting(p) PROVE Undone(p) \in Owns[p]
  <2>1. n[p] \in DOMAIN taken[p]
    BY <1>1 DEF Forgetting, Types, BatchType
  <2> QED
    BY <2>1 DEF Agreed, Mine, OwnOnly, Undone
<1>2. pc[p] # "idle" => Gen!Ctx(p) \in Owns[p]
  BY DEF Agreed, GenAgrees
<1> QED
  BY <1>1, <1>2, OwnsAssumption

LEMMA StepTouches ==
  ASSUME Types, NEW p \in Publishers, Agreed(p), Quiet(p) \/ ReadHead(p) \/ PutAd(p)
  PROVE  Touches(p)
<1>t. /\ call \in [Publishers -> Requests \cup {Nil}] /\ old \in [Publishers -> ContextRecord]
      /\ new \in [Publishers -> ContextRecord] /\ pending \in [Publishers -> Link]
      /\ chunkLink \in [Contexts -> Digests \cup {Nil}]
      /\ metadata \in [Contexts -> Metadatas \cup {Nil}]
  BY DEF Types, StoreTypeOK, LocalsType, BatchType
<1>o. /\ pc[p] # "idle" => Gen!Ctx(p) \in Owns[p] /\ Gen!Ctx(p) \in Contexts
      /\ Forgetting(p) => Undone(p) \in Owns[p] /\ Undone(p) \in Contexts
  BY OwnContexts
<1> DEFINE Rest ==
             /\ \A q \in Publishers \ {p} :
                  /\ call'[q] = call[q] /\ old'[q] = old[q] /\ new'[q] = new[q]
                  /\ pending'[q] = pending[q]
             /\ \A c \in Contexts \ Owns[p] :
                  /\ chunkLink'[c] = chunkLink[c] /\ metadata'[c] = metadata[c]
                  /\ c \in torn' <=> c \in torn
                  /\ c \in dropped' <=> c \in dropped
<1>1. ASSUME GenerateAd(p) \/ Generate(p),
             GenerateAd(p) \/ ReadMappings(p) \/ Gen!PutEntriesOf(p)
      PROVE  Rest /\ head' = head
  <2>0. UNCHANGED <<dropped, pending>>
    BY <1>1 DEF GenerateAd, Generate
  <2>1. UNCHANGED <<head, chunkLink, metadata, torn, dropped, pending>>
    BY <1>1, <2>0, StoreCalls
    DEF GenerateAd, Gen!Call, ReadMappings, Gen!ReadChunk, NotFound, Gen!ReadMeta,
        ReadMetaOfRm, Gen!ReadMappingsFails, Gen!PutEntriesOf, store, PutEntries
  <2>2. \A q \in Publishers \ {p} : call'[q] = call[q] /\ old'[q] = old[q] /\ new'[q] = new[q]
    BY <1>1, <1>t
    DEF GenerateAd, Gen!Call, ReadMappings, Gen!ReadChunk, NotFound, Gen!ReadMeta,
        ReadMetaOfRm, Gen!ReadMappingsFails, Gen!PutEntriesOf, Gen!Return
  <2> QED
    BY <2>1, <2>2
<1>2. ASSUME Generate(p), PutChunk(p) \/ GenerateFails(p) \/ Gen!UndoChunk(p) \/ Gen!UndoMeta(p)
      PROVE  Rest /\ head' = head
  <2>1. /\ pc[p] # "idle" /\ UNCHANGED <<head, dropped, pending>>
        /\ torn' = torn \/ torn' = torn \cup {Gen!Ctx(p)}
    BY <1>2, StoreCalls
    DEF Generate, PutChunk, GenerateFails, Gen!UndoChunk, Gen!UndoMeta, Gen!WriteFails, WriteFails,
        store, PutEntries, PutChunkLink, PutMetadata
  <2>2. /\ chunkLink' = chunkLink \/ \E l : chunkLink' = [chunkLink EXCEPT ![Gen!Ctx(p)] = l]
        /\ metadata' = metadata \/ \E m : metadata' = [metadata EXCEPT ![Gen!Ctx(p)] = m]
    BY <1>2, StoreCalls
    DEF PutChunk, GenerateFails, Gen!UndoChunk, Gen!UndoMeta, Gen!WriteFails, WriteFails,
        store, PutEntries, PutChunkLink, PutMetadata
  <2>3. \A q \in Publishers \ {p} : call'[q] = call[q] /\ old'[q] = old[q] /\ new'[q] = new[q]
    BY <1>2, <1>t
    DEF PutChunk, GenerateFails, Gen!Undo, Gen!UndoChunk, Gen!UndoMeta, Gen!Return
  <2>4. \A c \in Contexts \ Owns[p] : chunkLink'[c] = chunkLink[c] /\ metadata'[c] = metadata[c]
    BY <2>1, <2>2, <1>o, <1>t
  <2> QED
    BY <2>1, <2>3, <2>4, <1>o, <1>t
<1>3. ASSUME AddToBatch(p) PROVE Rest /\ head' = head
  <2>1. pc[p] = "putMeta" /\ PutMetadata(Gen!Ctx(p), Mapped(p).md) /\ Gen!Return(p)
        /\ torn' = torn \ {Gen!Ctx(p)} /\ dropped' = dropped \ {Gen!Ctx(p)}
        /\ pending' = [pending EXCEPT ![p] = Append(@, Gen!Ad(p))]
    BY <1>3 DEF AddToBatch
  <2>2. \A q \in Publishers \ {p} : call'[q] = call[q] /\ old'[q] = old[q] /\ new'[q] = new[q]
                                    /\ pending'[q] = pending[q]
    BY <2>1, <1>t DEF Gen!Return
  <2> QED
    BY <2>1, <2>2, <1>o, <1>t DEF PutMetadata
<1>4. ASSUME Commit(p) \/ Discard(p) \/ ReadHead(p) \/ PutAd(p) PROVE Rest /\ head' = head
  BY <1>4, <1>t DEF Commit, Discard, ReadHead, PutAd, Take, generating, store, PutAdvert
<1>5. ASSUME CommitHead(p) PROVE Rest /\ head' = head \o taken[p]
  <2>1. base[p] \in Link /\ taken[p] \in Link
    BY DEF Types, LocalsType, BatchType
  <2> QED
    BY <1>5, <2>1, <1>t, LinksOf DEF CommitHead, ReplaceHead, generating
<1>6. ASSUME CommitFails(p) PROVE Rest /\ (head' = head \/ head' = head \o taken[p])
  <2>1. base[p] \in Link /\ taken[p] \in Link
    BY DEF Types, LocalsType, BatchType
  <2> QED
    BY <1>6, <2>1, <1>t, LinksOf
    DEF CommitFails, ReadFails, WriteFails, ReplaceHeadFails, ReplaceHead, PutAdvert, store,
        generating
<1>7. ASSUME ForgetRm(p) \/ ForgetChunk(p) \/ ForgetMeta(p) PROVE Rest /\ head' = head
  <2>1. Forgetting(p) /\ UNCHANGED <<head, call, old, new, pending>>
    BY <1>7
    DEF ForgetRm, ForgetChunk, ForgetMeta, Forgetting, generating, store, WriteFails,
        PutChunkLink, PutMetadata
  <2>2. /\ torn' = torn \/ torn' = torn \cup {Undone(p)}
        /\ dropped' = dropped \/ dropped' = dropped \cup {Undone(p)}
        /\ chunkLink' = chunkLink \/ chunkLink' = [chunkLink EXCEPT ![Undone(p)] = Nil]
        /\ metadata' = metadata \/ metadata' = [metadata EXCEPT ![Undone(p)] = Nil]
    BY <1>7
    DEF ForgetRm, ForgetChunk, ForgetMeta, store, WriteFails, PutChunkLink, PutMetadata
  <2> QED
    BY <2>1, <2>2, <1>o, <1>t
<1>8. Rest /\ (head' = head \/ head' = head \o taken[p])
  BY <1>1, <1>2, <1>3, <1>4, <1>5, <1>6, <1>7 DEF Quiet, Generate
<1>9. \E u \in Link : OwnOnly(u, p) /\ head' = head \o u
  <2>1. head \o <<>> = head /\ <<>> \in Link /\ OwnOnly(<<>>, p)
    <3>1. <<>> \in Seq({}) /\ DOMAIN <<>> = 1..Len(<<>>) /\ Len(<<>>) = 0
      BY EmptySeq, LenProperties
    <3> QED
      BY <3>1, EmptySeq, ConcatEmptySeq DEF Types, StoreTypeOK, Link, OwnOnly
  <2>2. taken[p] \in Link /\ OwnOnly(taken[p], p)
    BY DEF Types, BatchType, Agreed, Mine
  <2> QED
    BY <1>8, <2>1, <2>2
<1>10. \A q \in Publishers \ {p} :
         /\ pc'[q] = pc[q] /\ cpc'[q] = cpc[q] /\ taken'[q] = taken[q] /\ n'[q] = n[q]
  BY OthersRest
<1> QED
  BY <1>8, <1>9, <1>10 DEF Touches


-----------------------------------------------------------------------------
(* Generating *)

\* A step of generating concerns the context c alone.
LEMMA GenStep ==
  ASSUME Types, NEW p \in Publishers, Agreed(p), NEW c \in Owns[p],
         cpc[p] = "none", UNCHANGED <<head, pending, cpc, taken, n, dropped>>,
         \A d \in Contexts \ {c} :
           /\ chunkLink'[d] = chunkLink[d] /\ metadata'[d] = metadata[d]
           /\ d \in torn' <=> d \in torn,
         pc[p] # "idle" => Gen!Ctx(p) = c,
         pc'[p] # "idle" => Gen!Ctx(p)' = c,
         GenAgrees(p)',
         pc'[p] = "idle" /\ c \notin torn' => Fits(Record(c)', Line(p), c, dropped)
  PROVE  Agreed(p)'
<1>1. Line(p)' = Line(p) /\ ~Forgetting(p)' /\ ~Forgetting(p)
  BY DEF Line, Batch, Forgetting
<1>2. Mine(p)'
  BY DEF Agreed, Mine, OwnOnly
<1>3. RestAgrees(p)'
  <2> SUFFICES ASSUME NEW d \in Owns[p], d \notin torn', pc'[p] # "idle" => Gen!Ctx(p)' # d
               PROVE  Fits(Record(d)', Line(p)', d, dropped')
    BY DEF RestAgrees
  <2>1. CASE d = c
    BY <2>1, <1>1
  <2>2. CASE d # c
    <3>1. d \in Contexts
      BY OwnsAssumption
    <3>2. d \notin torn /\ Record(d)' = Record(d)
      BY <2>2, <3>1 DEF Record
    <3>3. Fits(Record(d), Line(p), d, dropped)
      BY <2>2, <3>2, <1>1 DEF Agreed, RestAgrees
    <3> QED
      BY <3>2, <3>3, <1>1
  <2> QED
    BY <2>1, <2>2
<1>4. UndoAgrees(p)'
  BY <1>1 DEF UndoAgrees
<1> QED
  BY <1>2, <1>3, <1>4 DEF Agreed

\* What a call knows of its context c.
LEMMA GenKnows ==
  ASSUME NEW p \in Publishers, Agreed(p), pc[p] # "idle", NEW c, Gen!Ctx(p) = c
  PROVE  /\ c \in Owns[p] /\ cpc[p] = "none"
         /\ pc[p] \in Reading /\ c \notin torn => Fits(Record(c), Line(p), c, dropped)
         /\ pc[p] = "readMeta" => old[p].chunk = chunkLink[c]
         /\ pc[p] \notin Reading /\ c \notin torn => Fits(old[p], Line(p), c, dropped)
         /\ pc[p] = "putMeta" => chunkLink[c] = Mapped(p).chunk
         /\ pc[p] = "undoMeta" /\ c \notin torn => chunkLink[c] = old[p].chunk
         /\ pc[p] \in Writing => new[p].md = call[p].md
         /\ pc[p] \in Writing /\ IsRm(p) => pc[p] # "putEntries" /\ new[p].chunk = NoEntries
BY DEF Agreed, Mine, GenAgrees

LEMMA GenKnowsNext ==
  ASSUME NEW p \in Publishers, NEW c \in Owns[p], Gen!Ctx(p)' = c,
         UNCHANGED <<head, pending, cpc, taken, dropped>>,
         pc'[p] \in Reading /\ c \notin torn' => Fits(Record(c)', Line(p), c, dropped),
         pc'[p] = "readMeta" => old'[p].chunk = chunkLink'[c],
         pc'[p] \notin Reading /\ c \notin torn' => Fits(old'[p], Line(p), c, dropped),
         pc'[p] = "putMeta" => chunkLink'[c] = Mapped(p)'.chunk,
         pc'[p] = "undoMeta" /\ c \notin torn' => chunkLink'[c] = old'[p].chunk,
         pc'[p] \in Writing => new'[p].md = call'[p].md,
         pc'[p] \in Writing /\ IsRm(p)' => pc'[p] # "putEntries" /\ new'[p].chunk = NoEntries
  PROVE  GenAgrees(p)'
<1>1. Line(p)' = Line(p)
  BY DEF Line, Batch
<1>2. Record(Gen!Ctx(p))' = Record(c)'
  BY DEF Record
<1> HIDE DEF Fits, Line, Record
<1> QED
  BY <1>1, <1>2 DEF GenAgrees


LEMMA GenerateAgrees ==
  ASSUME Types, NEW p \in Publishers, Agreed(p), GenerateAd(p) \/ Generate(p)
  PROVE  Agreed(p)'
<1>t. /\ pc \in [Publishers -> LabelsType] /\ call \in [Publishers -> Requests \cup {Nil}]
      /\ old \in [Publishers -> ContextRecord] /\ new \in [Publishers -> ContextRecord]
      /\ chunkLink \in [Contexts -> Digests \cup {Nil}]
      /\ metadata \in [Contexts -> Metadatas \cup {Nil}]
  BY DEF Types, StoreTypeOK, LocalsType
<1>u. UNCHANGED <<pending, cpc, taken, n, dropped>>
  BY DEF GenerateAd, Generate
<1>n. cpc[p] = "none"
  <2>1. CASE GenerateAd(p)
    BY <2>1 DEF GenerateAd, Idle
  <2>2. CASE Generate(p)
    <3>1. pc[p] # "idle"
      BY <2>2
      DEF Generate, ReadMappings, Gen!ReadChunk, NotFound, Gen!ReadMeta, ReadMetaOfRm,
          Gen!ReadMappingsFails, Gen!PutEntriesOf, PutChunk, GenerateFails, Gen!UndoChunk,
          Gen!UndoMeta
    <3> QED
      BY <3>1 DEF Agreed, Mine
  <2> QED
    BY <2>1, <2>2
<1>h. head' = head
  BY StoreCalls
  DEF GenerateAd, Gen!Call, Generate, ReadMappings, Gen!ReadChunk, NotFound, Gen!ReadMeta,
      ReadMetaOfRm, Gen!ReadMappingsFails, Gen!PutEntriesOf, PutChunk, GenerateFails,
      Gen!UndoChunk, Gen!UndoMeta, Gen!WriteFails, WriteFails, store, PutEntries, PutChunkLink,
      PutMetadata
\* A step that writes nothing, and one that goes on.
<1> DEFINE Reads == UNCHANGED <<chunkLink, metadata, torn>>
<1>r. ASSUME Reads, pc[p] \in Reading, Gen!Return(p) PROVE Agreed(p)'
  <2>1. PICK c \in Owns[p] : Gen!Ctx(p) = c
    BY <1>r, GenKnows DEF Reading
  <2>2. pc'[p] = "idle" /\ GenAgrees(p)'
    BY <1>r, <1>t DEF Gen!Return, Gen!Goto, GenAgrees
  <2>3. c \notin torn' => Fits(Record(c)', Line(p), c, dropped)
    <3>1. Record(c)' = Record(c)
      BY <1>r DEF Record
    <3> QED
      BY <2>1, <3>1, <1>r, GenKnows DEF Reading
  <2> QED
    BY <1>r, <2>1, <2>2, <2>3, <1>u, <1>n, <1>h, GenStep
<1>g. ASSUME NEW c \in Owns[p], pc[p] # "idle" => Gen!Ctx(p) = c, Gen!Ctx(p)' = c, pc'[p] # "idle",
             \A d \in Contexts \ {c} :
               /\ chunkLink'[d] = chunkLink[d] /\ metadata'[d] = metadata[d]
               /\ d \in torn' <=> d \in torn,
             pc'[p] \in Reading /\ c \notin torn' => Fits(Record(c)', Line(p), c, dropped),
             pc'[p] = "readMeta" => old'[p].chunk = chunkLink'[c],
             pc'[p] \notin Reading /\ c \notin torn' => Fits(old'[p], Line(p), c, dropped),
             pc'[p] = "putMeta" => chunkLink'[c] = Mapped(p)'.chunk,
             pc'[p] = "undoMeta" /\ c \notin torn' => chunkLink'[c] = old'[p].chunk,
             pc'[p] \in Writing => new'[p].md = call'[p].md,
             pc'[p] \in Writing /\ IsRm(p)' => pc'[p] # "putEntries" /\ new'[p].chunk = NoEntries
      PROVE  Agreed(p)'
  <2>1. GenAgrees(p)'
    BY <1>g, <1>u, <1>h, GenKnowsNext
  <2> QED
    BY <1>g, <2>1, <1>u, <1>n, <1>h, GenStep
<1>1. CASE GenerateAd(p)
  <2>1. /\ Idle(p) /\ Gen!Call(p)
    BY <1>1 DEF GenerateAd
  <2>2. PICK r \in Requests : r.ctx \in Owns[p] /\ call' = [call EXCEPT ![p] = r]
    BY <2>1 DEF Gen!Call, Gen!Request, Requests
  <2>3. PICK c \in Owns[p] : c = r.ctx
    BY <2>2
  <2>4. pc[p] = "idle" /\ pc'[p] = "readChunk" /\ Gen!Ctx(p)' = c /\ Reads
    BY <2>1, <2>2, <2>3, <1>t DEF Gen!Call, Gen!Goto, Gen!store, Gen!Ctx, Idle
  <2>5. c \notin torn => Fits(Record(c), Line(p), c, dropped)
    BY <2>4, <1>n DEF Agreed, RestAgrees, Forgetting
  <2>6. Record(c)' = Record(c)
    BY <2>4 DEF Record
  <2> QED
    BY <2>4, <2>5, <2>6, <1>g DEF Reading, Writing
<1>2. CASE Gen!ReadChunk(p)
  <2>1. pc[p] = "readChunk" /\ pc'[p] = "readMeta" /\ Reads /\ UNCHANGED call
        /\ old' = [old EXCEPT ![p].chunk = chunkLink[Gen!Ctx(p)]]
    BY <1>2, <1>t DEF Gen!ReadChunk, Gen!Goto, Gen!store
  <2>2. PICK c \in Owns[p] : Gen!Ctx(p) = c
    BY <2>1, GenKnows
  <2>3. Gen!Ctx(p)' = c /\ old'[p].chunk = chunkLink[c] /\ Record(c)' = Record(c)
    BY <2>1, <2>2, <1>t DEF Gen!Ctx, Record, ContextRecord
  <2>4. c \notin torn => Fits(Record(c), Line(p), c, dropped)
    BY <2>1, <2>2, GenKnows DEF Reading
  <2> QED
    BY <2>1, <2>2, <2>3, <2>4, <1>g DEF Reading, Writing
<1>3. CASE NotFound(p)
  BY <1>3, <1>r DEF NotFound, Reading, store
<1>4. CASE Gen!ReadMeta(p) /\ ~IsRm(p)
  <2>1. pc[p] = "readMeta" /\ Reads
    BY <1>4 DEF Gen!ReadMeta, Gen!store
  <2>2. CASE Gen!AlreadyAdvertised(p)
    BY <1>4, <2>1, <2>2, <1>r DEF Gen!ReadMeta, Reading
  <2>3. CASE ~Gen!AlreadyAdvertised(p)
    <3>1. PICK c \in Owns[p] : Gen!Ctx(p) = c
      BY <2>1, GenKnows
    <3>2. /\ pc'[p] = IF Gen!LacksEntries(p) THEN "putEntries" ELSE "putMeta"
          /\ old' = [old EXCEPT ![p].md = metadata[c]]
          /\ new' = [new EXCEPT ![p] = [chunk |-> old[p].chunk, md |-> call[p].md]]
          /\ UNCHANGED call
      BY <1>4, <2>3, <3>1, <1>t DEF Gen!ReadMeta, Gen!Goto
    <3>3. old[p].chunk = chunkLink[c] /\ (c \notin torn => Fits(Record(c), Line(p), c, dropped))
      BY <2>1, <3>1, GenKnows DEF Reading
    <3>4. old'[p] = Record(c) /\ new'[p] = [chunk |-> chunkLink[c], md |-> call[p].md]
      BY <3>2, <3>3, <1>t DEF Record, ContextRecord
    <3>5. Gen!Ctx(p)' = c /\ ~IsRm(p)' /\ Mapped(p)' = new'[p]
      BY <1>4, <3>1, <3>2 DEF Gen!Ctx, IsRm, Mapped
    <3>6. pc'[p] \in {"putEntries", "putMeta"}
      BY <3>2
    <3> QED
      BY <2>1, <3>1, <3>2, <3>3, <3>4, <3>5, <3>6, <1>g DEF Reading, Writing
  <2> QED
    BY <2>2, <2>3
<1>5. CASE ReadMetaOfRm(p)
  <2>1. /\ pc[p] = "readMeta" /\ pc'[p] = "putChunk" /\ Reads /\ IsRm(p) /\ UNCHANGED call
        /\ old' = [old EXCEPT ![p].md = metadata[Gen!Ctx(p)]]
        /\ new'[p] = [chunk |-> NoEntries, md |-> Removal]
    BY <1>5, <1>t DEF ReadMetaOfRm, Gen!Goto, store
  <2>2. PICK c \in Owns[p] : Gen!Ctx(p) = c
    BY <2>1, GenKnows
  <2>3. old[p].chunk = chunkLink[c] /\ (c \notin torn => Fits(Record(c), Line(p), c, dropped))
    BY <2>1, <2>2, GenKnows DEF Reading
  <2>4. old'[p] = Record(c) /\ Gen!Ctx(p)' = c /\ new'[p].md = call'[p].md
    BY <2>1, <2>2, <2>3, <1>t DEF Record, ContextRecord, Gen!Ctx, IsRm
  <2> QED
    BY <2>1, <2>2, <2>3, <2>4, <1>g DEF Reading, Writing
<1>6. CASE Gen!ReadMappingsFails(p)
  BY <1>6, <1>r, StoreCalls DEF Gen!ReadMappingsFails, Reading, store
<1>7. CASE Gen!PutEntriesOf(p)
  <2>1. /\ pc[p] = "putEntries" /\ pc'[p] = "putChunk" /\ Reads /\ UNCHANGED <<call, old>>
        /\ new' = [new EXCEPT ![p].chunk = call[p].digests]
    BY <1>7, <1>t, StoreCalls DEF Gen!PutEntriesOf, Gen!Goto, PutEntries
  <2>2. PICK c \in Owns[p] : Gen!Ctx(p) = c
    BY <2>1, GenKnows
  <2>3. /\ c \notin torn => Fits(old[p], Line(p), c, dropped)
        /\ new[p].md = call[p].md /\ ~IsRm(p)
    BY <2>1, <2>2, GenKnows DEF Reading, Writing
  <2>4. Gen!Ctx(p)' = c /\ ~IsRm(p)' /\ new'[p].md = new[p].md
    BY <2>1, <2>2, <2>3, <1>t DEF Gen!Ctx, IsRm, ContextRecord
  <2> QED
    BY <2>1, <2>2, <2>3, <2>4, <1>g DEF Reading, Writing
<1>8. CASE PutChunk(p)
  <2>1. /\ pc[p] = "putChunk" /\ pc'[p] = "putMeta" /\ UNCHANGED <<call, old, new, torn, metadata>>
        /\ chunkLink' = [chunkLink EXCEPT ![Gen!Ctx(p)] = Mapped(p).chunk]
    BY <1>8, <1>t DEF PutChunk, Gen!Goto, PutChunkLink
  <2>2. PICK c \in Owns[p] : Gen!Ctx(p) = c
    BY <2>1, GenKnows
  <2>3. /\ c \notin torn => Fits(old[p], Line(p), c, dropped)
        /\ new[p].md = call[p].md /\ (IsRm(p) => new[p].chunk = NoEntries)
    BY <2>1, <2>2, GenKnows DEF Reading, Writing
  <2>4. /\ Gen!Ctx(p)' = c /\ (IsRm(p)' <=> IsRm(p)) /\ Mapped(p)' = Mapped(p)
        /\ chunkLink'[c] = Mapped(p).chunk
        /\ \A d \in Contexts \ {c} : chunkLink'[d] = chunkLink[d] /\ metadata'[d] = metadata[d]
    BY <2>1, <2>2, <1>t, OwnsAssumption DEF Gen!Ctx, IsRm, Mapped
  <2> QED
    BY <2>1, <2>2, <2>3, <2>4, <1>g DEF Reading, Writing
<1>9. CASE GenerateFails(p)
  <2>1. /\ pc[p] \in Writing /\ pc'[p] = "undoChunk" /\ UNCHANGED <<call, old, torn>>
    BY <1>9, <1>t DEF GenerateFails, Gen!Undo, Gen!Goto, Writing
  <2>2. PICK c \in Owns[p] : Gen!Ctx(p) = c
    BY <2>1, GenKnows DEF Writing
  <2>3. c \notin torn => Fits(old[p], Line(p), c, dropped)
    BY <2>1, <2>2, GenKnows DEF Reading, Writing
  <2>4. /\ Gen!Ctx(p)' = c
        /\ \A d \in Contexts \ {c} : chunkLink'[d] = chunkLink[d] /\ metadata'[d] = metadata[d]
    BY <1>9, <2>1, <2>2, <1>t
    DEF Gen!Ctx, GenerateFails, WriteFails, PutEntries, PutChunkLink, PutMetadata, store
  <2> QED
    BY <2>1, <2>2, <2>3, <2>4, <1>g DEF Reading, Writing
<1>10. CASE Gen!UndoChunk(p)
  <2>1. /\ pc[p] = "undoChunk" /\ pc'[p] = "undoMeta" /\ UNCHANGED <<call, old, metadata>>
        /\ \/ chunkLink' = [chunkLink EXCEPT ![Gen!Ctx(p)] = old[p].chunk] /\ torn' = torn
           \/ /\ chunkLink' \in {chunkLink, [chunkLink EXCEPT ![Gen!Ctx(p)] = old[p].chunk]}
              /\ torn' = torn \cup {Gen!Ctx(p)}
    BY <1>10, <1>t, StoreCalls DEF Gen!UndoChunk, Gen!Goto, Gen!WriteFails, PutChunkLink, store
  <2>2. PICK c \in Owns[p] : Gen!Ctx(p) = c
    BY <2>1, GenKnows
  <2>3. c \notin torn => Fits(old[p], Line(p), c, dropped)
    BY <2>1, <2>2, GenKnows DEF Reading
  <2>4. /\ Gen!Ctx(p)' = c /\ (c \notin torn' => c \notin torn /\ chunkLink'[c] = old[p].chunk)
        /\ \A d \in Contexts \ {c} : /\ chunkLink'[d] = chunkLink[d] /\ metadata'[d] = metadata[d]
                                     /\ d \in torn' <=> d \in torn
    BY <2>1, <2>2, <1>t, OwnsAssumption DEF Gen!Ctx
  <2> QED
    BY <2>1, <2>2, <2>3, <2>4, <1>g DEF Reading, Writing
<1>11. CASE Gen!UndoMeta(p)
  <2>1. /\ pc[p] = "undoMeta" /\ Gen!Return(p) /\ UNCHANGED chunkLink
        /\ \/ metadata' = [metadata EXCEPT ![Gen!Ctx(p)] = old[p].md] /\ torn' = torn
           \/ /\ metadata' \in {metadata, [metadata EXCEPT ![Gen!Ctx(p)] = old[p].md]}
              /\ torn' = torn \cup {Gen!Ctx(p)}
    BY <1>11, <1>t, StoreCalls DEF Gen!UndoMeta, Gen!WriteFails, PutMetadata, store
  <2>2. PICK c \in Owns[p] : Gen!Ctx(p) = c
    BY <2>1, GenKnows
  <2>3. pc'[p] = "idle" /\ GenAgrees(p)'
    BY <2>1, <1>t DEF Gen!Return, Gen!Goto, GenAgrees
  <2>4. /\ c \notin torn' => c \notin torn /\ metadata'[c] = old[p].md
        /\ \A d \in Contexts \ {c} : /\ chunkLink'[d] = chunkLink[d] /\ metadata'[d] = metadata[d]
                                     /\ d \in torn' <=> d \in torn
    BY <2>1, <2>2, <1>t, OwnsAssumption
  <2>5. c \notin torn' => Fits(Record(c)', Line(p), c, dropped)
    <3> SUFFICES ASSUME c \notin torn' PROVE Fits(Record(c)', Line(p), c, dropped)
      OBVIOUS
    <3>1. chunkLink[c] = old[p].chunk /\ Fits(old[p], Line(p), c, dropped)
      BY <2>1, <2>2, <2>4, GenKnows DEF Reading
    <3>2. Record(c)' = old[p]
      BY <2>1, <2>4, <3>1, <1>t DEF Record, ContextRecord
    <3> QED
      BY <3>1, <3>2
  <2> QED
    BY <2>1, <2>2, <2>3, <2>4, <2>5, <1>u, <1>n, <1>h, GenStep
<1> QED
  BY <1>1, <1>2, <1>3, <1>4, <1>5, <1>6, <1>7, <1>8, <1>9, <1>10, <1>11 DEF Generate, ReadMappings


\* What is added to the batch says of its context what is now mapped.
LEMMA AddAgrees ==
  ASSUME Types, NEW p \in Publishers, Agreed(p), AddToBatch(p)
  PROVE  Agreed(p)'
<1>t. /\ pc \in [Publishers -> LabelsType] /\ call \in [Publishers -> Requests \cup {Nil}]
      /\ new \in [Publishers -> ContextRecord] /\ pending \in [Publishers -> Link]
      /\ chunkLink \in [Contexts -> Digests \cup {Nil}] /\ head \in Link
      /\ metadata \in [Contexts -> Metadatas \cup {Nil}] /\ LocalsType
  BY DEF Types, StoreTypeOK, LocalsType, BatchType
<1>1. /\ pc[p] = "putMeta" /\ Gen!Return(p) /\ UNCHANGED <<cpc, taken, n, head, chunkLink>>
      /\ metadata' = [metadata EXCEPT ![Gen!Ctx(p)] = Mapped(p).md]
      /\ pending' = [pending EXCEPT ![p] = Append(@, Gen!Ad(p))]
      /\ torn' = torn \ {Gen!Ctx(p)} /\ dropped' = dropped \ {Gen!Ctx(p)}
  BY DEF AddToBatch, PutMetadata
<1>2. PICK c \in Owns[p] : Gen!Ctx(p) = c
  BY <1>1, GenKnows
<1>3. /\ cpc[p] = "none" /\ chunkLink[c] = Mapped(p).chunk /\ new[p].md = call[p].md
      /\ IsRm(p) => new[p].chunk = NoEntries
      /\ c \in Contexts
  BY <1>1, <1>2, GenKnows, OwnsAssumption DEF Writing
<1>4. PICK ad \in Advert : ad = Gen!Ad(p)
  BY <1>1, <1>t, AdType
<1>5. ad.ctx = c /\ ad.entries = new[p].chunk /\ ad.md = new[p].md
  BY <1>2, <1>4 DEF Gen!Ad
<1>6. /\ pc'[p] = "idle" /\ pending'[p] = Append(pending[p], ad)
      /\ Batch(p) = pending[p] /\ Batch(p)' = Append(pending[p], ad)
      /\ ~Forgetting(p) /\ ~Forgetting(p)' /\ pending[p] \in Link
  BY <1>1, <1>3, <1>4, <1>t DEF Gen!Return, Gen!Goto, Batch, Forgetting
<1>7. Mine(p)'
  <2>1. OwnOnly(Append(pending[p], ad), p)
    <3> DEFINE l == pending[p]
    <3>1. OwnOnly(l, p) /\ l \in Seq(Advert)
      BY <1>6 DEF Agreed, Mine, Link
    <3> HIDE DEF l
    <3>2. /\ Len(l) \in Nat /\ DOMAIN l = 1..Len(l) /\ DOMAIN Append(l, ad) = 1..(Len(l) + 1)
          /\ \A k \in 1..Len(l) : Append(l, ad)[k] = l[k]
          /\ Append(l, ad)[Len(l) + 1] = ad
      BY <3>1, LenProperties, AppendProperties
    <3>3. OwnOnly(Append(l, ad), p)
      BY <3>1, <3>2, <1>5 DEF OwnOnly
    <3> QED
      BY <3>3 DEF l
  <2>2. cpc'[p] = "none" /\ taken'[p] = taken[p] /\ OwnOnly(taken[p], p)
    BY <1>1, <1>3 DEF Agreed, Mine
  <2> QED
    BY <2>1, <2>2, <1>6 DEF Mine, OwnOnly
<1>8. GenAgrees(p)'
  BY <1>6 DEF GenAgrees
<1>9. UndoAgrees(p)'
  BY <1>6 DEF UndoAgrees
<1>10. Line(p)' = head \o Append(pending[p], ad)
  BY <1>1, <1>6 DEF Line
<1>11. ASSUME NEW d \in Owns[p], d \notin torn'
       PROVE  Fits(Record(d)', head \o Append(pending[p], ad), d, dropped')
  <2>1. CASE d = c
    <3>1. Record(c)' = Mapped(p)
      <4>1. Mapped(p) = [chunk |-> Mapped(p).chunk, md |-> Mapped(p).md]
        BY <1>t DEF Mapped, NoRecord, ContextRecord
      <4>2. chunkLink'[c] = Mapped(p).chunk /\ metadata'[c] = Mapped(p).md
        BY <1>1, <1>2, <1>3, <1>t
      <4> QED
        BY <4>1, <4>2 DEF Record
    <3>2. CASE IsRm(p)
      <4>1. ad.md = Removal /\ ad.entries = NoEntries /\ Mapped(p) = NoRecord
        BY <3>2, <1>3, <1>5 DEF IsRm, Mapped
      <4> QED
        BY <2>1, <3>1, <4>1, <1>5, <1>6, <1>t, FitsAppend
    <3>3. CASE ~IsRm(p)
      <4>1. ad.md # Removal
        BY <3>3, <1>3, <1>5 DEF IsRm
      <4>2. Mapped(p) = [chunk |-> ad.entries, md |-> ad.md]
        BY <3>3, <1>5, <1>t DEF Mapped, ContextRecord
      <4> QED
        BY <2>1, <3>1, <4>1, <4>2, <1>5, <1>6, <1>t, FitsAppend
    <3> QED
      BY <3>2, <3>3
  <2>2. CASE d # c
    <3>1. d \notin torn /\ d \in Contexts /\ Record(d)' = Record(d)
      BY <1>1, <1>2, <1>11, <2>2, <1>t, OwnsAssumption DEF Record
    <3>2. Fits(Record(d), Line(p), d, dropped)
      BY <2>2, <3>1, <1>2, <1>6 DEF Agreed, RestAgrees
    <3>3. Fits(Record(d), head \o pending[p], d, dropped')
      BY <3>2, <1>1, <1>2, <1>6, <2>2 DEF Line, Fits
    <3> QED
      BY <2>2, <3>1, <3>3, <1>5, <1>6, <1>t, FitsAppend
  <2> QED
    BY <2>1, <2>2
<1>12. RestAgrees(p)'
  BY <1>10, <1>11 DEF RestAgrees
<1> QED
  BY <1>7, <1>8, <1>9, <1>12 DEF Agreed

-----------------------------------------------------------------------------
(* Committing and giving up *)

\* A step that maps nothing, of a publisher that does not generate, to where it
\* undoes nothing either.
LEMMA CommitStep ==
  ASSUME NEW p \in Publishers, Agreed(p), ~Forgetting(p), ~Forgetting(p)', pc[p] = "idle",
         UNCHANGED <<pc, chunkLink, metadata, torn, dropped>>, Line(p)' = Line(p), Mine(p)'
  PROVE  Agreed(p)'
<1>1. GenAgrees(p)' /\ UndoAgrees(p)'
  BY DEF GenAgrees, UndoAgrees
<1>2. ASSUME NEW c \in Owns[p], c \notin torn' PROVE Fits(Record(c)', Line(p)', c, dropped')
  <2>1. Fits(Record(c), Line(p), c, dropped)
    BY <1>2 DEF Agreed, RestAgrees
  <2>2. Record(c)' = Record(c)
    BY DEF Record
  <2> QED
    BY <2>1, <2>2
<1>3. RestAgrees(p)'
  BY <1>2 DEF RestAgrees
<1> QED
  BY <1>1, <1>3 DEF Agreed

\* The first step of an undo: nothing is forgotten yet.
LEMMA StartUndo ==
  ASSUME Types, NEW p \in Publishers, Agreed(p), ~Forgetting(p), pc[p] = "idle",
         NEW l \in Link, l # <<>>, Batch(p) = l, taken'[p] = l, pending'[p] = <<>>,
         OwnOnly(l, p), cpc'[p] = "forgetChunk", n'[p] = Len(l),
         UNCHANGED <<pc, chunkLink, metadata, torn, dropped>>,
         head' = head \/ head' = head \o l
  PROVE  Agreed(p)'
<1>1. DOMAIN l = 1..Len(l) /\ Len(l) \in Nat /\ head \in Link
  BY LenProperties DEF Link, Types, StoreTypeOK
<1>2. Forgetting(p)' /\ GenAgrees(p)' /\ RestAgrees(p)'
  BY DEF Forgetting, GenAgrees, RestAgrees
<1>3. Mine(p)'
  <2>1. DOMAIN <<>> = {}
    <3>1. <<>> \in Seq({}) /\ DOMAIN <<>> = 1..Len(<<>>) /\ Len(<<>>) = 0
      BY EmptySeq, LenProperties
    <3> QED
      BY <3>1
  <2> QED
    BY <2>1 DEF Mine, OwnOnly
<1>4. ASSUME NEW c \in Owns[p], c \notin torn', ~Mentions(l, c)
      PROVE  Fits(Record(c)', head', c, dropped')
  <2>1. Fits(Record(c), head \o l, c, dropped)
    BY <1>4 DEF Agreed, RestAgrees, Line
  <2>2. Fits(Record(c), head, c, dropped)
    BY <2>1, <1>1, <1>4, FitsConcat
  <2>3. Record(c)' = Record(c)
    BY DEF Record
  <2> QED
    BY <2>1, <2>2, <2>3
<1>5. \A c : ~Forgotten(p, c)'
  BY <1>1 DEF Forgotten
<1>6. UndoAgrees(p)'
  BY <1>4, <1>5 DEF UndoAgrees
<1> QED
  BY <1>2, <1>3, <1>6 DEF Agreed


LEMMA CommitAgrees ==
  ASSUME Types, NEW p \in Publishers, Agreed(p),
         Commit(p) \/ ReadHead(p) \/ PutAd(p) \/ CommitHead(p) \/ CommitFails(p) \/ Discard(p)
  PROVE  Agreed(p)'
<1>t. /\ pending \in [Publishers -> Link] /\ taken \in [Publishers -> Link]
      /\ n \in [Publishers -> Nat] /\ DOMAIN cpc = Publishers
      /\ head \in Link /\ base[p] \in Link /\ <<>> \in Link
  BY EmptySeq DEF Types, StoreTypeOK, LocalsType, BatchType, Link
<1>e. head \o <<>> = head /\ (head \o taken[p]) \o <<>> = head \o taken[p]
  <2>1. head \o taken[p] \in Seq(Advert)
    BY <1>t, ConcatProperties DEF Link
  <2> QED
    BY <2>1, <1>t, ConcatEmptySeq DEF Link
<1>o. OwnOnly(<<>>, p)
  <2>1. <<>> \in Seq({}) /\ DOMAIN <<>> = 1..Len(<<>>) /\ Len(<<>>) = 0
    BY EmptySeq, LenProperties
  <2> QED
    BY <2>1 DEF OwnOnly
<1>m. /\ OwnOnly(pending[p], p) /\ OwnOnly(taken[p], p)
      /\ cpc[p] # "none" => pending[p] = <<>> /\ pc[p] = "idle"
  BY DEF Agreed, Mine
<1>d. ASSUME Done(p) PROVE cpc'[p] = "none" /\ taken'[p] = <<>>
  BY <1>d, <1>t DEF Done, Goto
<1>1. CASE Commit(p)
  <2>1. /\ cpc[p] = "none" /\ pc[p] = "idle" /\ cpc'[p] = "readHead"
        /\ taken'[p] = pending[p] /\ pending'[p] = <<>>
        /\ UNCHANGED <<pc, head, chunkLink, metadata, torn, dropped>>
    BY <1>1, <1>t DEF Commit, Take, Idle, Goto, store, generating
  <2>2. ~Forgetting(p) /\ ~Forgetting(p)' /\ Line(p)' = Line(p)
    BY <2>1 DEF Forgetting, Line, Batch
  <2>3. Mine(p)'
    BY <2>1, <1>m, <1>o DEF Mine, OwnOnly
  <2> QED
    BY <2>1, <2>2, <2>3, CommitStep
<1>2. CASE ReadHead(p)
  <2>1. /\ cpc[p] = "readHead" /\ pc[p] = "idle" /\ pending[p] = <<>>
        /\ UNCHANGED <<pc, head, pending, chunkLink, metadata, torn, dropped>>
    BY <1>2, <1>m DEF ReadHead, store, generating
  <2>2. taken'[p] = taken[p] /\ (cpc'[p] = "putAdvert" \/ (cpc'[p] = "none" /\ taken[p] = <<>>))
    BY <1>2, <1>d, <1>t DEF ReadHead, Goto
  <2>3. ~Forgetting(p) /\ ~Forgetting(p)' /\ Line(p)' = Line(p)
    BY <2>1, <2>2 DEF Forgetting, Line, Batch
  <2>4. Mine(p)'
    BY <2>1, <2>2, <1>m, <1>o DEF Mine, OwnOnly
  <2> QED
    BY <2>1, <2>3, <2>4, CommitStep
<1>3. CASE PutAd(p)
  <2>1. /\ cpc[p] = "putAdvert" /\ cpc'[p] \in {"putAdvert", "replaceHead"} /\ pc[p] = "idle"
        /\ UNCHANGED <<pc, head, pending, taken, chunkLink, metadata, torn, dropped>>
    BY <1>3, <1>m, <1>t DEF PutAd, PutAdvert, Goto, generating
  <2>2. ~Forgetting(p) /\ ~Forgetting(p)' /\ Line(p)' = Line(p)
    BY <2>1 DEF Forgetting, Line, Batch
  <2>3. Mine(p)'
    BY <2>1, <1>m DEF Mine, OwnOnly
  <2> QED
    BY <2>1, <2>2, <2>3, CommitStep
<1>4. CASE CommitHead(p)
  <2>1. /\ cpc[p] = "replaceHead" /\ pc[p] = "idle" /\ pending[p] = <<>>
        /\ cpc'[p] = "none" /\ taken'[p] = <<>> /\ head' = head \o taken[p]
        /\ UNCHANGED <<pc, pending, chunkLink, metadata, torn, dropped>>
    BY <1>4, <1>d, <1>m, <1>t, LinksOf DEF CommitHead, ReplaceHead, generating
  <2>2. Line(p) = head \o taken[p] /\ Line(p)' = (head \o taken[p]) \o <<>>
    BY <2>1 DEF Line, Batch
  <2>3. ~Forgetting(p) /\ ~Forgetting(p)' /\ Line(p)' = Line(p)
    BY <2>1, <2>2, <1>e DEF Forgetting
  <2>4. Mine(p)'
    BY <2>1, <1>o DEF Mine, OwnOnly
  <2> QED
    BY <2>1, <2>3, <2>4, CommitStep
<1>5. CASE CommitFails(p)
  <2>1. /\ cpc[p] \in {"readHead", "putAdvert", "replaceHead"} /\ pc[p] = "idle"
        /\ pending[p] = <<>> /\ UndoAll(p)
        /\ UNCHANGED <<pc, pending, taken, chunkLink, metadata, torn, dropped>>
        /\ head' = head \/ head' = head \o taken[p]
    BY <1>5, <1>m, <1>t, LinksOf
    DEF CommitFails, ReadFails, WriteFails, ReplaceHeadFails, ReplaceHead, PutAdvert, store,
        generating
  <2>2. Batch(p) = taken[p] /\ ~Forgetting(p) /\ pending'[p] = <<>> /\ taken'[p] = taken[p]
    BY <2>1 DEF Batch, Forgetting
  <2>3. CASE taken[p] = <<>>
    <3>1. cpc'[p] = "none" /\ head' = head
      BY <2>1, <2>3, <1>e, <1>t DEF UndoAll, Goto
    <3>2. ~Forgetting(p)' /\ Line(p)' = Line(p) /\ Mine(p)'
      BY <2>1, <2>2, <2>3, <3>1, <1>o DEF Forgetting, Line, Batch, Mine, OwnOnly
    <3> QED
      BY <2>1, <2>2, <3>2, CommitStep
  <2>4. CASE taken[p] # <<>>
    <3>1. cpc'[p] = "forgetChunk" /\ n'[p] = Len(taken[p])
      BY <2>1, <2>4, <1>t DEF UndoAll, Goto
    <3> QED
      BY <2>1, <2>2, <2>4, <3>1, <1>m, <1>t, StartUndo
  <2> QED
    BY <2>3, <2>4
<1>6. CASE Discard(p)
  <2>1. /\ cpc[p] = "none" /\ pc[p] = "idle" /\ taken'[p] = pending[p] /\ pending'[p] = <<>>
        /\ UndoAll(p) /\ UNCHANGED <<pc, head, chunkLink, metadata, torn, dropped>>
    BY <1>6, <1>t DEF Discard, Take, Idle, store, generating
  <2>2. Batch(p) = pending[p] /\ ~Forgetting(p)
    BY <2>1 DEF Batch, Forgetting
  <2>3. CASE pending[p] = <<>>
    <3>1. cpc'[p] = "none"
      BY <2>1, <2>3, <1>t DEF UndoAll, Goto
    <3>2. ~Forgetting(p)' /\ Line(p)' = Line(p) /\ Mine(p)'
      BY <2>1, <2>2, <2>3, <3>1, <1>o DEF Forgetting, Line, Batch, Mine, OwnOnly
    <3> QED
      BY <2>1, <2>2, <3>2, CommitStep
  <2>4. CASE pending[p] # <<>>
    <3>1. cpc'[p] = "forgetChunk" /\ n'[p] = Len(pending[p])
      BY <2>1, <2>4, <1>t DEF UndoAll, Goto
    <3> QED
      BY <2>1, <2>2, <2>4, <3>1, <1>m, <1>t, StartUndo
  <2> QED
    BY <2>3, <2>4
<1> QED
  BY <1>1, <1>2, <1>3, <1>4, <1>5, <1>6

\* An undo that goes on to the advert before the one it has put back or reported,
\* or that is through.
LEMMA UndoGoesOn ==
  ASSUME Types, NEW p \in Publishers, Agreed(p), Forgetting(p), NextUndo(p),
         UNCHANGED <<head, pending, pc, chunkLink, dropped>>,
         \A c \in Owns[p] \ torn' :
           /\ c \notin torn
           /\ c # Undone(p) => metadata'[c] = metadata[c]
           /\ c = Undone(p) => chunkLink[c] = Nil /\ c \in dropped
  PROVE  Agreed(p)'
<1>t. /\ taken \in [Publishers -> Link] /\ n \in [Publishers -> Nat] /\ DOMAIN cpc = Publishers
      /\ head \in Link /\ n[p] \in DOMAIN taken[p] /\ taken[p] \in Seq(Advert)
  BY DEF Types, StoreTypeOK, BatchType, Link, Forgetting
<1>m. /\ pending[p] = <<>> /\ pc[p] = "idle" /\ OwnOnly(taken[p], p) /\ OwnOnly(pending[p], p)
  BY DEF Agreed, Mine, Forgetting
<1>n. n[p] \in 1..Len(taken[p]) /\ DOMAIN taken[p] = 1..Len(taken[p]) /\ Len(taken[p]) \in Nat
  BY <1>t, LenProperties
<1>a. ASSUME NEW c \in Owns[p], c \notin torn'
      PROVE  /\ \A k \in DOMAIN taken[p] :
                  taken[p][k].ctx = c /\ k >= n[p] => chunkLink'[c] = Nil /\ c \in dropped'
             /\ ~Mentions(taken[p], c) => Fits(Record(c)', head, c, dropped')
  <2>1. ASSUME NEW k \in DOMAIN taken[p], taken[p][k].ctx = c, k >= n[p]
        PROVE  chunkLink'[c] = Nil /\ c \in dropped'
    <3>1. CASE k = n[p]
      BY <1>a, <2>1, <3>1 DEF Undone
    <3>2. CASE k > n[p]
      <4>1. Forgotten(p, c)
        BY <2>1, <3>2 DEF Forgotten
      <4> QED
        BY <4>1, <1>a DEF Agreed, UndoAgrees
    <3> QED
      BY <2>1, <3>1, <3>2, <1>n
  <2>2. ASSUME ~Mentions(taken[p], c) PROVE Fits(Record(c)', head, c, dropped')
    <3>1. c # Undone(p)
      BY <2>2, <1>t DEF Mentions, Undone
    <3>2. Fits(Record(c), head, c, dropped)
      BY <1>a, <2>2 DEF Agreed, UndoAgrees
    <3>3. Record(c)' = Record(c)
      BY <1>a, <3>1 DEF Record
    <3> QED
      BY <3>2, <3>3
  <2> QED
    BY <2>1, <2>2
<1>1. CASE n[p] > 1
  <2>1. cpc'[p] = "forgetChunk" /\ n'[p] = n[p] - 1 /\ taken' = taken
    BY <1>1, <1>t DEF NextUndo, Goto
  <2>2. Mine(p)' /\ GenAgrees(p)' /\ RestAgrees(p)'
    BY <2>1, <1>m DEF Mine, OwnOnly, GenAgrees, RestAgrees, Forgetting
  <2>3. ASSUME NEW c, Forgotten(p, c)'
        PROVE  \E k \in DOMAIN taken[p] : taken[p][k].ctx = c /\ k >= n[p]
    <3>1. PICK k \in DOMAIN taken[p] : taken[p][k].ctx = c /\ k > n[p] - 1
      BY <2>1, <2>3 DEF Forgotten
    <3>2. k >= n[p]
      BY <3>1, <1>n
    <3> QED
      BY <3>1, <3>2
  <2>4. UndoAgrees(p)'
    BY <2>1, <2>3, <1>a DEF UndoAgrees
  <2> QED
    BY <2>2, <2>4 DEF Agreed
<1>2. CASE ~(n[p] > 1)
  <2>1. cpc'[p] = "none" /\ taken'[p] = <<>> /\ pending'[p] = <<>> /\ n[p] = 1
    BY <1>2, <1>t, <1>m, <1>n DEF NextUndo, Done, Goto
  <2>2. Mine(p)' /\ GenAgrees(p)' /\ UndoAgrees(p)'
    BY <2>1, <1>m DEF Mine, OwnOnly, GenAgrees, UndoAgrees, Forgetting
  <2>3. Line(p)' = head
    <3>1. head \o <<>> = head
      BY <1>t, ConcatEmptySeq DEF Link
    <3> QED
      BY <2>1, <3>1 DEF Line, Batch
  <2>4. ASSUME NEW c \in Owns[p], c \notin torn' PROVE Fits(Record(c)', head, c, dropped')
    <3>1. CASE Mentions(taken[p], c)
      <4>1. PICK k \in DOMAIN taken[p] : taken[p][k].ctx = c
        BY <3>1 DEF Mentions
      <4>2. chunkLink'[c] = Nil /\ c \in dropped'
        BY <4>1, <2>1, <2>4, <1>a, <1>n
      <4> QED
        BY <4>2 DEF Fits, Record
    <3>2. CASE ~Mentions(taken[p], c)
      BY <3>2, <2>4, <1>a
    <3> QED
      BY <3>1, <3>2
  <2>5. RestAgrees(p)'
    BY <2>3, <2>4 DEF RestAgrees
  <2> QED
    BY <2>2, <2>5 DEF Agreed
<1> QED
  BY <1>1, <1>2


LEMMA ForgetAgrees ==
  ASSUME Types, NEW p \in Publishers, Agreed(p), ForgetRm(p) \/ ForgetChunk(p) \/ ForgetMeta(p)
  PROVE  Agreed(p)'
<1>t. /\ chunkLink \in [Contexts -> Digests \cup {Nil}]
      /\ metadata \in [Contexts -> Metadatas \cup {Nil}]
      /\ DOMAIN cpc = Publishers /\ n \in [Publishers -> Nat]
  BY DEF Types, StoreTypeOK, BatchType
<1>f. Forgetting(p)
  BY DEF ForgetRm, ForgetChunk, ForgetMeta, Forgetting
<1>o. Undone(p) \in Owns[p] /\ Undone(p) \in Contexts
  BY <1>f, OwnContexts
<1>d. /\ \A c \in Owns[p] : c \in Contexts
      /\ n[p] \in DOMAIN taken[p] /\ taken[p][n[p]].ctx = Undone(p)
  BY <1>f, OwnsAssumption DEF Types, BatchType, Forgetting, Undone
<1>1. CASE ForgetRm(p)
  <2>1. /\ NextUndo(p) /\ torn' = torn \cup {Undone(p)}
        /\ UNCHANGED <<head, pending, pc, chunkLink, metadata, dropped>>
    BY <1>1 DEF ForgetRm, store, generating
  <2> QED
    BY <2>1, <1>f, UndoGoesOn
<1>2. CASE ForgetMeta(p)
  <2>1. /\ cpc[p] = "forgetMeta" /\ NextUndo(p) /\ (torn' = torn \/ torn' = torn \cup {Undone(p)})
        /\ UNCHANGED <<head, pending, pc, chunkLink, dropped>>
        /\ metadata' = metadata \/ metadata' = [metadata EXCEPT ![Undone(p)] = Nil]
    BY <1>2 DEF ForgetMeta, PutMetadata, WriteFails, store, generating
  <2>2. \A c \in Owns[p] : c # Undone(p) => metadata'[c] = metadata[c]
    BY <2>1, <1>d, <1>t
  <2>3. Forgotten(p, Undone(p))
    BY <2>1, <1>d DEF Forgotten
  <2>4. Undone(p) \notin torn' => chunkLink[Undone(p)] = Nil /\ Undone(p) \in dropped
    BY <2>1, <2>3, <1>f, <1>o DEF Agreed, UndoAgrees
  <2> QED
    BY <2>1, <2>2, <2>4, <1>f, UndoGoesOn
<1>3. CASE ForgetChunk(p)
  <2>1. /\ cpc[p] = "forgetChunk" /\ cpc'[p] = "forgetMeta" /\ n'[p] = n[p]
        /\ UNCHANGED <<head, pending, taken, pc, metadata>>
        /\ dropped' = dropped \cup {Undone(p)}
        /\ \/ chunkLink' = [chunkLink EXCEPT ![Undone(p)] = Nil] /\ torn' = torn
           \/ /\ chunkLink' \in {chunkLink, [chunkLink EXCEPT ![Undone(p)] = Nil]}
              /\ torn' = torn \cup {Undone(p)}
    BY <1>3, <1>t DEF ForgetChunk, PutChunkLink, WriteFails, Goto, store, generating
  <2>2. Mine(p)' /\ GenAgrees(p)' /\ RestAgrees(p)'
    BY <2>1, <1>f DEF Agreed, Mine, OwnOnly, GenAgrees, RestAgrees, Forgetting
  <2>3. ASSUME NEW c \in Owns[p], c \notin torn', ~Mentions(taken[p], c)
        PROVE  Fits(Record(c)', head, c, dropped')
    <3>1. c # Undone(p)
      BY <2>3, <1>d DEF Mentions
    <3>2. Fits(Record(c), head, c, dropped)
      BY <2>1, <2>3, <1>f DEF Agreed, UndoAgrees
    <3>3. Record(c)' = Record(c) /\ dropped \subseteq dropped'
      BY <2>1, <3>1, <1>t, <1>d DEF Record
    <3> QED
      BY <3>2, <3>3, FitsGrows
  <2>4. ASSUME NEW c \in Owns[p], c \notin torn', Forgotten(p, c)'
        PROVE  chunkLink'[c] = Nil /\ c \in dropped'
    <3>1. CASE c = Undone(p)
      BY <2>1, <2>4, <3>1, <1>t, <1>o
    <3>2. CASE c # Undone(p)
      <4>1. PICK k \in DOMAIN taken[p] : taken[p][k].ctx = c /\ (k > n[p] \/ k = n[p])
        BY <2>1, <2>4 DEF Forgotten
      <4>2. Forgotten(p, c)
        BY <4>1, <3>2, <1>d DEF Forgotten
      <4>3. chunkLink[c] = Nil /\ c \in dropped
        BY <2>1, <2>4, <4>2, <1>f DEF Agreed, UndoAgrees
      <4> QED
        BY <2>1, <3>2, <4>3, <1>t, <1>d
    <3> QED
      BY <3>1, <3>2
  <2>5. UndoAgrees(p)'
    BY <2>1, <2>3, <2>4 DEF UndoAgrees
  <2> QED
    BY <2>2, <2>5 DEF Agreed
<1> QED
  BY <1>1, <1>2, <1>3

LEMMA AgreeStep == Types /\ AgreeInv /\ [Next]_vars => AgreeInv'
<1> SUFFICES ASSUME Types, AgreeInv, [Next]_vars, NEW q \in Publishers PROVE Agreed(q)'
  BY DEF AgreeInv
<1>1. ASSUME NEW p \in Publishers, Quiet(p) \/ ReadHead(p) \/ PutAd(p) PROVE Agreed(q)'
  <2>1. Agreed(p) /\ Agreed(q)
    BY DEF AgreeInv
  <2>2. CASE q = p
    <3>1. Agreed(p)'
      BY <1>1, <2>1, GenerateAgrees, AddAgrees, CommitAgrees, ForgetAgrees DEF Quiet
    <3> QED
      BY <2>2, <3>1
  <2>3. CASE q # p
    <3>1. Touches(p)
      BY <1>1, <2>1, StepTouches
    <3> QED
      BY <2>1, <2>3, <3>1, OthersStayAgreed
  <2> QED
    BY <2>2, <2>3
<1>2. CASE UNCHANGED vars
  <2>1. Agreed(q) /\ Line(q)' = Line(q)
    BY <1>2 DEF AgreeInv, vars, committing, Line, Batch
  <2>2. Mine(q)'
    BY <1>2, <2>1 DEF vars, generating, committing, Agreed, Mine, OwnOnly
  <2>3. GenAgrees(q)'
    BY <1>2, <2>1
    DEF vars, generating, committing, Agreed, GenAgrees, Gen!Ctx, Mapped, IsRm, Record
  <2>4. RestAgrees(q)'
    BY <1>2, <2>1 DEF vars, generating, committing, Agreed, RestAgrees, Forgetting, Gen!Ctx, Record
  <2>5. UndoAgrees(q)'
    BY <1>2, <2>1
    DEF vars, generating, committing, Agreed, UndoAgrees, Forgetting, Forgotten, Record
  <2> QED
    BY <2>2, <2>3, <2>4, <2>5 DEF Agreed
<1> QED
  BY <1>1, <1>2 DEF Next, Quiet

LEMMA AgreeInit == Init => AgreeInv
<1> SUFFICES ASSUME Init, NEW p \in Publishers PROVE Agreed(p)
  BY DEF AgreeInv
<1>e. DOMAIN <<>> = {} /\ <<>> \o <<>> = <<>>
  <2>1. <<>> \in Seq({}) /\ DOMAIN <<>> = 1..Len(<<>>) /\ Len(<<>>) = 0
    BY EmptySeq, LenProperties
  <2>2. <<>> \o <<>> = <<>>
    BY <2>1, ConcatEmptySeq
  <2> QED
    BY <2>1, <2>2
<1>1. /\ pc[p] = "idle" /\ cpc[p] = "none" /\ pending[p] = <<>> /\ taken[p] = <<>> /\ head = <<>>
      /\ \A c \in Contexts : chunkLink[c] = Nil /\ metadata[c] # Removal
  BY DEF Init, Gen!Init, Gen!StoreInit
<1>2. Mine(p) /\ GenAgrees(p) /\ UndoAgrees(p)
  BY <1>1, <1>e DEF Mine, OwnOnly, GenAgrees, UndoAgrees, Forgetting
<1>3. \A c \in Owns[p] : Fits(Record(c), Line(p), c, dropped)
  <2>1. Line(p) = <<>>
    BY <1>1, <1>e DEF Line, Batch
  <2>2. \A c \in Owns[p] : chunkLink[c] = Nil /\ metadata[c] # Removal
    BY <1>1, OwnsAssumption
  <2> QED
    BY <2>1, <2>2, <1>e DEF Fits, Says, Agrees, Record
<1> QED
  BY <1>2, <1>3 DEF Agreed, RestAgrees

\* However generating, commits, and the undos of both fail, and whoever else
\* commits meanwhile, between calls the mappings of a context say what the chain
\* will say once the pending adverts are committed, unless an undo reported that
\* it failed or the context's addition was given up (GenerateAd, AddToBatch,
\* Commit, Discard).
THEOREM MappingsStayAgreed == Spec => []MappingsAgree
<1>1. AgreeInv => MappingsAgree
  <2> SUFFICES ASSUME AgreeInv, NEW p \in Publishers, NEW c \in Owns[p], c \notin torn, Idle(p)
               PROVE  Says(Record(c), Promised(p), c) \/ (chunkLink[c] = Nil /\ c \in dropped)
    BY DEF MappingsAgree
  <2>1. pc[p] = "idle" /\ ~Forgetting(p) /\ Line(p) = Promised(p)
    BY DEF Idle, Forgetting, Line, Batch, Promised
  <2>2. Fits(Record(c), Promised(p), c, dropped)
    BY <2>1 DEF AgreeInv, Agreed, RestAgrees
  <2> QED
    BY <2>2 DEF Fits, Record
<1>2. Types /\ AgreeInv /\ [Next]_vars => Types' /\ AgreeInv'
  BY TypeStep, AgreeStep
<1> QED
  BY <1>1, <1>2, TypeInit, AgreeInit, PTL DEF Spec

=============================================================================
