--------------------------- MODULE PublishProofs ---------------------------
(***************************************************************************)
(* Theorems about Publish, for any contexts, publishers and bounds.        *)
(***************************************************************************)
EXTENDS Publish, AdStoreProofs

\* The advert a committing publisher has made is well formed, and so is its link.
LEMMA AdType ==
  ASSUME TypeOK, NEW p \in Publishers, pc[p] \in Committing
  PROVE  Ad(p) \in Advert /\ NewHead(p) \in Link
<1>1. pc[p] # "idle" /\ new[p] \in ContextRecord /\ new[p].chunk # Nil /\ new[p].md # Nil
  BY DEF TypeOK, Committing
<1>2. call[p] \in Request /\ base[p] \in Link
  BY <1>1 DEF TypeOK
<1>3. Ad(p) \in Advert
  BY <1>1, <1>2 DEF Ad, Advert, Ctx, ContextRecord, Request
<1> QED
  BY <1>2, <1>3 DEF NewHead, Link

\* What returning leaves well formed.
LEMMA ReturnType ==
  ASSUME TypeOK, NEW p \in Publishers, Return(p), StoreTypeOK',
         acked' \subseteq Link, torn' \subseteq Contexts
  PROVE  TypeOK'
BY DEF TypeOK, Return, Goto, Labels, NoRecord, ContextRecord, Link, Committing

LEMMA UndoType ==
  ASSUME TypeOK, NEW p \in Publishers, pc[p] # "idle", Undo(p), StoreTypeOK',
         UNCHANGED <<acked, torn>>
  PROVE  TypeOK'
BY DEF TypeOK, Undo, Goto, Labels, Undoing, Committing

LEMMA TypeStep == TypeOK /\ [Next]_vars => TypeOK'
<1> SUFFICES ASSUME TypeOK, [Next]_vars PROVE TypeOK'
  OBVIOUS
<1>s. StoreTypeOK
  BY DEF TypeOK
<1>1. ASSUME NEW p \in Publishers, Call(p) PROVE TypeOK'
  <2>1. StoreTypeOK'
    BY <1>1, <1>s, StoreCallsType DEF Call
  <2> QED
    BY <1>1, <2>1 DEF Call, TypeOK, Goto, Labels, Generating, Committing, Undoing, Request
<1>2. ASSUME NEW p \in Publishers, ReadChunk(p) PROVE TypeOK'
  <2>1. StoreTypeOK'
    BY <1>2, <1>s, StoreCallsType DEF ReadChunk
  <2> QED
    BY <1>2, <2>1 DEF ReadChunk, StoreTypeOK, Ctx, ContextRecord, Request, TypeOK, Goto, Labels, Generating, Committing, Undoing
<1>3. ASSUME NEW p \in Publishers, ReadMeta(p) PROVE TypeOK'
  <2>1. StoreTypeOK'
    BY <1>3, <1>s, StoreCallsType DEF ReadMeta
  <2>2. CASE AlreadyAdvertised(p)
    BY <1>3, <2>1, <2>2, ReturnType DEF ReadMeta, TypeOK
  <2>3. CASE ~AlreadyAdvertised(p)
    <3>1. call[p] \in Request /\ old[p] \in ContextRecord /\ Ctx(p) \in Contexts
      BY <1>3 DEF ReadMeta, TypeOK, Ctx, Request
    <3>2. call[p].md \in Metadatas /\ call[p].md # Nil /\ old[p].chunk \in Digests \cup {Nil}
      BY <3>1, NilAssumption DEF Request, ContextRecord
    <3>3. [chunk |-> old[p].chunk, md |-> call[p].md] \in ContextRecord
      BY <3>2 DEF ContextRecord
    <3>4. metadata[Ctx(p)] \in Metadatas \cup {Nil}
      BY <3>1 DEF TypeOK, StoreTypeOK
    <3>5. old' \in [Publishers -> ContextRecord] /\ new' \in [Publishers -> ContextRecord]
      <4>1. [old[p] EXCEPT !.md = metadata[Ctx(p)]] \in ContextRecord
        BY <3>1, <3>4 DEF ContextRecord
      <4>2. old' = [old EXCEPT ![p] = [old[p] EXCEPT !.md = metadata[Ctx(p)]]]
        BY <1>3, <2>3 DEF ReadMeta
      <4> QED
        BY <1>3, <2>3, <3>3, <4>1, <4>2 DEF ReadMeta, TypeOK
    <3>6. UNCHANGED <<call, base, acked, torn>>
      BY <1>3, <2>3 DEF ReadMeta
    <3>7. pc' = [pc EXCEPT ![p] = IF LacksEntries(p) THEN "putEntries" ELSE "putMeta"]
          /\ new'[p] = [chunk |-> old[p].chunk, md |-> call[p].md]
      BY <1>3, <2>3 DEF ReadMeta, Goto, TypeOK
    <3>8. \A q \in Publishers \ {p} : new'[q] = new[q]
      BY <1>3, <2>3 DEF ReadMeta, TypeOK
    <3> QED
      BY <1>3, <2>1, <3>1, <3>2, <3>5, <3>6, <3>7, <3>8
      DEF ReadMeta, LacksEntries, TypeOK, Goto, Labels, Generating, Committing, Undoing
  <2> QED
    BY <2>2, <2>3
<1>4. ASSUME NEW p \in Publishers, ReadMappingsFails(p) PROVE TypeOK'
  BY <1>4, <1>s, StoreCallsType, ReturnType DEF ReadMappingsFails, ReadFails, TypeOK
<1>5. ASSUME NEW p \in Publishers, PutEntriesOf(p) PROVE TypeOK'
  <2>1. StoreTypeOK'
    BY <1>5, <1>s, StoreCallsType DEF PutEntriesOf, TypeOK, Request
  <2> QED
    BY <1>5, <2>1, NilAssumption DEF PutEntriesOf, Ctx, ContextRecord, Request, TypeOK, Goto, Labels, Generating, Committing, Undoing
<1>6. ASSUME NEW p \in Publishers, PutChunk(p) PROVE TypeOK'
  <2>1. StoreTypeOK'
    BY <1>6, <1>s, StoreCallsType DEF PutChunk, TypeOK, Request, Ctx, ContextRecord
  <2> QED
    BY <1>6, <2>1 DEF PutChunk, TypeOK, Goto, Labels, Generating, Committing, Undoing
<1>7. ASSUME NEW p \in Publishers, PutMeta(p) PROVE TypeOK'
  <2>1. StoreTypeOK'
    BY <1>7, <1>s, StoreCallsType DEF PutMeta, TypeOK, Request, Ctx, ContextRecord
  <2> QED
    BY <1>7, <2>1 DEF PutMeta, TypeOK, Goto, Labels, Generating, Committing, Undoing
<1>8. ASSUME NEW p \in Publishers, GenerateFails(p) PROVE TypeOK'
  <2>1. StoreTypeOK'
    BY <1>8, <1>s, StoreCallsType DEF GenerateFails, WriteFails, TypeOK, Request, Ctx, ContextRecord
  <2> QED
    BY <1>8, <2>1, UndoType DEF GenerateFails
<1>9. ASSUME NEW p \in Publishers, ReadHead(p) PROVE TypeOK'
  <2>1. StoreTypeOK'
    BY <1>9, <1>s, StoreCallsType DEF ReadHead
  <2> QED
    BY <1>9, <2>1 DEF ReadHead, StoreTypeOK, TypeOK, Goto, Labels, Generating, Committing, Undoing
<1>10. ASSUME NEW p \in Publishers, PutAd(p) PROVE TypeOK'
  <2>1. StoreTypeOK'
    BY <1>10, <1>s, StoreCallsType, AdType DEF PutAd, Committing
  <2> QED
    BY <1>10, <2>1 DEF PutAd, TypeOK, Goto, Labels, Generating, Committing, Undoing
<1>11. ASSUME NEW p \in Publishers, CommitHead(p) PROVE TypeOK'
  <2>1. NewHead(p) \in Link /\ base[p] \in Link
    BY <1>11, AdType DEF CommitHead, Committing, TypeOK
  <2>2. StoreTypeOK'
    BY <1>11, <2>1, <1>s, StoreCallsType DEF CommitHead
  <2> QED
    BY <1>11, <2>1, <2>2, ReturnType DEF CommitHead, TypeOK
<1>12. ASSUME NEW p \in Publishers, CommitFails(p) PROVE TypeOK'
  <2>1. pc[p] \in Committing /\ NewHead(p) \in Link /\ base[p] \in Link
    BY <1>12, AdType DEF CommitFails, Committing, TypeOK
  <2>2. StoreTypeOK'
    BY <1>12, <2>1, <1>s, StoreCallsType DEF CommitFails, ReadFails, WriteFails, ReplaceHeadFails
  <2> QED
    BY <1>12, <2>1, <2>2, UndoType DEF CommitFails, Committing
<1>13. ASSUME NEW p \in Publishers, UndoChunk(p) PROVE TypeOK'
  <2>1. StoreTypeOK'
    BY <1>13, <1>s, StoreCallsType DEF UndoChunk, WriteFails, TypeOK, Request, Ctx, ContextRecord
  <2> QED
    BY <1>13, <2>1 DEF UndoChunk, Ctx, Request, TypeOK, Goto, Labels, Generating, Committing, Undoing
<1>14. ASSUME NEW p \in Publishers, UndoMeta(p) PROVE TypeOK'
  <2>1. StoreTypeOK'
    BY <1>14, <1>s, StoreCallsType DEF UndoMeta, WriteFails, TypeOK, Request, Ctx, ContextRecord
  <2>2. acked' \subseteq Link /\ torn' \subseteq Contexts
    BY <1>14 DEF UndoMeta, TypeOK, Ctx, Request
  <2> QED
    BY <1>14, <2>1, <2>2, ReturnType DEF UndoMeta
<1>15. ASSUME NEW p \in Publishers, Crash(p) PROVE TypeOK'
  BY <1>15, <1>s, StoreCallsType, ReturnType DEF Crash, TypeOK
<1>16. CASE UNCHANGED vars
  BY <1>16 DEF TypeOK, StoreTypeOK, vars
<1> QED
  BY <1>1, <1>2, <1>3, <1>4, <1>5, <1>6, <1>7, <1>8, <1>9, <1>10, <1>11, <1>12,
     <1>13, <1>14, <1>15, <1>16 DEF Next, Step

\* Every state is well formed.
THEOREM TypeCorrect == Spec => []TypeOK
<1>1. Init => TypeOK
  BY DEF Init, StoreInit, TypeOK, StoreTypeOK, Labels, NoRecord, ContextRecord, Link, Committing
<1> QED
  BY <1>1, TypeStep, PTL DEF Spec
-----------------------------------------------------------------------------
(* The chain *)

\* The entries the store maps and the publishers hold can be fetched.
EntriesInv ==
  /\ \A c \in Contexts : chunkLink[c] # Nil => chunkLink[c] \in blocks \cup Blockless
  /\ \A p \in Publishers :
       /\ old[p].chunk # Nil => old[p].chunk \in blocks \cup Blockless
       /\ new[p].chunk # Nil => new[p].chunk \in blocks \cup Blockless

\* Every stored advert can be walked from, and so can the head and the link a
\* publisher builds on; the advert is stored by the time it becomes the head.
WalkInv ==
  /\ \A l \in adverts : Walkable(l, adverts, blocks)
  /\ Walkable(head, adverts, blocks)
  /\ \A p \in Publishers :
       /\ Walkable(base[p], adverts, blocks)
       /\ pc[p] = "replaceHead" => NewHead(p) \in adverts

ChainInv == EntriesInv /\ WalkInv

\* The commit of one publisher puts its advert behind the head; the others move
\* no head.
LEMMA HeadStep ==
  ASSUME TypeOK, [Next]_vars
  PROVE  \/ UNCHANGED <<head, acked>>
         \/ \E p \in Publishers :
              /\ pc[p] = "replaceHead" /\ base[p] = head
              /\ head' = NewHead(p)
              /\ acked' = acked \/ acked' = acked \cup {head'}
<1>1. ASSUME NEW p \in Publishers, CommitHead(p)
      PROVE  pc[p] = "replaceHead" /\ base[p] = head /\ head' = NewHead(p)
             /\ acked' = acked \cup {head'}
  BY <1>1 DEF CommitHead, ReplaceHead
<1>2. ASSUME NEW p \in Publishers, CommitFails(p)
      PROVE  /\ UNCHANGED acked
             /\ \/ UNCHANGED head
                \/ pc[p] = "replaceHead" /\ base[p] = head /\ head' = NewHead(p)
  BY <1>2 DEF CommitFails, ReplaceHead, ReplaceHeadFails, ReadFails, WriteFails, PutAdvert, store
<1>3. ASSUME NEW p \in Publishers,
             \/ Call(p) \/ Crash(p)
             \/ ReadChunk(p) \/ ReadMeta(p) \/ ReadMappingsFails(p)
             \/ PutEntriesOf(p) \/ PutChunk(p) \/ PutMeta(p) \/ GenerateFails(p)
             \/ ReadHead(p) \/ PutAd(p) \/ UndoChunk(p) \/ UndoMeta(p)
      PROVE  UNCHANGED <<head, acked>>
  BY <1>3 DEF Call, Crash, ReadChunk, ReadMeta, ReadMappingsFails, PutEntriesOf, PutChunk,
              PutMeta, GenerateFails, ReadHead, PutAd, UndoChunk, UndoMeta, store,
              ReadFails, WriteFails, PutEntries, PutAdvert, PutChunkLink, PutMetadata
<1>4. CASE UNCHANGED vars
  BY <1>4 DEF vars
<1> QED
  BY <1>1, <1>2, <1>3, <1>4 DEF Next, Step

LEMMA NoAdvertLostStep == TypeOK /\ NoAdvertLost /\ [Next]_vars => NoAdvertLost'
<1> SUFFICES ASSUME TypeOK, NoAdvertLost, [Next]_vars PROVE NoAdvertLost'
  OBVIOUS
<1>1. ASSUME NEW p \in Publishers, pc[p] = "replaceHead", base[p] = head, head' = NewHead(p),
             acked' = acked \/ acked' = acked \cup {head'}
      PROVE  NoAdvertLost'
  <2>1. Ad(p) \in Advert /\ head \in Seq(Advert) /\ head' = Append(head, Ad(p))
    BY <1>1, AdType DEF Committing, NewHead, TypeOK, StoreTypeOK, Link
  <2>2. Prefixes(head') = Prefixes(head) \cup {head'}
    BY <2>1, AppendPrefixes
  <2> QED
    BY <1>1, <2>2 DEF NoAdvertLost
<1>2. CASE UNCHANGED <<head, acked>>
  BY <1>2 DEF NoAdvertLost
<1> QED
  BY <1>1, <1>2, HeadStep

\* A link that a call of one of the publishers returned is on the chain for good.
THEOREM NoAdvertIsLost == Spec => []NoAdvertLost
<1>1. Init => NoAdvertLost
  BY DEF Init, NoAdvertLost
<1> QED
  BY <1>1, NoAdvertLostStep, TypeCorrect, PTL DEF Spec

\* Publishing implements the abstract chain, step by step: a step adds one
\* advert behind the head, or changes neither the head nor what was returned.
LEMMA ChainStep == TypeOK /\ [Next]_vars => [Chain!Next]_<<head, acked>>
<1> SUFFICES ASSUME TypeOK, [Next]_vars PROVE [Chain!Next]_<<head, acked>>
  OBVIOUS
<1>1. ASSUME NEW p \in Publishers, pc[p] = "replaceHead", base[p] = head, head' = NewHead(p),
             acked' = acked \/ acked' = acked \cup {head'}
      PROVE  Chain!Extend
  <2>1. Ad(p) \in Advert /\ head \in Seq(Advert) /\ head' = Append(head, Ad(p))
    BY <1>1, AdType DEF Committing, NewHead, TypeOK, StoreTypeOK, Link
  <2>2. IsStrictPrefix(head, head')
    BY <2>1, AppendStrict
  <2> QED
    BY <1>1, <2>2 DEF Chain!Extend, Chain!IsStrictPrefix, IsStrictPrefix,
                      Chain!IsPrefix, IsPrefix
<1> QED
  BY <1>1, HeadStep DEF Chain!Next

\* Publish, with any publishers, failures and crashes, implements AdvertChain.
THEOREM ImplementsChain == Spec => ChainSpec
<1>1. Init => Chain!Init
  BY DEF Init, StoreInit, Chain!Init
<1> QED
  BY <1>1, ChainStep, TypeCorrect, PTL DEF Spec, ChainSpec, Chain!Spec
-----------------------------------------------------------------------------
(* The head can be walked *)

\* Blocks are only ever added, and only these two steps add any.
LEMMA BlocksStep ==
  ASSUME TypeOK, [Next]_vars
  PROVE  adverts \subseteq adverts' /\ blocks \subseteq blocks'
<1>1. ASSUME NEW p \in Publishers, Call(p) PROVE adverts \subseteq adverts' /\ blocks \subseteq blocks'
  BY <1>1 DEF Call, store, ReadFails, WriteFails, PutEntries, PutAdvert, PutChunkLink, PutMetadata, ReplaceHead, ReplaceHeadFails
<1>2. ASSUME NEW p \in Publishers, ReadChunk(p) PROVE adverts \subseteq adverts' /\ blocks \subseteq blocks'
  BY <1>2 DEF ReadChunk, store, ReadFails, WriteFails, PutEntries, PutAdvert, PutChunkLink, PutMetadata, ReplaceHead, ReplaceHeadFails
<1>3. ASSUME NEW p \in Publishers, ReadMeta(p) PROVE adverts \subseteq adverts' /\ blocks \subseteq blocks'
  BY <1>3 DEF ReadMeta, store, ReadFails, WriteFails, PutEntries, PutAdvert, PutChunkLink, PutMetadata, ReplaceHead, ReplaceHeadFails
<1>4. ASSUME NEW p \in Publishers, ReadMappingsFails(p) PROVE adverts \subseteq adverts' /\ blocks \subseteq blocks'
  BY <1>4 DEF ReadMappingsFails, store, ReadFails, WriteFails, PutEntries, PutAdvert, PutChunkLink, PutMetadata, ReplaceHead, ReplaceHeadFails
<1>5. ASSUME NEW p \in Publishers, PutEntriesOf(p) PROVE adverts \subseteq adverts' /\ blocks \subseteq blocks'
  BY <1>5 DEF PutEntriesOf, store, ReadFails, WriteFails, PutEntries, PutAdvert, PutChunkLink, PutMetadata, ReplaceHead, ReplaceHeadFails
<1>6. ASSUME NEW p \in Publishers, PutChunk(p) PROVE adverts \subseteq adverts' /\ blocks \subseteq blocks'
  BY <1>6 DEF PutChunk, store, ReadFails, WriteFails, PutEntries, PutAdvert, PutChunkLink, PutMetadata, ReplaceHead, ReplaceHeadFails
<1>7. ASSUME NEW p \in Publishers, PutMeta(p) PROVE adverts \subseteq adverts' /\ blocks \subseteq blocks'
  BY <1>7 DEF PutMeta, store, ReadFails, WriteFails, PutEntries, PutAdvert, PutChunkLink, PutMetadata, ReplaceHead, ReplaceHeadFails
<1>8. ASSUME NEW p \in Publishers, GenerateFails(p) PROVE adverts \subseteq adverts' /\ blocks \subseteq blocks'
  BY <1>8 DEF GenerateFails, store, ReadFails, WriteFails, PutEntries, PutAdvert, PutChunkLink, PutMetadata, ReplaceHead, ReplaceHeadFails
<1>9. ASSUME NEW p \in Publishers, ReadHead(p) PROVE adverts \subseteq adverts' /\ blocks \subseteq blocks'
  BY <1>9 DEF ReadHead, store, ReadFails, WriteFails, PutEntries, PutAdvert, PutChunkLink, PutMetadata, ReplaceHead, ReplaceHeadFails
<1>10. ASSUME NEW p \in Publishers, PutAd(p) PROVE adverts \subseteq adverts' /\ blocks \subseteq blocks'
  BY <1>10 DEF PutAd, store, ReadFails, WriteFails, PutEntries, PutAdvert, PutChunkLink, PutMetadata, ReplaceHead, ReplaceHeadFails
<1>11. ASSUME NEW p \in Publishers, CommitHead(p) PROVE adverts \subseteq adverts' /\ blocks \subseteq blocks'
  BY <1>11 DEF CommitHead, store, ReadFails, WriteFails, PutEntries, PutAdvert, PutChunkLink, PutMetadata, ReplaceHead, ReplaceHeadFails
<1>12. ASSUME NEW p \in Publishers, CommitFails(p) PROVE adverts \subseteq adverts' /\ blocks \subseteq blocks'
  BY <1>12 DEF CommitFails, store, ReadFails, WriteFails, PutEntries, PutAdvert, PutChunkLink, PutMetadata, ReplaceHead, ReplaceHeadFails
<1>13. ASSUME NEW p \in Publishers, UndoChunk(p) PROVE adverts \subseteq adverts' /\ blocks \subseteq blocks'
  BY <1>13 DEF UndoChunk, store, ReadFails, WriteFails, PutEntries, PutAdvert, PutChunkLink, PutMetadata, ReplaceHead, ReplaceHeadFails
<1>14. ASSUME NEW p \in Publishers, UndoMeta(p) PROVE adverts \subseteq adverts' /\ blocks \subseteq blocks'
  BY <1>14 DEF UndoMeta, store, ReadFails, WriteFails, PutEntries, PutAdvert, PutChunkLink, PutMetadata, ReplaceHead, ReplaceHeadFails
<1>15. ASSUME NEW p \in Publishers, Crash(p) PROVE adverts \subseteq adverts' /\ blocks \subseteq blocks'
  BY <1>15 DEF Crash, store, ReadFails, WriteFails, PutEntries, PutAdvert, PutChunkLink, PutMetadata, ReplaceHead, ReplaceHeadFails
<1>16. CASE UNCHANGED vars
  BY <1>16 DEF vars
<1> QED
  BY <1>1, <1>2, <1>3, <1>4, <1>5, <1>6, <1>7, <1>8, <1>9, <1>10, <1>11, <1>12, <1>13, <1>14, <1>15, <1>16 DEF Next, Step

LEMMA EntriesStep == TypeOK /\ EntriesInv /\ [Next]_vars => EntriesInv'
<1> SUFFICES ASSUME TypeOK, EntriesInv, [Next]_vars PROVE EntriesInv'
  OBVIOUS
<1>b. blocks \subseteq blocks'
  BY BlocksStep
<1>t. /\ old \in [Publishers -> ContextRecord] /\ new \in [Publishers -> ContextRecord]
      /\ chunkLink \in [Contexts -> Digests \cup {Nil}] /\ blocks \subseteq Digests
      /\ \A p \in Publishers : pc[p] # "idle" => call[p] \in Request
  BY DEF TypeOK, StoreTypeOK
<1> DEFINE Known(l) == l # Nil => l \in blocks \cup Blockless
<1>i. /\ \A c \in Contexts : Known(chunkLink[c])
      /\ \A p \in Publishers : Known(old[p].chunk) /\ Known(new[p].chunk)
  BY DEF EntriesInv
<1>r. ASSUME NEW p \in Publishers, Return(p), UNCHANGED chunkLink
      PROVE  EntriesInv'
  BY <1>r, <1>b, <1>t, <1>i DEF Return, NoRecord, EntriesInv
<1>p. ASSUME NEW c \in Contexts, NEW l, Known(l), PutChunkLink(c, l), UNCHANGED <<old, new>>
      PROVE  EntriesInv'
  BY <1>p, <1>b, <1>t, <1>i DEF PutChunkLink, EntriesInv
<1>u. ASSUME UNCHANGED <<chunkLink, old, new>>
      PROVE  EntriesInv'
  BY <1>u, <1>b, <1>t, <1>i DEF EntriesInv
<1>1. ASSUME NEW p \in Publishers, Call(p) PROVE EntriesInv'
  BY <1>1, <1>u DEF Call, store
<1>2. ASSUME NEW p \in Publishers, ReadChunk(p) PROVE EntriesInv'
  <2>1. Ctx(p) \in Contexts
    BY <1>2, <1>t DEF ReadChunk, Ctx, Request
  <2> QED
    BY <1>2, <2>1, <1>b, <1>t, <1>i DEF ReadChunk, store, EntriesInv, ContextRecord
<1>3. ASSUME NEW p \in Publishers, ReadMeta(p) PROVE EntriesInv'
  <2>1. CASE AlreadyAdvertised(p)
    BY <1>3, <2>1, <1>r DEF ReadMeta, store
  <2>2. CASE ~AlreadyAdvertised(p)
    BY <1>3, <2>2, <1>b, <1>t, <1>i DEF ReadMeta, store, EntriesInv, ContextRecord
  <2> QED
    BY <2>1, <2>2
<1>4. ASSUME NEW p \in Publishers, ReadMappingsFails(p) PROVE EntriesInv'
  BY <1>4, <1>r DEF ReadMappingsFails, ReadFails, store
<1>5. ASSUME NEW p \in Publishers, PutEntriesOf(p) PROVE EntriesInv'
  <2>1. call[p].digests \in blocks' \cup Blockless
    BY <1>5, <1>t DEF PutEntriesOf, PutEntries, Request
  <2> QED
    BY <1>5, <2>1, <1>b, <1>t, <1>i DEF PutEntriesOf, PutEntries, EntriesInv, ContextRecord
<1>6. ASSUME NEW p \in Publishers, PutChunk(p) PROVE EntriesInv'
  BY <1>6, <1>p, <1>t, <1>i DEF PutChunk, Ctx, Request
<1>7. ASSUME NEW p \in Publishers, PutMeta(p) PROVE EntriesInv'
  BY <1>7, <1>u DEF PutMeta, PutMetadata
<1>8. ASSUME NEW p \in Publishers, GenerateFails(p) PROVE EntriesInv'
  BY <1>8, <1>p, <1>u, <1>t, <1>i
  DEF GenerateFails, WriteFails, PutEntries, PutMetadata, store, Undo, Ctx, Request
<1>9. ASSUME NEW p \in Publishers, ReadHead(p) PROVE EntriesInv'
  BY <1>9, <1>u DEF ReadHead, store
<1>10. ASSUME NEW p \in Publishers, PutAd(p) PROVE EntriesInv'
  BY <1>10, <1>u DEF PutAd, PutAdvert
<1>11. ASSUME NEW p \in Publishers, CommitHead(p) PROVE EntriesInv'
  BY <1>11, <1>r DEF CommitHead, ReplaceHead
<1>12. ASSUME NEW p \in Publishers, CommitFails(p) PROVE EntriesInv'
  BY <1>12, <1>u
  DEF CommitFails, ReadFails, WriteFails, PutAdvert, ReplaceHead, ReplaceHeadFails, store, Undo
<1>13. ASSUME NEW p \in Publishers, UndoChunk(p) PROVE EntriesInv'
  BY <1>13, <1>p, <1>u, <1>t, <1>i DEF UndoChunk, WriteFails, store, Ctx, Request
<1>14. ASSUME NEW p \in Publishers, UndoMeta(p) PROVE EntriesInv'
  BY <1>14, <1>r DEF UndoMeta, WriteFails, PutMetadata, store
<1>15. ASSUME NEW p \in Publishers, Crash(p) PROVE EntriesInv'
  BY <1>15, <1>r DEF Crash, store
<1>16. CASE UNCHANGED vars
  BY <1>16, <1>u DEF vars
<1> QED
  BY <1>1, <1>2, <1>3, <1>4, <1>5, <1>6, <1>7, <1>8, <1>9, <1>10, <1>11, <1>12,
     <1>13, <1>14, <1>15, <1>16 DEF Next, Step

LEMMA WalkStep == TypeOK /\ ChainInv /\ [Next]_vars => WalkInv'
<1> SUFFICES ASSUME TypeOK, ChainInv, [Next]_vars PROVE WalkInv'
  OBVIOUS
<1>b. adverts \subseteq adverts' /\ blocks \subseteq blocks'
  BY BlocksStep
<1>g. \A l : Walkable(l, adverts, blocks) => Walkable(l, adverts', blocks')
  BY <1>b, WalkableGrows
<1>e. Walkable(<<>>, adverts', blocks')
  BY WalkableEmpty
<1>t. /\ pc \in [Publishers -> Labels] /\ call \in [Publishers -> Request \cup {Nil}]
      /\ new \in [Publishers -> ContextRecord] /\ base \in [Publishers -> Link]
  BY DEF TypeOK
<1>i. /\ \A l \in adverts : Walkable(l, adverts, blocks)
      /\ Walkable(head, adverts, blocks)
      /\ \A p \in Publishers : Walkable(base[p], adverts, blocks)
      /\ \A p \in Publishers : pc[p] = "replaceHead" => NewHead(p) \in adverts
  BY DEF ChainInv, WalkInv
\* A step that stores no advert, moves no head, and takes one publisher away
\* from the replacement of the head.
<1>k. ASSUME UNCHANGED <<head, adverts>>, NEW p \in Publishers,
             \A q \in Publishers \ {p} :
               pc'[q] = pc[q] /\ call'[q] = call[q] /\ new'[q] = new[q] /\ base'[q] = base[q],
             pc'[p] # "replaceHead",
             base'[p] = base[p] \/ base'[p] = <<>> \/ base'[p] = head
      PROVE  WalkInv'
  BY <1>k, <1>g, <1>e, <1>i DEF WalkInv, NewHead, Ad, Ctx
<1>r. ASSUME UNCHANGED <<head, adverts>>, NEW p \in Publishers, Return(p)
      PROVE  WalkInv'
  <2>1. /\ pc'[p] = "idle" /\ base'[p] = <<>>
        /\ \A q \in Publishers \ {p} :
             pc'[q] = pc[q] /\ call'[q] = call[q] /\ new'[q] = new[q] /\ base'[q] = base[q]
    BY <1>r, <1>t DEF Return, Goto
  <2> QED
    BY <2>1, <1>r, <1>k
<1>d. ASSUME UNCHANGED <<head, adverts>>, NEW p \in Publishers, Undo(p)
      PROVE  WalkInv'
  <2>1. /\ pc'[p] = "undoChunk" /\ base' = base
        /\ \A q \in Publishers \ {p} : pc'[q] = pc[q] /\ call'[q] = call[q] /\ new'[q] = new[q]
    BY <1>d, <1>t DEF Undo, Goto
  <2> QED
    BY <2>1, <1>d, <1>k
<1>1. ASSUME NEW p \in Publishers, Call(p) PROVE WalkInv'
  <2>1. /\ pc'[p] = "readChunk" /\ UNCHANGED <<head, adverts>>
        /\ base'[p] = base[p] \/ base'[p] = head
        /\ \A q \in Publishers \ {p} :
             pc'[q] = pc[q] /\ call'[q] = call[q] /\ new'[q] = new[q] /\ base'[q] = base[q]
    BY <1>1, <1>t DEF Call, Goto, store
  <2> QED
    BY <2>1, <1>k
<1>2. ASSUME NEW p \in Publishers, ReadChunk(p) PROVE WalkInv'
  <2>1. /\ pc'[p] = "readMeta" /\ UNCHANGED <<head, adverts>>
        /\ base'[p] = base[p] \/ base'[p] = head
        /\ \A q \in Publishers \ {p} :
             pc'[q] = pc[q] /\ call'[q] = call[q] /\ new'[q] = new[q] /\ base'[q] = base[q]
    BY <1>2, <1>t DEF ReadChunk, Goto, store
  <2> QED
    BY <2>1, <1>k
<1>3. ASSUME NEW p \in Publishers, ReadMeta(p) PROVE WalkInv'
  <2>1. UNCHANGED <<head, adverts>>
    BY <1>3 DEF ReadMeta, store
  <2>2. CASE AlreadyAdvertised(p)
    BY <1>3, <2>1, <2>2, <1>r DEF ReadMeta
  <2>3. CASE ~AlreadyAdvertised(p)
    <3>1. /\ pc'[p] \in {"putEntries", "putMeta"} /\ base' = base
          /\ \A q \in Publishers \ {p} : pc'[q] = pc[q] /\ call'[q] = call[q] /\ new'[q] = new[q]
      BY <1>3, <2>3, <1>t DEF ReadMeta, Goto
    <3> QED
      BY <2>1, <3>1, <1>k
  <2> QED
    BY <2>2, <2>3
<1>4. ASSUME NEW p \in Publishers, ReadMappingsFails(p) PROVE WalkInv'
  BY <1>4, <1>r DEF ReadMappingsFails, ReadFails, store
<1>5. ASSUME NEW p \in Publishers, PutEntriesOf(p) PROVE WalkInv'
  <2>1. /\ pc'[p] = "putChunk" /\ UNCHANGED <<head, adverts>>
        /\ base'[p] = base[p] \/ base'[p] = head
        /\ \A q \in Publishers \ {p} :
             pc'[q] = pc[q] /\ call'[q] = call[q] /\ new'[q] = new[q] /\ base'[q] = base[q]
    BY <1>5, <1>t DEF PutEntriesOf, Goto, PutEntries
  <2> QED
    BY <2>1, <1>k
<1>6. ASSUME NEW p \in Publishers, PutChunk(p) PROVE WalkInv'
  <2>1. /\ pc'[p] = "putMeta" /\ UNCHANGED <<head, adverts>>
        /\ base'[p] = base[p] \/ base'[p] = head
        /\ \A q \in Publishers \ {p} :
             pc'[q] = pc[q] /\ call'[q] = call[q] /\ new'[q] = new[q] /\ base'[q] = base[q]
    BY <1>6, <1>t DEF PutChunk, Goto, PutChunkLink
  <2> QED
    BY <2>1, <1>k
<1>7. ASSUME NEW p \in Publishers, PutMeta(p) PROVE WalkInv'
  <2>1. /\ pc'[p] = "readHead" /\ UNCHANGED <<head, adverts>>
        /\ base'[p] = base[p] \/ base'[p] = head
        /\ \A q \in Publishers \ {p} :
             pc'[q] = pc[q] /\ call'[q] = call[q] /\ new'[q] = new[q] /\ base'[q] = base[q]
    BY <1>7, <1>t DEF PutMeta, Goto, PutMetadata
  <2> QED
    BY <2>1, <1>k
<1>8. ASSUME NEW p \in Publishers, GenerateFails(p) PROVE WalkInv'
  BY <1>8, <1>d DEF GenerateFails, WriteFails, PutEntries, PutChunkLink, PutMetadata, store
<1>9. ASSUME NEW p \in Publishers, ReadHead(p) PROVE WalkInv'
  <2>1. /\ pc'[p] = "putAdvert" /\ UNCHANGED <<head, adverts>>
        /\ base'[p] = base[p] \/ base'[p] = head
        /\ \A q \in Publishers \ {p} :
             pc'[q] = pc[q] /\ call'[q] = call[q] /\ new'[q] = new[q] /\ base'[q] = base[q]
    BY <1>9, <1>t DEF ReadHead, Goto, store
  <2> QED
    BY <2>1, <1>k
\* The advert is stored, behind an advert that is.
<1>w. ASSUME NEW p \in Publishers, pc[p] = "putAdvert", PutAdvert(NewHead(p)),
             UNCHANGED <<call, new, base>>,
             \A q \in Publishers : pc'[q] = "replaceHead" => pc[q] = "replaceHead" \/ q = p
      PROVE  WalkInv'
  <2>1. Ad(p) \in Advert /\ base[p] \in Link
    BY <1>w, <1>t, AdType DEF Committing
  <2>2. Ad(p).entries \in blocks' \cup Blockless
    BY <1>w, <1>b DEF ChainInv, EntriesInv, TypeOK, Committing, Ad
  <2>3. NewHead(p) \in adverts' /\ Walkable(base[p], adverts', blocks')
    BY <1>w, <1>g, <1>i DEF PutAdvert
  <2>4. Walkable(NewHead(p), adverts', blocks')
    BY <2>1, <2>2, <2>3, WalkableAppend DEF NewHead
  <2> QED
    BY <1>w, <2>3, <2>4, <1>g, <1>i DEF WalkInv, NewHead, Ad, Ctx, PutAdvert
<1>10. ASSUME NEW p \in Publishers, PutAd(p) PROVE WalkInv'
  <2>1. \A q \in Publishers : pc'[q] = "replaceHead" => pc[q] = "replaceHead" \/ q = p
    BY <1>10, <1>t DEF PutAd, Goto
  <2> QED
    BY <1>10, <2>1, <1>w DEF PutAd
<1>11. ASSUME NEW p \in Publishers, CommitHead(p) PROVE WalkInv'
  <2>1. /\ UNCHANGED <<adverts, blocks>> /\ head' \in adverts
        /\ pc' = [pc EXCEPT ![p] = "idle"] /\ base' = [base EXCEPT ![p] = <<>>]
        /\ \A q \in Publishers \ {p} : call'[q] = call[q] /\ new'[q] = new[q]
    BY <1>11, <1>t, <1>i DEF CommitHead, ReplaceHead, Return, Goto
  <2> QED
    BY <2>1, <1>t, <1>g, <1>e, <1>i DEF WalkInv, NewHead, Ad, Ctx
<1>12. ASSUME NEW p \in Publishers, CommitFails(p) PROVE WalkInv'
  <2>1. CASE pc[p] = "putAdvert" /\ PutAdvert(NewHead(p))
    <3>1. \A q \in Publishers : pc'[q] = "replaceHead" => pc[q] = "replaceHead" \/ q = p
      BY <1>12, <1>t DEF CommitFails, Undo, Goto
    <3> QED
      BY <1>12, <2>1, <3>1, <1>w DEF CommitFails, Undo
  <2>2. CASE pc[p] = "replaceHead" /\ ReplaceHead(base[p], NewHead(p))
    <3>1. /\ UNCHANGED <<adverts, blocks, call, new, base>> /\ head' \in adverts
          /\ pc' = [pc EXCEPT ![p] = "undoChunk"]
      BY <1>12, <2>2, <1>i DEF CommitFails, ReplaceHead, Undo, Goto
    <3> QED
      BY <3>1, <1>t, <1>g, <1>i DEF WalkInv, NewHead, Ad, Ctx
  <2>3. CASE UNCHANGED store
    BY <1>12, <2>3, <1>d DEF CommitFails, store
  <2> QED
    BY <1>12, <2>1, <2>2, <2>3 DEF CommitFails, ReadFails, WriteFails, ReplaceHeadFails
<1>13. ASSUME NEW p \in Publishers, UndoChunk(p) PROVE WalkInv'
  <2>1. /\ pc'[p] = "undoMeta" /\ UNCHANGED <<head, adverts>>
        /\ base'[p] = base[p] \/ base'[p] = head
        /\ \A q \in Publishers \ {p} :
             pc'[q] = pc[q] /\ call'[q] = call[q] /\ new'[q] = new[q] /\ base'[q] = base[q]
    BY <1>13, <1>t DEF UndoChunk, Goto, PutChunkLink, WriteFails, store
  <2> QED
    BY <2>1, <1>k
<1>14. ASSUME NEW p \in Publishers, UndoMeta(p) PROVE WalkInv'
  BY <1>14, <1>r DEF UndoMeta, WriteFails, PutMetadata, store
<1>15. ASSUME NEW p \in Publishers, Crash(p) PROVE WalkInv'
  BY <1>15, <1>r DEF Crash, store
<1>16. CASE UNCHANGED vars
  BY <1>16, <1>i DEF vars, WalkInv, NewHead, Ad, Ctx
<1> QED
  BY <1>1, <1>2, <1>3, <1>4, <1>5, <1>6, <1>7, <1>8, <1>9, <1>10, <1>11, <1>12,
     <1>13, <1>14, <1>15, <1>16 DEF Next, Step

\* Whatever the head is, every advert behind it and the entries of each can be
\* fetched.
THEOREM HeadIsClosed == Spec => []HeadClosed
<1>1. Init => ChainInv
  BY WalkableEmpty
  DEF Init, StoreInit, ChainInv, EntriesInv, WalkInv, NoRecord
<1>2. TypeOK /\ ChainInv /\ [Next]_vars => ChainInv'
  BY EntriesStep, WalkStep DEF ChainInv
<1>3. ChainInv => HeadClosed
  BY DEF ChainInv, WalkInv, HeadClosed
<1> QED
  BY <1>1, <1>2, <1>3, TypeCorrect, PTL DEF Spec

-----------------------------------------------------------------------------
(* What the mappings say of the chain, where they are kept so.              *)

\* Each context has one publisher, processes do not stop in the middle of a
\* call, and a write of the head that took effect is not reported as failed.
Private ==
  /\ \A p, q \in Publishers : p # q => Owns[p] \cap Owns[q] = {}
  /\ ~MayCrash
  /\ ~LostReply

-----------------------------------------------------------------------------
(* The inductive invariant *)

Reading == {"readChunk", "readMeta"}

\* What a call of p knows of its context: until it has read the mappings they
\* agree with the chain, from then on the record it restores on failure does,
\* and the mappings hold what it has written.
CallAgrees(p) ==
  pc[p] # "idle" =>
    /\ Ctx(p) \in Owns[p]
    /\ pc[p] \in Reading /\ Ctx(p) \notin torn => Agrees(Record(Ctx(p)), head, Ctx(p))
    /\ pc[p] = "readMeta" => old[p].chunk = chunkLink[Ctx(p)]
    /\ pc[p] \notin Reading /\ Ctx(p) \notin torn => Agrees(old[p], head, Ctx(p))
    /\ pc[p] = "putMeta" => chunkLink[Ctx(p)] = new[p].chunk
    /\ pc[p] \in Committing => Record(Ctx(p)) = new[p]
    /\ pc[p] = "undoMeta" /\ Ctx(p) \notin torn => chunkLink[Ctx(p)] = old[p].chunk

SettledAgrees(c) == c \notin torn /\ Settled(c) => Agrees(Record(c), head, c)

AgreeInv ==
  /\ \A p \in Publishers : CallAgrees(p)
  /\ \A c \in Contexts : SettledAgrees(c)

-----------------------------------------------------------------------------
(* Records and chains *)

\* A record that holds entries and agrees with the chain has been announced.
LEMMA AgreesAnnounced ==
  ASSUME NEW c, NEW r, Agrees(r, head, c), r.chunk # Nil
  PROVE  Announced(c, r.md)
BY DEF Agrees, Announced

-----------------------------------------------------------------------------
(* A step of one publisher *)

\* The step of p concerns the context c alone.
Touches(p, c) ==
  /\ pc[p] # "idle" => Ctx(p) = c
  /\ \A q \in Publishers \ {p} :
       pc'[q] = pc[q] /\ call'[q] = call[q] /\ old'[q] = old[q] /\ new'[q] = new[q]
  /\ \A d \in Contexts \ {c} :
       /\ chunkLink'[d] = chunkLink[d] /\ metadata'[d] = metadata[d]
       /\ d \in torn' <=> d \in torn
  /\ \/ head' = head
     \/ \E ad \in Advert : ad.ctx = c /\ head' = Append(head, ad)

\* Then it is enough to look at p and c.
LEMMA OthersAgree ==
  ASSUME TypeOK, Private, AgreeInv, NEW p \in Publishers, NEW c \in Owns[p],
         Touches(p, c), CallAgrees(p)', SettledAgrees(c)'
  PROVE  AgreeInv'
<1>h. head \in Link
  BY DEF TypeOK, StoreTypeOK
<1>a. \A d \in Contexts \ {c} : \A r : Agrees(r, head, d) => Agrees(r, head', d)
  <2> TAKE d \in Contexts \ {c}
  <2> TAKE r
  <2>1. CASE head' = head
    BY <2>1
  <2>2. CASE \E ad \in Advert : ad.ctx = c /\ head' = Append(head, ad)
    BY <2>2, <1>h, AgreesOther
  <2> QED
    BY <2>1, <2>2 DEF Touches
<1>r. \A d \in Contexts \ {c} : Record(d)' = Record(d)
  BY DEF Touches, Record
<1>1. ASSUME NEW q \in Publishers, q # p PROVE CallAgrees(q)'
  <2>1. pc'[q] = pc[q] /\ call'[q] = call[q] /\ old'[q] = old[q] /\ new'[q] = new[q]
    BY <1>1 DEF Touches
  <2>2. CASE pc[q] = "idle"
    BY <2>1, <2>2 DEF CallAgrees
  <2>3. CASE pc[q] # "idle"
    <3>1. CallAgrees(q) /\ Ctx(q) \in Owns[q] /\ Ctx(q) \in Contexts
      BY <2>3 DEF AgreeInv, CallAgrees, TypeOK, Request, Ctx
    <3>2. Ctx(q) # c
      BY <3>1, <1>1 DEF Private
    <3>3. Ctx(q)' = Ctx(q) /\ Record(Ctx(q))' = Record(Ctx(q))
      BY <2>1, <3>1, <3>2, <1>r DEF Ctx, Record
    <3>4. chunkLink'[Ctx(q)] = chunkLink[Ctx(q)] /\ (Ctx(q) \in torn' <=> Ctx(q) \in torn)
      BY <3>1, <3>2 DEF Touches
    <3>5. \A r : Agrees(r, head, Ctx(q)) => Agrees(r, head', Ctx(q))
      BY <3>1, <3>2, <1>a
    <3> HIDE DEF Agrees, Record, Ctx
    <3> QED
      BY <2>1, <2>3, <3>1, <3>3, <3>4, <3>5 DEF CallAgrees
  <2> QED
    BY <2>2, <2>3
<1>2. ASSUME NEW d \in Contexts, d # c PROVE SettledAgrees(d)'
  <2>1. Settled(d)' => Settled(d)
    BY <1>2 DEF Settled, Touches, Ctx
  <2>2. SettledAgrees(d) /\ Record(d)' = Record(d) /\ (d \in torn' <=> d \in torn)
    BY <1>2, <1>r DEF AgreeInv, Touches
  <2>3. Agrees(Record(d), head, d) => Agrees(Record(d), head', d)
    BY <1>2, <1>a
  <2> QED
    BY <2>1, <2>2, <2>3 DEF SettledAgrees
<1> QED
  BY <1>1, <1>2 DEF AgreeInv

LEMMA AgreeStep == TypeOK /\ Private /\ AgreeInv /\ [Next]_vars => AgreeInv'
<1> SUFFICES ASSUME TypeOK, Private, AgreeInv, [Next]_vars PROVE AgreeInv'
  OBVIOUS
<1>t. /\ pc \in [Publishers -> Labels] /\ call \in [Publishers -> Request \cup {Nil}]
      /\ old \in [Publishers -> ContextRecord] /\ new \in [Publishers -> ContextRecord]
      /\ chunkLink \in [Contexts -> Digests \cup {Nil}]
      /\ metadata \in [Contexts -> Metadatas \cup {Nil}]
  BY DEF TypeOK, StoreTypeOK
<1>c. ASSUME NEW p \in Publishers, pc[p] # "idle"
      PROVE  CallAgrees(p) /\ \E c \in Contexts : c \in Owns[p] /\ Ctx(p) = c
  BY <1>c DEF AgreeInv, CallAgrees, TypeOK, Ctx, Request
\* A call that goes on: nothing is to be shown of its context but what the call
\* knows of it.
<1>b. ASSUME NEW p \in Publishers, NEW c \in Owns[p], Touches(p, c),
             pc'[p] # "idle", Ctx(p)' = c, CallAgrees(p)'
      PROVE  AgreeInv'
  <2>1. ~Settled(c)'
    BY <1>b DEF Settled
  <2> QED
    BY <1>b, <2>1, OthersAgree DEF SettledAgrees
\* A call that returns.
<1>r. ASSUME NEW p \in Publishers, pc[p] # "idle", NEW c \in Owns[p], Return(p),
             Touches(p, c), c \notin torn' => Agrees(Record(c), head, c)'
      PROVE  AgreeInv'
  <2>1. CallAgrees(p)'
    BY <1>r, <1>t DEF Return, Goto, CallAgrees
  <2>2. SettledAgrees(c)'
    BY <1>r DEF SettledAgrees
  <2> QED
    BY <2>1, <2>2, <1>r, OthersAgree
<1>1. ASSUME NEW p \in Publishers, Call(p) PROVE AgreeInv'
  <2>1. PICK r \in Request : r.ctx \in Owns[p] /\ call' = [call EXCEPT ![p] = r]
    BY <1>1 DEF Call
  <2>2. PICK c \in Contexts : c = r.ctx
    BY DEF Request
  <2>3. Touches(p, c)
    BY <1>1, <2>1, <2>2, <1>t DEF Call, Goto, store, Touches
  <2>4. pc[p] = "idle" /\ pc'[p] = "readChunk" /\ Ctx(p)' = c /\ c \in Owns[p]
    BY <1>1, <2>1, <2>2, <1>t DEF Call, Goto, Ctx
  <2>5. UNCHANGED <<head, chunkLink, metadata, torn>>
    BY <1>1 DEF Call, store
  <2>6. c \notin torn => Agrees(Record(c), head, c)
    <3>1. ASSUME NEW q \in Publishers, pc[q] # "idle" PROVE Ctx(q) # c
      BY <3>1, <1>c, <2>4 DEF Private
    <3> QED
      BY <3>1 DEF AgreeInv, SettledAgrees, Settled
  <2>7. (c \notin torn => Agrees(Record(c), head, c))'
    BY <2>5, <2>6 DEF Agrees, Record
  <2>8. CallAgrees(p)'
    BY <2>4, <2>7 DEF CallAgrees, Reading, Committing
  <2> QED
    BY <2>3, <2>4, <2>8, <1>b
<1>2. ASSUME NEW p \in Publishers, ReadChunk(p) PROVE AgreeInv'
  <2>1. PICK c \in Contexts : c \in Owns[p] /\ Ctx(p) = c
    BY <1>2, <1>c DEF ReadChunk
  <2>2. Touches(p, c)
    BY <1>2, <2>1, <1>t DEF ReadChunk, Goto, store, Touches
  <2>3. pc[p] = "readChunk" /\ pc'[p] = "readMeta" /\ Ctx(p)' = c
    BY <1>2, <2>1, <1>t DEF ReadChunk, Goto, Ctx
  <2>4. UNCHANGED <<head, chunkLink, metadata, torn>> /\ old'[p].chunk = chunkLink[c]
    BY <1>2, <2>1, <1>t DEF ReadChunk, store, ContextRecord
  <2>5. CallAgrees(p)
    BY <2>3, <1>c
  <2>6. CallAgrees(p)'
    BY <2>1, <2>3, <2>4, <2>5 DEF CallAgrees, Reading, Committing, Agrees, Record
  <2> QED
    BY <2>1, <2>2, <2>3, <2>6, <1>b
<1>3. ASSUME NEW p \in Publishers, ReadMeta(p) PROVE AgreeInv'
  <2>1. PICK c \in Contexts : c \in Owns[p] /\ Ctx(p) = c
    BY <1>3, <1>c DEF ReadMeta
  <2>2. /\ pc[p] = "readMeta" /\ CallAgrees(p)
        /\ UNCHANGED <<head, chunkLink, metadata, torn>>
    BY <1>3, <1>c DEF ReadMeta, store
  <2>3. CASE AlreadyAdvertised(p)
    <3>1. Return(p) /\ Touches(p, c)
      BY <1>3, <2>1, <2>3, <1>t DEF ReadMeta, Return, Goto, store, Touches
    <3>2. (c \notin torn => Agrees(Record(c), head, c))'
      BY <2>1, <2>2 DEF CallAgrees, Reading, Agrees, Record
    <3> QED
      BY <2>1, <2>2, <3>1, <3>2, <1>r
  <2>4. CASE ~AlreadyAdvertised(p)
    <3>1. /\ pc' = [pc EXCEPT ![p] = IF LacksEntries(p) THEN "putEntries" ELSE "putMeta"]
          /\ old' = [old EXCEPT ![p].md = metadata[c]]
          /\ new' = [new EXCEPT ![p] = [chunk |-> old[p].chunk, md |-> call[p].md]]
          /\ UNCHANGED call
      BY <1>3, <2>1, <2>4 DEF ReadMeta, Goto
    <3>2. Touches(p, c)
      BY <2>1, <2>2, <3>1, <1>t DEF Touches
    <3>3. pc'[p] \in {"putEntries", "putMeta"} /\ Ctx(p)' = c
      BY <2>1, <3>1, <1>t DEF Ctx
    <3>4. old'[p] = Record(c) /\ new'[p].chunk = chunkLink[c]
      <4>1. old[p].chunk = chunkLink[c] /\ old[p] \in ContextRecord
        BY <2>1, <2>2, <1>t DEF CallAgrees
      <4> QED
        BY <3>1, <4>1, <1>t DEF Record, ContextRecord
    <3>5. c \notin torn => Agrees(Record(c), head, c)
      BY <2>1, <2>2 DEF CallAgrees, Reading
    <3>6. c \notin torn' => Agrees(old'[p], head', c)
      BY <2>2, <3>4, <3>5 DEF Agrees
    <3>7. CallAgrees(p)'
      BY <2>1, <2>2, <3>3, <3>4, <3>6 DEF CallAgrees, Reading, Committing, Agrees
    <3> QED
      BY <2>1, <3>2, <3>3, <3>7, <1>b
  <2> QED
    BY <2>3, <2>4
<1>4. ASSUME NEW p \in Publishers, ReadMappingsFails(p) PROVE AgreeInv'
  <2>1. PICK c \in Contexts : c \in Owns[p] /\ Ctx(p) = c
    BY <1>4, <1>c DEF ReadMappingsFails
  <2>2. /\ pc[p] \in {"readChunk", "readMeta"} /\ CallAgrees(p) /\ Return(p)
        /\ UNCHANGED <<head, chunkLink, metadata, torn>>
    BY <1>4, <1>c DEF ReadMappingsFails, ReadFails, store
  <2>3. Touches(p, c)
    BY <2>1, <2>2, <1>t DEF Return, Goto, Touches
  <2>4. (c \notin torn => Agrees(Record(c), head, c))'
    BY <2>1, <2>2 DEF CallAgrees, Reading, Agrees, Record
  <2> QED
    BY <2>1, <2>2, <2>3, <2>4, <1>r
<1>5. ASSUME NEW p \in Publishers, PutEntriesOf(p) PROVE AgreeInv'
  <2>1. PICK c \in Contexts : c \in Owns[p] /\ Ctx(p) = c
    BY <1>5, <1>c DEF PutEntriesOf
  <2>2. Touches(p, c)
    BY <1>5, <2>1, <1>t DEF PutEntriesOf, Goto, PutEntries, Touches
  <2>3. pc[p] = "putEntries" /\ pc'[p] = "putChunk" /\ Ctx(p)' = c
    BY <1>5, <2>1, <1>t DEF PutEntriesOf, Goto, Ctx
  <2>4. UNCHANGED <<head, chunkLink, metadata, torn>> /\ old' = old
    BY <1>5, <2>1, <1>t DEF PutEntriesOf, PutEntries, ContextRecord
  <2>5. CallAgrees(p)
    BY <2>3, <1>c
  <2>6. CallAgrees(p)'
    BY <2>1, <2>3, <2>4, <2>5 DEF CallAgrees, Reading, Committing, Agrees, Record
  <2> QED
    BY <2>1, <2>2, <2>3, <2>6, <1>b
<1>6. ASSUME NEW p \in Publishers, PutChunk(p) PROVE AgreeInv'
  <2>1. PICK c \in Contexts : c \in Owns[p] /\ Ctx(p) = c
    BY <1>6, <1>c DEF PutChunk
  <2>2. Touches(p, c)
    BY <1>6, <2>1, <1>t DEF PutChunk, Goto, PutChunkLink, Touches
  <2>3. pc[p] = "putChunk" /\ pc'[p] = "putMeta" /\ Ctx(p)' = c
    BY <1>6, <2>1, <1>t DEF PutChunk, Goto, Ctx
  <2>4. UNCHANGED <<head, torn, old, new>> /\ chunkLink'[c] = new[p].chunk
    BY <1>6, <2>1, <1>t DEF PutChunk, PutChunkLink, ContextRecord
  <2>5. CallAgrees(p)
    BY <2>3, <1>c
  <2>6. CallAgrees(p)'
    BY <2>1, <2>3, <2>4, <2>5 DEF CallAgrees, Reading, Committing, Agrees, Record
  <2> QED
    BY <2>1, <2>2, <2>3, <2>6, <1>b
<1>7. ASSUME NEW p \in Publishers, PutMeta(p) PROVE AgreeInv'
  <2>1. PICK c \in Contexts : c \in Owns[p] /\ Ctx(p) = c
    BY <1>7, <1>c DEF PutMeta
  <2>2. Touches(p, c)
    BY <1>7, <2>1, <1>t DEF PutMeta, Goto, PutMetadata, Touches
  <2>3. pc[p] = "putMeta" /\ pc'[p] = "readHead" /\ Ctx(p)' = c
    BY <1>7, <2>1, <1>t DEF PutMeta, Goto, Ctx
  <2>4. UNCHANGED <<head, torn, old, new, chunkLink>> /\ metadata'[c] = new[p].md
    BY <1>7, <2>1, <1>t DEF PutMeta, PutMetadata
  <2>5. CallAgrees(p)
    BY <2>3, <1>c
  <2>6. Record(c)' = new'[p]
    BY <2>1, <2>3, <2>4, <2>5, <1>t DEF CallAgrees, Record, ContextRecord
  <2>7. c \notin torn' => Agrees(old'[p], head', c)
    BY <2>1, <2>3, <2>4, <2>5 DEF CallAgrees, Reading, Agrees
  <2>8. CallAgrees(p)'
    BY <2>1, <2>3, <2>6, <2>7 DEF CallAgrees, Reading, Agrees
  <2> QED
    BY <2>1, <2>2, <2>3, <2>8, <1>b
\* A call that fails with its undo in hand.
<1>u. ASSUME NEW p \in Publishers, pc[p] # "idle", pc[p] \notin Reading,
             NEW c \in Contexts, c \in Owns[p], Ctx(p) = c, Undo(p),
             UNCHANGED <<head, torn>>,
             \A d \in Contexts \ {c} : chunkLink'[d] = chunkLink[d] /\ metadata'[d] = metadata[d]
      PROVE  AgreeInv'
  <2>1. Touches(p, c)
    BY <1>u, <1>t DEF Undo, Goto, Touches
  <2>2. pc'[p] = "undoChunk" /\ Ctx(p)' = c /\ UNCHANGED old
    BY <1>u, <1>t DEF Undo, Goto, Ctx
  <2>3. CallAgrees(p)'
    BY <1>u, <2>2, <1>c DEF CallAgrees, Reading, Committing, Agrees
  <2> QED
    BY <1>u, <2>1, <2>2, <2>3, <1>b
<1>8. ASSUME NEW p \in Publishers, GenerateFails(p) PROVE AgreeInv'
  <2>1. PICK c \in Contexts : c \in Owns[p] /\ Ctx(p) = c
    BY <1>8, <1>c DEF GenerateFails
  <2>2. pc[p] # "idle" /\ pc[p] \notin Reading /\ Undo(p)
    BY <1>8 DEF GenerateFails, Reading
  <2>3. /\ UNCHANGED <<head, torn>>
        /\ \A d \in Contexts \ {c} : chunkLink'[d] = chunkLink[d] /\ metadata'[d] = metadata[d]
    BY <1>8, <2>1, <1>t
    DEF GenerateFails, WriteFails, PutEntries, PutChunkLink, PutMetadata, store
  <2> QED
    BY <2>1, <2>2, <2>3, <1>u
<1>9. ASSUME NEW p \in Publishers, ReadHead(p) PROVE AgreeInv'
  <2>1. PICK c \in Contexts : c \in Owns[p] /\ Ctx(p) = c
    BY <1>9, <1>c DEF ReadHead
  <2>2. Touches(p, c)
    BY <1>9, <2>1, <1>t DEF ReadHead, Goto, store, Touches
  <2>3. pc[p] = "readHead" /\ pc'[p] = "putAdvert" /\ Ctx(p)' = c
    BY <1>9, <2>1, <1>t DEF ReadHead, Goto, Ctx
  <2>4. UNCHANGED <<head, chunkLink, metadata, torn, old, new>>
    BY <1>9, <2>1, <1>t DEF ReadHead, store, ContextRecord
  <2>5. CallAgrees(p)
    BY <2>3, <1>c
  <2>6. CallAgrees(p)'
    BY <2>1, <2>3, <2>4, <2>5 DEF CallAgrees, Reading, Committing, Agrees, Record
  <2> QED
    BY <2>1, <2>2, <2>3, <2>6, <1>b
<1>10. ASSUME NEW p \in Publishers, PutAd(p) PROVE AgreeInv'
  <2>1. PICK c \in Contexts : c \in Owns[p] /\ Ctx(p) = c
    BY <1>10, <1>c DEF PutAd
  <2>2. Touches(p, c)
    BY <1>10, <2>1, <1>t DEF PutAd, Goto, PutAdvert, Touches
  <2>3. pc[p] = "putAdvert" /\ pc'[p] = "replaceHead" /\ Ctx(p)' = c
    BY <1>10, <2>1, <1>t DEF PutAd, Goto, Ctx
  <2>4. UNCHANGED <<head, chunkLink, metadata, torn, old, new>>
    BY <1>10, <2>1, <1>t DEF PutAd, PutAdvert, ContextRecord
  <2>5. CallAgrees(p)
    BY <2>3, <1>c
  <2>6. CallAgrees(p)'
    BY <2>1, <2>3, <2>4, <2>5 DEF CallAgrees, Reading, Committing, Agrees, Record
  <2> QED
    BY <2>1, <2>2, <2>3, <2>6, <1>b
<1>11. ASSUME NEW p \in Publishers, CommitHead(p) PROVE AgreeInv'
  <2>1. PICK c \in Contexts : c \in Owns[p] /\ Ctx(p) = c
    BY <1>11, <1>c DEF CommitHead
  <2>2. PICK ad \in Advert : ad = Ad(p)
    BY <1>11, AdType DEF CommitHead, Committing
  <2>3. /\ pc[p] = "replaceHead" /\ Return(p) /\ UNCHANGED <<chunkLink, metadata>>
        /\ head' = Append(head, ad) /\ torn' = torn \ {c}
    BY <1>11, <2>1, <2>2 DEF CommitHead, ReplaceHead, NewHead
  <2>4. ad.ctx = c /\ Touches(p, c)
    BY <2>1, <2>2, <2>3, <1>t DEF Return, Goto, Touches, Ad
  <2>5. Record(c) = [chunk |-> ad.entries, md |-> ad.md]
    <3>1. Record(c) = new[p]
      BY <2>1, <2>3, <1>c DEF CallAgrees, Committing
    <3> QED
      BY <2>2, <3>1, <1>t DEF Ad, ContextRecord, Record
  <2>6. Agrees(Record(c), Append(head, ad), c)
    <3>1. head \in Link
      BY DEF TypeOK, StoreTypeOK
    <3> QED
      BY <2>4, <2>5, <3>1, AgreesNewest
  <2>7. Agrees(Record(c), head, c)'
    BY <2>3, <2>6 DEF Agrees, Record
  <2> QED
    BY <2>1, <2>3, <2>4, <2>7, <1>r
<1>12. ASSUME NEW p \in Publishers, CommitFails(p) PROVE AgreeInv'
  <2>1. PICK c \in Contexts : c \in Owns[p] /\ Ctx(p) = c
    BY <1>12, <1>c DEF CommitFails
  <2>2. pc[p] # "idle" /\ pc[p] \notin Reading /\ Undo(p)
    BY <1>12 DEF CommitFails, Reading
  <2>3. UNCHANGED <<head, chunkLink, metadata, torn>>
    BY <1>12 DEF CommitFails, ReadFails, WriteFails, ReplaceHeadFails, PutAdvert, store, Private
  <2> QED
    BY <2>1, <2>2, <2>3, <1>u
<1>13. ASSUME NEW p \in Publishers, UndoChunk(p) PROVE AgreeInv'
  <2>1. PICK c \in Contexts : c \in Owns[p] /\ Ctx(p) = c
    BY <1>13, <1>c DEF UndoChunk
  <2>2. /\ pc[p] = "undoChunk" /\ pc'[p] = "undoMeta" /\ Ctx(p)' = c
        /\ UNCHANGED <<head, old>>
    BY <1>13, <2>1, <1>t
    DEF UndoChunk, Goto, Ctx, WriteFails, PutChunkLink, store
  <2>3. torn' = torn \/ torn' = torn \cup {c}
    BY <1>13, <2>1 DEF UndoChunk
  <2>4. Touches(p, c)
    BY <1>13, <2>1, <2>2, <2>3, <1>t
    DEF UndoChunk, Goto, WriteFails, PutChunkLink, store, Touches
  <2>5. c \notin torn' => chunkLink'[c] = old[p].chunk
    BY <1>13, <2>1, <1>t DEF UndoChunk, PutChunkLink
  <2>6. c \notin torn' => Agrees(old[p], head, c)
    BY <2>1, <2>2, <2>3, <1>c DEF CallAgrees, Reading
  <2>7. CallAgrees(p)'
    BY <2>1, <2>2, <2>5, <2>6 DEF CallAgrees, Reading, Committing, Agrees
  <2> QED
    BY <2>1, <2>2, <2>4, <2>7, <1>b
<1>14. ASSUME NEW p \in Publishers, UndoMeta(p) PROVE AgreeInv'
  <2>1. PICK c \in Contexts : c \in Owns[p] /\ Ctx(p) = c
    BY <1>14, <1>c DEF UndoMeta
  <2>2. /\ pc[p] = "undoMeta" /\ Return(p) /\ UNCHANGED <<head, chunkLink>>
    BY <1>14 DEF UndoMeta, WriteFails, PutMetadata, store
  <2>3. torn' = torn \/ torn' = torn \cup {c}
    BY <1>14, <2>1 DEF UndoMeta
  <2>4. Touches(p, c)
    BY <1>14, <2>1, <2>2, <2>3, <1>t
    DEF UndoMeta, Return, Goto, WriteFails, PutMetadata, store, Touches
  <2>5. ASSUME c \notin torn' PROVE Agrees(Record(c), head, c)'
    <3>1. c \notin torn /\ chunkLink[c] = old[p].chunk /\ Agrees(old[p], head, c)
      BY <2>1, <2>2, <2>3, <2>5, <1>c DEF CallAgrees, Reading
    <3>2. metadata'[c] = old[p].md
      BY <1>14, <2>1, <2>5, <1>t DEF UndoMeta, PutMetadata
    <3>3. Record(c)' = old[p]
      BY <2>2, <3>1, <3>2, <1>t DEF Record, ContextRecord
    <3> QED
      BY <2>2, <3>1, <3>3 DEF Agrees
  <2> QED
    BY <2>1, <2>2, <2>4, <2>5, <1>r
<1>15. ASSUME NEW p \in Publishers, Crash(p) PROVE AgreeInv'
  BY <1>15 DEF Crash, Private
<1>16. CASE UNCHANGED vars
  BY <1>16 DEF vars, AgreeInv, CallAgrees, SettledAgrees, Settled, Agrees, Record, Ctx
<1> QED
  BY <1>1, <1>2, <1>3, <1>4, <1>5, <1>6, <1>7, <1>8, <1>9, <1>10, <1>11, <1>12,
     <1>13, <1>14, <1>15, <1>16 DEF Next, Step

\* However a call fails, and whoever else publishes meanwhile, between calls the
\* mappings of a context say what the chain says of it, unless a call reported
\* that it could not put them back (generateAd, restoreMappings).
THEOREM MappingsStayAgreed ==
  ASSUME Private
  PROVE  Spec => []MappingsAgree
<1>1. Init => AgreeInv
  BY DEF Init, StoreInit, AgreeInv, CallAgrees, SettledAgrees, Agrees, Record
<1>2. AgreeInv => MappingsAgree
  BY DEF AgreeInv, SettledAgrees, MappingsAgree
<1> QED
  BY <1>1, <1>2, AgreeStep, TypeCorrect, PTL DEF Spec

\* A call ends with ErrAlreadyAdvertised only where the chain's newest advert
\* for its context carries its metadata (nextRecord).
THEOREM AlreadyAdvertisedStaysTrue ==
  ASSUME Private
  PROVE  Spec => AlreadyAdvertisedIsTrue
<1>1. ASSUME TypeOK, AgreeInv, NEW p \in Publishers, ReadMeta(p), pc'[p] = "idle",
             Ctx(p) \notin torn
      PROVE  Announced(Ctx(p), call[p].md)
  <2>1. AlreadyAdvertised(p)
    BY <1>1 DEF ReadMeta, Goto, TypeOK
  <2>2. pc[p] = "readMeta" /\ CallAgrees(p)
    BY <1>1 DEF ReadMeta, AgreeInv
  <2>3. Agrees(Record(Ctx(p)), head, Ctx(p)) /\ old[p].chunk = chunkLink[Ctx(p)]
    BY <1>1, <2>2 DEF CallAgrees, Reading
  <2>4. Record(Ctx(p)).chunk # Nil /\ Record(Ctx(p)).md = call[p].md
    BY <2>1, <2>3 DEF AlreadyAdvertised, Record
  <2> QED
    BY <2>3, <2>4, AgreesAnnounced
<1>2. TypeOK /\ AgreeInv /\ [Next]_vars =>
        [\A p \in Publishers :
           ReadMeta(p) /\ pc'[p] = "idle" =>
             Ctx(p) \in torn \/ Announced(Ctx(p), call[p].md)]_vars
  BY <1>1
<1>3. Init => AgreeInv
  BY DEF Init, StoreInit, AgreeInv, CallAgrees, SettledAgrees, Agrees, Record
<1> QED
  BY <1>2, <1>3, AgreeStep, TypeCorrect, PTL DEF Spec, AlreadyAdvertisedIsTrue
=============================================================================
