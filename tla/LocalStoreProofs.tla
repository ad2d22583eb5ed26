-------------------------- MODULE LocalStoreProofs --------------------------
(***************************************************************************)
(* Theorems about publishing to a directory, with their proofs.            *)
(***************************************************************************)
EXTENDS LocalStore, SequenceTheorems, FiniteSetTheorems, TLAPS

-----------------------------------------------------------------------------
(* Prefixes of a chain. *)

LEMMA EmptyPrefixes == Prefixes(<<>>) = {<<>>}
<1>1. SubSeq(<<>>, 1, 0) = <<>>
  BY SubSeqEmpty
<1>2. 0..Len(<<>>) = {0}
  <2>1. Len(<<>>) = 0
    BY EmptySeq
  <2> QED
    BY <2>1
<1>3. Prefixes(<<>>) = {SubSeq(<<>>, 1, l) : l \in {0}}
  BY <1>2 DEF Prefixes
<1> QED
  BY <1>1, <1>3

\* A chain one advert longer has one prefix more.
LEMMA AppendPrefixes ==
  ASSUME NEW S, NEW s \in Seq(S), NEW e \in S
  PROVE  Prefixes(Append(s, e)) = Prefixes(s) \cup {Append(s, e)}
<1> DEFINE t == Append(s, e)
<1>1. t \in Seq(S) /\ Len(t) = Len(s) + 1 /\ Len(s) \in Nat
  BY LenProperties
<1>2. \A n \in 0..Len(s) : SubSeq(t, 1, n) = SubSeq(s, 1, n)
  <2> TAKE n \in 0..Len(s)
  <2>1. \A j \in 1..n : s[j] \in S /\ t[j] = s[j]
    BY <1>1, ElementOfSeq
  <2>2. SubSeq(s, 1, n) \in Seq(S) /\ SubSeq(t, 1, n) \in Seq(S)
    BY <2>1, <1>1, SubSeqProperties
  <2>3. /\ Len(SubSeq(s, 1, n)) = n /\ Len(SubSeq(t, 1, n)) = n
        /\ \A j \in 1..n : SubSeq(s, 1, n)[j] = SubSeq(t, 1, n)[j]
    BY <2>1, <1>1
  <2> QED
    BY <2>2, <2>3, SeqEqual
<1>3. SubSeq(t, 1, Len(s) + 1) = t
  BY <1>1, SubSeqFull
<1>4. 0..Len(t) = 0..Len(s) \cup {Len(s) + 1}
  BY <1>1
<1> QED
  BY <1>2, <1>3, <1>4, <1>1 DEF Prefixes

LEMMA AppendStrict ==
  ASSUME NEW S, NEW s \in Seq(S), NEW e \in S
  PROVE  IsStrictPrefix(s, Append(s, e))
<1>1. Len(s) \in Nat /\ Append(s, e) \in Seq(S) /\ Len(Append(s, e)) = Len(s) + 1
  BY LenProperties
<1>2. SubSeq(s, 1, Len(s)) = s
  BY SubSeqFull
<1>3. SubSeq(Append(s, e), 1, Len(s)) = s
  <2>1. \A j \in 1..Len(s) : Append(s, e)[j] = s[j] /\ s[j] \in S
    BY <1>1, ElementOfSeq
  <2>2. SubSeq(Append(s, e), 1, Len(s)) \in Seq(S)
    BY <2>1, <1>1, SubSeqProperties
  <2>3. /\ Len(SubSeq(Append(s, e), 1, Len(s))) = Len(s)
        /\ \A j \in 1..Len(s) : SubSeq(Append(s, e), 1, Len(s))[j] = s[j]
    BY <2>1, <1>1
  <2> QED
    BY <2>2, <2>3, SeqEqual
<1>4. IsPrefix(s, Append(s, e))
  BY <1>1, <1>2, <1>3 DEF IsPrefix
<1>5. Append(s, e) # s
  BY <1>1
<1> QED
  BY <1>4, <1>5 DEF IsStrictPrefix

-----------------------------------------------------------------------------

\* What w writes next is well formed, and so is what it has left.
LEMMA ChunkType ==
  ASSUME TypeOK, NEW w \in Writers
  PROVE  /\ NextChunk(w) \in Seq(Multihashes)
         /\ WithChunk(w) \in EntriesLink
         /\ [WithChunk(w) EXCEPT !.inlined = TRUE] \in EntriesLink
         /\ SubSeq(rest[w], Len(NextChunk(w)) + 1, Len(rest[w])) \in Seq(Multihashes)
<1>1. rest[w] \in Seq(Multihashes) /\ link[w] \in EntriesLink
  BY DEF TypeOK
<1>2. Len(rest[w]) \in Nat /\ \A i \in 1..Len(rest[w]) : rest[w][i] \in Multihashes
  BY <1>1, LenProperties, ElementOfSeq
<1>3. NextChunk(w) \in Seq(Multihashes)
  <2>1. CASE Len(rest[w]) <= ChunkSize
    BY <2>1, <1>1 DEF NextChunk
  <2>2. CASE ~(Len(rest[w]) <= ChunkSize)
    <3>1. \A i \in 1..ChunkSize : rest[w][i] \in Multihashes
      BY <2>2, <1>2, ChunkSizeAssumption
    <3>2. SubSeq(rest[w], 1, ChunkSize) \in Seq(Multihashes)
      BY <3>1, <1>1, SubSeqProperties, ChunkSizeAssumption
    <3> QED
      BY <2>2, <3>2 DEF NextChunk
  <2> QED
    BY <2>1, <2>2
<1>4. Append(link[w].chunks, NextChunk(w)) \in Seq(Seq(Multihashes))
  BY <1>1, <1>3, AppendProperties DEF EntriesLink
<1>5. WithChunk(w) \in EntriesLink
  BY <1>1, <1>4 DEF WithChunk, EntriesLink
<1>6. [WithChunk(w) EXCEPT !.inlined = TRUE] \in EntriesLink
  BY <1>5 DEF EntriesLink
<1>7. SubSeq(rest[w], Len(NextChunk(w)) + 1, Len(rest[w])) \in Seq(Multihashes)
  <2>1. Len(NextChunk(w)) + 1 \in Nat \ {0}
    BY <1>3, LenProperties
  <2>2. \A i \in (Len(NextChunk(w)) + 1)..Len(rest[w]) : rest[w][i] \in Multihashes
    BY <2>1, <1>2
  <2> QED
    BY <2>1, <2>2, <1>1, <1>2, SubSeqProperties
<1> QED
  BY <1>3, <1>5, <1>6, <1>7

LEMMA NewHeadType ==
  ASSUME TypeOK, NEW w \in Writers, pc[w] \in {"putAdvert", "replaceHead"}
  PROVE  /\ [ctx |-> w, entries |-> link[w]] \in Advert
         /\ old[w] \in Seq(Advert) /\ old[w] # <<>>
         /\ NewHead(w) \in Seq(Advert)
<1>1. [ctx |-> w, entries |-> link[w]] \in Advert
  BY DEF TypeOK, Advert
<1>2. old[w] \in Seq(Advert) /\ old[w] # <<>>
  BY DEF TypeOK
<1> QED
  BY <1>1, <1>2, AppendProperties DEF NewHead

\* The files have names of three kinds.
LEMMA KeysDiffer ==
  /\ \A l : AdvertKey(l) # HeadKey
  /\ \A c : ChunkKey(c) # HeadKey
  /\ \A l, c : AdvertKey(l) # ChunkKey(c)
BY DEF AdvertKey, ChunkKey, HeadKey

LEMMA KeyOf ==
  ASSUME NEW w
  PROVE  /\ pc[w] = "entries" => Key(w) = ChunkKey(WithChunk(w).chunks)
         /\ pc[w] = "putAdvert" => Key(w) = AdvertKey(NewHead(w))
         /\ pc[w] = "replaceHead" => Key(w) = HeadKey
BY DEF Key

-----------------------------------------------------------------------------
(* Types and the mutex *)

\* The writer that holds the mutex is at a write, whose file is torn; when it is
\* the head file, the head is what the writer read.
MutexInv ==
  \A w \in Writers : mutex = w =>
    /\ pc[w] \in {"entries", "putAdvert", "replaceHead"}
    /\ Key(w) \in torn
    /\ pc[w] = "entries" => rest[w] # <<>> /\ ~Inlines(w)
    /\ pc[w] = "replaceHead" => head = old[w]

LEMMA ReturnType ==
  ASSUME TypeOK, NEW w \in Writers, Return(w)
  PROVE  /\ pc' \in [Writers -> {"idle", "entries", "readHead", "putAdvert", "replaceHead"}]
         /\ list' \in [Writers -> Lists \cup {<<>>}]
         /\ rest' \in [Writers -> Seq(Multihashes)]
         /\ link' \in [Writers -> EntriesLink]
         /\ old' \in [Writers -> Seq(Advert)]
         /\ \A v \in Writers : pc'[v] \in {"putAdvert", "replaceHead"} => old'[v] # <<>>
<1>1. NoEntries \in EntriesLink
  BY EmptySeq DEF NoEntries, EntriesLink
<1>2. <<>> \in Seq(Multihashes) /\ <<>> \in Seq(Advert)
  BY EmptySeq
<1> QED
  BY <1>1, <1>2 DEF Return, TypeOK

LEMMA TypeStep ==
  ASSUME TypeOK, MutexInv, [Next]_vars
  PROVE  TypeOK'
<1>1. ASSUME NEW w \in Writers, Call(w) PROVE TypeOK'
  <2>1. PICK s \in Lists : list' = [list EXCEPT ![w] = s] /\ rest' = [rest EXCEPT ![w] = s]
    BY <1>1 DEF Call
  <2>2. s \in Seq(Multihashes)
    BY ListsAssumption
  <2>3. calls' \in 0..MaxCalls
    BY <1>1, CallsAssumption DEF Call, TypeOK
  <2> QED
    BY <1>1, <2>1, <2>2, <2>3 DEF Call, TypeOK, files
<1>2. ASSUME NEW w \in Writers, EndEntries(w) PROVE TypeOK'
  <2>1. link' \in [Writers -> EntriesLink]
    BY <1>2, ChunkType DEF EndEntries, TypeOK
  <2>2. <<>> \in Seq(Multihashes)
    BY EmptySeq
  <2> QED
    BY <1>2, <2>1, <2>2 DEF EndEntries, TypeOK, files
<1>3. ASSUME NEW w \in Writers, ReadHead(w) PROVE TypeOK'
  BY <1>3 DEF ReadHead, TypeOK, files
<1>4. ASSUME NEW w \in Writers, ReadHeadFails(w) \/ ReplaceRefused(w) \/ CreateFails(w)
      PROVE  TypeOK'
  <2>1. Return(w) /\ UNCHANGED <<calls, files>>
    BY <1>4 DEF ReadHeadFails, ReplaceRefused, CreateFails
  <2> QED
    BY <2>1, ReturnType DEF TypeOK, files
<1>5. ASSUME NEW w \in Writers, Create(w) PROVE TypeOK'
  BY <1>5 DEF Create, TypeOK
<1>6. ASSUME NEW w \in Writers, FillChunk(w) PROVE TypeOK'
  <2>1. rest' \in [Writers -> Seq(Multihashes)] /\ link' \in [Writers -> EntriesLink]
    BY <1>6, ChunkType DEF FillChunk, TypeOK
  <2>2. /\ whole' \cap torn' = {} /\ HeadKey \notin whole' /\ damaged' \subseteq torn'
        /\ mutex' = None
    BY <1>6 DEF FillChunk, Fill, TypeOK
  <2> QED
    BY <1>6, <2>1, <2>2 DEF FillChunk, TypeOK
<1>7. ASSUME NEW w \in Writers, FillAdvert(w) PROVE TypeOK'
  <2>1. /\ whole' \cap torn' = {} /\ HeadKey \notin whole' /\ damaged' \subseteq torn'
        /\ mutex' = None
    BY <1>7 DEF FillAdvert, Fill, TypeOK
  <2> QED
    BY <1>7, <2>1 DEF FillAdvert, TypeOK
<1>8. ASSUME NEW w \in Writers, FillHead(w) PROVE TypeOK'
  <2>1. /\ whole' \cap torn' = {} /\ HeadKey \notin whole' /\ damaged' \subseteq torn'
        /\ mutex' = None
    BY <1>8 DEF FillHead, Fill, TypeOK
  <2>2. head' \in Seq(Advert) /\ acked' \subseteq Seq(Advert)
    BY <1>8, NewHeadType DEF FillHead, TypeOK
  <2>3. Return(w) /\ UNCHANGED calls
    BY <1>8 DEF FillHead
  <2> QED
    BY <2>1, <2>2, <2>3, ReturnType DEF TypeOK
<1>9. ASSUME NEW w \in Writers, FillFails(w) PROVE TypeOK'
  <2>1. Key(w) \in torn
    BY <1>9 DEF FillFails, MutexInv
  <2>2. Return(w) /\ UNCHANGED <<head, whole, torn, acked, calls>>
        /\ damaged' = damaged \cup {Key(w)} /\ mutex' = None
    BY <1>9 DEF FillFails
  <2> QED
    BY <2>1, <2>2, ReturnType DEF TypeOK
<1>10. ASSUME Crash PROVE TypeOK'
  <2>1. NoEntries \in EntriesLink
    BY EmptySeq DEF NoEntries, EntriesLink
  <2>2. <<>> \in Seq(Multihashes) /\ <<>> \in Seq(Advert)
    BY EmptySeq
  <2> QED
    BY <1>10, <2>1, <2>2 DEF Crash, TypeOK
<1>11. CASE UNCHANGED vars
  BY <1>11 DEF vars, TypeOK
<1> QED
  BY <1>1, <1>2, <1>3, <1>4, <1>5, <1>6, <1>7, <1>8, <1>9, <1>10, <1>11 DEF Next, Step

\* A step that leaves the files alone, and what another writer does next.
LEMMA MutexRests ==
  ASSUME MutexInv, NEW w \in Writers, mutex # w, UNCHANGED files,
         \A v \in Writers \ {w} : /\ pc'[v] = pc[v] /\ link'[v] = link[v]
                                  /\ rest'[v] = rest[v] /\ old'[v] = old[v]
  PROVE  MutexInv'
<1> SUFFICES ASSUME NEW v \in Writers, mutex' = v
             PROVE  /\ pc'[v] \in {"entries", "putAdvert", "replaceHead"}
                    /\ Key(v)' \in torn'
                    /\ pc'[v] = "entries" => rest'[v] # <<>> /\ ~Inlines(v)'
                    /\ pc'[v] = "replaceHead" => head' = old'[v]
  BY DEF MutexInv
<1>1. v # w /\ mutex = v /\ torn' = torn /\ head' = head
  BY DEF files
<1>2. /\ pc'[v] = pc[v] /\ link'[v] = link[v] /\ rest'[v] = rest[v] /\ old'[v] = old[v]
  BY <1>1
<1>3. Key(v)' = Key(v) /\ (Inlines(v)' <=> Inlines(v))
  BY <1>2 DEF Key, Inlines, WithChunk, NextChunk, NewHead
<1> QED
  BY <1>1, <1>2, <1>3 DEF MutexInv

LEMMA MutexFree == mutex' = None => MutexInv'
BY NoneAssumption DEF MutexInv

\* Return leaves the other writers alone.
LEMMA ReturnOthers ==
  ASSUME TypeOK, NEW w \in Writers, Return(w)
  PROVE  \A v \in Writers \ {w} : /\ pc'[v] = pc[v] /\ link'[v] = link[v]
                                  /\ rest'[v] = rest[v] /\ old'[v] = old[v]
BY DEF Return, TypeOK

LEMMA MutexStep ==
  ASSUME TypeOK, MutexInv, [Next]_vars
  PROVE  MutexInv'
<1>1. ASSUME NEW w \in Writers, Call(w) \/ EndEntries(w) \/ ReadHead(w) PROVE MutexInv'
  <2>1. mutex # w
    BY <1>1, EmptySeq DEF Call, EndEntries, ReadHead, MutexInv
  <2>2. UNCHANGED files
    BY <1>1 DEF Call, EndEntries, ReadHead
  <2>3. \A v \in Writers \ {w} : /\ pc'[v] = pc[v] /\ link'[v] = link[v]
                                 /\ rest'[v] = rest[v] /\ old'[v] = old[v]
    BY <1>1 DEF Call, EndEntries, ReadHead, TypeOK
  <2> QED
    BY <2>1, <2>2, <2>3, MutexRests
<1>2. ASSUME NEW w \in Writers, ReadHeadFails(w) \/ ReplaceRefused(w) \/ CreateFails(w)
      PROVE  MutexInv'
  <2>1. Return(w) /\ UNCHANGED files
    BY <1>2 DEF ReadHeadFails, ReplaceRefused, CreateFails
  <2>2. mutex # w
    BY <1>2, NoneAssumption DEF ReadHeadFails, ReplaceRefused, CreateFails, MutexInv
  <2> QED
    BY <2>1, <2>2, ReturnOthers, MutexRests
<1>3. ASSUME NEW w \in Writers, Create(w) PROVE MutexInv'
  <2>1. MayWrite(w) /\ mutex' = w /\ torn' = torn \cup {Key(w)}
        /\ UNCHANGED <<head, pc, rest, link, old>>
    BY <1>3 DEF Create
  <2>2. Key(w)' = Key(w) /\ (Inlines(w)' <=> Inlines(w))
    BY <2>1 DEF Key, Inlines, WithChunk, NextChunk, NewHead
  <2> QED
    BY <2>1, <2>2 DEF MutexInv, MayWrite, HeadIs
<1>4. ASSUME NEW w \in Writers, FillChunk(w) \/ FillAdvert(w) \/ FillHead(w) \/ FillFails(w)
      PROVE  MutexInv'
  BY <1>4, MutexFree DEF FillChunk, FillAdvert, FillHead, FillFails, Fill
<1>5. ASSUME Crash PROVE MutexInv'
  BY <1>5, MutexFree DEF Crash
<1>6. CASE UNCHANGED vars
  <2>1. \A w : Key(w)' = Key(w) /\ (Inlines(w)' <=> Inlines(w))
    BY <1>6 DEF vars, Key, Inlines, WithChunk, NextChunk, NewHead
  <2> QED
    BY <1>6, <2>1 DEF vars, MutexInv
<1> QED
  BY <1>1, <1>2, <1>3, <1>4, <1>5, <1>6 DEF Next, Step

LEMMA SeedType == <<>> \in Seq(Advert) /\ <<Seed>> \in Seq(Advert) /\ Seed \in Advert
<1>1. Seed \in Advert
  BY SeedAssumption DEF Advert
<1> QED
  BY <1>1, EmptySeq

LEMMA TypeInit == Init => TypeOK /\ MutexInv
<1> SUFFICES ASSUME Init PROVE TypeOK /\ MutexInv
  OBVIOUS
<1>1. NoEntries \in EntriesLink /\ <<>> \in Seq(Multihashes)
  BY EmptySeq DEF NoEntries, EntriesLink
<1>2. HeadKey \notin Reached(head)
  BY KeysDiffer DEF Reached, ChunkKeys
<1>3. MutexInv
  BY NoneAssumption DEF Init, MutexInv
<1>4. calls \in 0..MaxCalls
  BY CallsAssumption DEF Init
<1> QED
  BY <1>1, <1>2, <1>3, <1>4, SeedType DEF Init, TypeOK

LEMMA Typed == Spec => [](TypeOK /\ MutexInv)
<1>1. TypeOK /\ MutexInv /\ [Next]_vars => (TypeOK /\ MutexInv)'
  BY TypeStep, MutexStep
<1> QED
  BY <1>1, TypeInit, PTL DEF Spec

\* Every variable keeps its type, and no file is whole and torn at once.
THEOREM TypeCorrect == Spec => []TypeOK
<1>1. TypeOK /\ MutexInv => TypeOK
  OBVIOUS
<1> QED
  BY <1>1, Typed, PTL

-----------------------------------------------------------------------------
(* The chain *)

\* Only a write of the head file moves the head, to an advert behind what is
\* there: while its writer holds the mutex nobody else writes the file.
LEMMA HeadStep ==
  ASSUME TypeOK, MutexInv, [Next]_vars
  PROVE  \/ UNCHANGED <<head, acked>>
         \/ /\ head # <<>>
            /\ \E ad \in Advert : head' = Append(head, ad)
            /\ acked' = acked \cup {head'}
<1>1. ASSUME NEW w \in Writers, FillHead(w)
      PROVE  /\ head # <<>>
             /\ \E ad \in Advert : head' = Append(head, ad)
             /\ acked' = acked \cup {head'}
  <2>1. pc[w] = "replaceHead" /\ mutex = w /\ head' = NewHead(w)
        /\ acked' = acked \cup {NewHead(w)}
    BY <1>1 DEF FillHead, Fill
  <2>2. head = old[w]
    BY <2>1 DEF MutexInv
  <2> QED
    BY <2>1, <2>2, NewHeadType DEF NewHead
<1>2. ASSUME NEW w \in Writers,
             \/ Call(w) \/ EndEntries(w) \/ ReadHead(w) \/ ReadHeadFails(w)
             \/ Create(w) \/ CreateFails(w) \/ FillChunk(w) \/ FillAdvert(w)
             \/ FillFails(w) \/ ReplaceRefused(w)
      PROVE  UNCHANGED <<head, acked>>
  BY <1>2 DEF Call, EndEntries, ReadHead, ReadHeadFails, Create, CreateFails, FillChunk,
              FillAdvert, FillFails, ReplaceRefused, files
<1>3. CASE Crash
  BY <1>3 DEF Crash
<1>4. CASE UNCHANGED vars
  BY <1>4 DEF vars
<1> QED
  BY <1>1, <1>2, <1>3, <1>4 DEF Next, Step

\* What is behind the advert a directory starts with.
LEMMA SeededAppend ==
  ASSUME NEW h \in Seq(Advert), h # <<>>, NEW ad \in Advert
  PROVE  /\ Seeded(h) \in Seq(Advert)
         /\ Seeded(Append(h, ad)) = Append(Seeded(h), ad)
<1>1. Tail(h) \in Seq(Advert) /\ Seeded(h) = Tail(h)
  BY HeadTailProperties DEF Seeded
<1>2. Append(h, ad) # <<>> /\ Tail(Append(h, ad)) = Append(Tail(h), ad)
  BY AppendProperties, HeadTailAppend
<1> QED
  BY <1>1, <1>2 DEF Seeded

LEMMA ChainStep ==
  ASSUME TypeOK, MutexInv, [Next]_vars
  PROVE  [Chain!Next]_<<Seeded(head), {Seeded(l) : l \in acked}>>
<1>1. ASSUME head # <<>>, NEW ad \in Advert, head' = Append(head, ad),
             acked' = acked \cup {head'}
      PROVE  Chain!Extend
  <2>1. /\ Seeded(head) \in Seq(Advert)
        /\ Seeded(head') = Append(Seeded(head), ad)
    BY <1>1, SeededAppend DEF TypeOK
  <2>2. IsStrictPrefix(Seeded(head), Seeded(head'))
    BY <2>1, AppendStrict
  <2>3. {Seeded(l) : l \in acked'} = {Seeded(l) : l \in acked} \cup {Seeded(head')}
    BY <1>1
  <2> QED
    BY <2>2, <2>3 DEF Chain!Extend, Chain!IsStrictPrefix, IsStrictPrefix,
                      Chain!IsPrefix, IsPrefix, Seeded
<1>2. CASE UNCHANGED <<head, acked>>
  BY <1>2 DEF Seeded
<1> QED
  BY <1>1, <1>2, HeadStep DEF Chain!Next

\* Publish to a directory, with any writers, failures and crashes, implements
\* AdvertChain behind the advert the directory starts with.
THEOREM ImplementsChain == Spec => ChainSpec
<1>1. Init => Chain!Init
  <2> SUFFICES ASSUME Init PROVE Chain!Init
    OBVIOUS
  <2>1. Tail(<<Seed>>) = <<>>
    BY SeedType
  <2>2. Seeded(head) = <<>>
    BY <2>1 DEF Init, Seeded
  <2>3. {Seeded(l) : l \in acked} = {}
    BY DEF Init
  <2> QED
    BY <2>2, <2>3 DEF Chain!Init
<1>2. TypeOK /\ MutexInv /\ [Next]_vars
        => [Chain!Next]_<<Seeded(head), {Seeded(l) : l \in acked}>>
  BY ChainStep
<1> QED
  BY <1>1, <1>2, Typed, PTL DEF Spec, ChainSpec, Chain!Spec

-----------------------------------------------------------------------------
(* What the server answers *)

\* The blocks whose files exist, whole or not.
Files == whole \cup torn

\* What the head reaches is there, and so is what a writer has put for the head
\* it is about to write: the entries before the advert, the advert before the
\* head.  A file is torn only while its writer fills it, or since a write failed.
StoredInv ==
  /\ Reached(head) \subseteq Files
  /\ \A w \in Writers : ChunkKeys(link[w]) \subseteq Files
  /\ \A w \in Writers : pc[w] = "replaceHead" => AdvertKey(NewHead(w)) \in Files

TornInv == \A k \in torn : k \in damaged \/ (mutex # None /\ Key(mutex) = k)

LEMMA NoChunks == ChunkKeys(NoEntries) = {}
BY EmptyPrefixes DEF ChunkKeys, NoEntries

LEMMA ChunkKeysGrow ==
  ASSUME TypeOK, NEW w \in Writers
  PROVE  ChunkKeys(WithChunk(w)) \subseteq ChunkKeys(link[w]) \cup {ChunkKey(WithChunk(w).chunks)}
<1> DEFINE ch == link[w].chunks
<1>1. ch \in Seq(Seq(Multihashes)) /\ NextChunk(w) \in Seq(Multihashes)
  BY ChunkType DEF TypeOK, EntriesLink
<1>2. Prefixes(Append(ch, NextChunk(w))) = Prefixes(ch) \cup {Append(ch, NextChunk(w))}
  BY <1>1, AppendPrefixes
<1>3. WithChunk(w).chunks = Append(ch, NextChunk(w)) /\ WithChunk(w).inlined = link[w].inlined
  BY DEF WithChunk, TypeOK, EntriesLink
<1> QED
  BY <1>2, <1>3 DEF ChunkKeys

\* The head file is not one of those a head reaches.
LEMMA ReachedKeys ==
  /\ \A h : HeadKey \notin Reached(h)
  /\ \A l : HeadKey \notin ChunkKeys(l)
BY KeysDiffer DEF Reached, ChunkKeys

LEMMA ReachedEmpty == Reached(<<>>) = {}
<1>1. DOMAIN <<>> = {}
  <2>1. <<>> \in Seq({}) /\ Len(<<>>) = 0
    BY EmptySeq
  <2> QED
    BY <2>1, LenProperties
<1> QED
  BY <1>1, EmptyPrefixes DEF Reached

LEMMA ReachedAppend ==
  ASSUME NEW h \in Seq(Advert), NEW ad \in Advert
  PROVE  Reached(Append(h, ad)) \subseteq
           Reached(h) \cup {AdvertKey(Append(h, ad))} \cup ChunkKeys(ad.entries)
<1> DEFINE t == Append(h, ad)
<1>1. Prefixes(t) = Prefixes(h) \cup {t}
  BY AppendPrefixes
<1>2. \A i \in DOMAIN t : (i \in DOMAIN h /\ t[i] = h[i]) \/ t[i] = ad
  BY AppendProperties, LenProperties
<1>3. ASSUME NEW i \in DOMAIN t
      PROVE  ChunkKeys(t[i].entries) \subseteq Reached(h) \cup ChunkKeys(ad.entries)
  BY <1>2 DEF Reached
<1>4. ASSUME NEW l \in Prefixes(t) \ {<<>>}
      PROVE  AdvertKey(l) \in Reached(h) \cup {AdvertKey(t)}
  BY <1>1 DEF Reached
<1> HIDE DEF t
<1>5. Reached(t) = {AdvertKey(l) : l \in Prefixes(t) \ {<<>>}}
                     \cup UNION {ChunkKeys(t[i].entries) : i \in DOMAIN t}
  BY DEF Reached
<1>6. Reached(t) \subseteq Reached(h) \cup {AdvertKey(t)} \cup ChunkKeys(ad.entries)
  BY <1>3, <1>4, <1>5
<1> QED
  BY <1>6 DEF t

\* No file goes: a block is written where nothing, or a file of that name, was.
LEMMA FilesStay ==
  ASSUME [Next]_vars
  PROVE  Files \ {HeadKey} \subseteq Files'
<1>1. ASSUME NEW w \in Writers,
             \/ Call(w) \/ EndEntries(w) \/ ReadHead(w) \/ ReadHeadFails(w)
             \/ CreateFails(w) \/ FillFails(w) \/ ReplaceRefused(w)
      PROVE  UNCHANGED <<whole, torn>>
  BY <1>1 DEF Call, EndEntries, ReadHead, ReadHeadFails, CreateFails, FillFails,
              ReplaceRefused, files
<1>2. ASSUME NEW w \in Writers, Create(w) PROVE Files \subseteq Files'
  BY <1>2 DEF Create, Files
<1>3. ASSUME NEW w \in Writers, FillChunk(w) \/ FillAdvert(w) \/ FillHead(w)
      PROVE  Files \ {HeadKey} \subseteq Files'
  BY <1>3 DEF FillChunk, FillAdvert, FillHead, Fill, Files
<1>4. CASE Crash
  BY <1>4 DEF Crash, Files
<1>5. CASE UNCHANGED vars
  BY <1>5 DEF vars, Files
<1> QED
  BY <1>1, <1>2, <1>3, <1>4, <1>5 DEF Next, Step, Files

\* One writer moves, and has no more to answer for than is there.
LEMMA StoredRests ==
  ASSUME TypeOK, StoredInv, [Next]_vars, NEW w \in Writers, UNCHANGED head,
         \A v \in Writers \ {w} : pc'[v] = pc[v] /\ link'[v] = link[v] /\ old'[v] = old[v],
         ChunkKeys(link'[w]) \subseteq ChunkKeys(link[w]) \cup Files',
         pc'[w] = "replaceHead" => AdvertKey(NewHead(w)') \in Files'
  PROVE  StoredInv'
<1>1. Files \ {HeadKey} \subseteq Files'
  BY FilesStay
<1>2. Reached(head') \subseteq Files'
  BY <1>1, ReachedKeys DEF StoredInv
<1>3. ASSUME NEW v \in Writers PROVE ChunkKeys(link'[v]) \subseteq Files'
  <2>1. ChunkKeys(link[v]) \subseteq Files'
    BY <1>1, ReachedKeys DEF StoredInv
  <2> QED
    BY <2>1
<1>4. ASSUME NEW v \in Writers, pc'[v] = "replaceHead" PROVE AdvertKey(NewHead(v)') \in Files'
  <2>1. CASE v = w
    BY <1>4, <2>1
  <2>2. CASE v # w
    <3>1. NewHead(v)' = NewHead(v) /\ pc[v] = "replaceHead"
      BY <1>4, <2>2 DEF NewHead
    <3> QED
      BY <3>1, <1>1, KeysDiffer DEF StoredInv
  <2> QED
    BY <2>1, <2>2
<1>5. (Reached(head) \subseteq Files)'
  BY <1>2 DEF Reached, ChunkKeys
<1>6. (\A v \in Writers : ChunkKeys(link[v]) \subseteq Files)'
  BY <1>3 DEF ChunkKeys
<1>7. (\A v \in Writers : pc[v] = "replaceHead" => AdvertKey(NewHead(v)) \in Files)'
  BY <1>4 DEF AdvertKey
<1> QED
  BY <1>5, <1>6, <1>7 DEF StoredInv

LEMMA StoredStep ==
  ASSUME TypeOK, MutexInv, StoredInv, [Next]_vars
  PROVE  StoredInv'
<1>1. ASSUME NEW w \in Writers, Call(w) \/ ReadHead(w) \/ Create(w) PROVE StoredInv'
  <2>1. (UNCHANGED head /\ pc'[w] # "replaceHead") \/ Create(w)
    BY <1>1 DEF Call, ReadHead, files, TypeOK
  <2>2. UNCHANGED <<head, link>>
        /\ \A v \in Writers \ {w} : pc'[v] = pc[v] /\ link'[v] = link[v] /\ old'[v] = old[v]
    BY <1>1 DEF Call, ReadHead, Create, files, TypeOK
  <2>3. pc'[w] = "replaceHead" => AdvertKey(NewHead(w)') \in Files'
    <3>1. ASSUME Create(w), pc'[w] = "replaceHead" PROVE AdvertKey(NewHead(w)') \in Files'
      <4>1. NewHead(w)' = NewHead(w) /\ pc[w] = "replaceHead"
        BY <3>1 DEF Create, NewHead
      <4> QED
        BY <4>1, FilesStay, KeysDiffer DEF StoredInv
    <3> QED
      BY <2>1, <3>1
  <2> QED
    BY <2>2, <2>3, StoredRests
<1>2. ASSUME NEW w \in Writers, EndEntries(w) PROVE StoredInv'
  <2>1. UNCHANGED head /\ pc'[w] # "replaceHead"
        /\ \A v \in Writers \ {w} : pc'[v] = pc[v] /\ link'[v] = link[v] /\ old'[v] = old[v]
    BY <1>2 DEF EndEntries, files, TypeOK
  <2>2. link'[w] = link[w] \/ link'[w] = [WithChunk(w) EXCEPT !.inlined = TRUE]
    BY <1>2 DEF EndEntries, TypeOK
  <2>3. [WithChunk(w) EXCEPT !.inlined = TRUE].inlined = TRUE
    BY ChunkType DEF EntriesLink
  <2>4. ChunkKeys(link'[w]) \subseteq ChunkKeys(link[w])
    BY <2>2, <2>3 DEF ChunkKeys
  <2> QED
    BY <2>1, <2>4, StoredRests
<1>3. ASSUME NEW w \in Writers,
             \/ ReadHeadFails(w) \/ ReplaceRefused(w) \/ CreateFails(w) \/ FillFails(w)
      PROVE  StoredInv'
  <2>1. Return(w) /\ UNCHANGED head
    BY <1>3 DEF ReadHeadFails, ReplaceRefused, CreateFails, FillFails, files
  <2>2. pc'[w] = "idle" /\ link'[w] = NoEntries
        /\ \A v \in Writers \ {w} : pc'[v] = pc[v] /\ link'[v] = link[v] /\ old'[v] = old[v]
    BY <2>1 DEF Return, TypeOK
  <2> QED
    BY <2>1, <2>2, NoChunks, StoredRests
<1>4. ASSUME NEW w \in Writers, FillChunk(w) PROVE StoredInv'
  <2>1. UNCHANGED <<head, pc, old>> /\ link' = [link EXCEPT ![w] = WithChunk(w)]
        /\ pc[w] = "entries" /\ Key(w) \in Files' \cup {HeadKey}
    BY <1>4 DEF FillChunk, Fill, Files
  <2>2. ChunkKey(WithChunk(w).chunks) \in Files'
    BY <2>1, KeyOf, KeysDiffer
  <2>3. link'[w] = WithChunk(w)
        /\ \A v \in Writers \ {w} : pc'[v] = pc[v] /\ link'[v] = link[v] /\ old'[v] = old[v]
    BY <2>1 DEF TypeOK
  <2>4. ChunkKeys(link'[w]) \subseteq ChunkKeys(link[w]) \cup Files'
    BY <2>2, <2>3, ChunkKeysGrow
  <2> QED
    BY <2>1, <2>3, <2>4, StoredRests
<1>5. ASSUME NEW w \in Writers, FillAdvert(w) PROVE StoredInv'
  <2>1. UNCHANGED <<head, link, old>> /\ pc' = [pc EXCEPT ![w] = "replaceHead"]
        /\ pc[w] = "putAdvert" /\ Key(w) \in Files' \cup {HeadKey}
    BY <1>5 DEF FillAdvert, Fill, Files
  <2>2. NewHead(w)' = NewHead(w)
    BY <2>1 DEF NewHead
  <2>3. AdvertKey(NewHead(w)') \in Files'
    BY <2>1, <2>2, KeyOf, KeysDiffer
  <2>4. \A v \in Writers \ {w} : pc'[v] = pc[v] /\ link'[v] = link[v] /\ old'[v] = old[v]
    BY <2>1 DEF TypeOK
  <2> QED
    BY <2>1, <2>3, <2>4, StoredRests
<1>6. ASSUME NEW w \in Writers, FillHead(w) PROVE StoredInv'
  <2>1. /\ pc[w] = "replaceHead" /\ head = old[w] /\ head' = NewHead(w)
        /\ Return(w)
    BY <1>6 DEF FillHead, Fill, MutexInv
  <2>2. pc'[w] = "idle" /\ link'[w] = NoEntries
        /\ \A v \in Writers \ {w} : pc'[v] = pc[v] /\ link'[v] = link[v] /\ old'[v] = old[v]
    BY <2>1 DEF Return, TypeOK
  <2>3. Files \ {HeadKey} \subseteq Files'
    BY FilesStay
  <2> DEFINE ad == [ctx |-> w, entries |-> link[w]]
  <2>4. ad \in Advert /\ head \in Seq(Advert) /\ head' = Append(head, ad)
        /\ ad.entries = link[w]
    BY <2>1, NewHeadType DEF NewHead
  <2> HIDE DEF ad
  <2>5. Reached(head') \subseteq Reached(head) \cup {AdvertKey(head')} \cup ChunkKeys(link[w])
    BY <2>4, ReachedAppend
  <2>6. Reached(head') \subseteq Files
    BY <2>5, <2>1 DEF StoredInv
  <2>7. Reached(head') \subseteq Files'
    BY <2>6, <2>3, ReachedKeys
  <2>8. ASSUME NEW v \in Writers PROVE ChunkKeys(link'[v]) \subseteq Files'
    <3>1. ChunkKeys(link[v]) \subseteq Files'
      BY <2>3, ReachedKeys DEF StoredInv
    <3> QED
      BY <3>1, <2>2, NoChunks
  <2>9. ASSUME NEW v \in Writers, pc'[v] = "replaceHead" PROVE AdvertKey(NewHead(v)') \in Files'
    <3>1. v # w
      BY <2>2, <2>9
    <3>2. NewHead(v)' = NewHead(v) /\ pc[v] = "replaceHead"
      BY <2>2, <2>9, <3>1 DEF NewHead
    <3> QED
      BY <3>2, <2>3, KeysDiffer DEF StoredInv
  <2>10. (Reached(head) \subseteq Files)'
    BY <2>7 DEF Reached, ChunkKeys
  <2>11. (\A v \in Writers : ChunkKeys(link[v]) \subseteq Files)'
    BY <2>8 DEF ChunkKeys
  <2>12. (\A v \in Writers : pc[v] = "replaceHead" => AdvertKey(NewHead(v)) \in Files)'
    BY <2>9 DEF AdvertKey
  <2> QED
    BY <2>10, <2>11, <2>12 DEF StoredInv
<1>7. ASSUME Crash PROVE StoredInv'
  <2>1. UNCHANGED <<head, whole, torn>> /\ Files' = Files
    BY <1>7 DEF Crash, Files
  <2>2. \A v \in Writers : link'[v] = NoEntries /\ pc'[v] = "idle"
    BY <1>7 DEF Crash
  <2>3. \A v \in Writers : ChunkKeys(link'[v]) = {}
    BY <2>2, NoChunks
  <2>4. (Reached(head) \subseteq Files)'
    BY <2>1 DEF StoredInv, Reached, ChunkKeys
  <2>5. (\A v \in Writers : ChunkKeys(link[v]) \subseteq Files)'
    BY <2>3 DEF ChunkKeys
  <2> QED
    BY <2>2, <2>4, <2>5 DEF StoredInv
<1>8. CASE UNCHANGED vars
  BY <1>8 DEF vars, StoredInv, Files, Reached, ChunkKeys, NewHead, AdvertKey
<1> QED
  BY <1>1, <1>2, <1>3, <1>4, <1>5, <1>6, <1>7, <1>8 DEF Next, Step

\* While the mutex stays with a writer, so does the file it fills.
LEMMA HolderRests ==
  ASSUME TypeOK, MutexInv, NEW w \in Writers, mutex # w, UNCHANGED mutex, mutex # None,
         \A v \in Writers \ {w} : /\ pc'[v] = pc[v] /\ link'[v] = link[v]
                                  /\ rest'[v] = rest[v] /\ old'[v] = old[v]
  PROVE  Key(mutex)' = Key(mutex)
<1>1. mutex \in Writers \ {w}
  BY DEF TypeOK
<1>2. /\ pc'[mutex] = pc[mutex] /\ link'[mutex] = link[mutex]
      /\ rest'[mutex] = rest[mutex] /\ old'[mutex] = old[mutex]
  BY <1>1
<1> QED
  BY <1>2 DEF Key, WithChunk, NextChunk, NewHead

LEMMA TornStep ==
  ASSUME TypeOK, MutexInv, TornInv, [Next]_vars
  PROVE  TornInv'
<1>1. ASSUME NEW w \in Writers, mutex # w, UNCHANGED <<torn, mutex, damaged>>,
             \A v \in Writers \ {w} : /\ pc'[v] = pc[v] /\ link'[v] = link[v]
                                      /\ rest'[v] = rest[v] /\ old'[v] = old[v]
      PROVE  TornInv'
  <2>1. mutex # None => Key(mutex)' = Key(mutex)
    BY <1>1, HolderRests
  <2> QED
    BY <1>1, <2>1 DEF TornInv
<1>2. ASSUME NEW w \in Writers, Call(w) \/ EndEntries(w) \/ ReadHead(w) PROVE TornInv'
  <2>1. mutex # w
    BY <1>2, EmptySeq DEF Call, EndEntries, ReadHead, MutexInv
  <2>2. UNCHANGED <<torn, mutex, damaged>>
    BY <1>2 DEF Call, EndEntries, ReadHead, files
  <2>3. \A v \in Writers \ {w} : /\ pc'[v] = pc[v] /\ link'[v] = link[v]
                                 /\ rest'[v] = rest[v] /\ old'[v] = old[v]
    BY <1>2 DEF Call, EndEntries, ReadHead, TypeOK
  <2> QED
    BY <2>1, <2>2, <2>3, <1>1
<1>3. ASSUME NEW w \in Writers, ReadHeadFails(w) \/ ReplaceRefused(w) \/ CreateFails(w)
      PROVE  TornInv'
  <2>1. Return(w) /\ UNCHANGED <<torn, mutex, damaged>>
    BY <1>3 DEF ReadHeadFails, ReplaceRefused, CreateFails, files
  <2>2. mutex # w
    BY <1>3, NoneAssumption DEF ReadHeadFails, ReplaceRefused, CreateFails, MutexInv
  <2> QED
    BY <2>1, <2>2, ReturnOthers, <1>1
<1>4. ASSUME NEW w \in Writers, Create(w) PROVE TornInv'
  <2>1. mutex = None /\ mutex' = w /\ torn' = torn \cup {Key(w)} /\ w # None
        /\ UNCHANGED <<pc, rest, link, old, damaged>>
    BY <1>4, NoneAssumption DEF Create
  <2>2. Key(w)' = Key(w)
    BY <2>1 DEF Key, WithChunk, NextChunk, NewHead
  <2>3. Key(mutex)' = Key(w)
    BY <2>1, <2>2 DEF Key, WithChunk, NextChunk, NewHead
  <2> QED
    BY <2>1, <2>3 DEF TornInv
<1>5. ASSUME NEW w \in Writers, FillChunk(w) \/ FillAdvert(w) \/ FillHead(w) PROVE TornInv'
  <2>1. mutex = w /\ torn' = torn \ {Key(w)} /\ damaged' = damaged \ {Key(w)}
    BY <1>5 DEF FillChunk, FillAdvert, FillHead, Fill
  <2> QED
    BY <2>1 DEF TornInv
<1>6. ASSUME NEW w \in Writers, FillFails(w) PROVE TornInv'
  <2>1. mutex = w /\ torn' = torn /\ damaged' = damaged \cup {Key(w)}
    BY <1>6 DEF FillFails
  <2> QED
    BY <2>1 DEF TornInv
<1>7. ASSUME Crash PROVE TornInv'
  BY <1>7 DEF Crash, TornInv
<1>8. CASE UNCHANGED vars
  BY <1>8 DEF vars, TornInv, Key, WithChunk, NextChunk, NewHead
<1> QED
  BY <1>2, <1>3, <1>4, <1>5, <1>6, <1>7, <1>8 DEF Next, Step

LEMMA ServedInit == Init => StoredInv /\ TornInv
<1> SUFFICES ASSUME Init PROVE StoredInv /\ TornInv
  OBVIOUS
<1>1. \A w \in Writers : ChunkKeys(link[w]) = {}
  BY NoChunks DEF Init
<1>2. Reached(head) \subseteq Files
  BY DEF Init, Files
<1> QED
  BY <1>1, <1>2 DEF Init, StoredInv, TornInv

\* Who is answered with a head is answered with all that it reaches.
LEMMA Served == StoredInv /\ TornInv => HeadServed
<1> SUFFICES ASSUME StoredInv, TornInv, NEW k \in Reached(head)
             PROVE  /\ ServeHTTP(k).status = 200
                    /\ \/ ServeHTTP(k).whole
                       \/ mutex # None /\ Key(mutex) = k
                       \/ k \in damaged
  BY DEF HeadServed
<1>1. k \in whole \cup torn
  BY DEF StoredInv, Files
<1>2. CASE k \in torn
  <2>1. ServeHTTP(k).status = 200
    BY <1>2 DEF ServeHTTP
  <2> QED
    BY <1>2, <2>1 DEF TornInv
<1>3. CASE k \notin torn
  <2>1. ServeHTTP(k) = [status |-> 200, whole |-> TRUE]
    BY <1>1, <1>3 DEF ServeHTTP
  <2> QED
    BY <2>1
<1> QED
  BY <1>2, <1>3

\* Whatever the writers do, and whatever fails, the server has the blocks of the
\* chain behind the head it serves: the entries are put before the advert, and
\* the advert before the head.
THEOREM HeadIsServed == Spec => []HeadServed
<1>1. TypeOK /\ MutexInv /\ StoredInv /\ TornInv /\ [Next]_vars => (StoredInv /\ TornInv)'
  BY StoredStep, TornStep
<1> QED
  BY <1>1, Typed, ServedInit, Served, PTL DEF Spec

\* What calls returned is behind the last head that was written whole.
Linked == acked \subseteq Prefixes(head) /\ (acked # {} => head # <<>>)

LEMMA LinkedStep ==
  ASSUME TypeOK, MutexInv, Linked, [Next]_vars
  PROVE  Linked'
<1>1. ASSUME NEW ad \in Advert, head' = Append(head, ad), acked' = acked \cup {head'}
      PROVE  Linked'
  <2>1. Prefixes(head') = Prefixes(head) \cup {head'} /\ head' # <<>>
    BY <1>1, AppendPrefixes, AppendProperties DEF TypeOK
  <2> QED
    BY <1>1, <2>1 DEF Linked
<1>2. CASE UNCHANGED <<head, acked>>
  BY <1>2 DEF Linked
<1> QED
  BY <1>1, <1>2, HeadStep

\* A head file that a failed write left torn is not being written.
HeadRuined ==
  \A w \in Writers : mutex = w /\ pc[w] = "replaceHead" => HeadKey \notin damaged

\* No step writes a damaged head file, and none returns a link then.
LEMMA RuinedStep ==
  ASSUME TypeOK, MutexInv, HeadRuined, [Next]_vars
  PROVE  /\ HeadRuined'
         /\ HeadKey \in damaged => HeadKey \in damaged' /\ acked' = acked
<1> DEFINE Ruin == HeadKey \in damaged => HeadKey \in damaged' /\ acked' = acked
<1>1. ASSUME NEW w \in Writers, mutex # w, UNCHANGED <<mutex, acked, damaged>>,
             \A v \in Writers \ {w} : pc'[v] = pc[v]
      PROVE  HeadRuined' /\ Ruin
  BY <1>1 DEF HeadRuined
<1>2. ASSUME NEW w \in Writers, Call(w) \/ EndEntries(w) \/ ReadHead(w)
      PROVE  HeadRuined' /\ Ruin
  <2>1. mutex # w
    BY <1>2, EmptySeq DEF Call, EndEntries, ReadHead, MutexInv
  <2>2. UNCHANGED <<mutex, acked, damaged>> /\ \A v \in Writers \ {w} : pc'[v] = pc[v]
    BY <1>2 DEF Call, EndEntries, ReadHead, files, TypeOK
  <2> QED
    BY <2>1, <2>2, <1>1
<1>3. ASSUME NEW w \in Writers, ReadHeadFails(w) \/ ReplaceRefused(w) \/ CreateFails(w)
      PROVE  HeadRuined' /\ Ruin
  <2>1. Return(w) /\ UNCHANGED <<mutex, acked, damaged>>
    BY <1>3 DEF ReadHeadFails, ReplaceRefused, CreateFails, files
  <2>2. mutex # w
    BY <1>3, NoneAssumption DEF ReadHeadFails, ReplaceRefused, CreateFails, MutexInv
  <2> QED
    BY <2>1, <2>2, ReturnOthers, <1>1
<1>4. ASSUME NEW w \in Writers, Create(w) PROVE HeadRuined' /\ Ruin
  <2>1. mutex' = w /\ MayWrite(w) /\ UNCHANGED <<pc, acked, damaged>>
    BY <1>4 DEF Create
  <2>2. pc[w] = "replaceHead" => HeadKey \notin damaged
    BY <2>1 DEF MayWrite, HeadIs, TypeOK
  <2> QED
    BY <2>1, <2>2 DEF HeadRuined
<1>5. ASSUME NEW w \in Writers, FillChunk(w) \/ FillAdvert(w) PROVE HeadRuined' /\ Ruin
  <2>1. mutex' = None /\ acked' = acked /\ damaged' = damaged \ {Key(w)}
    BY <1>5 DEF FillChunk, FillAdvert, Fill
  <2>2. Key(w) # HeadKey
    BY <1>5, KeyOf, KeysDiffer DEF FillChunk, FillAdvert
  <2> QED
    BY <2>1, <2>2, NoneAssumption DEF HeadRuined
<1>6. ASSUME NEW w \in Writers, FillHead(w) PROVE HeadRuined' /\ Ruin
  <2>1. mutex = w /\ pc[w] = "replaceHead" /\ mutex' = None
    BY <1>6 DEF FillHead, Fill
  <2> QED
    BY <2>1, NoneAssumption DEF HeadRuined
<1>7. ASSUME NEW w \in Writers, FillFails(w) PROVE HeadRuined' /\ Ruin
  BY <1>7, NoneAssumption DEF FillFails, HeadRuined
<1>8. ASSUME Crash PROVE HeadRuined' /\ Ruin
  <2>1. mutex' = None /\ acked' = acked /\ damaged \subseteq damaged'
    BY <1>8 DEF Crash, TypeOK
  <2> QED
    BY <2>1, NoneAssumption DEF HeadRuined
<1>9. CASE UNCHANGED vars
  BY <1>9 DEF vars, HeadRuined
<1> QED
  BY <1>2, <1>3, <1>4, <1>5, <1>6, <1>7, <1>8, <1>9 DEF Next, Step

\* The head is served whole, is being written, or a write of it was cut short.
Reachable ==
  acked # {} =>
    \/ ServeHTTP(HeadKey).whole /\ acked \subseteq Prefixes(head)
    \/ HeadBeingWritten
    \/ HeadKey \in damaged

LEMMA LinkedReachable == Linked /\ TornInv => Reachable
<1> SUFFICES ASSUME Linked, TornInv, acked # {}, HeadKey \notin damaged, ~HeadBeingWritten
             PROVE  ServeHTTP(HeadKey).whole /\ acked \subseteq Prefixes(head)
  BY DEF Reachable
<1>1. HeadKey \notin torn /\ head # <<>>
  BY DEF TornInv, HeadBeingWritten, Linked
<1>2. ServeHTTP(HeadKey) = [status |-> 200, whole |-> TRUE]
  BY <1>1 DEF ServeHTTP
<1> QED
  BY <1>2 DEF Linked

\* A link that a call returned stays on the chain that is served, but while the
\* head file is written, and until a write of it fails or is cut short; from then
\* on the file stays as it is, and no call returns a link.
THEOREM PublishedStaysServed == Spec => PublishedServed
<1>1. TypeOK /\ MutexInv /\ TornInv /\ [Next]_vars => TornInv'
  BY TornStep
<1>2. TypeOK /\ MutexInv /\ Linked /\ [Next]_vars => Linked'
  BY LinkedStep
<1>3. TypeOK /\ MutexInv /\ HeadRuined /\ [Next]_vars => HeadRuined'
  BY RuinedStep
<1>4. TypeOK /\ MutexInv /\ HeadRuined /\ [Next]_vars
        => [(HeadKey \in damaged) => HeadKey \in damaged' /\ acked' = acked]_vars
  BY RuinedStep
<1>5. Init => TornInv /\ Linked /\ HeadRuined
  BY ServedInit DEF Init, Linked, HeadRuined
<1>6. Spec => []Reachable
  BY <1>1, <1>2, <1>5, LinkedReachable, Typed, PTL DEF Spec
<1>7. Spec => [][(HeadKey \in damaged) => HeadKey \in damaged' /\ acked' = acked]_vars
  BY <1>3, <1>4, <1>5, Typed, PTL DEF Spec
<1> QED
  BY <1>6, <1>7 DEF PublishedServed, Reachable

-----------------------------------------------------------------------------
(* What the entries link holds. *)

Short(s) == Len(s) <= ChunkSize /\ Len(s) \in 1..IdentityEntries

\* What the link l that putEntries builds holds of the list s, of which r is left:
\* the chunks and what is left are the list, and every chunk that another one
\* follows, or will follow, is full.
Chunked(l, s, r) ==
  /\ IsFiniteSet(Places(l))
  /\ \A m \in Multihashes : Count(Entries(l), m) + Count(r, m) = Count(s, m)
  /\ \A k \in DOMAIN l.chunks : Len(l.chunks[k]) \in 1..ChunkSize
  /\ \A k \in DOMAIN l.chunks : k < Len(l.chunks) \/ r # <<>> => Len(l.chunks[k]) = ChunkSize

\* Nothing short is written out as a chunk, and in the end nothing is left.
Holds(label, l, s, r) ==
  /\ Chunked(l, s, r)
  /\ label = "entries" => /\ ~l.inlined
                          /\ l.chunks = <<>> => r = s
                          /\ l.chunks # <<>> => ~Short(s)
  /\ label # "entries" => r = <<>> /\ (l.inlined <=> Short(s))

EntriesInv ==
  \A w \in Writers :
    /\ pc[w] = "idle" => link[w] = NoEntries
    /\ pc[w] # "idle" => Holds(pc[w], link[w], list[w], rest[w])

LEMMA ImageCardinality ==
  ASSUME NEW S, IsFiniteSet(S), NEW a, \A x, y \in S : a[x] = a[y] => x = y
  PROVE  IsFiniteSet({a[x] : x \in S}) /\ Cardinality({a[x] : x \in S}) = Cardinality(S)
<1> DEFINE T == {a[x] : x \in S}
           f == [x \in S |-> a[x]]
<1>1. f \in Bijection(S, T)
  <2>1. f \in [S -> T] /\ \A x \in S : f[x] = a[x]
    OBVIOUS
  <2>2. f \in Injection(S, T)
    BY <2>1 DEF Injection, IsInjective
  <2>3. f \in Surjection(S, T)
    BY <2>1 DEF Surjection
  <2> QED
    BY <2>2, <2>3 DEF Bijection
<1>2. ExistsBijection(S, T)
  BY <1>1 DEF ExistsBijection
<1> QED
  BY <1>2, FS_Bijection

\* The values of f are those of g, at the places a, and those of h, at the places b.
Splits(f, g, h, a, b) ==
  /\ IsFiniteSet(DOMAIN g) /\ IsFiniteSet(DOMAIN h)
  /\ \A x \in DOMAIN g : a[x] \in DOMAIN f /\ f[a[x]] = g[x]
  /\ \A y \in DOMAIN h : b[y] \in DOMAIN f /\ f[b[y]] = h[y]
  /\ \A x, z \in DOMAIN g : a[x] = a[z] => x = z
  /\ \A y, z \in DOMAIN h : b[y] = b[z] => y = z
  /\ \A x \in DOMAIN g : \A y \in DOMAIN h : a[x] # b[y]
  /\ \A z \in DOMAIN f : \/ \E x \in DOMAIN g : z = a[x]
                         \/ \E y \in DOMAIN h : z = b[y]

LEMMA CountSplit ==
  ASSUME NEW f, NEW g, NEW h, NEW a, NEW b, Splits(f, g, h, a, b)
  PROVE  /\ IsFiniteSet(DOMAIN f)
         /\ \A m : Count(f, m) = Count(g, m) + Count(h, m)
         /\ \A m : Count(f, m) \in Nat /\ Count(g, m) \in Nat /\ Count(h, m) \in Nat
<1> USE DEF Splits
<1>1. IsFiniteSet(DOMAIN f)
  <2> DEFINE A == {a[x] : x \in DOMAIN g}
             B == {b[y] : y \in DOMAIN h}
  <2>1. IsFiniteSet(A) /\ IsFiniteSet(B)
    BY ImageCardinality
  <2>2. DOMAIN f = A \cup B
    OBVIOUS
  <2> HIDE DEF A, B
  <2>3. IsFiniteSet(A \cup B)
    BY ONLY <2>1, FS_Union
  <2> QED
    BY ONLY <2>2, <2>3
<1>2. ASSUME NEW m
      PROVE  /\ Count(f, m) = Count(g, m) + Count(h, m)
             /\ Count(f, m) \in Nat /\ Count(g, m) \in Nat /\ Count(h, m) \in Nat
  <2> DEFINE F == {z \in DOMAIN f : f[z] = m}
             G == {x \in DOMAIN g : g[x] = m}
             H == {y \in DOMAIN h : h[y] = m}
             A == {a[x] : x \in G}
             B == {b[y] : y \in H}
  <2>1. IsFiniteSet(F) /\ IsFiniteSet(G) /\ IsFiniteSet(H)
    BY <1>1, FS_Subset
  <2>2. IsFiniteSet(A) /\ Cardinality(A) = Cardinality(G)
    BY <2>1, ImageCardinality
  <2>3. IsFiniteSet(B) /\ Cardinality(B) = Cardinality(H)
    BY <2>1, ImageCardinality
  <2>4. F = A \cup B /\ A \cap B = {}
    OBVIOUS
  <2>5. Cardinality(F) = Cardinality(A) + Cardinality(B) - 0
    <3> HIDE DEF A, B, F
    <3> QED
      BY <2>2, <2>3, <2>4, FS_Union, FS_EmptySet
  <2>6. Cardinality(F) \in Nat /\ Cardinality(G) \in Nat /\ Cardinality(H) \in Nat
    BY <2>1, FS_CardinalityType
  <2>7. Count(f, m) = Cardinality(F) /\ Count(g, m) = Cardinality(G) /\ Count(h, m) = Cardinality(H)
    BY DEF Count
  <2> HIDE DEF F, G, H, A, B
  <2> QED
    BY <2>2, <2>3, <2>5, <2>6, <2>7
<1> QED
  BY <1>1, <1>2

LEMMA CountNone ==
  /\ \A m : Count(<<>>, m) = 0 /\ Count(Entries(NoEntries), m) = 0
  /\ Places(NoEntries) = {}
<1>1. DOMAIN <<>> = {}
  BY EmptySeq, LenProperties
<1>2. Places(NoEntries) = {}
  BY <1>1 DEF Places, NoEntries
<1>3. DOMAIN Entries(NoEntries) = {}
  BY <1>2 DEF Entries
<1>4. \A m : {k \in {} : <<>>[k] = m} = {} /\ {k \in {} : Entries(NoEntries)[k] = m} = {}
  OBVIOUS
<1> QED
  BY <1>1, <1>2, <1>3, <1>4, FS_EmptySet DEF Count

\* A list that is cut in two.
LEMMA CountCut ==
  ASSUME NEW s \in Seq(Multihashes), NEW n \in 0..Len(s)
  PROVE  \A m : Count(s, m) = Count(SubSeq(s, 1, n), m) + Count(SubSeq(s, n + 1, Len(s)), m)
<1>1. Len(s) \in Nat /\ DOMAIN s = 1..Len(s) /\ \A k \in 1..Len(s) : s[k] \in Multihashes
  BY LenProperties, ElementOfSeq
<1>2. PICK g : g = SubSeq(s, 1, n)
  OBVIOUS
<1>3. PICK h : h = SubSeq(s, n + 1, Len(s))
  OBVIOUS
<1>4. DOMAIN g = 1..n /\ \A k \in 1..n : g[k] = s[k]
  <2>1. g \in Seq(Multihashes) /\ Len(g) = n /\ \A k \in 1..n : g[k] = s[k]
    BY <1>1, <1>2, SubSeqProperties
  <2> QED
    BY <2>1, LenProperties
<1>5. DOMAIN h = 1..(Len(s) - n) /\ \A k \in 1..(Len(s) - n) : h[k] = s[n + k]
  <2>1. n \in Nat /\ n <= Len(s)
    BY <1>1
  <2>2. \A k \in (n + 1)..Len(s) : s[k] \in Multihashes
    BY <1>1, <2>1
  <2>3. h = [k \in 1..(Len(s) - n) |-> s[n + k]]
    <3>1. Len(s) - (n + 1) + 1 = Len(s) - n /\ \A k \in 1..(Len(s) - n) : k + (n + 1) - 1 = n + k
      BY <1>1, <2>1
    <3> QED
      BY <1>1, <1>3, <2>1, <3>1 DEF SubSeq
  <2> QED
    BY <2>3
<1> DEFINE a == [k \in 1..n |-> k]
           b == [k \in 1..(Len(s) - n) |-> n + k]
<1>6. IsFiniteSet(DOMAIN g) /\ IsFiniteSet(DOMAIN h)
  BY <1>1, <1>4, <1>5, FS_Interval
<1>7. /\ \A x \in DOMAIN g : a[x] = x /\ a[x] \in DOMAIN s /\ s[a[x]] = g[x]
      /\ \A y \in DOMAIN h : b[y] = n + y /\ b[y] \in DOMAIN s /\ s[b[y]] = h[y]
  BY <1>1, <1>4, <1>5
<1>8. \A z \in DOMAIN s : \/ \E x \in DOMAIN g : z = a[x]
                          \/ \E y \in DOMAIN h : z = b[y]
  <2> TAKE z \in DOMAIN s
  <2>1. z \in Nat /\ n \in Nat /\ (z <= n \/ z > n)
    BY <1>1
  <2>2. CASE z <= n
    BY <1>1, <1>4, <1>7, <2>2
  <2>3. CASE z > n
    <3>1. z - n \in DOMAIN h /\ b[z - n] = z
      BY <1>1, <1>5, <1>7, <2>3
    <3> QED
      BY <3>1
  <2> QED
    BY ONLY <2>1, <2>2, <2>3
<1>9. /\ \A x, z \in DOMAIN g : a[x] = a[z] => x = z
      /\ \A y, z \in DOMAIN h : b[y] = b[z] => y = z
      /\ \A x \in DOMAIN g : \A y \in DOMAIN h : a[x] # b[y]
  BY <1>1, <1>4, <1>5
<1> HIDE DEF a, b
<1>10. \A m : Count(s, m) = Count(g, m) + Count(h, m)
  <2>1. Splits(s, g, h, a, b)
    BY ONLY <1>6, <1>7, <1>8, <1>9 DEF Splits
  <2> QED
    BY ONLY <2>1, CountSplit
<1> QED
  BY <1>2, <1>3, <1>10

\* A link with a chunk more.
LEMMA CountChunk ==
  ASSUME NEW cs \in Seq(Seq(Multihashes)), NEW c \in Seq(Multihashes), NEW l, NEW n,
         l.chunks = cs, n.chunks = Append(cs, c), IsFiniteSet(Places(l))
  PROVE  /\ IsFiniteSet(Places(n))
         /\ \A m : Count(Entries(n), m) = Count(Entries(l), m) + Count(c, m)
<1> DEFINE k == Len(cs) + 1
<1>1. /\ Len(cs) \in Nat /\ DOMAIN cs = 1..Len(cs) /\ DOMAIN n.chunks = 1..k
      /\ \A j \in 1..Len(cs) : n.chunks[j] = cs[j]
      /\ n.chunks[k] = c /\ DOMAIN c = 1..Len(c) /\ Len(c) \in Nat
  BY LenProperties, AppendProperties
<1>2. \A x : x \in Places(l) <=> \E j \in 1..Len(cs) : \E i \in DOMAIN cs[j] : x = <<j, i>>
  BY <1>1 DEF Places
<1>3. \A x : x \in Places(n) <=> \E j \in 1..k : \E i \in DOMAIN n.chunks[j] : x = <<j, i>>
  BY <1>1 DEF Places
<1>4. \A x \in Places(n) : x \in Places(l) \/ \E i \in DOMAIN c : x = <<k, i>>
  <2> TAKE x \in Places(n)
  <2>1. PICK j \in 1..k : \E i \in DOMAIN n.chunks[j] : x = <<j, i>>
    BY <1>3
  <2>2. CASE j = k
    BY <1>1, <2>1, <2>2
  <2>3. CASE j # k
    <3>1. j \in 1..Len(cs)
      BY <1>1, <2>3
    <3> QED
      BY <1>1, <1>2, <2>1, <3>1
  <2> QED
    BY <2>2, <2>3
<1>5. \A x \in Places(l) : x \in Places(n) /\ x[1] \in 1..Len(cs) /\ n.chunks[x[1]] = cs[x[1]]
  <2> TAKE x \in Places(l)
  <2>1. PICK j \in 1..Len(cs) : \E i \in DOMAIN cs[j] : x = <<j, i>>
    BY <1>2
  <2>2. j \in 1..k /\ n.chunks[j] = cs[j]
    BY <1>1, <2>1
  <2> QED
    BY <1>3, <2>1, <2>2
<1>6. \A i \in DOMAIN c : <<k, i>> \in Places(n)
  <2>1. k \in 1..k
    BY <1>1
  <2> QED
    BY <1>1, <1>3, <2>1
<1> DEFINE f == Entries(n)
           g == Entries(l)
           a == [x \in Places(l) |-> x]
           b == [i \in DOMAIN c |-> <<k, i>>]
<1>7. /\ DOMAIN f = Places(n) /\ \A x \in Places(n) : f[x] = n.chunks[x[1]][x[2]]
      /\ DOMAIN g = Places(l) /\ \A x \in Places(l) : g[x] = cs[x[1]][x[2]]
  BY DEF Entries
<1>8. IsFiniteSet(DOMAIN g) /\ IsFiniteSet(DOMAIN c)
  BY <1>1, <1>7, FS_Interval
<1>9. /\ \A x \in DOMAIN g : a[x] \in DOMAIN f /\ f[a[x]] = g[x]
      /\ \A y \in DOMAIN c : b[y] \in DOMAIN f /\ f[b[y]] = c[y]
  <2>1. ASSUME NEW x \in DOMAIN g
        PROVE  a[x] \in DOMAIN f /\ f[a[x]] = g[x]
    <3>1. x \in Places(l) /\ x \in Places(n) /\ n.chunks[x[1]] = cs[x[1]] /\ a[x] = x
      BY <1>5, <1>7, <2>1
    <3> HIDE DEF f, g, a
    <3> QED
      BY <1>7, <3>1
  <2>2. ASSUME NEW y \in DOMAIN c
        PROVE  b[y] \in DOMAIN f /\ f[b[y]] = c[y]
    <3>1. b[y] = <<k, y>> /\ b[y] \in Places(n) /\ b[y][1] = k /\ b[y][2] = y
      BY <1>6, <2>2
    <3> HIDE DEF f, g, b
    <3>2. f[b[y]] = n.chunks[k][y]
      BY <1>7, <3>1
    <3> QED
      BY <1>1, <1>7, <3>1, <3>2
  <2> QED
    BY ONLY <2>1, <2>2
<1>10. /\ \A x, z \in DOMAIN g : a[x] = a[z] => x = z
       /\ \A y, z \in DOMAIN c : b[y] = b[z] => y = z
       /\ \A x \in DOMAIN g : \A y \in DOMAIN c : a[x] # b[y]
  BY <1>1, <1>5, <1>7
<1>11. \A z \in DOMAIN f : \/ \E x \in DOMAIN g : z = a[x]
                           \/ \E y \in DOMAIN c : z = b[y]
  BY <1>4, <1>7
<1> HIDE DEF f, g, a, b
<1>12. IsFiniteSet(DOMAIN f) /\ \A m : Count(f, m) = Count(g, m) + Count(c, m)
  <2>1. Splits(f, g, c, a, b)
    BY ONLY <1>8, <1>9, <1>10, <1>11 DEF Splits
  <2> QED
    BY ONLY <2>1, CountSplit
<1> QED
  BY <1>7, <1>12 DEF f, g

LEMMA CountType ==
  ASSUME NEW f, IsFiniteSet(DOMAIN f)
  PROVE  \A m : Count(f, m) \in Nat
<1> TAKE m
<1>1. IsFiniteSet({x \in DOMAIN f : f[x] = m})
  BY FS_Subset
<1> QED
  BY <1>1, FS_CardinalityType DEF Count

\* Nothing is in the chunks at first.
LEMMA StartsChunked ==
  ASSUME NEW s \in Seq(Multihashes)
  PROVE  Chunked(NoEntries, s, s)
<1>1. IsFiniteSet(Places(NoEntries))
  BY CountNone, FS_EmptySet
<1>2. DOMAIN s = 1..Len(s) /\ Len(s) \in Nat
  BY LenProperties
<1>3. \A m : Count(s, m) \in Nat
  BY <1>2, FS_Interval, CountType
<1>4. \A m \in Multihashes : Count(Entries(NoEntries), m) + Count(s, m) = Count(s, m)
  BY <1>3, CountNone
<1>5. DOMAIN NoEntries.chunks = {}
  BY EmptySeq, LenProperties DEF NoEntries
<1> QED
  BY <1>1, <1>4, <1>5 DEF Chunked

\* The chunk c is cut from the front of r, and t is what that leaves.
Cut(r, c, t) ==
  /\ c \in Seq(Multihashes) /\ t \in Seq(Multihashes)
  /\ Len(c) \in 1..ChunkSize
  /\ t # <<>> => Len(c) = ChunkSize
  /\ Len(r) <= ChunkSize => c = r /\ t = <<>>
  /\ \A m : Count(r, m) = Count(c, m) + Count(t, m)

\* What the link with that chunk holds.
LEMMA ChunkAdded ==
  ASSUME NEW l \in EntriesLink, NEW n, NEW s, NEW r, NEW c, NEW t,
         Chunked(l, s, r), r # <<>>, Cut(r, c, t),
         n.chunks = Append(l.chunks, c)
  PROVE  Chunked(n, s, t)
<1> USE DEF Cut
<1>1. l.chunks \in Seq(Seq(Multihashes))
  BY DEF EntriesLink
<1>2. /\ IsFiniteSet(Places(n))
      /\ \A m : Count(Entries(n), m) = Count(Entries(l), m) + Count(c, m)
  BY <1>1, CountChunk DEF Chunked
<1>3. ASSUME NEW m \in Multihashes
      PROVE  Count(Entries(n), m) + Count(t, m) = Count(s, m)
  <2>1. /\ DOMAIN Entries(l) = Places(l) /\ DOMAIN c = 1..Len(c) /\ DOMAIN t = 1..Len(t)
        /\ Len(c) \in Nat /\ Len(t) \in Nat
    BY LenProperties DEF Entries
  <2>2. IsFiniteSet(DOMAIN Entries(l)) /\ IsFiniteSet(DOMAIN c) /\ IsFiniteSet(DOMAIN t)
    BY <2>1, FS_Interval DEF Chunked
  <2>3. Count(Entries(l), m) \in Nat /\ Count(c, m) \in Nat /\ Count(t, m) \in Nat
    BY <2>2, CountType
  <2>4. Count(Entries(l), m) + Count(r, m) = Count(s, m)
    BY <1>3 DEF Chunked
  <2> QED
    BY <1>2, <2>3, <2>4
<1>4. /\ Len(l.chunks) \in Nat /\ Len(n.chunks) = Len(l.chunks) + 1
      /\ DOMAIN l.chunks = 1..Len(l.chunks) /\ DOMAIN n.chunks = 1..(Len(l.chunks) + 1)
      /\ \A k \in 1..Len(l.chunks) : n.chunks[k] = l.chunks[k]
      /\ n.chunks[Len(l.chunks) + 1] = c
  BY <1>1, LenProperties, AppendProperties
<1>5. ASSUME NEW k \in DOMAIN n.chunks
      PROVE  /\ Len(n.chunks[k]) \in 1..ChunkSize
             /\ k < Len(n.chunks) \/ t # <<>> => Len(n.chunks[k]) = ChunkSize
  <2>1. CASE k \in 1..Len(l.chunks)
    BY <1>4, <2>1 DEF Chunked
  <2>2. CASE k = Len(l.chunks) + 1
    BY <1>4, <2>2
  <2> QED
    BY <1>4, <2>1, <2>2
<1> QED
  BY <1>2, <1>3, <1>5 DEF Chunked

\* The next chunk is cut from what is left.
LEMMA NextChunkCut ==
  ASSUME TypeOK, NEW w \in Writers, rest[w] # <<>>
  PROVE  Cut(rest[w], NextChunk(w), SubSeq(rest[w], Len(NextChunk(w)) + 1, Len(rest[w])))
<1> PICK c : c = NextChunk(w)
  OBVIOUS
<1> PICK t : t = SubSeq(rest[w], Len(c) + 1, Len(rest[w]))
  OBVIOUS
<1>1. PICK r : r = rest[w]
  OBVIOUS
<1>2. /\ r \in Seq(Multihashes) /\ Len(r) \in Nat \ {0} /\ ChunkSize \in Nat \ {0}
      /\ \A k \in 1..Len(r) : r[k] \in Multihashes
  BY <1>1, ChunkSizeAssumption, LenProperties, EmptySeq, ElementOfSeq DEF TypeOK
<1>3. c \in Seq(Multihashes) /\ t \in Seq(Multihashes)
  BY ChunkType
<1>4. /\ Len(c) \in 1..ChunkSize /\ Len(c) \in 0..Len(r) /\ c = SubSeq(r, 1, Len(c))
      /\ Len(r) <= ChunkSize => c = r
      /\ Len(c) < Len(r) => Len(c) = ChunkSize
  <2>1. CASE Len(r) <= ChunkSize
    <3>1. c = r
      BY <1>1, <2>1 DEF NextChunk
    <3>2. SubSeq(r, 1, Len(r)) = r
      BY <1>2, SubSeqFull
    <3> QED
      BY <1>2, <2>1, <3>1, <3>2
  <2>2. CASE ~(Len(r) <= ChunkSize)
    <3>1. c = SubSeq(r, 1, ChunkSize)
      BY <1>1, <2>2 DEF NextChunk
    <3>2. \A k \in 1..ChunkSize : r[k] \in Multihashes
      BY <1>2, <2>2
    <3>3. Len(c) = ChunkSize
      BY <1>2, <3>1, <3>2, SubSeqProperties
    <3> QED
      BY <1>2, <2>2, <3>1, <3>3
  <2> QED
    BY <2>1, <2>2
<1>5. \A m : Count(r, m) = Count(c, m) + Count(t, m)
  <2>1. PICK k \in 0..Len(r) : k = Len(c)
    BY <1>4
  <2>2. \A m : Count(r, m) = Count(SubSeq(r, 1, k), m) + Count(SubSeq(r, k + 1, Len(r)), m)
    BY ONLY <1>2, CountCut
  <2>3. c = SubSeq(r, 1, k) /\ t = SubSeq(r, k + 1, Len(r))
    BY <1>1, <1>4, <2>1
  <2> QED
    BY ONLY <2>2, <2>3
<1>6. Len(c) = Len(r) => t = <<>>
  <2>1. SubSeq(r, Len(r) + 1, Len(r)) = <<>>
    BY <1>2, SubSeqEmpty
  <2> QED
    BY <1>1, <2>1
<1>7. t # <<>> => Len(c) = ChunkSize
  <2>1. CASE Len(c) = Len(r)
    BY <1>6, <2>1
  <2>2. CASE Len(c) < Len(r)
    BY <1>4, <2>2
  <2>3. Len(c) = Len(r) \/ Len(c) < Len(r)
    <3>1. Len(r) \in Nat /\ Len(c) \in 0..Len(r)
      BY <1>2, <1>4
    <3> QED
      BY ONLY <3>1
  <2> QED
    BY <2>1, <2>2, <2>3
<1> QED
  BY <1>1, <1>3, <1>4, <1>5, <1>6, <1>7 DEF Cut

LEMMA EntriesInit == Init => EntriesInv
BY DEF Init, EntriesInv

\* A writer whose list is neither given nor written out keeps what its link holds.
LEMMA HoldsStays ==
  ASSUME EntriesInv, NEW v \in Writers,
         link'[v] = link[v], list'[v] = list[v], rest'[v] = rest[v],
         \/ pc'[v] = pc[v]
         \/ {pc[v], pc'[v]} \cap {"idle", "entries"} = {}
  PROVE  /\ pc'[v] = "idle" => link'[v] = NoEntries
         /\ pc'[v] # "idle" => Holds(pc'[v], link'[v], list'[v], rest'[v])
BY DEF EntriesInv, Holds

LEMMA EntriesAll ==
  ASSUME \A v \in Writers :
           /\ pc'[v] = "idle" => link'[v] = NoEntries
           /\ pc'[v] # "idle" => Holds(pc'[v], link'[v], list'[v], rest'[v])
  PROVE  EntriesInv'
BY DEF EntriesInv, Holds, Chunked, Entries, Places, Count, Short, NoEntries

\* A step of w that leaves the other writers alone.
LEMMA EntriesOf ==
  ASSUME EntriesInv, NEW w \in Writers,
         \A v \in Writers \ {w} : /\ pc'[v] = pc[v] /\ link'[v] = link[v]
                                  /\ list'[v] = list[v] /\ rest'[v] = rest[v],
         pc'[w] = "idle" => link'[w] = NoEntries,
         pc'[w] # "idle" => Holds(pc'[w], link'[w], list'[w], rest'[w])
  PROVE  EntriesInv'
<1> SUFFICES ASSUME NEW v \in Writers
             PROVE  /\ pc'[v] = "idle" => link'[v] = NoEntries
                    /\ pc'[v] # "idle" => Holds(pc'[v], link'[v], list'[v], rest'[v])
  BY EntriesAll
<1> QED
  BY HoldsStays

LEMMA EntriesStep ==
  ASSUME TypeOK, MutexInv, EntriesInv, [Next]_vars
  PROVE  EntriesInv'
<1>1. ASSUME NEW w \in Writers, Call(w) PROVE EntriesInv'
  <2>1. PICK s \in Lists : list' = [list EXCEPT ![w] = s] /\ rest' = [rest EXCEPT ![w] = s]
    BY <1>1 DEF Call
  <2>2. /\ pc'[w] = "entries" /\ list'[w] = s /\ rest'[w] = s /\ link'[w] = NoEntries
        /\ \A v \in Writers \ {w} : /\ pc'[v] = pc[v] /\ link'[v] = link[v]
                                    /\ list'[v] = list[v] /\ rest'[v] = rest[v]
    BY <1>1, <2>1 DEF Call, TypeOK, EntriesInv
  <2>3. Chunked(NoEntries, s, s)
    BY ListsAssumption, StartsChunked
  <2>4. Holds("entries", NoEntries, s, s)
    BY <2>3 DEF Holds, NoEntries
  <2> QED
    BY <2>2, <2>4, EntriesOf
<1>2. ASSUME NEW w \in Writers, EndEntries(w) PROVE EntriesInv'
  <2>1. /\ pc[w] = "entries" /\ pc'[w] = "readHead" /\ list' = list /\ rest'[w] = <<>>
        /\ \A v \in Writers \ {w} : /\ pc'[v] = pc[v] /\ link'[v] = link[v]
                                    /\ list'[v] = list[v] /\ rest'[v] = rest[v]
    BY <1>2 DEF EndEntries, TypeOK
  <2>2. PICK l, s, r : l = link[w] /\ s = list[w] /\ r = rest[w]
    OBVIOUS
  <2>3. Holds("entries", l, s, r) /\ l \in EntriesLink /\ r \in Seq(Multihashes)
    BY <2>1, <2>2 DEF EntriesInv, TypeOK
  <2>4. Holds("readHead", link'[w], s, <<>>)
    <3>1. CASE rest[w] = <<>> /\ UNCHANGED link
      <4>1. l.chunks = <<>> => ~Short(s)
        BY <2>2, <2>3, <3>1, EmptySeq DEF Holds, Short
      <4> QED
        BY <2>2, <2>3, <3>1, <4>1 DEF Holds
    <3>2. CASE Inlines(w) /\ link' = [link EXCEPT ![w] = [WithChunk(w) EXCEPT !.inlined = TRUE]]
      <4>1. PICK n : n = link'[w]
        OBVIOUS
      <4>2. /\ l.chunks = <<>> /\ Short(r) /\ r # <<>>
        BY <2>2, <3>2, EmptySeq DEF Inlines, Short
      <4>3. /\ n.chunks = Append(l.chunks, NextChunk(w)) /\ n.inlined = TRUE
        BY <2>2, <2>3, <3>2, <4>1 DEF WithChunk, TypeOK, EntriesLink
      <4>4. PICK c, t : c = NextChunk(w) /\ t = SubSeq(r, Len(c) + 1, Len(r))
        OBVIOUS
      <4>5. Cut(r, c, t)
        BY <2>2, <4>2, <4>4, NextChunkCut
      <4>6. Chunked(n, s, t) /\ t = <<>>
        <5>1. Chunked(l, s, r) /\ n.chunks = Append(l.chunks, c) /\ t = <<>>
          BY <2>3, <4>2, <4>3, <4>4, <4>5 DEF Holds, Cut, Short
        <5> QED
          BY <2>3, <4>2, <4>5, <5>1, ChunkAdded
      <4>7. Short(s)
        BY <2>3, <4>2 DEF Holds
      <4> QED
        BY <4>1, <4>3, <4>6, <4>7 DEF Holds
    <3> QED
      BY <1>2, <3>1, <3>2 DEF EndEntries
  <2> QED
    BY <2>1, <2>2, <2>4, EntriesOf
<1>3. ASSUME NEW w \in Writers, FillChunk(w) PROVE EntriesInv'
  <2>1. /\ pc[w] = "entries" /\ pc' = pc /\ list' = list
        /\ \A v \in Writers \ {w} : /\ pc'[v] = pc[v] /\ link'[v] = link[v]
                                    /\ list'[v] = list[v] /\ rest'[v] = rest[v]
    BY <1>3 DEF FillChunk, TypeOK
  <2>2. PICK l, s, r, n, c, t : /\ l = link[w] /\ s = list[w] /\ r = rest[w]
                                /\ n = link'[w] /\ c = NextChunk(w)
                                /\ t = SubSeq(r, Len(c) + 1, Len(r))
    OBVIOUS
  <2>3. Holds("entries", l, s, r) /\ l \in EntriesLink /\ r \in Seq(Multihashes)
    BY <2>1, <2>2 DEF EntriesInv, TypeOK
  <2>4. n.chunks = Append(l.chunks, c) /\ n.inlined = l.inlined /\ rest'[w] = t
    BY <1>3, <2>2, <2>3 DEF FillChunk, WithChunk, TypeOK, EntriesLink
  <2>5. r # <<>> /\ ~Inlines(w)
    BY <1>3, <2>1, <2>2 DEF FillChunk, Fill, MutexInv
  <2>6. Cut(r, c, t)
    BY <2>2, <2>5, NextChunkCut
  <2>7. Chunked(n, s, t)
    <3>1. Chunked(l, s, r)
      BY <2>3 DEF Holds
    <3> QED
      BY <2>3, <2>4, <2>5, <2>6, <3>1, ChunkAdded
  <2>8. n.chunks # <<>> /\ ~Short(s)
    <3>1. n.chunks # <<>>
      <4>1. l.chunks \in Seq(Seq(Multihashes)) /\ c \in Seq(Multihashes)
        BY <2>3, <2>6 DEF EntriesLink, Cut
      <4> QED
        BY <2>4, <4>1, AppendProperties
    <3>2. l.chunks = <<>> => ~Short(r)
      BY <2>2, <2>5 DEF Inlines, Short
    <3> QED
      BY <2>3, <3>1, <3>2 DEF Holds
  <2>9. Holds("entries", n, s, t)
    BY <2>3, <2>4, <2>7, <2>8 DEF Holds
  <2> QED
    BY <2>1, <2>2, <2>4, <2>9, EntriesOf
<1>4. ASSUME NEW w \in Writers,
             ReadHeadFails(w) \/ ReplaceRefused(w) \/ CreateFails(w) \/ FillHead(w) \/ FillFails(w)
      PROVE  EntriesInv'
  <2>1. Return(w)
    BY <1>4 DEF ReadHeadFails, ReplaceRefused, CreateFails, FillHead, FillFails
  <2>2. /\ pc'[w] = "idle" /\ link'[w] = NoEntries
        /\ \A v \in Writers \ {w} : /\ pc'[v] = pc[v] /\ link'[v] = link[v]
                                    /\ list'[v] = list[v] /\ rest'[v] = rest[v]
    BY <2>1 DEF Return, TypeOK
  <2> QED
    BY <2>2, EntriesOf
<1>5. ASSUME NEW w \in Writers, ReadHead(w) \/ FillAdvert(w) PROVE EntriesInv'
  <2>1. /\ {pc[w], pc'[w]} \cap {"idle", "entries"} = {}
        /\ UNCHANGED <<list, rest, link>>
        /\ \A v \in Writers \ {w} : pc'[v] = pc[v]
    BY <1>5 DEF ReadHead, FillAdvert, TypeOK
  <2> QED
    BY <2>1, HoldsStays, EntriesOf
<1>6. ASSUME Crash PROVE EntriesInv'
  BY <1>6 DEF Crash, EntriesInv, NoEntries
<1>7. CASE UNCHANGED <<pc, list, rest, link>>
  BY <1>7, HoldsStays, EntriesAll
<1>8. ASSUME NEW w \in Writers, Create(w) PROVE EntriesInv'
  BY <1>7, <1>8 DEF Create
<1>9. CASE UNCHANGED vars
  BY <1>7, <1>9 DEF vars
<1> QED
  BY <1>1, <1>2, <1>3, <1>4, <1>5, <1>6, <1>8, <1>9 DEF Next, Step

LEMMA EntriesHeld == EntriesInv => EntriesRight
<1> SUFFICES ASSUME EntriesInv, NEW w \in Writers, pc[w] \notin {"idle", "entries"}
             PROVE  /\ \A m \in Multihashes : Count(Entries(link[w]), m) = Count(list[w], m)
                    /\ \A i \in DOMAIN link[w].chunks : Len(link[w].chunks[i]) \in 1..ChunkSize
                    /\ \A i \in DOMAIN link[w].chunks :
                         i < Len(link[w].chunks) => Len(link[w].chunks[i]) = ChunkSize
                    /\ link[w].inlined <=> Short(list[w])
  BY DEF EntriesRight, Short
<1>1. PICK l, s : l = link[w] /\ s = list[w]
  OBVIOUS
<1>2. Chunked(l, s, <<>>) /\ (l.inlined <=> Short(s))
  BY <1>1 DEF EntriesInv, Holds
<1>3. ASSUME NEW m \in Multihashes PROVE Count(Entries(l), m) = Count(s, m)
  <2>1. IsFiniteSet(DOMAIN Entries(l))
    BY <1>2 DEF Chunked, Entries
  <2>2. Count(Entries(l), m) \in Nat /\ Count(<<>>, m) = 0
    BY <2>1, CountType, CountNone
  <2>3. Count(Entries(l), m) + Count(<<>>, m) = Count(s, m)
    BY <1>2 DEF Chunked
  <2> QED
    BY <2>2, <2>3
<1> QED
  BY <1>1, <1>2, <1>3 DEF Chunked

\* For every list, chunk size and limit of inlining, and whatever fails or stops,
\* the link a writer puts into its advert holds each multihash as often as the
\* list has it, in full chunks but the last, and is inlined exactly when short.
THEOREM EntriesAreRight == Spec => []EntriesRight
<1>1. TypeOK /\ MutexInv /\ EntriesInv /\ [Next]_vars => EntriesInv'
  BY EntriesStep
<1> QED
  BY <1>1, EntriesInit, EntriesHeld, Typed, PTL DEF Spec
=============================================================================
