------------------------- MODULE PublishBatchProofs -------------------------
(***************************************************************************)
(* Theorems about PublishBatch, for any contexts, publishers, batch stores *)
(* and bounds.                                                             *)
(***************************************************************************)
EXTENDS PublishBatch, AdStoreProofs

-----------------------------------------------------------------------------
(* Sequences *)

\* The chain l is m, or continues it.
Extends(l, m) == Len(m) <= Len(l) /\ SubSeq(l, 1, Len(m)) = m

LEMMA SubSeqOfLink ==
  ASSUME NEW S, NEW l \in Seq(S), NEW n \in 0..Len(l)
  PROVE  /\ SubSeq(l, 1, n) \in Seq(S)
         /\ Len(SubSeq(l, 1, n)) = n
         /\ \A k \in 1..n : SubSeq(l, 1, n)[k] = l[k]
<1>1. Len(l) \in Nat /\ \A k \in 1..n : l[k] \in S
  BY LenProperties, ElementOfSeq
<1> QED
  BY <1>1, SubSeqProperties

LEMMA SubSeqTwice ==
  ASSUME NEW S, NEW l \in Seq(S), NEW n \in 0..Len(l), NEW k \in 0..n
  PROVE  SubSeq(SubSeq(l, 1, n), 1, k) = SubSeq(l, 1, k)
<1>1. Len(l) \in Nat
  BY LenProperties
<1>2. /\ SubSeq(l, 1, n) \in Seq(S) /\ Len(SubSeq(l, 1, n)) = n
      /\ \A j \in 1..n : SubSeq(l, 1, n)[j] = l[j]
  BY SubSeqOfLink
<1>3. k \in 0..Len(l)
  BY <1>1
<1>4. /\ SubSeq(l, 1, k) \in Seq(S) /\ Len(SubSeq(l, 1, k)) = k
      /\ \A j \in 1..k : SubSeq(l, 1, k)[j] = l[j]
  BY <1>3, SubSeqOfLink
<1> DEFINE t == SubSeq(l, 1, n)
<1>5. /\ SubSeq(t, 1, k) \in Seq(S) /\ Len(SubSeq(t, 1, k)) = k
      /\ \A j \in 1..k : SubSeq(t, 1, k)[j] = t[j]
  <2>1. t \in Seq(S) /\ k \in 0..Len(t)
    BY <1>2
  <2> HIDE DEF t
  <2> QED
    BY <2>1, SubSeqOfLink
<1>6. \A j \in 1..k : SubSeq(t, 1, k)[j] = SubSeq(l, 1, k)[j]
  BY <1>2, <1>4, <1>5, <1>1
<1> HIDE DEF t
<1>7. SubSeq(t, 1, k) = SubSeq(l, 1, k)
  BY <1>4, <1>5, <1>6, SeqEqual
<1> QED
  BY <1>7 DEF t

\* A chain that continues another goes on doing so when it is appended to.
LEMMA ExtendsAppend ==
  ASSUME NEW S, NEW l \in Seq(S), NEW m \in Seq(S), NEW e \in S, Extends(l, m)
  PROVE  Extends(Append(l, e), m) /\ Append(l, e) # m
<1> DEFINE t == Append(l, e)
<1>1. /\ t \in Seq(S) /\ Len(t) = Len(l) + 1 /\ Len(l) \in Nat /\ Len(m) \in Nat
      /\ SubSeq(t, 1, Len(l)) = l
  <2>1. SubSeq(t, 1, Len(l)) = l
    BY AppendStrict, LenProperties, SubSeqFull DEF IsStrictPrefix, IsPrefix
  <2> QED
    BY <2>1, LenProperties, AppendProperties
<1> HIDE DEF t
<1>2. SubSeq(SubSeq(t, 1, Len(l)), 1, Len(m)) = SubSeq(t, 1, Len(m))
  <2>1. Len(l) \in 0..Len(t) /\ Len(m) \in 0..Len(l)
    BY <1>1 DEF Extends
  <2> QED
    BY <1>1, <2>1, SubSeqTwice
<1>3. Extends(t, m) /\ t # m
  BY <1>1, <1>2 DEF Extends
<1> QED
  BY <1>3 DEF t

LEMMA ExtendsSelf ==
  ASSUME NEW S, NEW l \in Seq(S)
  PROVE  Extends(l, l)
BY LenProperties, SubSeqFull DEF Extends

LEMMA ExtendsLonger ==
  ASSUME NEW S, NEW l \in Seq(S), NEW m \in Seq(S), Extends(l, m), l # m
  PROVE  Len(m) < Len(l) /\ IsStrictPrefix(m, l)
<1>1. Len(l) \in Nat /\ Len(m) \in Nat /\ SubSeq(l, 1, Len(l)) = l /\ SubSeq(m, 1, Len(m)) = m
  BY LenProperties, SubSeqFull
<1> QED
  BY <1>1 DEF Extends, IsStrictPrefix, IsPrefix

LEMMA EmptyExtends == Extends(<<>>, <<>>)
BY EmptySeq, ExtendsSelf

-----------------------------------------------------------------------------
(* Types *)

\* What a call knows of its locals at each of its steps: the planned adverts
\* continue the head it found, and the loops stay within their sequences.
LocalsOK(label, index, asked, found, planned, last) ==
  /\ Extends(last, found)
  /\ planned = <<>> => last = found
  /\ label = "loadMeta" => index \in DOMAIN asked
  /\ label \in {"putAdvert", "commitBatch", "writeChunk", "writeMeta", "replaceHead"}
       => last # found
  /\ label = "putAdvert" => index \in Len(found)+1..Len(last)
  /\ label \in {"writeChunk", "writeMeta", "undoChunk", "undoMeta"}
       => index \in DOMAIN planned

CallOK(p) == LocalsOK(pc[p], i[p], specs[p], base[p], changes[p], prev[p])

TypeInv == TypeOK /\ \A p \in Publishers : CallOK(p)

\* The locals of every publisher but p stay as they are.
OthersRest(p) ==
  \A q \in Publishers \ {p} :
    /\ pc'[q] = pc[q] /\ i'[q] = i[q] /\ specs'[q] = specs[q] /\ base'[q] = base[q]
    /\ records'[q] = records[q] /\ changes'[q] = changes[q] /\ prev'[q] = prev[q]

LEMMA OneMoves ==
  ASSUME TypeInv, NEW p \in Publishers, OthersRest(p), TypeOK', CallOK(p)'
  PROVE  TypeInv'
BY DEF TypeInv, CallOK, OthersRest

\* What returning leaves well formed.
LEMMA ReturnType ==
  ASSUME TypeInv, NEW p \in Publishers, Return(p), StoreTypeOK',
         calls' \in 0..MaxCalls, acked' \subseteq Link, torn' \subseteq Contexts
  PROVE  TypeInv'
<1>1. <<>> \in Link /\ <<>> \in Seq(AdvertSpec) /\ <<>> \in Seq(ContextChange)
  BY EmptySeq DEF Link
<1>2. NoRecords \in [Contexts -> ContextRecord]
  BY DEF NoRecords, NoRecord, ContextRecord
<1>3. TypeOK' /\ OthersRest(p)
  BY <1>1, <1>2 DEF TypeInv, TypeOK, Return, Goto, Labels, OthersRest
<1>4. CallOK(p)'
  <2>1. /\ pc'[p] = "idle" /\ base'[p] = <<>> /\ prev'[p] = <<>>
    BY DEF TypeInv, TypeOK, Return, Goto
  <2> QED
    BY <2>1, EmptyExtends DEF CallOK, LocalsOK
<1> QED
  BY <1>3, <1>4, OneMoves

\* What a step to another label or index leaves well formed.
LEMMA GotoType ==
  ASSUME TypeInv, NEW p \in Publishers, NEW label \in Labels, NEW index \in Nat \ {0},
         Goto(p, label, index), UNCHANGED <<specs, base, changes, prev>>,
         records' \in [Publishers -> [Contexts -> ContextRecord]],
         \A q \in Publishers \ {p} : records'[q] = records[q],
         LocalsOK(label, index, specs[p], base[p], changes[p], prev[p]),
         StoreTypeOK', calls' \in 0..MaxCalls, acked' \subseteq Link, torn' \subseteq Contexts
  PROVE  TypeInv'
<1>1. TypeOK' /\ OthersRest(p)
  BY DEF TypeInv, TypeOK, Goto, OthersRest
<1>2. CallOK(p)'
  <2>1. pc'[p] = label /\ i'[p] = index
    BY DEF TypeInv, TypeOK, Goto
  <2> QED
    BY <2>1 DEF CallOK
<1> QED
  BY <1>1, <1>2, OneMoves

LEMMA CurrentType ==
  ASSUME TypeOK, NEW p \in Publishers, NEW c \in Contexts
  PROVE  Current(p, c) \in ContextRecord
<1>1. changes[p] \in Seq(ContextChange) /\ records[p][c] \in ContextRecord
  BY DEF TypeOK
<1>2. \A k \in DOMAIN changes[p] : changes[p][k].new \in ContextRecord
  <2>1. \A k \in DOMAIN changes[p] : changes[p][k] \in ContextChange
    BY <1>1, LenProperties, ElementOfSeq
  <2> QED
    BY <2>1 DEF ContextChange
<1>3. CASE c \in ChangedContexts(p)
  <2>1. PICK k \in DOMAIN changes[p] : changes[p][k].ctx = c
    BY <1>3 DEF ChangedContexts
  <2>2. (CHOOSE n \in DOMAIN changes[p] : changes[p][n].ctx = c) \in DOMAIN changes[p]
    BY <2>1
  <2> QED
    BY <1>2, <1>3, <2>2 DEF Current
<1> QED
  BY <1>1, <1>3 DEF Current

LEMMA SpecType ==
  ASSUME TypeOK, NEW p \in Publishers, i[p] <= Len(specs[p])
  PROVE  i[p] \in DOMAIN specs[p] /\ ASpec(p) \in AdvertSpec
<1>1. specs[p] \in Seq(AdvertSpec) /\ i[p] \in Nat \ {0}
  BY DEF TypeOK
<1>2. i[p] \in 1..Len(specs[p]) /\ DOMAIN specs[p] = 1..Len(specs[p])
  BY <1>1, LenProperties
<1> QED
  BY <1>1, <1>2, ElementOfSeq DEF ASpec

LEMMA NextRecordType ==
  ASSUME NEW cur \in ContextRecord, NEW s \in AdvertSpec
  PROVE  /\ NextRecord(cur, s) \in ContextRecord
         /\ [ctx |-> s.ctx, entries |-> NextRecord(cur, s).chunk,
             md |-> NextRecord(cur, s).md] \in Advert
BY DEF NextRecord, ContextRecord, AdvertSpec, Advert

LEMMA PlannedType ==
  ASSUME TypeOK, NEW p \in Publishers, NEW s \in AdvertSpec, NEW next \in ContextRecord
  PROVE  Planned(p, s, next) \in Seq(ContextChange) /\ Planned(p, s, next) # <<>>
<1>1. changes[p] \in Seq(ContextChange) /\ records[p][s.ctx] \in ContextRecord /\ s.ctx \in Contexts
  BY DEF TypeOK, AdvertSpec
<1>2. CASE s.ctx \in ChangedContexts(p)
  <2>1. PICK n \in DOMAIN changes[p] : TRUE
    BY <1>2 DEF ChangedContexts
  <2>2. /\ Len(changes[p]) \in Nat /\ DOMAIN changes[p] = 1..Len(changes[p])
        /\ \A k \in DOMAIN changes[p] : changes[p][k] \in ContextChange
    BY <1>1, LenProperties, ElementOfSeq
  <2> DEFINE t == [k \in DOMAIN changes[p] |->
          IF changes[p][k].ctx = s.ctx THEN [changes[p][k] EXCEPT !.new = next]
                                       ELSE changes[p][k]]
  <2>3. \A k \in DOMAIN changes[p] : t[k] \in ContextChange
    BY <2>2 DEF ContextChange
  <2>4. t \in [1..Len(changes[p]) -> ContextChange] /\ DOMAIN t # {}
    BY <2>1, <2>2, <2>3
  <2>5. t \in Seq(ContextChange)
    BY <2>2, <2>4, IsASeq
  <2>6. DOMAIN <<>> = {}
    BY EmptySeq, LenProperties
  <2>7. t # <<>>
    BY <2>4, <2>6
  <2> QED
    BY <1>2, <2>5, <2>7 DEF Planned
<1>3. CASE s.ctx \notin ChangedContexts(p)
  <2>1. [ctx |-> s.ctx, old |-> records[p][s.ctx], new |-> next] \in ContextChange
    BY <1>1 DEF ContextChange
  <2>2. Planned(p, s, next) = Append(changes[p], [ctx |-> s.ctx, old |-> records[p][s.ctx], new |-> next])
    BY <1>3 DEF Planned
  <2> QED
    BY <1>1, <2>1, <2>2, AppendProperties
<1> QED
  BY <1>2, <1>3

\* The change being written or undone, and the advert being stored.
LEMMA ChangeType ==
  ASSUME TypeInv, NEW p \in Publishers,
         pc[p] \in {"writeChunk", "writeMeta", "undoChunk", "undoMeta"}
  PROVE  Change(p) \in ContextChange
<1>1. changes[p] \in Seq(ContextChange) /\ i[p] \in DOMAIN changes[p]
  BY DEF TypeInv, TypeOK, CallOK, LocalsOK
<1> QED
  BY <1>1, LenProperties, ElementOfSeq DEF Change

LEMMA PlannedLink ==
  ASSUME TypeInv, NEW p \in Publishers, pc[p] = "putAdvert"
  PROVE  i[p] \in 0..Len(prev[p]) /\ SubSeq(prev[p], 1, i[p]) \in Link
<1>1. prev[p] \in Seq(Advert) /\ base[p] \in Seq(Advert) /\ i[p] \in Len(base[p])+1..Len(prev[p])
  BY DEF TypeInv, TypeOK, CallOK, LocalsOK, Link
<1>2. Len(prev[p]) \in Nat /\ Len(base[p]) \in Nat
  BY <1>1, LenProperties
<1>3. i[p] \in 0..Len(prev[p])
  BY <1>1, <1>2
<1> QED
  BY <1>1, <1>3, SubSeqOfLink DEF Link

\* The writing of a batch that has planned an advert begins with its first one.
LEMMA RollbackType ==
  ASSUME TypeInv, NEW p \in Publishers, NEW n \in DOMAIN changes[p], Rollback(p, n),
         UNCHANGED <<specs, base, records, prev, acked, torn, calls>>, StoreTypeOK'
  PROVE  TypeInv'
<1>1. changes[p] \in Seq(ContextChange) /\ DOMAIN changes[p] = 1..Len(changes[p])
      /\ Len(changes[p]) \in Nat
  BY LenProperties DEF TypeInv, TypeOK
<1>2. n \in 0..Len(changes[p]) /\ n >= 1
  BY <1>1
<1> DEFINE t == SubSeq(changes[p], 1, n)
<1>3. t \in Seq(ContextChange) /\ Len(t) = n
  BY <1>1, <1>2, SubSeqOfLink
<1>4. 1 \in DOMAIN t /\ t # <<>>
  BY <1>2, <1>3, LenProperties, EmptySeq
<1>5. /\ pc' = [pc EXCEPT ![p] = "undoChunk"] /\ i' = [i EXCEPT ![p] = 1]
      /\ changes' = [changes EXCEPT ![p] = t]
  BY DEF Rollback, Goto
<1> HIDE DEF t
<1>6. TypeOK' /\ OthersRest(p)
  BY <1>3, <1>5 DEF TypeInv, TypeOK, Labels, OthersRest
<1>7. CallOK(p)'
  <2>1. /\ pc'[p] = "undoChunk" /\ i'[p] = 1 /\ changes'[p] = t
        /\ Extends(prev[p], base[p])
    BY <1>5 DEF TypeInv, TypeOK, CallOK, LocalsOK
  <2> QED
    BY <2>1, <1>4 DEF CallOK, LocalsOK
<1> QED
  BY <1>6, <1>7, OneMoves

LEMMA ReadStepsType ==
  ASSUME TypeInv, NEW p \in Publishers, UNCHANGED calls,
         \/ ReadHead(p) \/ LoadChunk(p) \/ LoadMeta(p) \/ AllLoaded(p)
         \/ LoadContexts(p) \/ LoadFails(p)
  PROVE  TypeInv'
<1>t. TypeOK /\ StoreTypeOK /\ CallOK(p) /\ i[p] \in Nat \ {0} /\ i[p] + 1 \in Nat \ {0}
      /\ 1 \in Nat \ {0}
  BY DEF TypeInv, TypeOK
<1>u. UNCHANGED store => StoreTypeOK'
  BY <1>t, StoreCallsType
<1>1. CASE ReadHead(p)
  <2>1. head \in Link
    BY <1>t DEF StoreTypeOK
  <2>2. TypeOK' /\ OthersRest(p)
    BY <1>1, <1>t, <1>u, <2>1 DEF ReadHead, Goto, TypeOK, Labels, OthersRest
  <2>3. pc'[p] = "loadChunk" /\ base'[p] = head /\ prev'[p] = head
    BY <1>1, <1>t DEF ReadHead, Goto, TypeOK
  <2>4. Extends(head, head)
    BY <2>1, ExtendsSelf DEF Link
  <2>5. CallOK(p)'
    BY <2>3, <2>4 DEF CallOK, LocalsOK
  <2> QED
    BY <2>2, <2>5, OneMoves
<1>2. CASE LoadChunk(p)
  <2>1. i[p] \in DOMAIN specs[p] /\ ASpec(p).ctx \in Contexts
    BY <1>2, <1>t, SpecType DEF LoadChunk, AdvertSpec
  <2>2. CASE Loaded(p)
    <3>1. LocalsOK(pc[p], i[p] + 1, specs[p], base[p], changes[p], prev[p])
      BY <1>2, <1>t DEF LoadChunk, CallOK, LocalsOK
    <3>2. pc[p] \in Labels /\ records \in [Publishers -> [Contexts -> ContextRecord]]
      BY <1>t DEF TypeOK
    <3> QED
      BY <1>2, <1>t, <1>u, <2>2, <3>1, <3>2, GotoType DEF LoadChunk, Advance, TypeOK
  <2>3. CASE ~Loaded(p)
    <3>1. LocalsOK("loadMeta", i[p], specs[p], base[p], changes[p], prev[p])
      BY <1>2, <1>t, <2>1 DEF LoadChunk, CallOK, LocalsOK
    <3> DEFINE r == [records[p][ASpec(p).ctx] EXCEPT !.chunk = chunkLink[ASpec(p).ctx]]
    <3>2. r \in ContextRecord
      <4>1. records[p][ASpec(p).ctx] \in ContextRecord
        BY <1>t, <2>1 DEF TypeOK
      <4>2. chunkLink[ASpec(p).ctx] \in Digests \cup {Nil}
        BY <1>t, <2>1 DEF StoreTypeOK
      <4> QED
        BY <4>1, <4>2 DEF ContextRecord
    <3>3. records' = [records EXCEPT ![p] = [records[p] EXCEPT ![ASpec(p).ctx] = r]]
      BY <1>2, <2>3 DEF LoadChunk
    <3> HIDE DEF r
    <3>4. /\ records' \in [Publishers -> [Contexts -> ContextRecord]]
          /\ \A q \in Publishers \ {p} : records'[q] = records[q]
      BY <1>t, <2>1, <3>2, <3>3 DEF TypeOK
    <3>5. "loadMeta" \in Labels
      BY DEF Labels
    <3> QED
      BY <1>2, <1>t, <1>u, <2>3, <3>1, <3>4, <3>5, GotoType DEF LoadChunk, TypeOK
  <2> QED
    BY <2>2, <2>3
<1>3. CASE LoadMeta(p)
  <2>1. i[p] \in DOMAIN specs[p]
    BY <1>3, <1>t DEF LoadMeta, CallOK, LocalsOK
  <2>2. ASpec(p).ctx \in Contexts
    <3>1. specs[p] \in Seq(AdvertSpec)
      BY <1>t DEF TypeOK
    <3>2. ASpec(p) \in AdvertSpec
      BY <3>1, <2>1, LenProperties, ElementOfSeq DEF ASpec
    <3> QED
      BY <3>2 DEF AdvertSpec
  <2>3. LocalsOK("loadChunk", i[p] + 1, specs[p], base[p], changes[p], prev[p])
    BY <1>3, <1>t DEF LoadMeta, CallOK, LocalsOK
  <2> DEFINE r == [records[p][ASpec(p).ctx] EXCEPT !.md = metadata[ASpec(p).ctx]]
  <2>4. r \in ContextRecord
    <3>1. records[p][ASpec(p).ctx] \in ContextRecord
      BY <1>t, <2>2 DEF TypeOK
    <3>2. metadata[ASpec(p).ctx] \in Metadatas \cup {Nil}
      BY <1>t, <2>2 DEF StoreTypeOK
    <3> QED
      BY <3>1, <3>2 DEF ContextRecord
  <2>5. records' = [records EXCEPT ![p] = [records[p] EXCEPT ![ASpec(p).ctx] = r]]
    BY <1>3 DEF LoadMeta
  <2> HIDE DEF r
  <2>6. /\ records' \in [Publishers -> [Contexts -> ContextRecord]]
        /\ \A q \in Publishers \ {p} : records'[q] = records[q]
    BY <1>t, <2>2, <2>4, <2>5 DEF TypeOK
  <2>7. "loadChunk" \in Labels
    BY DEF Labels
  <2> QED
    BY <1>3, <1>t, <1>u, <2>3, <2>6, <2>7, GotoType DEF LoadMeta, TypeOK
<1>4. CASE AllLoaded(p)
  <2>1. LocalsOK("plan", 1, specs[p], base[p], changes[p], prev[p]) /\ "plan" \in Labels
    BY <1>4, <1>t DEF AllLoaded, CallOK, LocalsOK, Labels
  <2> QED
    BY <1>4, <1>t, <1>u, <2>1, GotoType DEF AllLoaded, TypeOK
<1>5. CASE LoadContexts(p)
  <2>1. LocalsOK("plan", 1, specs[p], base[p], changes[p], prev[p]) /\ "plan" \in Labels
    BY <1>5, <1>t DEF LoadContexts, CallOK, LocalsOK, Labels
  <2> DEFINE f == [c \in Contexts |-> IF \E k \in DOMAIN specs[p] : specs[p][k].ctx = c
                                      THEN Record(c) ELSE NoRecord]
  <2>2. f \in [Contexts -> ContextRecord]
    <3>1. \A c \in Contexts : Record(c) \in ContextRecord /\ NoRecord \in ContextRecord
      BY <1>t DEF Record, NoRecord, ContextRecord, StoreTypeOK
    <3> QED
      BY <3>1
  <2>3. records' = [records EXCEPT ![p] = f]
    BY <1>5 DEF LoadContexts
  <2> HIDE DEF f
  <2>4. /\ records' \in [Publishers -> [Contexts -> ContextRecord]]
        /\ \A q \in Publishers \ {p} : records'[q] = records[q]
    BY <1>t, <2>2, <2>3 DEF TypeOK
  <2> QED
    BY <1>5, <1>t, <1>u, <2>1, <2>4, GotoType DEF LoadContexts, TypeOK
<1>6. CASE LoadFails(p)
  BY <1>6, <1>t, <1>u, ReturnType DEF LoadFails, ReadFails, TypeOK
<1> QED
  BY <1>1, <1>2, <1>3, <1>4, <1>5, <1>6

LEMMA PlanSpecType ==
  ASSUME TypeInv, NEW p \in Publishers, UNCHANGED calls, PlanSpec(p)
  PROVE  TypeInv'
<1>t. /\ TypeOK /\ StoreTypeOK /\ CallOK(p) /\ i[p] \in Nat \ {0} /\ i[p] + 1 \in Nat \ {0}
      /\ pc[p] = "plan" /\ i[p] <= Len(specs[p])
      /\ changes[p] \in Seq(ContextChange) /\ prev[p] \in Seq(Advert) /\ base[p] \in Seq(Advert)
  BY DEF TypeInv, TypeOK, PlanSpec, Link
<1> DEFINE s == ASpec(p)
           cur == Current(p, s.ctx)
           next == NextRecord(cur, s)
           ad == [ctx |-> s.ctx, entries |-> next.chunk, md |-> next.md]
<1>1. s \in AdvertSpec /\ s.ctx \in Contexts /\ s.digests \in Digests
  BY <1>t, SpecType DEF AdvertSpec
<1>2. cur \in ContextRecord
  BY <1>t, <1>1, CurrentType
<1>3. next \in ContextRecord /\ ad \in Advert
  <2> HIDE DEF cur, s
  <2> QED
    BY <1>1, <1>2, NextRecordType
<1>4. CASE AlreadyAdvertised(cur, s)
  <2>1. UNCHANGED <<store, changes, prev>> /\ Goto(p, "plan", i[p] + 1)
        /\ UNCHANGED <<specs, base, records, acked, torn>>
    BY <1>4, <1>t DEF PlanSpec, Advance
  <2>2. LocalsOK("plan", i[p] + 1, specs[p], base[p], changes[p], prev[p]) /\ "plan" \in Labels
    BY <1>t DEF CallOK, LocalsOK, Labels
  <2> QED
    BY <1>t, <2>1, <2>2, StoreCallsType, GotoType DEF TypeOK
<1>5. CASE ~AlreadyAdvertised(cur, s)
  <2>1. /\ IF cur.chunk = Nil THEN PutEntries(s.digests) ELSE UNCHANGED store
        /\ changes' = [changes EXCEPT ![p] = Planned(p, s, next)]
        /\ prev' = [prev EXCEPT ![p] = Append(prev[p], ad)]
        /\ Goto(p, "plan", i[p] + 1) /\ UNCHANGED <<specs, base, records, acked, torn>>
    BY <1>5, <1>t DEF PlanSpec, Advance
  <2>2. StoreTypeOK'
    BY <2>1, <1>1, <1>t, StoreCallsType
  <2>3. Planned(p, s, next) \in Seq(ContextChange) /\ Planned(p, s, next) # <<>>
    <3> HIDE DEF next, s
    <3> QED
      BY <1>t, <1>1, <1>3, PlannedType
  <2>4. Append(prev[p], ad) \in Seq(Advert)
    BY <1>t, <1>3
  <2>5. Extends(Append(prev[p], ad), base[p])
    <3>1. Extends(prev[p], base[p])
      BY <1>t DEF CallOK, LocalsOK
    <3> HIDE DEF ad
    <3> QED
      BY <3>1, <1>t, <1>3, ExtendsAppend
  <2> DEFINE pl == Planned(p, s, next)
             l == Append(prev[p], ad)
  <2> HIDE DEF pl, l, ad, next, cur, s
  <2>6. /\ changes' = [changes EXCEPT ![p] = pl] /\ pl \in Seq(ContextChange) /\ pl # <<>>
        /\ prev' = [prev EXCEPT ![p] = l] /\ l \in Seq(Advert) /\ Extends(l, base[p])
    BY <2>1, <2>3, <2>4, <2>5 DEF pl, l
  <2>7. TypeOK' /\ OthersRest(p)
    BY <1>t, <2>1, <2>2, <2>6 DEF TypeOK, Goto, Labels, Link, OthersRest
  <2>8. CallOK(p)'
    <3>1. pc'[p] = "plan" /\ changes'[p] = pl /\ prev'[p] = l /\ base'[p] = base[p]
      BY <1>t, <2>1, <2>6 DEF TypeOK, Goto
    <3> QED
      BY <3>1, <2>6 DEF CallOK, LocalsOK
  <2> QED
    BY <2>7, <2>8, OneMoves
<1> QED
  BY <1>4, <1>5

LEMMA PlanStepsType ==
  ASSUME TypeInv, NEW p \in Publishers, UNCHANGED calls,
         \/ PlanFails(p) \/ NothingToCommit(p) \/ AllPlanned(p)
         \/ PutAd(p) \/ PutAdvertsFails(p)
  PROVE  TypeInv'
<1>t. /\ TypeOK /\ StoreTypeOK /\ CallOK(p) /\ i[p] \in Nat \ {0} /\ i[p] + 1 \in Nat \ {0}
      /\ 1 \in Nat \ {0}
      /\ prev[p] \in Seq(Advert) /\ base[p] \in Seq(Advert)
      /\ acked \subseteq Link /\ torn \subseteq Contexts /\ calls \in 0..MaxCalls
      /\ records \in [Publishers -> [Contexts -> ContextRecord]]
  BY DEF TypeInv, TypeOK, Link
<1>u. UNCHANGED store => StoreTypeOK'
  BY <1>t, StoreCallsType
<1>1. CASE PlanFails(p)
  <2>1. ASpec(p).digests \in Digests
    BY <1>1, <1>t, SpecType DEF PlanFails, AdvertSpec
  <2>2. StoreTypeOK'
    BY <1>1, <1>t, <1>u, <2>1, StoreCallsType DEF PlanFails, WriteFails, ReadFails
  <2> QED
    BY <1>1, <1>t, <2>2, ReturnType DEF PlanFails
<1>2. CASE NothingToCommit(p)
  <2>1. acked' \subseteq Link
    BY <1>2, <1>t DEF NothingToCommit, Link
  <2> QED
    BY <1>2, <1>t, <1>u, <2>1, ReturnType DEF NothingToCommit
<1>3. CASE AllPlanned(p)
  <2>1. Extends(prev[p], base[p]) /\ prev[p] # base[p]
    BY <1>3, <1>t DEF AllPlanned, CallOK, LocalsOK
  <2>2. Len(base[p]) < Len(prev[p]) /\ Len(base[p]) \in Nat /\ Len(prev[p]) \in Nat
    BY <2>1, <1>t, ExtendsLonger, LenProperties
  <2>3. Len(base[p]) + 1 \in Nat \ {0} /\ Len(base[p]) + 1 \in Len(base[p])+1..Len(prev[p])
    BY <2>2
  <2>4. LocalsOK("putAdvert", Len(base[p]) + 1, specs[p], base[p], changes[p], prev[p])
        /\ "putAdvert" \in Labels
    BY <2>1, <2>3, <1>t DEF CallOK, LocalsOK, Labels
  <2> QED
    BY <1>3, <1>t, <1>u, <2>3, <2>4, GotoType DEF AllPlanned
<1>4. CASE PutAd(p)
  <2>1. i[p] \in 0..Len(prev[p]) /\ SubSeq(prev[p], 1, i[p]) \in Link
    BY <1>4, PlannedLink DEF PutAd
  <2>2. StoreTypeOK'
    BY <1>4, <1>t, <2>1, StoreCallsType DEF PutAd
  <2>3. /\ pc[p] = "putAdvert" /\ prev[p] # base[p] /\ Extends(prev[p], base[p])
        /\ changes[p] = <<>> => prev[p] = base[p]
        /\ i[p] \in Len(base[p])+1..Len(prev[p])
    BY <1>4, <1>t DEF PutAd, CallOK, LocalsOK
  <2>4. CASE i[p] < Len(prev[p])
    <3>0. Len(base[p]) \in Nat /\ Len(prev[p]) \in Nat
      BY <1>t, LenProperties
    <3>1. i[p] + 1 \in Len(base[p])+1..Len(prev[p])
      BY <2>3, <2>4, <3>0
    <3>2. LocalsOK("putAdvert", i[p] + 1, specs[p], base[p], changes[p], prev[p])
          /\ "putAdvert" \in Labels
      BY <2>3, <3>1 DEF LocalsOK, Labels
    <3>3. Goto(p, "putAdvert", i[p] + 1)
      BY <1>4, <2>3, <2>4 DEF PutAd, Advance
    <3> QED
      BY <1>4, <1>t, <2>2, <3>2, <3>3, GotoType DEF PutAd
  <2>5. CASE ~(i[p] < Len(prev[p]))
    <3>1. PICK a \in {"commitBatch", "writeChunk"} :
            Goto(p, a, 1) /\ (a = "writeChunk" => ~Transactional)
      BY <1>4, <2>5, ModeAssumption DEF PutAd
    <3>2. changes[p] # <<>> /\ changes[p] \in Seq(ContextChange)
      BY <2>3, <1>t DEF TypeOK
    <3>3. 1 \in DOMAIN changes[p]
      <4>1. Len(changes[p]) \in Nat /\ Len(changes[p]) # 0 /\ DOMAIN changes[p] = 1..Len(changes[p])
        BY <3>2, EmptySeq, LenProperties
      <4> QED
        BY <4>1
    <3>4. LocalsOK(a, 1, specs[p], base[p], changes[p], prev[p]) /\ a \in Labels
      BY <2>3, <3>3 DEF LocalsOK, Labels
    <3> QED
      BY <1>4, <1>t, <2>2, <3>1, <3>4, GotoType DEF PutAd
  <2> QED
    BY <2>4, <2>5
<1>5. CASE PutAdvertsFails(p)
  <2>1. SubSeq(prev[p], 1, i[p]) \in Link
    BY <1>5, PlannedLink DEF PutAdvertsFails
  <2>2. StoreTypeOK'
    BY <1>5, <1>t, <1>u, <2>1, StoreCallsType DEF PutAdvertsFails, WriteFails
  <2> QED
    BY <1>5, <1>t, <2>2, ReturnType DEF PutAdvertsFails
<1> QED
  BY <1>1, <1>2, <1>3, <1>4, <1>5

LEMMA CommitStepsType ==
  ASSUME TypeInv, NEW p \in Publishers, UNCHANGED calls,
         \/ CommitBatch(p) \/ CommitBatchFails(p) \/ CommitHead(p) \/ CommitHeadFails(p)
  PROVE  TypeInv'
<1>t. /\ TypeOK /\ StoreTypeOK /\ CallOK(p)
      /\ prev[p] \in Link /\ base[p] \in Link
      /\ acked \subseteq Link /\ torn \subseteq Contexts /\ calls \in 0..MaxCalls
  BY DEF TypeInv, TypeOK
<1>u. UNCHANGED store => StoreTypeOK'
  BY <1>t, StoreCallsType
<1>a. ASSUME ApplyBatch(p) PROVE StoreTypeOK'
  <2>1. \A c \in Contexts : Current(p, c).chunk \in Digests \cup {Nil}
                            /\ Current(p, c).md \in Metadatas \cup {Nil}
    BY <1>t, CurrentType DEF ContextRecord
  <2>2. \A c \in Contexts : chunkLink[c] \in Digests \cup {Nil} /\ metadata[c] \in Metadatas \cup {Nil}
    BY <1>t DEF StoreTypeOK
  <2>3. chunkLink' \in [Contexts -> Digests \cup {Nil}]
    BY <1>a, <2>1, <2>2 DEF ApplyBatch
  <2>4. metadata' \in [Contexts -> Metadatas \cup {Nil}]
    BY <1>a, <2>1, <2>2 DEF ApplyBatch
  <2>5. head' = prev[p] /\ UNCHANGED <<adverts, blocks>>
    BY <1>a DEF ApplyBatch
  <2> QED
    BY <1>t, <2>3, <2>4, <2>5 DEF StoreTypeOK
<1>c. ASSUME Commit(p), StoreTypeOK' PROVE TypeInv'
  <2>1. acked' \subseteq Link /\ torn' \subseteq Contexts /\ Return(p)
    BY <1>c, <1>t DEF Commit
  <2> QED
    BY <1>c, <1>t, <2>1, ReturnType
<1>1. CASE CommitBatch(p)
  BY <1>1, <1>a, <1>c DEF CommitBatch
<1>2. CASE CommitBatchFails(p)
  <2>1. StoreTypeOK'
    BY <1>2, <1>a, <1>u DEF CommitBatchFails
  <2> QED
    BY <1>2, <2>1, <1>t, ReturnType DEF CommitBatchFails
<1>3. CASE CommitHead(p)
  BY <1>3, <1>c, <1>t, StoreCallsType DEF CommitHead
<1>4. CASE CommitHeadFails(p)
  <2>1. StoreTypeOK'
    BY <1>4, <1>t, <1>u, StoreCallsType DEF CommitHeadFails, ReplaceHeadFails
  <2>2. changes[p] # <<>> /\ changes[p] \in Seq(ContextChange)
    BY <1>4, <1>t DEF CommitHeadFails, CallOK, LocalsOK, TypeOK
  <2>3. Len(changes[p]) \in DOMAIN changes[p]
    <3>1. Len(changes[p]) \in Nat /\ Len(changes[p]) # 0 /\ DOMAIN changes[p] = 1..Len(changes[p])
      BY <2>2, EmptySeq, LenProperties
    <3> QED
      BY <3>1
  <2> QED
    BY <1>4, <2>1, <2>3, RollbackType DEF CommitHeadFails
<1> QED
  BY <1>1, <1>2, <1>3, <1>4

LEMMA RecordStepsType ==
  ASSUME TypeInv, NEW p \in Publishers, UNCHANGED calls,
         \/ WriteChunk(p) \/ WriteMeta(p) \/ WriteRecordFails(p)
         \/ UndoChunk(p) \/ UndoMeta(p)
  PROVE  TypeInv'
<1>t. /\ TypeOK /\ StoreTypeOK /\ CallOK(p) /\ i[p] \in Nat \ {0} /\ i[p] + 1 \in Nat \ {0}
      /\ 1 \in Nat \ {0}
      /\ acked \subseteq Link /\ torn \subseteq Contexts /\ calls \in 0..MaxCalls
      /\ records \in [Publishers -> [Contexts -> ContextRecord]]
      /\ changes[p] \in Seq(ContextChange)
  BY DEF TypeInv, TypeOK
<1>u. UNCHANGED store => StoreTypeOK'
  BY <1>t, StoreCallsType
<1>w. pc[p] \in {"writeChunk", "writeMeta", "undoChunk", "undoMeta"}
  BY DEF WriteChunk, WriteMeta, WriteRecordFails, UndoChunk, UndoMeta
<1>c. Change(p) \in ContextChange /\ i[p] \in DOMAIN changes[p]
      /\ DOMAIN changes[p] = 1..Len(changes[p]) /\ Len(changes[p]) \in Nat
  BY <1>w, <1>t, ChangeType, LenProperties DEF CallOK, LocalsOK
<1>d. /\ Change(p).ctx \in Contexts
      /\ Change(p).new.chunk \in Digests \cup {Nil} /\ Change(p).new.md \in Metadatas \cup {Nil}
      /\ Change(p).old.chunk \in Digests \cup {Nil} /\ Change(p).old.md \in Metadatas \cup {Nil}
  BY <1>c DEF ContextChange, ContextRecord
<1>n. i[p] < Len(changes[p]) => i[p] + 1 \in DOMAIN changes[p]
  BY <1>c, <1>t
<1>1. CASE WriteChunk(p)
  <2>1. StoreTypeOK'
    BY <1>1, <1>t, <1>u, <1>d, StoreCallsType DEF WriteChunk
  <2>2. LocalsOK("writeMeta", i[p], specs[p], base[p], changes[p], prev[p])
        /\ "writeMeta" \in Labels
    BY <1>1, <1>t, <1>c DEF WriteChunk, CallOK, LocalsOK, Labels
  <2> QED
    BY <1>1, <1>t, <2>1, <2>2, GotoType DEF WriteChunk
<1>2. CASE WriteMeta(p)
  <2>1. StoreTypeOK'
    BY <1>2, <1>t, <1>u, <1>d, StoreCallsType DEF WriteMeta
  <2>2. CASE i[p] < Len(changes[p])
    <3>1. LocalsOK("writeChunk", i[p] + 1, specs[p], base[p], changes[p], prev[p])
          /\ "writeChunk" \in Labels
      BY <1>2, <1>t, <1>n, <2>2 DEF WriteMeta, CallOK, LocalsOK, Labels
    <3> QED
      BY <1>2, <1>t, <2>1, <2>2, <3>1, GotoType DEF WriteMeta
  <2>3. CASE ~(i[p] < Len(changes[p]))
    <3>1. LocalsOK("replaceHead", 1, specs[p], base[p], changes[p], prev[p])
          /\ "replaceHead" \in Labels
      BY <1>2, <1>t DEF WriteMeta, CallOK, LocalsOK, Labels
    <3> QED
      BY <1>2, <1>t, <2>1, <2>3, <3>1, GotoType DEF WriteMeta
  <2> QED
    BY <2>2, <2>3
<1>3. CASE WriteRecordFails(p)
  <2>1. StoreTypeOK'
    BY <1>3, <1>t, <1>u, <1>d, StoreCallsType DEF WriteRecordFails, WriteFails
  <2> QED
    BY <1>3, <1>c, <2>1, RollbackType DEF WriteRecordFails
<1>4. CASE UndoChunk(p)
  <2>1. StoreTypeOK' /\ torn' \subseteq Contexts
    BY <1>4, <1>t, <1>u, <1>d, StoreCallsType DEF UndoChunk, WriteFails
  <2>2. LocalsOK("undoMeta", i[p], specs[p], base[p], changes[p], prev[p])
        /\ "undoMeta" \in Labels
    BY <1>4, <1>t, <1>c DEF UndoChunk, CallOK, LocalsOK, Labels
  <2> QED
    BY <1>4, <1>t, <2>1, <2>2, GotoType DEF UndoChunk
<1>5. CASE UndoMeta(p)
  <2>1. StoreTypeOK' /\ torn' \subseteq Contexts
    BY <1>5, <1>t, <1>u, <1>d, StoreCallsType DEF UndoMeta, WriteFails
  <2>2. CASE i[p] < Len(changes[p])
    <3>1. LocalsOK("undoChunk", i[p] + 1, specs[p], base[p], changes[p], prev[p])
          /\ "undoChunk" \in Labels
      BY <1>5, <1>t, <1>n, <2>2 DEF UndoMeta, CallOK, LocalsOK, Labels
    <3> QED
      BY <1>5, <1>t, <2>1, <2>2, <3>1, GotoType DEF UndoMeta
  <2>3. CASE ~(i[p] < Len(changes[p]))
    BY <1>5, <1>t, <2>1, <2>3, ReturnType DEF UndoMeta
  <2> QED
    BY <2>2, <2>3
<1> QED
  BY <1>1, <1>2, <1>3, <1>4, <1>5

LEMMA CallCrashType ==
  ASSUME TypeInv, NEW p \in Publishers, Call(p) \/ (Crash(p) /\ UNCHANGED calls)
  PROVE  TypeInv'
<1>t. /\ TypeOK /\ StoreTypeOK /\ CallOK(p) /\ 1 \in Nat \ {0}
      /\ acked \subseteq Link /\ torn \subseteq Contexts /\ calls \in 0..MaxCalls
  BY DEF TypeInv, TypeOK
<1>u. UNCHANGED store => StoreTypeOK'
  BY <1>t, StoreCallsType
<1>1. CASE Call(p)
  <2>1. PICK s \in BoundedSeq({r \in AdvertSpec : r.ctx \in Owns[p]}, MaxSpecs) :
          specs' = [specs EXCEPT ![p] = s]
    BY <1>1 DEF Call
  <2>2. s \in Seq(AdvertSpec)
    <3>1. PICK m \in 0..MaxSpecs : s \in [1..m -> {r \in AdvertSpec : r.ctx \in Owns[p]}]
      BY <2>1 DEF BoundedSeq, SeqOf
    <3>2. m \in Nat /\ s \in [1..m -> AdvertSpec]
      BY <3>1, BoundsAssumption
    <3> QED
      BY <3>2, IsASeq
  <2>3. calls' \in 0..MaxCalls
    BY <1>1, <1>t, BoundsAssumption DEF Call
  <2>4. TypeOK' /\ OthersRest(p)
    BY <1>1, <1>t, <1>u, <2>1, <2>2, <2>3 DEF Call, Goto, TypeOK, Labels, OthersRest
  <2>5. CallOK(p)'
    <3>1. pc'[p] = "readHead" /\ UNCHANGED <<base, changes, prev>>
      BY <1>1, <1>t DEF Call, Goto, TypeOK
    <3> QED
      BY <3>1, <1>t DEF CallOK, LocalsOK
  <2> QED
    BY <2>4, <2>5, OneMoves
<1>2. CASE Crash(p) /\ UNCHANGED calls
  BY <1>2, <1>t, <1>u, ReturnType DEF Crash
<1> QED
  BY <1>1, <1>2

LEMMA TypeStep == TypeInv /\ [Next]_vars => TypeInv'
<1> SUFFICES ASSUME TypeInv, [Next]_vars PROVE TypeInv'
  OBVIOUS
<1>1. ASSUME NEW p \in Publishers, Call(p) PROVE TypeInv'
  BY <1>1, CallCrashType
<1>2. ASSUME NEW p \in Publishers, Step(p), UNCHANGED calls PROVE TypeInv'
  BY <1>2, ReadStepsType, PlanSpecType, PlanStepsType, CommitStepsType, RecordStepsType DEF Step
<1>3. ASSUME NEW p \in Publishers, Crash(p), UNCHANGED calls PROVE TypeInv'
  BY <1>3, CallCrashType
<1>4. CASE UNCHANGED vars
  BY <1>4 DEF TypeInv, TypeOK, StoreTypeOK, CallOK, vars
<1> QED
  BY <1>1, <1>2, <1>3, <1>4 DEF Next

LEMMA TypeInit == Init => TypeInv
<1> SUFFICES ASSUME Init PROVE TypeInv
  OBVIOUS
<1>1. <<>> \in Link /\ <<>> \in Seq(AdvertSpec) /\ <<>> \in Seq(ContextChange)
  BY EmptySeq DEF Link
<1>2. NoRecords \in [Contexts -> ContextRecord]
  BY DEF NoRecords, NoRecord, ContextRecord
<1>3. StoreTypeOK
  BY <1>1 DEF Init, StoreInit, StoreTypeOK
<1>4. TypeOK
  BY <1>1, <1>2, <1>3, BoundsAssumption DEF Init, TypeOK, Labels
<1>5. \A p \in Publishers : CallOK(p)
  BY EmptyExtends DEF Init, CallOK, LocalsOK
<1> QED
  BY <1>4, <1>5 DEF TypeInv

\* Every state is well formed: no loop of a batch runs past its sequence, and
\* the links it plans continue the head it found.
THEOREM TypeInvHolds == Spec => []TypeInv
BY TypeInit, TypeStep, PTL DEF Spec

\* Every state has its type (batch.go, PublishBatch).
THEOREM TypeCorrect == Spec => []TypeOK
<1>1. TypeInv => TypeOK
  BY DEF TypeInv
<1> QED
  BY <1>1, TypeInvHolds, PTL

-----------------------------------------------------------------------------
(* The chain *)

\* The head a call found stays on the chain.
BaseInv == \A p \in Publishers : base[p] \in Prefixes(head)

\* A chain that continues another has the prefixes of that one.
LEMMA ExtendsPrefixes ==
  ASSUME NEW S, NEW l \in Seq(S), NEW m \in Seq(S), Extends(l, m)
  PROVE  Prefixes(m) \subseteq Prefixes(l)
<1> SUFFICES ASSUME NEW n \in 0..Len(m) PROVE SubSeq(m, 1, n) \in Prefixes(l)
  BY DEF Prefixes
<1>1. Len(l) \in Nat /\ Len(m) \in Nat /\ Len(m) <= Len(l) /\ SubSeq(l, 1, Len(m)) = m
  BY LenProperties DEF Extends
<1>2. Len(m) \in 0..Len(l) /\ n \in 0..Len(l)
  BY <1>1
<1>3. SubSeq(SubSeq(l, 1, Len(m)), 1, n) = SubSeq(l, 1, n)
  BY <1>2, SubSeqTwice
<1>4. SubSeq(m, 1, n) = SubSeq(l, 1, n)
  BY <1>1, <1>3
<1> QED
  BY <1>2, <1>4 DEF Prefixes

LEMMA EmptyPrefix ==
  ASSUME NEW S, NEW l \in Seq(S)
  PROVE  <<>> \in Prefixes(l)
<1>1. SubSeq(l, 1, 0) = <<>> /\ Len(l) \in Nat
  BY SubSeqEmpty, LenProperties
<1>2. 0 \in 0..Len(l)
  BY <1>1
<1> QED
  BY <1>1, <1>2 DEF Prefixes

\* A commit puts its adverts behind the head; a call with nothing to add returns
\* the head it found; no other step changes the head or what calls returned.
LEMMA HeadStep ==
  ASSUME TypeInv, [Next]_vars
  PROVE  \/ UNCHANGED <<head, acked>>
         \/ \E p \in Publishers : UNCHANGED head /\ acked' = acked \cup {base[p]}
         \/ \E p \in Publishers :
              /\ base[p] = head /\ prev[p] # base[p]
              /\ pc[p] \in {"commitBatch", "replaceHead"}
              /\ head' = prev[p]
              /\ acked' = acked \/ acked' = acked \cup {head'}
<1>1. ASSUME NEW p \in Publishers, CommitBatch(p) \/ CommitHead(p)
      PROVE  /\ base[p] = head /\ pc[p] \in {"commitBatch", "replaceHead"}
             /\ head' = prev[p] /\ acked' = acked \cup {head'}
  BY <1>1 DEF CommitBatch, CommitHead, ApplyBatch, ReplaceHead, Commit
<1>2. ASSUME NEW p \in Publishers, CommitBatchFails(p) \/ CommitHeadFails(p)
      PROVE  /\ UNCHANGED acked
             /\ \/ UNCHANGED head
                \/ /\ base[p] = head /\ pc[p] \in {"commitBatch", "replaceHead"}
                   /\ head' = prev[p]
  BY <1>2 DEF CommitBatchFails, CommitHeadFails, ApplyBatch, ReplaceHead, ReplaceHeadFails, store
<1>3. ASSUME NEW p \in Publishers, NothingToCommit(p)
      PROVE  UNCHANGED head /\ acked' = acked \cup {base[p]}
  BY <1>3 DEF NothingToCommit, store
<1>4. ASSUME NEW p \in Publishers,
             \/ Call(p) \/ Crash(p)
             \/ ReadHead(p) \/ LoadChunk(p) \/ LoadMeta(p) \/ AllLoaded(p)
             \/ LoadContexts(p) \/ LoadFails(p) \/ AllPlanned(p)
      PROVE  UNCHANGED <<head, acked>>
  BY <1>4 DEF Call, Crash, ReadHead, LoadChunk, LoadMeta, AllLoaded, LoadContexts, LoadFails,
              AllPlanned, ReadFails, store
<1>5. ASSUME NEW p \in Publishers, PlanSpec(p) \/ PlanFails(p) PROVE UNCHANGED <<head, acked>>
  BY <1>5 DEF PlanSpec, PlanFails, PutEntries, ReadFails, WriteFails, store
<1>6. ASSUME NEW p \in Publishers,
             \/ PutAd(p) \/ PutAdvertsFails(p)
             \/ WriteChunk(p) \/ WriteMeta(p) \/ WriteRecordFails(p)
             \/ UndoChunk(p) \/ UndoMeta(p)
      PROVE  UNCHANGED <<head, acked>>
  BY <1>6 DEF PutAd, PutAdvertsFails, WriteChunk, WriteMeta, WriteRecordFails, UndoChunk, UndoMeta,
              WriteFails, PutAdvert, PutChunkLink, PutMetadata, store
<1>7. ASSUME NEW p \in Publishers, pc[p] \in {"commitBatch", "replaceHead"}
      PROVE  prev[p] # base[p]
  BY <1>7 DEF TypeInv, CallOK, LocalsOK
<1>8. CASE UNCHANGED vars
  BY <1>8 DEF vars
<1> QED
  BY <1>1, <1>2, <1>3, <1>4, <1>5, <1>6, <1>7, <1>8 DEF Next, Step

\* A call knows the head it read, or none.
LEMMA BaseStep ==
  ASSUME TypeInv, [Next]_vars, NEW q \in Publishers
  PROVE  base'[q] = base[q] \/ base'[q] = <<>> \/ (base'[q] = head /\ UNCHANGED head)
<1>t. base \in [Publishers -> Link]
  BY DEF TypeInv, TypeOK
<1>1. ASSUME NEW p \in Publishers, ReadHead(p)
      PROVE  base'[q] = base[q] \/ (base'[q] = head /\ UNCHANGED head)
  BY <1>1, <1>t DEF ReadHead, store
<1>2. ASSUME NEW p \in Publishers, Return(p) PROVE base'[q] = base[q] \/ base'[q] = <<>>
  BY <1>2, <1>t DEF Return
<1>3. ASSUME NEW p \in Publishers,
             \/ LoadFails(p) \/ PlanFails(p) \/ NothingToCommit(p) \/ PutAdvertsFails(p)
             \/ CommitBatch(p) \/ CommitBatchFails(p) \/ CommitHead(p) \/ Crash(p)
      PROVE  Return(p)
  BY <1>3 DEF LoadFails, PlanFails, NothingToCommit, PutAdvertsFails, CommitBatch,
              CommitBatchFails, CommitHead, Crash, Commit
<1>4. ASSUME NEW p \in Publishers,
             \/ Call(p) \/ LoadChunk(p) \/ LoadMeta(p) \/ AllLoaded(p) \/ LoadContexts(p)
             \/ PlanSpec(p) \/ AllPlanned(p) \/ PutAd(p) \/ WriteChunk(p) \/ WriteMeta(p)
             \/ WriteRecordFails(p) \/ CommitHeadFails(p) \/ UndoChunk(p)
      PROVE  UNCHANGED base
  BY <1>4 DEF Call, LoadChunk, LoadMeta, AllLoaded, LoadContexts, PlanSpec, AllPlanned, PutAd,
              WriteChunk, WriteMeta, WriteRecordFails, CommitHeadFails, UndoChunk
<1>5. ASSUME NEW p \in Publishers, UndoMeta(p) PROVE UNCHANGED base \/ Return(p)
  BY <1>5 DEF UndoMeta
<1>6. CASE UNCHANGED vars
  BY <1>6 DEF vars
<1> QED
  BY <1>1, <1>2, <1>3, <1>4, <1>5, <1>6 DEF Next, Step

ChainInv == BaseInv /\ NoAdvertLost

LEMMA ChainStep ==
  ASSUME TypeInv, ChainInv, [Next]_vars
  PROVE  ChainInv' /\ [Chain!Next]_<<head, acked>>
<1>t. head \in Seq(Advert) /\ \A p \in Publishers : prev[p] \in Seq(Advert) /\ base[p] \in Seq(Advert)
  BY DEF TypeInv, TypeOK, StoreTypeOK, Link
<1>h. head' \in Seq(Advert)
  BY TypeStep DEF TypeInv, TypeOK, StoreTypeOK, Link
<1>b. ASSUME Prefixes(head) \subseteq Prefixes(head') PROVE BaseInv'
  <2> SUFFICES ASSUME NEW q \in Publishers PROVE base'[q] \in Prefixes(head')
    BY DEF BaseInv
  <2>1. CASE base'[q] = base[q]
    BY <1>b, <2>1 DEF ChainInv, BaseInv
  <2>2. CASE base'[q] = <<>>
    BY <1>h, <2>2, EmptyPrefix
  <2>3. CASE base'[q] = head /\ UNCHANGED head
    BY <1>t, <2>3, SelfPrefix
  <2> QED
    BY <2>1, <2>2, <2>3, BaseStep
<1>1. CASE UNCHANGED <<head, acked>>
  BY <1>1, <1>b DEF ChainInv, NoAdvertLost
<1>2. ASSUME NEW p \in Publishers, UNCHANGED head, acked' = acked \cup {base[p]}
      PROVE  ChainInv' /\ [Chain!Next]_<<head, acked>>
  <2>1. base[p] \in Prefixes(head)
    BY DEF ChainInv, BaseInv
  <2>2. ChainInv'
    BY <1>2, <1>b, <2>1 DEF ChainInv, NoAdvertLost
  <2>3. Chain!Acknowledge
    BY <1>2, <2>1 DEF Chain!Acknowledge, Chain!Prefixes, Prefixes
  <2> QED
    BY <2>2, <2>3 DEF Chain!Next
<1>3. ASSUME NEW p \in Publishers, base[p] = head, prev[p] # base[p], head' = prev[p],
             acked' = acked \/ acked' = acked \cup {head'}
      PROVE  ChainInv' /\ [Chain!Next]_<<head, acked>>
  <2>1. Extends(prev[p], head)
    BY <1>3 DEF TypeInv, CallOK, LocalsOK
  <2>2. Prefixes(head) \subseteq Prefixes(head') /\ head' \in Prefixes(head')
    BY <1>3, <1>t, <2>1, ExtendsPrefixes, SelfPrefix
  <2>3. IsStrictPrefix(head, head')
    BY <1>3, <1>t, <2>1, ExtendsLonger
  <2>4. ChainInv'
    BY <1>3, <1>b, <2>2 DEF ChainInv, NoAdvertLost
  <2>5. Chain!Extend
    BY <1>3, <2>3 DEF Chain!Extend, Chain!IsStrictPrefix, IsStrictPrefix, Chain!IsPrefix, IsPrefix
  <2> QED
    BY <2>4, <2>5 DEF Chain!Next
<1> QED
  BY <1>1, <1>2, <1>3, HeadStep

LEMMA ChainInit == Init => ChainInv /\ Chain!Init
<1> SUFFICES ASSUME Init PROVE ChainInv /\ Chain!Init
  OBVIOUS
<1>1. \A p \in Publishers : base[p] \in Prefixes(head)
  BY EmptyPrefixes DEF Init, StoreInit
<1> QED
  BY <1>1 DEF Init, StoreInit, ChainInv, BaseInv, NoAdvertLost, Chain!Init

\* A link that a call returned is on the chain for good, whether the call
\* committed a batch or found nothing to add.
THEOREM NoAdvertIsLost == Spec => []NoAdvertLost
<1>1. ChainInv => NoAdvertLost
  BY DEF ChainInv
<1>2. TypeInv /\ ChainInv /\ [Next]_vars => ChainInv'
  BY ChainStep
<1> QED
  BY <1>1, <1>2, ChainInit, TypeInvHolds, PTL DEF Spec

\* Publishing batches, with either batch store, any publishers, failures and
\* crashes, implements AdvertChain.
THEOREM ImplementsChain == Spec => ChainSpec
<1>1. Init => ChainInv
  BY ChainInit
<1>2. TypeInv /\ ChainInv /\ [Next]_vars => ChainInv' /\ [Chain!Next]_<<head, acked>>
  BY ChainStep
<1>3. Init => Chain!Init
  BY ChainInit
<1> QED
  BY <1>1, <1>2, <1>3, TypeInvHolds, PTL DEF Spec, ChainSpec, Chain!Spec

-----------------------------------------------------------------------------
(* The head can be walked *)

\* The entries that a link, where there is one, stands for can be fetched.
Known(l) == l # Nil => l \in blocks \cup Blockless

\* The entries that a call knows of, and those of the adverts it planned.
CallKnown(p) ==
  /\ \A c \in Contexts : Known(records[p][c].chunk)
  /\ \A k \in DOMAIN changes[p] :
       Known(changes[p][k].old.chunk) /\ Known(changes[p][k].new.chunk)
  /\ \A k \in DOMAIN prev[p] : prev[p][k].entries \in blocks \cup Blockless

\* The adverts it planned are stored, one after the other, before it writes
\* anything else.
CallWalk(p) ==
  /\ Walkable(base[p], adverts, blocks)
  /\ pc[p] = "putAdvert" => \A k \in 1..i[p]-1 : SubSeq(prev[p], 1, k) \in adverts
  /\ pc[p] \in {"commitBatch", "writeChunk", "writeMeta", "replaceHead"}
       => Walkable(prev[p], adverts, blocks)

StoreInv ==
  /\ \A c \in Contexts : Known(chunkLink[c])
  /\ \A l \in adverts : Walkable(l, adverts, blocks)
  /\ Walkable(head, adverts, blocks)

ClosedInv == StoreInv /\ \A p \in Publishers : CallKnown(p) /\ CallWalk(p)

LEMMA WalkableUpTo ==
  ASSUME NEW A, NEW B, NEW l \in Link, NEW n \in 0..Len(l),
         \A k \in 1..n : SubSeq(l, 1, k) \in A,
         \A k \in DOMAIN l : l[k].entries \in B \cup Blockless
  PROVE  Walkable(SubSeq(l, 1, n), A, B)
<1> DEFINE t == SubSeq(l, 1, n)
<1>1. /\ t \in Seq(Advert) /\ Len(t) = n /\ \A k \in 1..n : t[k] = l[k]
      /\ Len(l) \in Nat /\ DOMAIN l = 1..Len(l)
  BY SubSeqOfLink, LenProperties DEF Link
<1>2. DOMAIN t = 1..n
  <2> HIDE DEF t
  <2> QED
    BY <1>1, LenProperties
<1>3. \A k \in DOMAIN t : t[k].entries \in B \cup Blockless
  BY <1>1, <1>2
<1>4. ASSUME NEW k \in 0..n PROVE SubSeq(t, 1, k) \in A \cup {<<>>}
  <2>1. SubSeq(t, 1, k) = SubSeq(l, 1, k)
    BY SubSeqTwice DEF Link
  <2>2. CASE k = 0
    BY <2>1, <2>2, SubSeqEmpty
  <2>3. CASE k # 0
    <3>1. k \in 1..n
      BY <2>3
    <3> QED
      BY <2>1, <3>1
  <2> QED
    BY <2>2, <2>3
<1> HIDE DEF t
<1>5. Prefixes(t) \ {<<>>} \subseteq A
  BY <1>1, <1>4 DEF Prefixes
<1>6. Walkable(t, A, B)
  BY <1>3, <1>5 DEF Walkable
<1> QED
  BY <1>6 DEF t

\* The adverts behind one that can be walked from are stored.
LEMMA WalkedStored ==
  ASSUME NEW A, NEW B, NEW l \in Link, NEW m \in Link, Extends(l, m), Walkable(m, A, B)
  PROVE  \A k \in 1..Len(m) : SubSeq(l, 1, k) \in A
<1> SUFFICES ASSUME NEW k \in 1..Len(m) PROVE SubSeq(l, 1, k) \in A
  OBVIOUS
<1>1. Len(l) \in Nat /\ Len(m) \in Nat /\ Len(m) <= Len(l) /\ SubSeq(l, 1, Len(m)) = m
  BY LenProperties DEF Extends, Link
<1>2. Len(m) \in 0..Len(l) /\ k \in 0..Len(m)
  BY <1>1
<1>3. SubSeq(SubSeq(l, 1, Len(m)), 1, k) = SubSeq(l, 1, k)
  BY <1>2, SubSeqTwice DEF Link
<1>4. SubSeq(m, 1, k) = SubSeq(l, 1, k)
  BY <1>1, <1>3
<1>5. Len(SubSeq(m, 1, k)) = k
  BY <1>2, SubSeqOfLink DEF Link
<1>6. SubSeq(m, 1, k) # <<>>
  BY <1>5, <1>2, EmptySeq
<1>7. SubSeq(m, 1, k) \in Prefixes(m)
  BY <1>2 DEF Prefixes
<1> QED
  BY <1>4, <1>6, <1>7 DEF Walkable

\* Blocks are only ever added.
LEMMA BlocksGrow ==
  ASSUME NEW p \in Publishers, Call(p) \/ Step(p) \/ Crash(p)
  PROVE  adverts \subseteq adverts' /\ blocks \subseteq blocks'
<1>1. UNCHANGED store => adverts \subseteq adverts' /\ blocks \subseteq blocks'
  BY DEF store
<1>2. \A d : PutEntries(d) => adverts \subseteq adverts' /\ blocks \subseteq blocks'
  BY DEF PutEntries
<1>3. \A l : PutAdvert(l) => adverts \subseteq adverts' /\ blocks \subseteq blocks'
  BY DEF PutAdvert
<1>4. \A c, l : PutChunkLink(c, l) => adverts \subseteq adverts' /\ blocks \subseteq blocks'
  BY DEF PutChunkLink
<1>5. \A c, m : PutMetadata(c, m) => adverts \subseteq adverts' /\ blocks \subseteq blocks'
  BY DEF PutMetadata
<1>6. \A l, m : ReplaceHead(l, m) => adverts \subseteq adverts' /\ blocks \subseteq blocks'
  BY DEF ReplaceHead
<1>7. ApplyBatch(p) => adverts \subseteq adverts' /\ blocks \subseteq blocks'
  BY DEF ApplyBatch
<1>8. CASE Call(p) \/ Crash(p)
  BY <1>1, <1>8 DEF Call, Crash
<1>9. CASE Step(p)
  <2>1. CASE \/ ReadHead(p) \/ LoadChunk(p) \/ LoadMeta(p) \/ AllLoaded(p)
             \/ LoadContexts(p) \/ LoadFails(p)
    BY <1>1, <2>1 DEF ReadHead, LoadChunk, LoadMeta, AllLoaded, LoadContexts, LoadFails, ReadFails
  <2>2. CASE PlanSpec(p) \/ PlanFails(p) \/ NothingToCommit(p) \/ AllPlanned(p)
    BY <1>1, <1>2, <2>2 DEF PlanSpec, PlanFails, NothingToCommit, AllPlanned, ReadFails, WriteFails, store
  <2>3. CASE PutAd(p) \/ PutAdvertsFails(p)
    BY <1>1, <1>3, <2>3 DEF PutAd, PutAdvertsFails, WriteFails
  <2>4. CASE CommitBatch(p) \/ CommitBatchFails(p) \/ CommitHead(p) \/ CommitHeadFails(p)
    BY <1>1, <1>6, <1>7, <2>4
    DEF CommitBatch, CommitBatchFails, CommitHead, CommitHeadFails, ReplaceHeadFails
  <2>5. CASE \/ WriteChunk(p) \/ WriteMeta(p) \/ WriteRecordFails(p)
             \/ UndoChunk(p) \/ UndoMeta(p)
    BY <1>1, <1>4, <1>5, <2>5
    DEF WriteChunk, WriteMeta, WriteRecordFails, UndoChunk, UndoMeta, WriteFails
  <2> QED
    BY <1>9, <2>1, <2>2, <2>3, <2>4, <2>5 DEF Step
<1> QED
  BY <1>8, <1>9

LEMMA OthersRestStep ==
  ASSUME TypeInv, NEW p \in Publishers, Call(p) \/ Step(p) \/ Crash(p)
  PROVE  OthersRest(p)
<1>t. /\ DOMAIN pc = Publishers /\ DOMAIN i = Publishers /\ DOMAIN specs = Publishers
      /\ DOMAIN base = Publishers /\ DOMAIN records = Publishers
      /\ DOMAIN changes = Publishers /\ DOMAIN prev = Publishers
  BY DEF TypeInv, TypeOK
<1>r. Return(p) => OthersRest(p)
  BY <1>t DEF Return, Goto, OthersRest
<1>b. \A n : Rollback(p, n) /\ UNCHANGED <<specs, base, records, prev>> => OthersRest(p)
  BY <1>t DEF Rollback, Goto, OthersRest
<1>g. \A a, n : Goto(p, a, n) /\ UNCHANGED <<specs, base, records, changes, prev>> => OthersRest(p)
  BY <1>t DEF Goto, OthersRest
<1>1. CASE \/ LoadFails(p) \/ PlanFails(p) \/ NothingToCommit(p) \/ PutAdvertsFails(p)
           \/ CommitBatch(p) \/ CommitBatchFails(p) \/ CommitHead(p) \/ Crash(p)
  BY <1>r, <1>1 DEF LoadFails, PlanFails, NothingToCommit, PutAdvertsFails, CommitBatch,
                    CommitBatchFails, CommitHead, Crash, Commit
<1>2. CASE WriteRecordFails(p) \/ CommitHeadFails(p)
  BY <1>b, <1>2 DEF WriteRecordFails, CommitHeadFails
<1>3. CASE \/ AllLoaded(p) \/ AllPlanned(p) \/ PutAd(p) \/ WriteChunk(p) \/ WriteMeta(p)
           \/ UndoChunk(p) \/ UndoMeta(p)
  BY <1>r, <1>g, <1>3 DEF AllLoaded, AllPlanned, PutAd, WriteChunk, WriteMeta, UndoChunk,
                          UndoMeta, Advance
<1>4. CASE \/ Call(p) \/ ReadHead(p) \/ LoadChunk(p) \/ LoadMeta(p) \/ LoadContexts(p)
  BY <1>t, <1>4 DEF Call, ReadHead, LoadChunk, LoadMeta, LoadContexts, Goto, Advance, OthersRest
<1>5. CASE PlanSpec(p)
  BY <1>t, <1>5 DEF PlanSpec, Goto, Advance, OthersRest
<1> QED
  BY <1>1, <1>2, <1>3, <1>4, <1>5 DEF Step

LEMMA OneMovesClosed ==
  ASSUME TypeInv, ClosedInv, NEW p \in Publishers, Call(p) \/ Step(p) \/ Crash(p),
         StoreInv', CallKnown(p)', CallWalk(p)'
  PROVE  ClosedInv'
<1>b. adverts \subseteq adverts' /\ blocks \subseteq blocks'
  BY BlocksGrow
<1>g. \A l : Walkable(l, adverts, blocks) => Walkable(l, adverts', blocks')
  BY <1>b, WalkableGrows
<1>1. ASSUME NEW q \in Publishers, q # p PROVE CallKnown(q)' /\ CallWalk(q)'
  <2>1. /\ pc'[q] = pc[q] /\ i'[q] = i[q] /\ base'[q] = base[q]
        /\ records'[q] = records[q] /\ changes'[q] = changes[q] /\ prev'[q] = prev[q]
    BY <1>1, OthersRestStep DEF OthersRest
  <2>2. CallKnown(q) /\ CallWalk(q)
    BY <1>1 DEF ClosedInv
  <2>3. CallKnown(q)'
    BY <1>b, <2>1, <2>2 DEF CallKnown, Known
  <2>4. CallWalk(q)'
    BY <1>b, <1>g, <2>1, <2>2 DEF CallWalk
  <2> QED
    BY <2>3, <2>4
<1> QED
  BY <1>1 DEF ClosedInv

\* A step that neither stores an advert nor moves the head, and writes no entries
\* link.
LEMMA StoreRests ==
  ASSUME ClosedInv, adverts \subseteq adverts', blocks \subseteq blocks',
         UNCHANGED <<head, adverts, chunkLink>>
  PROVE  StoreInv'
<1>g. \A l : Walkable(l, adverts, blocks) => Walkable(l, adverts', blocks')
  BY WalkableGrows
<1>1. StoreInv
  BY DEF ClosedInv
<1> QED
  BY <1>g, <1>1 DEF StoreInv, Known

LEMMA ReturnClosed ==
  ASSUME TypeInv, ClosedInv, NEW p \in Publishers, Call(p) \/ Step(p) \/ Crash(p),
         Return(p), StoreInv'
  PROVE  ClosedInv'
<1>1. /\ pc'[p] = "idle" /\ base'[p] = <<>> /\ records'[p] = NoRecords
      /\ changes'[p] = <<>> /\ prev'[p] = <<>>
  BY DEF TypeInv, TypeOK, Return, Goto
<1>2. DOMAIN <<>> = {}
  BY EmptySeq, LenProperties
<1>3. CallKnown(p)'
  BY <1>1, <1>2 DEF CallKnown, Known, NoRecords, NoRecord
<1>4. CallWalk(p)'
  BY <1>1, WalkableEmpty DEF CallWalk
<1> QED
  BY <1>3, <1>4, OneMovesClosed

\* A step that only goes to another label outside the writing of the batch.
LEMMA GotoClosed ==
  ASSUME TypeInv, ClosedInv, NEW p \in Publishers, Call(p) \/ Step(p) \/ Crash(p),
         NEW a \in Labels \ {"putAdvert", "commitBatch", "writeChunk", "writeMeta", "replaceHead"},
         NEW n, Goto(p, a, n), UNCHANGED <<base, changes, prev>>,
         \A c \in Contexts : records'[p][c].chunk = records[p][c].chunk
                             \/ Known(records[p][c].chunk)',
         StoreInv'
  PROVE  ClosedInv'
<1>b. adverts \subseteq adverts' /\ blocks \subseteq blocks'
  BY BlocksGrow
<1>g. \A l : Walkable(l, adverts, blocks) => Walkable(l, adverts', blocks')
  BY <1>b, WalkableGrows
<1>1. pc'[p] = a /\ CallKnown(p) /\ CallWalk(p)
  BY DEF TypeInv, TypeOK, Goto, ClosedInv
<1>3. CallKnown(p)'
  BY <1>b, <1>1 DEF CallKnown, Known
<1>4. CallWalk(p)'
  BY <1>g, <1>1 DEF CallWalk
<1> QED
  BY <1>3, <1>4, OneMovesClosed

LEMMA CurrentKnown ==
  ASSUME TypeOK, NEW p \in Publishers, NEW c \in Contexts, CallKnown(p)
  PROVE  Known(Current(p, c).chunk)
<1>1. CASE c \in ChangedContexts(p)
  <2>1. (CHOOSE n \in DOMAIN changes[p] : changes[p][n].ctx = c) \in DOMAIN changes[p]
    BY <1>1 DEF ChangedContexts
  <2> QED
    BY <1>1, <2>1 DEF Current, CallKnown
<1>2. CASE c \notin ChangedContexts(p)
  BY <1>2 DEF Current, CallKnown
<1> QED
  BY <1>1, <1>2

LEMMA ReadStepsClosed ==
  ASSUME TypeInv, ClosedInv, NEW p \in Publishers,
         \/ Call(p) \/ Crash(p)
         \/ ReadHead(p) \/ LoadChunk(p) \/ LoadMeta(p) \/ AllLoaded(p)
         \/ LoadContexts(p) \/ LoadFails(p)
  PROVE  ClosedInv'
<1>t. /\ TypeOK /\ CallOK(p) /\ CallKnown(p) /\ CallWalk(p)
      /\ records \in [Publishers -> [Contexts -> ContextRecord]]
      /\ \A c \in Contexts : Known(chunkLink[c])
      /\ Call(p) \/ Step(p) \/ Crash(p)
  BY DEF TypeInv, TypeOK, ClosedInv, StoreInv, Step
<1>b. adverts \subseteq adverts' /\ blocks \subseteq blocks'
  BY <1>t, BlocksGrow
<1>s. UNCHANGED store
  BY DEF Call, Crash, ReadHead, LoadChunk, LoadMeta, AllLoaded, LoadContexts, LoadFails, ReadFails
<1>u. UNCHANGED <<head, adverts, blocks, chunkLink, metadata>> /\ StoreInv'
  BY <1>b, <1>s, StoreRests DEF store
<1>1. CASE Call(p)
  <2>1. PICK n : Goto(p, "readHead", n)
    BY <1>1 DEF Call
  <2> QED
    BY <1>1, <1>t, <1>u, <2>1, GotoClosed DEF Call, Labels
<1>2. CASE Crash(p)
  BY <1>2, <1>t, <1>u, ReturnClosed DEF Crash
<1>3. CASE ReadHead(p)
  <2>1. /\ pc'[p] = "loadChunk" /\ base'[p] = head /\ prev'[p] = head
        /\ UNCHANGED <<records, changes>>
    BY <1>3, <1>t DEF ReadHead, Goto, TypeOK
  <2>2. Walkable(head, adverts, blocks)
    BY DEF ClosedInv, StoreInv
  <2>3. CallKnown(p)'
    BY <1>t, <1>u, <2>1, <2>2 DEF CallKnown, Known, Walkable
  <2>4. CallWalk(p)'
    BY <1>u, <2>1, <2>2 DEF CallWalk
  <2> QED
    BY <1>t, <1>u, <2>3, <2>4, OneMovesClosed
<1>4. CASE LoadChunk(p)
  <2>1. ASpec(p).ctx \in Contexts
    BY <1>4, <1>t, SpecType DEF LoadChunk, AdvertSpec
  <2>2. PICK a \in {"loadChunk", "loadMeta"} : \E n : Goto(p, a, n)
    BY <1>4 DEF LoadChunk, Advance
  <2>3. \A c \in Contexts : records'[p][c].chunk = records[p][c].chunk
                            \/ records'[p][c].chunk = chunkLink[c]
    <3>1. CASE Loaded(p)
      BY <1>4, <3>1 DEF LoadChunk
    <3>2. CASE ~Loaded(p)
      <4>1. \A c \in Contexts : records[p][c] \in ContextRecord /\ DOMAIN records[p] = Contexts
            /\ DOMAIN records = Publishers
        BY <1>t
      <4>2. records' = [records EXCEPT ![p][ASpec(p).ctx].chunk = chunkLink[ASpec(p).ctx]]
        BY <1>4, <3>2 DEF LoadChunk
      <4> QED
        BY <2>1, <4>1, <4>2 DEF ContextRecord
    <3> QED
      BY <3>1, <3>2
  <2>4. \A c \in Contexts : records'[p][c].chunk = records[p][c].chunk
                            \/ Known(records[p][c].chunk)'
    BY <1>t, <1>u, <2>3 DEF Known
  <2> QED
    BY <1>4, <1>t, <1>u, <2>2, <2>4, GotoClosed DEF LoadChunk, Labels
<1>5. CASE LoadMeta(p)
  <2>1. PICK n : Goto(p, "loadChunk", n)
    BY <1>5 DEF LoadMeta
  <2>2. \A c \in Contexts : records'[p][c].chunk = records[p][c].chunk
    <3>1. \A c \in Contexts : records[p][c] \in ContextRecord /\ DOMAIN records[p] = Contexts
          /\ DOMAIN records = Publishers
      BY <1>t
    <3>2. records' = [records EXCEPT ![p][ASpec(p).ctx].md = metadata[ASpec(p).ctx]]
      BY <1>5 DEF LoadMeta
    <3> QED
      BY <3>1, <3>2 DEF ContextRecord
  <2> QED
    BY <1>5, <1>t, <1>u, <2>1, <2>2, GotoClosed DEF LoadMeta, Labels
<1>6. CASE AllLoaded(p)
  <2>1. Goto(p, "plan", 1)
    BY <1>6 DEF AllLoaded
  <2> QED
    BY <1>6, <1>t, <1>u, <2>1, GotoClosed DEF AllLoaded, Labels
<1>7. CASE LoadContexts(p)
  <2>1. Goto(p, "plan", 1)
    BY <1>7 DEF LoadContexts
  <2>2. \A c \in Contexts : records'[p][c] = Record(c) \/ records'[p][c] = NoRecord
    BY <1>7, <1>t DEF LoadContexts
  <2>3. ASSUME NEW c \in Contexts PROVE Known(records[p][c].chunk)'
    <3>1. records'[p][c].chunk = chunkLink[c] \/ records'[p][c].chunk = Nil
      <4>1. Record(c).chunk = chunkLink[c] /\ NoRecord.chunk = Nil
        BY DEF Record, NoRecord
      <4> QED
        BY <2>2, <4>1
    <3>2. Known(chunkLink[c])
      BY <1>t
    <3> QED
      BY <1>u, <3>1, <3>2 DEF Known
  <2> QED
    BY <1>7, <1>t, <1>u, <2>1, <2>3, GotoClosed DEF LoadContexts, Labels
<1>8. CASE LoadFails(p)
  BY <1>8, <1>t, <1>u, ReturnClosed DEF LoadFails
<1> QED
  BY <1>1, <1>2, <1>3, <1>4, <1>5, <1>6, <1>7, <1>8

\* A context's record is planned with the entries it has, or with those of its
\* first advert, whose block is stored.
LEMMA PlanSpecClosed ==
  ASSUME TypeInv, ClosedInv, NEW p \in Publishers, PlanSpec(p)
  PROVE  ClosedInv'
<1> DEFINE s == ASpec(p)
           cur == Current(p, s.ctx)
           next == NextRecord(cur, s)
           ad == [ctx |-> s.ctx, entries |-> next.chunk, md |-> next.md]
<1>t. /\ TypeOK /\ CallKnown(p) /\ CallWalk(p) /\ Step(p)
      /\ pc[p] = "plan" /\ i[p] <= Len(specs[p])
      /\ changes[p] \in Seq(ContextChange) /\ prev[p] \in Seq(Advert)
  BY DEF TypeInv, TypeOK, ClosedInv, Step, PlanSpec, Link
<1>b. adverts \subseteq adverts' /\ blocks \subseteq blocks'
  BY <1>t, BlocksGrow
<1>g. \A l : Walkable(l, adverts, blocks) => Walkable(l, adverts', blocks')
  BY <1>b, WalkableGrows
<1>1. s \in AdvertSpec /\ s.ctx \in Contexts /\ s.digests \in Digests
  BY <1>t, SpecType DEF AdvertSpec
<1>2. cur \in ContextRecord /\ Known(cur.chunk)
  BY <1>t, <1>1, CurrentType, CurrentKnown
<1>3. next \in ContextRecord /\ ad \in Advert
  <2> HIDE DEF cur, s
  <2> QED
    BY <1>1, <1>2, NextRecordType
<1>4. CASE AlreadyAdvertised(cur, s)
  <2>1. UNCHANGED <<store, changes, prev, base, records>> /\ Goto(p, "plan", i[p] + 1)
    BY <1>4, <1>t DEF PlanSpec, Advance
  <2>2. StoreInv'
    BY <1>b, <2>1, StoreRests DEF store
  <2>3. PICK n : Goto(p, "plan", n)
    BY <2>1
  <2> QED
    BY <1>t, <2>1, <2>2, <2>3, GotoClosed DEF Labels
<1>5. CASE ~AlreadyAdvertised(cur, s)
  <2>1. /\ IF cur.chunk = Nil THEN PutEntries(s.digests) ELSE UNCHANGED store
        /\ changes' = [changes EXCEPT ![p] = Planned(p, s, next)]
        /\ prev' = [prev EXCEPT ![p] = Append(prev[p], ad)]
        /\ Goto(p, "plan", i[p] + 1) /\ UNCHANGED <<base, records>>
    BY <1>5, <1>t DEF PlanSpec, Advance
  <2>2. UNCHANGED <<head, adverts, chunkLink>>
    BY <2>1 DEF PutEntries, store
  <2>3. StoreInv'
    BY <1>b, <2>2, StoreRests
  <2>4. next.chunk \in blocks' \cup Blockless
    <3>1. CASE cur.chunk = Nil
      BY <2>1, <3>1, <1>1 DEF PutEntries, NextRecord
    <3>2. CASE cur.chunk # Nil
      BY <1>2, <1>b, <3>2 DEF NextRecord, Known
    <3> QED
      BY <3>1, <3>2
  <2> HIDE DEF next, cur, s
  <2>5. ASSUME NEW k \in DOMAIN Planned(p, s, next)
        PROVE  /\ Planned(p, s, next)[k].old.chunk # Nil
                    => Planned(p, s, next)[k].old.chunk \in blocks' \cup Blockless
               /\ Planned(p, s, next)[k].new.chunk # Nil
                    => Planned(p, s, next)[k].new.chunk \in blocks' \cup Blockless
    <3>0. \A n \in DOMAIN changes[p] :
            /\ changes[p][n] \in ContextChange
            /\ changes[p][n].old.chunk # Nil => changes[p][n].old.chunk \in blocks' \cup Blockless
            /\ changes[p][n].new.chunk # Nil => changes[p][n].new.chunk \in blocks' \cup Blockless
      <4>1. \A n \in DOMAIN changes[p] : changes[p][n] \in ContextChange
        BY <1>t, LenProperties, ElementOfSeq
      <4> QED
        BY <4>1, <1>t, <1>b DEF CallKnown, Known
    <3>1. CASE s.ctx \in ChangedContexts(p)
      <4>1. /\ k \in DOMAIN changes[p]
            /\ Planned(p, s, next)[k] = IF changes[p][k].ctx = s.ctx
                                        THEN [changes[p][k] EXCEPT !.new = next]
                                        ELSE changes[p][k]
        BY <3>1 DEF Planned
      <4>2. changes[p][k] \in ContextChange
        BY <3>0, <4>1
      <4>3. \/ Planned(p, s, next)[k] = changes[p][k]
            \/ /\ Planned(p, s, next)[k].old = changes[p][k].old
               /\ Planned(p, s, next)[k].new = next
        BY <4>1, <4>2 DEF ContextChange
      <4> QED
        BY <2>4, <3>0, <4>1, <4>3
    <3>2. CASE s.ctx \notin ChangedContexts(p)
      <4> DEFINE e == [ctx |-> s.ctx, old |-> records[p][s.ctx], new |-> next]
      <4>1. Planned(p, s, next) = Append(changes[p], e)
        BY <3>2 DEF Planned
      <4>2. /\ e.old.chunk # Nil => e.old.chunk \in blocks' \cup Blockless
            /\ e.new.chunk # Nil => e.new.chunk \in blocks' \cup Blockless
        <5>1. Known(records[p][s.ctx].chunk)
          BY <1>t, <1>1 DEF CallKnown
        <5> QED
          BY <5>1, <1>b, <2>4 DEF Known
      <4>3. e \in ContextChange
        BY <1>t, <1>1, <1>3 DEF TypeOK, ContextChange
      <4> HIDE DEF e
      <4>4. Append(changes[p], e)[k] = e \/ (k \in DOMAIN changes[p] /\ Append(changes[p], e)[k] = changes[p][k])
        <5>1. Len(changes[p]) \in Nat /\ DOMAIN changes[p] = 1..Len(changes[p])
          BY <1>t, LenProperties
        <5>2. Append(changes[p], e) \in Seq(ContextChange)
              /\ Len(Append(changes[p], e)) = Len(changes[p]) + 1
          BY <1>t, <4>3, AppendProperties
        <5>3. k \in 1..Len(changes[p]) + 1
          BY <4>1, <5>2, LenProperties
        <5> QED
          BY <1>t, <4>3, <5>1, <5>3, AppendProperties
      <4> QED
        BY <3>0, <4>1, <4>2, <4>4
    <3> QED
      BY <3>1, <3>2
  <2>6. ASSUME NEW k \in DOMAIN Append(prev[p], ad)
        PROVE  Append(prev[p], ad)[k].entries \in blocks' \cup Blockless
    <3>1. ad.entries = next.chunk
      OBVIOUS
    <3> HIDE DEF ad
    <3>2. Len(prev[p]) \in Nat /\ DOMAIN prev[p] = 1..Len(prev[p])
      BY <1>t, LenProperties
    <3>3. Append(prev[p], ad) \in Seq(Advert) /\ Len(Append(prev[p], ad)) = Len(prev[p]) + 1
      BY <1>t, <1>3, AppendProperties
    <3>4. k \in 1..Len(prev[p]) + 1
      BY <3>3, LenProperties
    <3>5. Append(prev[p], ad)[k] = ad \/ (k \in DOMAIN prev[p] /\ Append(prev[p], ad)[k] = prev[p][k])
      BY <1>t, <1>3, <3>2, <3>4, AppendProperties
    <3>6. \A n \in DOMAIN prev[p] : prev[p][n].entries \in blocks' \cup Blockless
      BY <1>t, <1>b DEF CallKnown
    <3> QED
      BY <2>4, <3>1, <3>5, <3>6
  <2>7. /\ changes'[p] = Planned(p, s, next) /\ prev'[p] = Append(prev[p], ad)
        /\ pc'[p] = "plan" /\ records' = records /\ base' = base
    BY <1>t, <2>1 DEF TypeOK, Goto
  <2> HIDE DEF ad
  <2>8. CallKnown(p)'
    <3>1. \A c \in Contexts : Known(records[p][c].chunk)'
      BY <1>t, <1>b, <2>7 DEF CallKnown, Known
    <3>2. \A k \in DOMAIN changes'[p] :
            Known(changes[p][k].old.chunk)' /\ Known(changes[p][k].new.chunk)'
      BY <2>5, <2>7 DEF Known
    <3>3. \A k \in DOMAIN prev'[p] : prev'[p][k].entries \in blocks' \cup Blockless
      BY <2>6, <2>7
    <3> QED
      BY <3>1, <3>2, <3>3 DEF CallKnown
  <2>9. CallWalk(p)'
    BY <1>t, <1>g, <2>7 DEF CallWalk
  <2> QED
    BY <1>t, <2>3, <2>8, <2>9, OneMovesClosed
<1> QED
  BY <1>4, <1>5

\* The advert being stored links to one that is, and its entries can be fetched.
LEMMA PutAdvertWalk ==
  ASSUME TypeInv, ClosedInv, NEW p \in Publishers, pc[p] = "putAdvert",
         PutAdvert(SubSeq(prev[p], 1, i[p]))
  PROVE  /\ StoreInv'
         /\ Walkable(SubSeq(prev[p], 1, i[p]), adverts', blocks')
         /\ \A k \in 1..i[p] : SubSeq(prev[p], 1, k) \in adverts'
<1>t. /\ prev[p] \in Link /\ i[p] \in 0..Len(prev[p]) /\ i[p] \in Nat \ {0}
      /\ CallKnown(p) /\ CallWalk(p) /\ StoreInv
  BY PlannedLink DEF TypeInv, TypeOK, ClosedInv
<1>1. /\ adverts' = adverts \cup {SubSeq(prev[p], 1, i[p])}
      /\ UNCHANGED <<head, blocks, chunkLink, metadata>>
  BY DEF PutAdvert
<1>2. \A k \in 1..i[p] : SubSeq(prev[p], 1, k) \in adverts'
  <2> SUFFICES ASSUME NEW k \in 1..i[p] PROVE SubSeq(prev[p], 1, k) \in adverts'
    OBVIOUS
  <2>1. k = i[p] \/ k \in 1..i[p]-1
    BY <1>t
  <2> QED
    BY <1>1, <1>t, <2>1 DEF CallWalk
<1>3. \A k \in DOMAIN prev[p] : prev[p][k].entries \in blocks' \cup Blockless
  BY <1>1, <1>t DEF CallKnown
<1>4. Walkable(SubSeq(prev[p], 1, i[p]), adverts', blocks')
  BY <1>t, <1>2, <1>3, WalkableUpTo
<1>5. \A l : Walkable(l, adverts, blocks) => Walkable(l, adverts', blocks')
  <2>1. adverts \subseteq adverts' /\ blocks \subseteq blocks'
    BY <1>1
  <2> QED
    BY <2>1, WalkableGrows
<1>6. StoreInv'
  BY <1>t, <1>1, <1>4, <1>5 DEF StoreInv, Known
<1> QED
  BY <1>2, <1>4, <1>6

LEMMA PlanStepsClosed ==
  ASSUME TypeInv, ClosedInv, NEW p \in Publishers,
         \/ PlanFails(p) \/ NothingToCommit(p) \/ AllPlanned(p)
         \/ PutAd(p) \/ PutAdvertsFails(p)
  PROVE  ClosedInv'
<1>t. /\ TypeOK /\ CallOK(p) /\ CallKnown(p) /\ CallWalk(p) /\ Step(p)
      /\ prev[p] \in Link /\ base[p] \in Link /\ i[p] \in Nat \ {0}
  BY DEF TypeInv, TypeOK, ClosedInv, Step
<1>b. adverts \subseteq adverts' /\ blocks \subseteq blocks'
  BY <1>t, BlocksGrow
<1>g. \A l : Walkable(l, adverts, blocks) => Walkable(l, adverts', blocks')
  BY <1>b, WalkableGrows
<1>k. ASSUME UNCHANGED <<records, changes, prev>> PROVE CallKnown(p)'
  BY <1>k, <1>t, <1>b DEF CallKnown, Known
<1>1. CASE PlanFails(p)
  <2>1. UNCHANGED <<head, adverts, chunkLink>>
    BY <1>1 DEF PlanFails, ReadFails, WriteFails, PutEntries, store
  <2> QED
    BY <1>1, <1>b, <1>t, <2>1, StoreRests, ReturnClosed DEF PlanFails
<1>2. CASE NothingToCommit(p)
  BY <1>2, <1>b, <1>t, StoreRests, ReturnClosed DEF NothingToCommit, store
<1>3. CASE AllPlanned(p)
  <2>1. StoreInv'
    BY <1>3, <1>b, StoreRests DEF AllPlanned, store
  <2>2. CallKnown(p)'
    BY <1>3, <1>k DEF AllPlanned
  <2>3. /\ pc'[p] = "putAdvert" /\ i'[p] = Len(base[p]) + 1 /\ UNCHANGED <<base, prev>>
    BY <1>3, <1>t DEF AllPlanned, Goto, TypeOK
  <2>4. Extends(prev[p], base[p]) /\ Walkable(base[p], adverts', blocks')
    BY <1>t, <1>g DEF CallOK, LocalsOK, CallWalk
  <2>5. \A k \in 1..Len(base[p]) : SubSeq(prev[p], 1, k) \in adverts'
    BY <1>t, <2>4, WalkedStored
  <2>6. Len(base[p]) + 1 - 1 = Len(base[p])
    BY <1>t, LenProperties DEF Link
  <2>7. CallWalk(p)'
    BY <2>3, <2>4, <2>5, <2>6 DEF CallWalk
  <2> QED
    BY <1>t, <2>1, <2>2, <2>7, OneMovesClosed
<1>4. CASE PutAd(p)
  <2>1. /\ StoreInv'
        /\ Walkable(SubSeq(prev[p], 1, i[p]), adverts', blocks')
        /\ \A k \in 1..i[p] : SubSeq(prev[p], 1, k) \in adverts'
    BY <1>4, PutAdvertWalk DEF PutAd
  <2>2. CallKnown(p)'
    BY <1>4, <1>k DEF PutAd
  <2>3. pc[p] = "putAdvert" /\ UNCHANGED <<base, prev>> /\ Walkable(base[p], adverts', blocks')
        /\ i[p] \in 0..Len(prev[p])
    BY <1>4, <1>t, <1>g, PlannedLink DEF PutAd, CallWalk
  <2>4. CASE i[p] < Len(prev[p])
    <3>1. pc'[p] = "putAdvert" /\ i'[p] = i[p] + 1
      BY <1>4, <1>t, <2>3, <2>4 DEF PutAd, Advance, Goto, TypeOK
    <3>2. i[p] + 1 - 1 = i[p]
      BY <1>t
    <3>3. CallWalk(p)'
      BY <2>1, <2>3, <3>1, <3>2 DEF CallWalk
    <3> QED
      BY <1>t, <2>1, <2>2, <3>3, OneMovesClosed
  <2>5. CASE ~(i[p] < Len(prev[p]))
    <3>1. pc'[p] \in {"commitBatch", "writeChunk"}
      BY <1>4, <1>t, <2>5 DEF PutAd, Goto, TypeOK
    <3>2. Len(prev[p]) = i[p] /\ SubSeq(prev[p], 1, Len(prev[p])) = prev[p]
      <4>1. Len(prev[p]) \in Nat /\ SubSeq(prev[p], 1, Len(prev[p])) = prev[p]
        BY <1>t, LenProperties, SubSeqFull DEF Link
      <4> QED
        BY <4>1, <2>3, <2>5
    <3>3. Walkable(prev[p], adverts', blocks')
      BY <2>1, <3>2
    <3>4. CallWalk(p)'
      BY <2>3, <3>1, <3>3 DEF CallWalk
    <3> QED
      BY <1>t, <2>1, <2>2, <3>4, OneMovesClosed
  <2> QED
    BY <2>4, <2>5
<1>5. CASE PutAdvertsFails(p)
  <2>1. StoreInv'
    <3>1. CASE PutAdvert(SubSeq(prev[p], 1, i[p]))
      BY <1>5, <3>1, PutAdvertWalk DEF PutAdvertsFails
    <3>2. CASE UNCHANGED store
      BY <3>2, <1>b, StoreRests DEF store
    <3> QED
      BY <1>5, <3>1, <3>2 DEF PutAdvertsFails, WriteFails
  <2> QED
    BY <1>5, <1>t, <2>1, ReturnClosed DEF PutAdvertsFails
<1> QED
  BY <1>1, <1>2, <1>3, <1>4, <1>5

\* Rolling back forgets some of the changes.
LEMMA RollbackClosed ==
  ASSUME TypeInv, ClosedInv, NEW p \in Publishers, Step(p), NEW n \in DOMAIN changes[p],
         Rollback(p, n), UNCHANGED <<base, records, prev>>, StoreInv'
  PROVE  ClosedInv'
<1>t. /\ TypeOK /\ CallKnown(p) /\ CallWalk(p)
      /\ changes[p] \in Seq(ContextChange) /\ DOMAIN changes[p] = 1..Len(changes[p])
      /\ Len(changes[p]) \in Nat
  BY LenProperties DEF TypeInv, TypeOK, ClosedInv
<1>b. adverts \subseteq adverts' /\ blocks \subseteq blocks'
  BY BlocksGrow
<1>g. Walkable(base[p], adverts', blocks')
  BY <1>t, <1>b, WalkableGrows DEF CallWalk
<1> DEFINE t == SubSeq(changes[p], 1, n)
<1>1. t \in Seq(ContextChange) /\ Len(t) = n /\ \A k \in 1..n : t[k] = changes[p][k]
  <2>1. n \in 0..Len(changes[p])
    BY <1>t
  <2> QED
    BY <1>t, <2>1, SubSeqOfLink
<1>2. pc'[p] = "undoChunk" /\ changes'[p] = t /\ records' = records /\ prev' = prev /\ base' = base
  BY <1>t DEF Rollback, Goto, TypeOK
<1> HIDE DEF t
<1>3. \A k \in DOMAIN t : k \in DOMAIN changes[p] /\ t[k] = changes[p][k]
  BY <1>1, <1>t, LenProperties
<1>4. CallKnown(p)'
  BY <1>t, <1>b, <1>2, <1>3 DEF CallKnown, Known
<1>5. CallWalk(p)'
  BY <1>g, <1>2 DEF CallWalk
<1> QED
  BY <1>4, <1>5, OneMovesClosed

LEMMA CommitStepsClosed ==
  ASSUME TypeInv, ClosedInv, NEW p \in Publishers,
         \/ CommitBatch(p) \/ CommitBatchFails(p) \/ CommitHead(p) \/ CommitHeadFails(p)
  PROVE  ClosedInv'
<1>t. /\ TypeOK /\ CallOK(p) /\ CallKnown(p) /\ CallWalk(p) /\ Step(p) /\ StoreInv
      /\ pc[p] \in {"commitBatch", "replaceHead"}
      /\ Walkable(prev[p], adverts, blocks)
  BY DEF TypeInv, ClosedInv, Step, CommitBatch, CommitBatchFails, CommitHead, CommitHeadFails,
         CallWalk
<1>b. adverts \subseteq adverts' /\ blocks \subseteq blocks'
  BY <1>t, BlocksGrow
<1>u. ASSUME UNCHANGED store PROVE StoreInv'
  BY <1>u, <1>b, StoreRests DEF store
<1>h. ASSUME ReplaceHead(base[p], prev[p]) PROVE StoreInv'
  BY <1>h, <1>t DEF ReplaceHead, StoreInv, Known
<1>a. ASSUME ApplyBatch(p) PROVE StoreInv'
  <2>1. /\ head' = prev[p] /\ UNCHANGED <<adverts, blocks>>
        /\ \A c \in Contexts : chunkLink'[c] = Current(p, c).chunk \/ chunkLink'[c] = chunkLink[c]
    BY <1>a DEF ApplyBatch
  <2>2. \A c \in Contexts : Known(Current(p, c).chunk) /\ Known(chunkLink[c])
    BY <1>t, CurrentKnown DEF StoreInv
  <2>3. \A c \in Contexts : Known(chunkLink[c])'
    BY <2>1, <2>2 DEF Known
  <2> QED
    BY <1>t, <2>1, <2>3 DEF StoreInv
<1>1. CASE CommitBatch(p)
  BY <1>1, <1>a, <1>t, ReturnClosed DEF CommitBatch, Commit
<1>2. CASE CommitBatchFails(p)
  BY <1>2, <1>a, <1>u, <1>t, ReturnClosed DEF CommitBatchFails
<1>3. CASE CommitHead(p)
  BY <1>3, <1>h, <1>t, ReturnClosed DEF CommitHead, Commit
<1>4. CASE CommitHeadFails(p)
  <2>1. StoreInv'
    BY <1>4, <1>h, <1>u DEF CommitHeadFails, ReplaceHeadFails
  <2>2. changes[p] # <<>> /\ changes[p] \in Seq(ContextChange)
    BY <1>4, <1>t DEF CommitHeadFails, CallOK, LocalsOK, TypeOK
  <2>3. Len(changes[p]) \in DOMAIN changes[p]
    <3>1. Len(changes[p]) \in Nat /\ Len(changes[p]) # 0 /\ DOMAIN changes[p] = 1..Len(changes[p])
      BY <2>2, EmptySeq, LenProperties
    <3> QED
      BY <3>1
  <2> QED
    BY <1>4, <1>t, <2>1, <2>3, RollbackClosed DEF CommitHeadFails
<1> QED
  BY <1>1, <1>2, <1>3, <1>4

\* Writing or putting back an entries link writes one whose entries can be fetched.
LEMMA RecordStepsClosed ==
  ASSUME TypeInv, ClosedInv, NEW p \in Publishers,
         \/ WriteChunk(p) \/ WriteMeta(p) \/ WriteRecordFails(p)
         \/ UndoChunk(p) \/ UndoMeta(p)
  PROVE  ClosedInv'
<1>t. /\ TypeOK /\ CallOK(p) /\ CallKnown(p) /\ CallWalk(p) /\ Step(p) /\ StoreInv
      /\ pc[p] \in {"writeChunk", "writeMeta", "undoChunk", "undoMeta"}
      /\ i[p] \in DOMAIN changes[p]
      /\ chunkLink \in [Contexts -> Digests \cup {Nil}]
  BY DEF TypeInv, TypeOK, StoreTypeOK, ClosedInv, Step, CallOK, LocalsOK, WriteChunk, WriteMeta,
         WriteRecordFails, UndoChunk, UndoMeta
<1>b. adverts \subseteq adverts' /\ blocks \subseteq blocks'
  BY <1>t, BlocksGrow
<1>g. \A l : Walkable(l, adverts, blocks) => Walkable(l, adverts', blocks')
  BY <1>b, WalkableGrows
<1>d. Known(Change(p).new.chunk) /\ Known(Change(p).old.chunk)
  BY <1>t DEF CallKnown, Change
<1>u. ASSUME UNCHANGED store PROVE StoreInv'
  BY <1>u, <1>b, StoreRests DEF store
<1>m. ASSUME NEW c, NEW m, PutMetadata(c, m) PROVE StoreInv'
  BY <1>m, <1>b, StoreRests DEF PutMetadata
<1>p. ASSUME NEW c, NEW l, Known(l), PutChunkLink(c, l) PROVE StoreInv'
  <2>1. UNCHANGED <<head, adverts, blocks>> /\ \A d \in Contexts : chunkLink'[d] \in {l, chunkLink[d]}
    BY <1>p, <1>t DEF PutChunkLink
  <2> QED
    BY <1>p, <1>t, <2>1 DEF StoreInv, Known
<1>k. ASSUME UNCHANGED <<records, changes, prev>> PROVE CallKnown(p)'
  BY <1>k, <1>t, <1>b DEF CallKnown, Known
\* A step that stays among the writes of the mappings, or goes on to the head.
<1>w. ASSUME pc[p] \in {"writeChunk", "writeMeta"}, UNCHANGED <<base, records, changes, prev>>,
             pc'[p] # "putAdvert", StoreInv'
      PROVE  ClosedInv'
  <2>1. CallWalk(p)'
    BY <1>w, <1>t, <1>g DEF CallWalk
  <2> QED
    BY <1>w, <1>k, <1>t, <2>1, OneMovesClosed
<1>1. CASE WriteChunk(p)
  <2>1. StoreInv'
    <3>1. PICK c, l : Known(l) /\ (UNCHANGED store \/ PutChunkLink(c, l))
      BY <1>1, <1>d DEF WriteChunk
    <3> QED
      BY <3>1, <1>p, <1>u
  <2>2. pc'[p] = "writeMeta"
    BY <1>1, <1>t DEF WriteChunk, Goto, TypeOK
  <2> QED
    BY <1>1, <1>w, <2>1, <2>2 DEF WriteChunk
<1>2. CASE WriteMeta(p)
  <2>1. StoreInv'
    <3>1. PICK c, m : UNCHANGED store \/ PutMetadata(c, m)
      BY <1>2 DEF WriteMeta
    <3> QED
      BY <3>1, <1>m, <1>u
  <2>2. pc'[p] \in {"writeChunk", "replaceHead"}
    BY <1>2, <1>t DEF WriteMeta, Goto, TypeOK
  <2> QED
    BY <1>2, <1>w, <2>1, <2>2 DEF WriteMeta
<1>3. CASE WriteRecordFails(p)
  <2>1. StoreInv'
    <3>1. PICK c, l, m : Known(l) /\ (UNCHANGED store \/ PutChunkLink(c, l) \/ PutMetadata(c, m))
      BY <1>3, <1>d DEF WriteRecordFails, WriteFails
    <3> QED
      BY <3>1, <1>p, <1>m, <1>u
  <2> QED
    BY <1>3, <1>t, <2>1, RollbackClosed DEF WriteRecordFails
<1>4. CASE UndoChunk(p)
  <2>1. StoreInv'
    <3>1. PICK c, l : Known(l) /\ (UNCHANGED store \/ PutChunkLink(c, l))
      BY <1>4, <1>d DEF UndoChunk, WriteFails
    <3> QED
      BY <3>1, <1>p, <1>u
  <2>2. PICK n : Goto(p, "undoMeta", n)
    BY <1>4 DEF UndoChunk
  <2> QED
    BY <1>4, <1>t, <2>1, <2>2, GotoClosed DEF UndoChunk, Labels
<1>5. CASE UndoMeta(p)
  <2>1. StoreInv'
    <3>1. PICK c, m : UNCHANGED store \/ PutMetadata(c, m)
      BY <1>5 DEF UndoMeta, WriteFails
    <3> QED
      BY <3>1, <1>m, <1>u
  <2>2. CASE i[p] < Len(changes[p])
    <3>1. PICK n : Goto(p, "undoChunk", n)
      BY <1>5, <2>2 DEF UndoMeta
    <3> QED
      BY <1>5, <1>t, <2>1, <2>2, <3>1, GotoClosed DEF UndoMeta, Labels
  <2>3. CASE ~(i[p] < Len(changes[p]))
    BY <1>5, <1>t, <2>1, <2>3, ReturnClosed DEF UndoMeta
  <2> QED
    BY <2>2, <2>3
<1> QED
  BY <1>1, <1>2, <1>3, <1>4, <1>5

LEMMA ClosedStep == TypeInv /\ ClosedInv /\ [Next]_vars => ClosedInv'
<1> SUFFICES ASSUME TypeInv, ClosedInv, [Next]_vars PROVE ClosedInv'
  OBVIOUS
<1>1. ASSUME NEW p \in Publishers, Call(p) \/ Crash(p) PROVE ClosedInv'
  BY <1>1, ReadStepsClosed
<1>2. ASSUME NEW p \in Publishers, Step(p) PROVE ClosedInv'
  BY <1>2, ReadStepsClosed, PlanSpecClosed, PlanStepsClosed, CommitStepsClosed,
     RecordStepsClosed DEF Step
<1>3. CASE UNCHANGED vars
  BY <1>3 DEF vars, ClosedInv, StoreInv, CallKnown, CallWalk, Known
<1> QED
  BY <1>1, <1>2, <1>3 DEF Next

LEMMA ClosedInit == Init => ClosedInv
<1> SUFFICES ASSUME Init PROVE ClosedInv
  OBVIOUS
<1>1. DOMAIN <<>> = {}
  BY EmptySeq, LenProperties
<1>2. \A p \in Publishers : CallKnown(p)
  BY <1>1 DEF Init, CallKnown, Known, NoRecords, NoRecord
<1>3. \A p \in Publishers : CallWalk(p)
  BY WalkableEmpty DEF Init, CallWalk
<1>4. StoreInv
  BY WalkableEmpty DEF Init, StoreInit, StoreInv, Known
<1> QED
  BY <1>2, <1>3, <1>4 DEF ClosedInv

\* Whatever the head is, and whichever batch store commits it, every advert
\* behind it and the entries of each can be fetched.
THEOREM HeadIsClosed == Spec => []HeadClosed
<1>1. ClosedInv => HeadClosed
  BY DEF ClosedInv, StoreInv, HeadClosed
<1> QED
  BY <1>1, ClosedInit, ClosedStep, TypeInvHolds, PTL DEF Spec

-----------------------------------------------------------------------------
(* With a transactional batch store: what the mappings say of the chain, and *)
(* what the chain repeats.                                                   *)

\* No advert of the chain l repeats the metadata of the one before it for the
\* same context.
NoRepeat(l) ==
  \A j, k \in DOMAIN l :
    /\ j < k /\ l[j].ctx = l[k].ctx
    /\ \A n \in j+1..k-1 : l[n].ctx # l[j].ctx
    => l[j].md # l[k].md

\* What a call plans while the head is the one it found: the changes it plans and
\* the mappings it leaves alone are what the planned chain says, and the records
\* it loaded are those of the store.
PlanAgrees(p) ==
  /\ \A k \in DOMAIN changes[p] : Agrees(changes[p][k].new, prev[p], changes[p][k].ctx)
  /\ \A c \in Contexts \ ChangedContexts(p) : Agrees(Record(c), prev[p], c)
  /\ \A k \in DOMAIN specs[p] : records[p][specs[p][k].ctx] = Record(specs[p][k].ctx)
  /\ NoRepeat(prev[p])

OneChangeEach(p) ==
  \A j, k \in DOMAIN changes[p] : changes[p][j].ctx = changes[p][k].ctx => j = k

PlanInv(p) ==
  /\ pc[p] \in {"idle", "readHead", "loadChunk", "plan", "putAdvert", "commitBatch"}
  /\ pc[p] \in {"idle", "readHead", "loadChunk"} => changes[p] = <<>>
  /\ OneChangeEach(p)
  /\ pc[p] \in {"plan", "putAdvert", "commitBatch"} /\ base[p] = head => PlanAgrees(p)

AgreeInv ==
  /\ MappingsAlwaysAgree
  /\ NoRepeat(head)
  /\ \A p \in Publishers : PlanInv(p)

-----------------------------------------------------------------------------
(* Chains and plans *)

\* An advert that does not repeat what the chain says of its context can follow.
LEMMA NoRepeatAppend ==
  ASSUME NEW l \in Link, NEW ad \in Advert, NEW r, NoRepeat(l), Agrees(r, l, ad.ctx),
         r.chunk = Nil \/ r.md # ad.md
  PROVE  NoRepeat(Append(l, ad))
<1> DEFINE t == Append(l, ad)
<1>1. /\ Len(l) \in Nat /\ Len(t) = Len(l) + 1
      /\ DOMAIN l = 1..Len(l) /\ DOMAIN t = 1..(Len(l) + 1)
      /\ \A k \in 1..Len(l) : t[k] = l[k] /\ l[k] \in Advert
      /\ t[Len(l) + 1] = ad
  BY LenProperties, ElementOfSeq DEF Link
<1> HIDE DEF t
<1>2. SUFFICES ASSUME NEW j \in DOMAIN t, NEW k \in DOMAIN t,
                      j < k, t[j].ctx = t[k].ctx,
                      \A n \in j+1..k-1 : t[n].ctx # t[j].ctx
               PROVE  t[j].md # t[k].md
  BY DEF NoRepeat, t
<1>3. CASE k # Len(l) + 1
  <2>1. j \in DOMAIN l /\ k \in DOMAIN l /\ t[j] = l[j] /\ t[k] = l[k]
        /\ \A n \in j+1..k-1 : t[n] = l[n]
    BY <1>1, <1>2, <1>3
  <2> QED
    BY <1>2, <2>1 DEF NoRepeat
<1>4. CASE k = Len(l) + 1
  <2>1. /\ j \in DOMAIN l /\ t[j] = l[j] /\ t[k] = ad /\ l[j].ctx = ad.ctx
        /\ \A n \in j+1..Len(l) : l[n].ctx # ad.ctx
    BY <1>1, <1>2, <1>4
  <2>2. PICK n \in DOMAIN l :
          /\ l[n].ctx = ad.ctx
          /\ r = [chunk |-> l[n].entries, md |-> l[n].md]
          /\ \A m \in n+1..Len(l) : l[m].ctx # ad.ctx
    BY <2>1 DEF Agrees
  <2>3. n = j
    BY <1>1, <2>1, <2>2
  <2>4. r.chunk # Nil
    BY <1>1, <2>2, NilAssumption DEF Advert
  <2> QED
    BY <2>1, <2>2, <2>3, <2>4
<1> QED
  BY <1>3, <1>4

\* A context's record by now is that of its one change.
LEMMA CurrentChange ==
  ASSUME NEW p \in Publishers, OneChangeEach(p), NEW k \in DOMAIN changes[p]
  PROVE  Current(p, changes[p][k].ctx) = changes[p][k].new
<1>1. changes[p][k].ctx \in ChangedContexts(p)
  BY DEF ChangedContexts
<1> DEFINE n == CHOOSE n \in DOMAIN changes[p] : changes[p][n].ctx = changes[p][k].ctx
<1>2. n \in DOMAIN changes[p] /\ changes[p][n].ctx = changes[p][k].ctx
  OBVIOUS
<1>3. n = k
  BY <1>2 DEF OneChangeEach
<1> QED
  BY <1>1, <1>3 DEF Current

\* What the planned chain says of a context a spec names is its record by now.
LEMMA CurrentAgrees ==
  ASSUME NEW p \in Publishers, OneChangeEach(p), PlanAgrees(p), NEW k \in DOMAIN specs[p],
         specs[p][k].ctx \in Contexts
  PROVE  Agrees(Current(p, specs[p][k].ctx), prev[p], specs[p][k].ctx)
<1> DEFINE c == specs[p][k].ctx
<1>1. CASE c \in ChangedContexts(p)
  <2>1. PICK n \in DOMAIN changes[p] : changes[p][n].ctx = c
    BY <1>1 DEF ChangedContexts
  <2>2. Current(p, changes[p][n].ctx) = changes[p][n].new
    BY CurrentChange
  <2> QED
    BY <2>1, <2>2 DEF PlanAgrees
<1>2. CASE c \notin ChangedContexts(p)
  <2>1. Current(p, c) = records[p][c]
    BY <1>2 DEF Current
  <2>2. records[p][c] = Record(c) /\ Agrees(Record(c), prev[p], c)
    BY <1>2 DEF PlanAgrees
  <2> QED
    BY <2>1, <2>2
<1> QED
  BY <1>1, <1>2

\* The changes a plan has with a spec more: the spec's context has one, and those
\* of the other contexts stay as they are.
PlannedFrom(p, s, next, pl) ==
  /\ \A j, k \in DOMAIN pl : pl[j].ctx = pl[k].ctx => j = k
  /\ {pl[k].ctx : k \in DOMAIN pl} = ChangedContexts(p) \cup {s.ctx}
  /\ \A k \in DOMAIN pl :
       \/ /\ pl[k].ctx = s.ctx /\ pl[k].new = next
          /\ \/ pl[k].old = records[p][s.ctx]
             \/ \E n \in DOMAIN changes[p] :
                  changes[p][n].ctx = s.ctx /\ pl[k].old = changes[p][n].old
       \/ /\ pl[k].ctx # s.ctx
          /\ \E n \in DOMAIN changes[p] : pl[k] = changes[p][n]

\* What planning leaves of the changes.
LEMMA PlannedChanges ==
  ASSUME TypeOK, NEW p \in Publishers, OneChangeEach(p), NEW s \in AdvertSpec,
         NEW next \in ContextRecord
  PROVE  PlannedFrom(p, s, next, Planned(p, s, next))
<1> SUFFICES ASSUME NEW pl, pl = Planned(p, s, next) PROVE PlannedFrom(p, s, next, pl)
  OBVIOUS
<1> USE DEF PlannedFrom
<1>t. /\ changes[p] \in Seq(ContextChange) /\ Len(changes[p]) \in Nat
      /\ DOMAIN changes[p] = 1..Len(changes[p])
      /\ \A k \in DOMAIN changes[p] : changes[p][k] \in ContextChange
      /\ s.ctx \in Contexts /\ records[p][s.ctx] \in ContextRecord
  BY LenProperties, ElementOfSeq DEF TypeOK, AdvertSpec
<1>1. CASE s.ctx \in ChangedContexts(p)
  <2>1. /\ DOMAIN pl = DOMAIN changes[p]
        /\ \A k \in DOMAIN pl : pl[k] = IF changes[p][k].ctx = s.ctx
                                        THEN [changes[p][k] EXCEPT !.new = next]
                                        ELSE changes[p][k]
    BY <1>1 DEF Planned
  <2>2. \A k \in DOMAIN pl :
          /\ pl[k].ctx = changes[p][k].ctx
          /\ changes[p][k].ctx = s.ctx => pl[k].new = next /\ pl[k].old = changes[p][k].old
          /\ changes[p][k].ctx # s.ctx => pl[k] = changes[p][k]
    BY <2>1, <1>t DEF ContextChange
  <2>3. {pl[k].ctx : k \in DOMAIN pl} = ChangedContexts(p)
    BY <2>1, <2>2 DEF ChangedContexts
  <2> QED
    BY <1>1, <2>1, <2>2, <2>3 DEF OneChangeEach
<1>2. CASE s.ctx \notin ChangedContexts(p)
  <2> DEFINE e == [ctx |-> s.ctx, old |-> records[p][s.ctx], new |-> next]
  <2>1. e \in ContextChange /\ e.ctx = s.ctx /\ e.new = next /\ e.old = records[p][s.ctx]
    BY <1>t DEF ContextChange
  <2>2. pl = Append(changes[p], e)
    BY <1>2 DEF Planned
  <2> HIDE DEF e
  <2>3. /\ pl \in Seq(ContextChange) /\ Len(pl) = Len(changes[p]) + 1
        /\ \A k \in 1..Len(changes[p]) : pl[k] = changes[p][k]
        /\ pl[Len(changes[p]) + 1] = e
    BY <1>t, <2>1, <2>2, AppendProperties
  <2>4. DOMAIN pl = 1..(Len(changes[p]) + 1)
    BY <2>3, LenProperties
  <2>5. \A k \in DOMAIN changes[p] : changes[p][k].ctx # s.ctx
    BY <1>2 DEF ChangedContexts
  <2>6. \A k \in DOMAIN pl :
          \/ k = Len(changes[p]) + 1 /\ pl[k] = e
          \/ k \in DOMAIN changes[p] /\ pl[k] = changes[p][k]
    BY <1>t, <2>3, <2>4
  <2>7. \A j, k \in DOMAIN pl : pl[j].ctx = pl[k].ctx => j = k
    BY <2>1, <2>5, <2>6 DEF OneChangeEach
  <2>8. {pl[k].ctx : k \in DOMAIN pl} = ChangedContexts(p) \cup {s.ctx}
    <3>1. \A k \in DOMAIN changes[p] : k \in DOMAIN pl /\ pl[k] = changes[p][k]
      BY <1>t, <2>3, <2>4
    <3>2. Len(changes[p]) + 1 \in DOMAIN pl
      BY <1>t, <2>4
    <3> QED
      BY <2>1, <2>3, <2>6, <3>1, <3>2 DEF ChangedContexts
  <2> QED
    BY <2>1, <2>5, <2>6, <2>7, <2>8
<1> QED
  BY <1>1, <1>2

-----------------------------------------------------------------------------
(* The steps *)

\* With a transactional batch store only a commit writes the mappings or the head.
LEMMA StoreMoves ==
  ASSUME Transactional, NEW p \in Publishers, PlanInv(p), Call(p) \/ Step(p) \/ Crash(p)
  PROVE  \/ UNCHANGED <<head, chunkLink, metadata>>
         \/ pc[p] = "commitBatch" /\ ApplyBatch(p) /\ Return(p)
<1>1. CASE Call(p) \/ Crash(p)
  BY <1>1 DEF Call, Crash, store
<1>2. CASE \/ ReadHead(p) \/ LoadChunk(p) \/ LoadMeta(p) \/ AllLoaded(p)
           \/ LoadContexts(p) \/ LoadFails(p)
  BY <1>2 DEF ReadHead, LoadChunk, LoadMeta, AllLoaded, LoadContexts, LoadFails, ReadFails, store
<1>3. CASE PlanSpec(p) \/ PlanFails(p) \/ NothingToCommit(p) \/ AllPlanned(p)
  BY <1>3 DEF PlanSpec, PlanFails, NothingToCommit, AllPlanned, ReadFails, WriteFails, PutEntries, store
<1>4. CASE PutAd(p) \/ PutAdvertsFails(p)
  BY <1>4 DEF PutAd, PutAdvertsFails, WriteFails, PutAdvert, store
<1>5. CASE CommitBatch(p) \/ CommitBatchFails(p)
  BY <1>5 DEF CommitBatch, CommitBatchFails, Commit, store
<1>6. CASE \/ WriteChunk(p) \/ WriteMeta(p) \/ CommitHead(p) \/ WriteRecordFails(p)
           \/ CommitHeadFails(p) \/ UndoChunk(p) \/ UndoMeta(p)
  BY <1>6 DEF PlanInv, WriteChunk, WriteMeta, CommitHead, WriteRecordFails, CommitHeadFails,
              UndoChunk, UndoMeta
<1> QED
  BY <1>1, <1>2, <1>3, <1>4, <1>5, <1>6 DEF Step

LEMMA OneMovesAgrees ==
  ASSUME TypeInv, AgreeInv, NEW p \in Publishers, Call(p) \/ Step(p) \/ Crash(p),
         UNCHANGED <<head, chunkLink, metadata>>, PlanInv(p)'
  PROVE  AgreeInv'
<1>1. \A c : Record(c)' = Record(c)
  BY DEF Record
<1>2. MappingsAlwaysAgree' /\ NoRepeat(head')
  BY <1>1 DEF AgreeInv, MappingsAlwaysAgree
<1>3. ASSUME NEW q \in Publishers, q # p PROVE PlanInv(q)'
  <2>1. /\ pc'[q] = pc[q] /\ specs'[q] = specs[q] /\ base'[q] = base[q]
        /\ records'[q] = records[q] /\ changes'[q] = changes[q] /\ prev'[q] = prev[q]
    BY <1>3, OthersRestStep DEF OthersRest
  <2>2. PlanInv(q)
    BY DEF AgreeInv
  <2>3. ChangedContexts(q)' = ChangedContexts(q) /\ (OneChangeEach(q) => OneChangeEach(q)')
    BY <2>1 DEF ChangedContexts, OneChangeEach
  <2>4. PlanAgrees(q) => PlanAgrees(q)'
    BY <1>1, <2>1, <2>3 DEF PlanAgrees
  <2> QED
    BY <2>1, <2>2, <2>3, <2>4 DEF PlanInv
<1> QED
  BY <1>2, <1>3 DEF AgreeInv

\* A call that has not planned anything.
LEMMA NothingPlanned ==
  ASSUME NEW p \in Publishers, changes'[p] = <<>>, pc'[p] \in {"idle", "readHead", "loadChunk"}
  PROVE  PlanInv(p)'
<1>1. DOMAIN changes'[p] = {}
  BY EmptySeq, LenProperties
<1> QED
  BY <1>1 DEF PlanInv, OneChangeEach

\* A step that keeps what the call planned.
LEMMA PlanKept ==
  ASSUME NEW p \in Publishers, PlanInv(p), pc[p] \in {"plan", "putAdvert", "commitBatch"},
         pc'[p] \in {"plan", "putAdvert", "commitBatch"},
         UNCHANGED <<head, chunkLink, metadata, specs, base, records, changes, prev>>
  PROVE  PlanInv(p)'
<1>1. \A c : Record(c)' = Record(c)
  BY DEF Record
<1>2. ChangedContexts(p)' = ChangedContexts(p) /\ (OneChangeEach(p) => OneChangeEach(p)')
  BY DEF ChangedContexts, OneChangeEach
<1>3. PlanAgrees(p) => PlanAgrees(p)'
  BY <1>1, <1>2 DEF PlanAgrees
<1> QED
  BY <1>2, <1>3 DEF PlanInv

\* The records are loaded and nothing is planned: the planned chain is the head.
LEMMA LoadContextsAgrees ==
  ASSUME TypeInv, AgreeInv, NEW p \in Publishers, LoadContexts(p)
  PROVE  PlanInv(p)'
<1>t. TypeOK /\ CallOK(p) /\ PlanInv(p) /\ specs[p] \in Seq(AdvertSpec)
  BY DEF TypeInv, TypeOK, AgreeInv
<1>1. /\ pc'[p] = "plan" /\ changes'[p] = <<>> /\ prev[p] = base[p]
      /\ UNCHANGED <<head, chunkLink, metadata, specs, base, changes, prev>>
  BY <1>t DEF LoadContexts, Goto, TypeOK, PlanInv, CallOK, LocalsOK, store
<1>2. DOMAIN changes'[p] = {}
  BY <1>1, EmptySeq, LenProperties
<1>3. \A k \in DOMAIN specs[p] : records'[p][specs[p][k].ctx] = Record(specs[p][k].ctx)
  <2>1. \A k \in DOMAIN specs[p] : specs[p][k].ctx \in Contexts
    <3>1. \A k \in DOMAIN specs[p] : specs[p][k] \in AdvertSpec
      BY <1>t, LenProperties, ElementOfSeq
    <3> QED
      BY <3>1 DEF AdvertSpec
  <2>2. records'[p] = [c \in Contexts |-> IF \E k \in DOMAIN specs[p] : specs[p][k].ctx = c
                                          THEN Record(c) ELSE NoRecord]
    BY <1>t DEF LoadContexts, TypeOK
  <2> QED
    BY <2>1, <2>2
<1>4. \A c : Record(c)' = Record(c)
  BY <1>1 DEF Record
<1>5. base'[p] = head' => PlanAgrees(p)'
  <2> SUFFICES ASSUME base'[p] = head' PROVE PlanAgrees(p)'
    OBVIOUS
  <2>1. prev'[p] = head /\ MappingsAlwaysAgree /\ NoRepeat(head)
    BY <1>1 DEF AgreeInv
  <2>2. ChangedContexts(p)' = {}
    BY <1>2 DEF ChangedContexts
  <2> QED
    BY <1>1, <1>2, <1>3, <1>4, <2>1, <2>2 DEF PlanAgrees, MappingsAlwaysAgree
<1> QED
  BY <1>1, <1>2, <1>5 DEF PlanInv, OneChangeEach

\* Planning a spec: the new advert is the newest of its context, and does not
\* repeat the one before it, as the spec would be skipped.
LEMMA PlanSpecAgrees ==
  ASSUME TypeInv, AgreeInv, NEW p \in Publishers, PlanSpec(p)
  PROVE  PlanInv(p)'
<1>t. /\ TypeOK /\ PlanInv(p) /\ OneChangeEach(p) /\ pc[p] = "plan" /\ i[p] \in DOMAIN specs[p]
      /\ ASpec(p) \in AdvertSpec /\ ASpec(p).ctx \in Contexts /\ prev[p] \in Link
      /\ specs[p] \in Seq(AdvertSpec)
  BY SpecType DEF TypeInv, TypeOK, AgreeInv, PlanInv, PlanSpec, AdvertSpec
<1>1. pc'[p] = "plan" /\ UNCHANGED <<head, chunkLink, metadata, specs, base, records>>
  BY <1>t DEF PlanSpec, Advance, Goto, TypeOK, PutEntries, store
<1>r. \A c : Record(c)' = Record(c)
  BY <1>1 DEF Record
<1>2. CASE AlreadyAdvertised(Current(p, ASpec(p).ctx), ASpec(p))
  <2>1. UNCHANGED <<changes, prev>>
    BY <1>2 DEF PlanSpec
  <2> QED
    BY <1>1, <1>t, <2>1, PlanKept
<1>3. CASE ~AlreadyAdvertised(Current(p, ASpec(p).ctx), ASpec(p))
  <2>1. PICK s \in AdvertSpec : s = ASpec(p)
    BY <1>t
  <2>2. PICK cur \in ContextRecord : cur = Current(p, s.ctx)
    BY <1>t, <2>1, CurrentType
  <2>3. PICK next \in ContextRecord : next = NextRecord(cur, s)
    BY NextRecordType
  <2>4. PICK ad \in Advert : ad = [ctx |-> s.ctx, entries |-> next.chunk, md |-> next.md]
    BY <2>3, NextRecordType
  <2>5. PICK pl : pl = Planned(p, s, next)
    OBVIOUS
  <2>6. changes'[p] = pl /\ prev'[p] = Append(prev[p], ad)
    BY <1>3, <1>t, <2>1, <2>2, <2>3, <2>4, <2>5 DEF PlanSpec, TypeOK
  <2>7. /\ \A j, k \in DOMAIN pl : pl[j].ctx = pl[k].ctx => j = k
        /\ {pl[k].ctx : k \in DOMAIN pl} = ChangedContexts(p) \cup {s.ctx}
        /\ \A k \in DOMAIN pl :
             \/ pl[k].ctx = s.ctx /\ pl[k].new = next
             \/ /\ pl[k].ctx # s.ctx
                /\ \E n \in DOMAIN changes[p] : pl[k] = changes[p][n]
    <3>1. TypeOK /\ OneChangeEach(p) /\ s \in AdvertSpec /\ next \in ContextRecord
      BY <1>t, <2>1, <2>3
    <3>2. PlannedFrom(p, s, next, Planned(p, s, next))
      BY <3>1, PlannedChanges
    <3> QED
      BY <2>5, <3>2 DEF PlannedFrom
  <2>8. OneChangeEach(p)' /\ ChangedContexts(p)' = ChangedContexts(p) \cup {s.ctx}
    BY <2>6, <2>7 DEF OneChangeEach, ChangedContexts
  <2>9. ASSUME base'[p] = head' PROVE PlanAgrees(p)'
    <3>0. PlanAgrees(p)
      BY <1>1, <1>t, <2>9 DEF PlanInv
    <3>1. /\ ad.ctx = s.ctx /\ next = [chunk |-> ad.entries, md |-> ad.md] /\ ad.md = s.md
      BY <2>3, <2>4 DEF NextRecord
    <3>2. ASSUME NEW k \in DOMAIN pl PROVE Agrees(pl[k].new, Append(prev[p], ad), pl[k].ctx)
      <4>1. CASE pl[k].ctx = s.ctx /\ pl[k].new = next
        BY <4>1, <1>t, <3>1, AgreesNewest
      <4>2. CASE pl[k].ctx # s.ctx /\ \E n \in DOMAIN changes[p] : pl[k] = changes[p][n]
        <5>1. Agrees(pl[k].new, prev[p], pl[k].ctx)
          BY <4>2, <3>0 DEF PlanAgrees
        <5> QED
          BY <4>2, <5>1, <1>t, <3>1, AgreesOther
      <4> QED
        BY <4>1, <4>2, <2>7
    <3>3. ASSUME NEW c \in Contexts \ (ChangedContexts(p) \cup {s.ctx})
          PROVE  Agrees(Record(c), Append(prev[p], ad), c)
      <4>1. Agrees(Record(c), prev[p], c)
        BY <3>0 DEF PlanAgrees
      <4> QED
        BY <4>1, <1>t, <3>1, AgreesOther
    <3>4. NoRepeat(Append(prev[p], ad))
      <4>1. Agrees(cur, prev[p], ad.ctx)
        <5>1. specs[p][i[p]].ctx = s.ctx
          BY <2>1 DEF ASpec
        <5> QED
          BY <1>t, <5>1, <2>1, <2>2, <3>0, <3>1, CurrentAgrees
      <4>2. cur.chunk = Nil \/ cur.md # ad.md
        BY <1>3, <2>1, <2>2, <3>1 DEF AlreadyAdvertised
      <4>3. NoRepeat(prev[p])
        BY <3>0 DEF PlanAgrees
      <4> QED
        BY <1>t, <4>1, <4>2, <4>3, NoRepeatAppend
    <3>5. \A k \in DOMAIN specs[p] : records[p][specs[p][k].ctx] = Record(specs[p][k].ctx)
      BY <3>0 DEF PlanAgrees
    <3>6. \A c \in Contexts \ (ChangedContexts(p) \cup {s.ctx}) : Agrees(Record(c)', Append(prev[p], ad), c)
      BY <3>3, <1>r
    <3> QED
      BY <1>1, <1>r, <2>6, <2>8, <3>2, <3>6, <3>4, <3>5 DEF PlanAgrees
  <2> QED
    BY <1>1, <2>8, <2>9 DEF PlanInv
<1> QED
  BY <1>2, <1>3

\* A commit makes the planned chain the head, and the plans of the others void:
\* the head has grown past the one they found.
LEMMA CommitAgrees ==
  ASSUME TypeInv, BaseInv, AgreeInv, NEW p \in Publishers,
         Call(p) \/ Step(p) \/ Crash(p), pc[p] = "commitBatch", ApplyBatch(p), Return(p)
  PROVE  AgreeInv'
<1>t. /\ TypeOK /\ CallOK(p) /\ PlanInv(p) /\ PlanAgrees(p) /\ OneChangeEach(p)
      /\ head \in Link /\ prev[p] \in Link
      /\ head' = prev[p] /\ base[p] = head
  BY DEF TypeInv, TypeOK, StoreTypeOK, AgreeInv, PlanInv, ApplyBatch
<1>1. MappingsAlwaysAgree'
  <2> SUFFICES ASSUME NEW c \in Contexts PROVE Agrees(Record(c)', head', c)
    BY DEF MappingsAlwaysAgree
  <2>1. CASE c \in ChangedContexts(p)
    <3>1. PICK k \in DOMAIN changes[p] : changes[p][k].ctx = c
      BY <2>1 DEF ChangedContexts
    <3>2. Current(p, changes[p][k].ctx) = changes[p][k].new
      BY <1>t, CurrentChange
    <3>3. Current(p, c) \in ContextRecord
      BY <1>t, CurrentType
    <3>4. Record(c)' = [chunk |-> Current(p, c).chunk, md |-> Current(p, c).md]
      BY <2>1 DEF ApplyBatch, Record
    <3>5. Record(c)' = Current(p, c)
      BY <3>3, <3>4 DEF ContextRecord
    <3> QED
      BY <1>t, <3>1, <3>2, <3>5 DEF PlanAgrees
  <2>2. CASE c \notin ChangedContexts(p)
    <3>1. Record(c)' = Record(c)
      BY <2>2 DEF ApplyBatch, Record
    <3> QED
      BY <1>t, <2>2, <3>1 DEF PlanAgrees
  <2> QED
    BY <2>1, <2>2
<1>2. NoRepeat(head')
  BY <1>t DEF PlanAgrees
<1>3. \A q \in Publishers : base[q] # head'
  <2> SUFFICES ASSUME NEW q \in Publishers PROVE base[q] # head'
    OBVIOUS
  <2>1. Len(head) < Len(head') /\ Len(head) \in Nat /\ Len(head') \in Nat
    <3>1. Extends(prev[p], base[p]) /\ prev[p] # base[p]
      BY <1>t DEF CallOK, LocalsOK
    <3> QED
      BY <1>t, <3>1, ExtendsLonger, LenProperties DEF Link
  <2>2. PICK n \in 0..Len(head) : base[q] = SubSeq(head, 1, n)
    BY DEF BaseInv, Prefixes
  <2>3. Len(base[q]) = n
    BY <1>t, <2>2, SubSeqOfLink DEF Link
  <2> QED
    BY <2>1, <2>3
<1>4. ASSUME NEW q \in Publishers, q # p PROVE PlanInv(q)'
  <2>1. /\ pc'[q] = pc[q] /\ base'[q] = base[q] /\ changes'[q] = changes[q]
    BY <1>4, OthersRestStep DEF OthersRest
  <2>2. PlanInv(q) /\ base'[q] # head'
    BY <2>1, <1>3 DEF AgreeInv
  <2> QED
    BY <2>1, <2>2 DEF PlanInv, OneChangeEach
<1>5. PlanInv(p)'
  <2>1. changes'[p] = <<>> /\ pc'[p] = "idle"
    BY <1>t DEF Return, Goto, TypeOK
  <2> QED
    BY <2>1, NothingPlanned
<1> QED
  BY <1>1, <1>2, <1>4, <1>5 DEF AgreeInv

LEMMA AgreeStep ==
  ASSUME Transactional, TypeInv, BaseInv, AgreeInv, [Next]_vars
  PROVE  AgreeInv'
<1>1. ASSUME NEW p \in Publishers, Call(p) \/ Step(p) \/ Crash(p) PROVE AgreeInv'
  <2>t. TypeOK /\ PlanInv(p)
    BY DEF TypeInv, AgreeInv
  <2>r. ASSUME Return(p) PROVE PlanInv(p)'
    <3>1. changes'[p] = <<>> /\ pc'[p] = "idle"
      BY <2>r, <2>t DEF Return, Goto, TypeOK
    <3> QED
      BY <3>1, NothingPlanned
  <2>1. CASE pc[p] = "commitBatch" /\ ApplyBatch(p) /\ Return(p)
    BY <1>1, <2>1, CommitAgrees
  <2>2. CASE UNCHANGED <<head, chunkLink, metadata>>
    <3>1. CASE Call(p) \/ ReadHead(p)
      <4>1. pc'[p] \in {"readHead", "loadChunk"} /\ changes'[p] = <<>>
        BY <3>1, <2>t DEF Call, ReadHead, Goto, TypeOK, PlanInv
      <4> QED
        BY <1>1, <2>2, <4>1, NothingPlanned, OneMovesAgrees
    <3>2. CASE LoadChunk(p) \/ LoadMeta(p) \/ AllLoaded(p)
      BY <3>2, <2>t DEF LoadChunk, LoadMeta, AllLoaded, PlanInv
    <3>3. CASE LoadContexts(p)
      BY <1>1, <2>2, <3>3, LoadContextsAgrees, OneMovesAgrees
    <3>4. CASE PlanSpec(p)
      BY <1>1, <2>2, <3>4, PlanSpecAgrees, OneMovesAgrees
    <3>5. CASE AllPlanned(p) \/ PutAd(p)
      <4>1. /\ pc[p] \in {"plan", "putAdvert"} /\ pc'[p] \in {"putAdvert", "commitBatch"}
            /\ UNCHANGED <<specs, base, records, changes, prev>>
        BY <3>5, <2>t DEF AllPlanned, PutAd, Advance, Goto, TypeOK
      <4> QED
        BY <1>1, <2>t, <2>2, <4>1, PlanKept, OneMovesAgrees
    <3>6. CASE \/ LoadFails(p) \/ PlanFails(p) \/ NothingToCommit(p) \/ PutAdvertsFails(p)
               \/ CommitBatch(p) \/ CommitBatchFails(p) \/ Crash(p)
      <4>1. Return(p)
        BY <3>6 DEF LoadFails, PlanFails, NothingToCommit, PutAdvertsFails, CommitBatch, Commit,
                    CommitBatchFails, Crash
      <4> QED
        BY <1>1, <2>r, <2>2, <4>1, OneMovesAgrees
    <3>7. CASE \/ WriteChunk(p) \/ WriteMeta(p) \/ CommitHead(p) \/ WriteRecordFails(p)
               \/ CommitHeadFails(p) \/ UndoChunk(p) \/ UndoMeta(p)
      BY <3>7, <2>t DEF PlanInv, WriteChunk, WriteMeta, CommitHead, WriteRecordFails,
                        CommitHeadFails, UndoChunk, UndoMeta
    <3> QED
      BY <1>1, <3>1, <3>2, <3>3, <3>4, <3>5, <3>6, <3>7 DEF Step
  <2> QED
    BY <1>1, <2>t, <2>1, <2>2, StoreMoves
<1>2. CASE UNCHANGED vars
  <2>1. UNCHANGED <<head, chunkLink, metadata, pc, specs, base, records, changes, prev>>
    BY <1>2 DEF vars
  <2>2. \A c : Record(c)' = Record(c)
    BY <2>1 DEF Record
  <2>3. \A p : ChangedContexts(p)' = ChangedContexts(p)
    BY <2>1 DEF ChangedContexts
  <2>4. MappingsAlwaysAgree' /\ NoRepeat(head')
    BY <2>1, <2>2 DEF AgreeInv, MappingsAlwaysAgree
  <2>5. \A p \in Publishers : PlanAgrees(p) => PlanAgrees(p)'
    BY <2>1, <2>2, <2>3 DEF PlanAgrees
  <2>6. \A p \in Publishers : PlanInv(p)'
    BY <2>1, <2>5 DEF AgreeInv, PlanInv, OneChangeEach
  <2> QED
    BY <2>4, <2>6 DEF AgreeInv
<1> QED
  BY <1>1, <1>2 DEF Next

LEMMA AgreeInit == Init => AgreeInv
<1> SUFFICES ASSUME Init PROVE AgreeInv
  OBVIOUS
<1>1. DOMAIN <<>> = {}
  BY EmptySeq, LenProperties
<1>2. MappingsAlwaysAgree
  BY <1>1 DEF Init, StoreInit, MappingsAlwaysAgree, Agrees, Record
<1>3. NoRepeat(head)
  BY <1>1 DEF Init, StoreInit, NoRepeat
<1>4. \A p \in Publishers : PlanInv(p)
  BY <1>1 DEF Init, PlanInv, OneChangeEach
<1> QED
  BY <1>2, <1>3, <1>4 DEF AgreeInv

-----------------------------------------------------------------------------
(* The theorems *)

LEMMA AgreeInvHolds ==
  ASSUME Transactional
  PROVE  Spec => []AgreeInv
<1>1. TypeInv /\ ChainInv /\ [Next]_vars => ChainInv'
  BY ChainStep
<1>2. Init => ChainInv
  BY ChainInit
<1>3. ChainInv => BaseInv
  BY DEF ChainInv
<1>4. TypeInv /\ BaseInv /\ AgreeInv /\ [Next]_vars => AgreeInv'
  BY AgreeStep
<1> QED
  BY <1>1, <1>2, <1>3, <1>4, AgreeInit, TypeInvHolds, PTL DEF Spec

\* With a transactional batch store the mappings say at every moment what the
\* chain says, for contexts that publishers share, and through failures, crashes
\* and commits whose reply was lost (store.BatchStore).
THEOREM MappingsNeverDisagree ==
  ASSUME Transactional
  PROVE  Spec => []MappingsAlwaysAgree
<1>1. AgreeInv => MappingsAlwaysAgree
  BY DEF AgreeInv
<1> QED
  BY <1>1, AgreeInvHolds, PTL

\* With a transactional batch store no advert repeats the metadata of the one
\* before it for its context, whoever published that: the head is read before the
\* records, so a commit over records that are stale finds another head.
THEOREM NoAdvertIsRepeated ==
  ASSUME Transactional
  PROVE  Spec => []NoRepeatedAdvert
<1>1. AgreeInv => NoRepeatedAdvert
  BY DEF AgreeInv, NoRepeat, NoRepeatedAdvert
<1> QED
  BY <1>1, AgreeInvHolds, PTL

-----------------------------------------------------------------------------
(* With the default batch store: what the mappings say between calls.       *)

\* Every context has one publisher.
Private == \A p, q \in Publishers : p # q => Owns[p] \cap Owns[q] = {}

\* A call names and changes contexts of its publisher only.
OwnOnly(p) ==
  /\ pc[p] # "commitBatch"
  /\ pc[p] \in {"idle", "readHead", "loadChunk", "loadMeta"} => changes[p] = <<>>
  /\ \A k \in DOMAIN specs[p] : specs[p][k].ctx \in Owns[p]
  /\ \A k \in DOMAIN changes[p] : \E n \in DOMAIN specs[p] : specs[p][n].ctx = changes[p][k].ctx
  /\ OneChangeEach(p)

\* The records a call has loaded are those of the store until it writes.
LoadedRecords(p) ==
  /\ \A k \in DOMAIN specs[p] :
       pc[p] = "plan" \/ (pc[p] \in {"loadChunk", "loadMeta"} /\ k < i[p])
       => records[p][specs[p][k].ctx] = Record(specs[p][k].ctx)
  /\ pc[p] = "loadMeta" => records[p][ASpec(p).ctx].chunk = chunkLink[ASpec(p).ctx]

\* What the planned chain says: of a context the plan changes, its new record; of
\* another one, what the head that was found says.
PlanSays(p) ==
  pc[p] \notin {"undoChunk", "undoMeta"} =>
    /\ \A k \in DOMAIN changes[p] : Agrees(changes[p][k].new, prev[p], changes[p][k].ctx)
    /\ \A c \in Contexts \ ChangedContexts(p) :
         \A r \in ContextRecord : Agrees(r, base[p], c) => Agrees(r, prev[p], c)

\* What has become of the k-th change, e, when the call is about to make the
\* store call named by label, for its change index: rec is the record of the
\* context, and lost says whether it could not be put back.
Stands(label, index, k, e, rec, lost) ==
  /\ label \in {"plan", "putAdvert"} => rec = e.old
  /\ label \in {"writeChunk", "writeMeta"} /\ k < index => rec = e.new
  /\ label \in {"writeChunk", "writeMeta"} /\ k > index => rec = e.old
  /\ label = "writeChunk" /\ k = index => rec = e.old
  /\ label = "writeMeta" /\ k = index => rec = [chunk |-> e.new.chunk, md |-> e.old.md]
  /\ label = "replaceHead" => rec = e.new
  /\ label \in {"undoChunk", "undoMeta"} /\ k < index => lost \/ rec = e.old
  /\ label = "undoMeta" /\ k = index => lost \/ rec.chunk = e.old.chunk

ChangesStand(p) ==
  \A k \in DOMAIN changes[p] :
    LET c == changes[p][k].ctx
    IN  Stands(pc[p], i[p], k, changes[p][k], Record(c), c \in torn)

\* The head says of each context the record it had before the call.
RestAgrees(p) ==
  /\ \A c \in Owns[p] \ (ChangedContexts(p) \cup torn) : Agrees(Record(c), head, c)
  /\ \A k \in DOMAIN changes[p] :
       changes[p][k].ctx \notin torn => Agrees(changes[p][k].old, head, changes[p][k].ctx)

UnownedAgree ==
  \A c \in Contexts : (\A p \in Publishers : c \notin Owns[p]) => Agrees(Record(c), head, c)

CallAgrees(p) ==
  OwnOnly(p) /\ LoadedRecords(p) /\ PlanSays(p) /\ ChangesStand(p) /\ RestAgrees(p)

DefaultInv == UnownedAgree /\ \A p \in Publishers : CallAgrees(p)

-----------------------------------------------------------------------------
(* Types and frames *)

LEMMA CallTypes ==
  ASSUME TypeInv, NEW p \in Publishers
  PROVE  /\ head \in Link /\ base[p] \in Link /\ prev[p] \in Link /\ i[p] \in Nat \ {0}
         /\ Owns[p] \subseteq Contexts
         /\ specs[p] \in Seq(AdvertSpec) /\ Len(specs[p]) \in Nat
         /\ DOMAIN specs[p] = 1..Len(specs[p])
         /\ \A k \in DOMAIN specs[p] : specs[p][k] \in AdvertSpec /\ specs[p][k].ctx \in Contexts
         /\ changes[p] \in Seq(ContextChange) /\ Len(changes[p]) \in Nat
         /\ DOMAIN changes[p] = 1..Len(changes[p])
         /\ \A k \in DOMAIN changes[p] :
              /\ changes[p][k] \in ContextChange /\ changes[p][k].ctx \in Contexts
              /\ changes[p][k].old \in ContextRecord /\ changes[p][k].new \in ContextRecord
         /\ \A c \in Contexts : Record(c) \in ContextRecord
<1>1. /\ head \in Link /\ base[p] \in Link /\ prev[p] \in Link /\ i[p] \in Nat \ {0}
      /\ specs[p] \in Seq(AdvertSpec) /\ changes[p] \in Seq(ContextChange)
      /\ chunkLink \in [Contexts -> Digests \cup {Nil}]
      /\ metadata \in [Contexts -> Metadatas \cup {Nil}]
  BY DEF TypeInv, TypeOK, StoreTypeOK
<1>2. /\ Len(specs[p]) \in Nat /\ DOMAIN specs[p] = 1..Len(specs[p])
      /\ \A k \in DOMAIN specs[p] : specs[p][k] \in AdvertSpec
  BY <1>1, LenProperties, ElementOfSeq
<1>3. /\ Len(changes[p]) \in Nat /\ DOMAIN changes[p] = 1..Len(changes[p])
      /\ \A k \in DOMAIN changes[p] : changes[p][k] \in ContextChange
  BY <1>1, LenProperties, ElementOfSeq
<1>4. \A s \in AdvertSpec : s.ctx \in Contexts
  BY DEF AdvertSpec
<1>5. \A e \in ContextChange :
        e.ctx \in Contexts /\ e.old \in ContextRecord /\ e.new \in ContextRecord
  BY DEF ContextChange
<1>6. \A c \in Contexts : Record(c) \in ContextRecord
  BY <1>1 DEF Record, ContextRecord
<1>7. Owns[p] \subseteq Contexts
  BY OwnsAssumption
<1> QED
  BY <1>1, <1>2, <1>3, <1>4, <1>5, <1>6, <1>7

\* What a step of p may do to the contexts of others: nothing but add adverts for
\* its own to the chain.
Touches(p) ==
  \A c \in Contexts \ Owns[p] :
    /\ chunkLink'[c] = chunkLink[c] /\ metadata'[c] = metadata[c]
    /\ c \in torn' <=> c \in torn
    /\ \A r \in ContextRecord : Agrees(r, head, c) => Agrees(r, head', c)

\* The head moves only to the chain the call planned.
LEMMA HeadTouches ==
  ASSUME TypeInv, NEW p \in Publishers, CallAgrees(p), pc[p] = "replaceHead",
         ReplaceHead(base[p], prev[p]), torn' = torn \ ChangedContexts(p)
  PROVE  Touches(p)
<1>1. ASSUME NEW c \in Contexts \ Owns[p] PROVE c \notin ChangedContexts(p)
  BY DEF CallAgrees, OwnOnly, ChangedContexts
<1>2. head' = prev[p] /\ head = base[p] /\ UNCHANGED <<chunkLink, metadata>>
  BY DEF ReplaceHead
<1> QED
  BY <1>1, <1>2 DEF CallAgrees, PlanSays, Touches

LEMMA StepTouches ==
  ASSUME ~Transactional, ~LostReply, TypeInv, NEW p \in Publishers, CallAgrees(p),
         Call(p) \/ Step(p) \/ Crash(p)
  PROVE  Touches(p)
<1>t. chunkLink \in [Contexts -> Digests \cup {Nil}] /\ metadata \in [Contexts -> Metadatas \cup {Nil}]
  BY DEF TypeInv, TypeOK, StoreTypeOK
<1>u. UNCHANGED <<head, chunkLink, metadata, torn>> => Touches(p)
  BY DEF Touches
<1>o. pc[p] \in {"writeChunk", "writeMeta", "undoChunk", "undoMeta"} => Change(p).ctx \in Owns[p]
  <2>1. pc[p] \in {"writeChunk", "writeMeta", "undoChunk", "undoMeta"} => i[p] \in DOMAIN changes[p]
    BY DEF TypeInv, CallOK, LocalsOK
  <2> QED
    BY <2>1 DEF CallAgrees, OwnOnly, Change
<1>w. ASSUME NEW c \in Owns[p], UNCHANGED head, torn' \in {torn, torn \cup {c}},
             \A d \in Contexts \ {c} : chunkLink'[d] = chunkLink[d] /\ metadata'[d] = metadata[d]
      PROVE  Touches(p)
  BY <1>w DEF Touches
<1>1. CASE Call(p) \/ Crash(p)
  BY <1>1, <1>u DEF Call, Crash, store
<1>2. CASE \/ ReadHead(p) \/ LoadChunk(p) \/ LoadMeta(p) \/ AllLoaded(p)
           \/ LoadContexts(p) \/ LoadFails(p)
  BY <1>2, <1>u DEF ReadHead, LoadChunk, LoadMeta, AllLoaded, LoadContexts, LoadFails, ReadFails, store
<1>3. CASE PlanSpec(p) \/ PlanFails(p) \/ NothingToCommit(p) \/ AllPlanned(p)
  BY <1>3, <1>u DEF PlanSpec, PlanFails, NothingToCommit, AllPlanned, ReadFails, WriteFails,
                    PutEntries, store
<1>4. CASE PutAd(p) \/ PutAdvertsFails(p)
  BY <1>4, <1>u DEF PutAd, PutAdvertsFails, WriteFails, PutAdvert, store
<1>5. CASE CommitBatch(p) \/ CommitBatchFails(p)
  BY <1>5 DEF CallAgrees, OwnOnly, CommitBatch, CommitBatchFails
<1>6. CASE WriteChunk(p)
  BY <1>6, <1>o, <1>t, <1>u, <1>w DEF WriteChunk, PutChunkLink, store
<1>7. CASE WriteMeta(p)
  BY <1>7, <1>o, <1>t, <1>u, <1>w DEF WriteMeta, PutMetadata, store
<1>8. CASE CommitHead(p)
  BY <1>8, HeadTouches DEF CommitHead, Commit
<1>9. CASE WriteRecordFails(p)
  BY <1>9, <1>o, <1>t, <1>u, <1>w DEF WriteRecordFails, WriteFails, PutChunkLink, PutMetadata, store
<1>10. CASE CommitHeadFails(p)
  BY <1>10, <1>u DEF CommitHeadFails, ReplaceHeadFails, store
<1>11. CASE UndoChunk(p)
  BY <1>11, <1>o, <1>t, <1>w DEF UndoChunk, WriteFails, PutChunkLink, store
<1>12. CASE UndoMeta(p)
  BY <1>12, <1>o, <1>t, <1>w DEF UndoMeta, WriteFails, PutMetadata, store
<1> QED
  BY <1>1, <1>2, <1>3, <1>4, <1>5, <1>6, <1>7, <1>8, <1>9, <1>10, <1>11, <1>12 DEF Step

LEMMA OthersStayAgreed ==
  ASSUME Private, TypeInv, NEW p \in Publishers, NEW q \in Publishers, p # q, OthersRest(p),
         Touches(p), CallAgrees(q)
  PROVE  CallAgrees(q)'
<1>t. /\ \A c \in Owns[q] : c \in Contexts \ Owns[p] /\ Record(c) \in ContextRecord
      /\ \A k \in DOMAIN specs[q] : specs[q][k].ctx \in Owns[q]
      /\ \A k \in DOMAIN changes[q] :
           changes[q][k].ctx \in Owns[q] /\ changes[q][k].old \in ContextRecord
  BY CallTypes DEF Private, CallAgrees, OwnOnly
<1>l. /\ pc'[q] = pc[q] /\ i'[q] = i[q] /\ specs'[q] = specs[q] /\ base'[q] = base[q]
      /\ records'[q] = records[q] /\ changes'[q] = changes[q] /\ prev'[q] = prev[q]
  BY DEF OthersRest
<1>s. \A c \in Owns[q] : /\ Record(c)' = Record(c) /\ chunkLink'[c] = chunkLink[c]
                         /\ c \in torn' <=> c \in torn
                         /\ \A r \in ContextRecord : Agrees(r, head, c) => Agrees(r, head', c)
  BY <1>t DEF Touches, Record
<1>c. ChangedContexts(q)' = ChangedContexts(q)
  BY <1>l DEF ChangedContexts
<1>1. OwnOnly(q)'
  BY <1>l DEF CallAgrees, OwnOnly, OneChangeEach
<1>2. LoadedRecords(q)'
  <2>1. pc[q] = "loadMeta" => i[q] \in DOMAIN specs[q]
    BY DEF TypeInv, CallOK, LocalsOK
  <2> QED
    BY <1>l, <1>s, <1>t, <2>1 DEF CallAgrees, LoadedRecords, ASpec
<1>3. PlanSays(q)'
  BY <1>l, <1>c DEF CallAgrees, PlanSays
<1>4. ChangesStand(q)'
  <2>1. ASSUME NEW k \in DOMAIN changes[q], NEW c, c = changes[q][k].ctx
        PROVE  Stands(pc[q], i[q], k, changes[q][k], Record(c)', c \in torn')
    <3>1. Stands(pc[q], i[q], k, changes[q][k], Record(c), c \in torn)
      BY <2>1 DEF CallAgrees, ChangesStand
    <3>2. Record(c)' = Record(c) /\ (c \in torn' <=> c \in torn)
      BY <1>s, <1>t, <2>1
    <3> QED
      BY <3>1, <3>2 DEF Stands
  <2> QED
    BY <1>l, <2>1 DEF ChangesStand
<1>5. RestAgrees(q)'
  BY <1>l, <1>c, <1>s, <1>t DEF CallAgrees, RestAgrees
<1> QED
  BY <1>1, <1>2, <1>3, <1>4, <1>5 DEF CallAgrees

-----------------------------------------------------------------------------
(* The steps of the call itself *)

\* While a call has written nothing, the head says of every context what its
\* record is.
LEMMA BeforeWrites ==
  ASSUME TypeInv, NEW p \in Publishers, CallAgrees(p),
         pc[p] \in {"idle", "readHead", "loadChunk", "loadMeta", "plan", "putAdvert"}
  PROVE  \A c \in Owns[p] \ torn : Agrees(Record(c), head, c)
<1> SUFFICES ASSUME NEW c \in Owns[p] \ torn PROVE Agrees(Record(c), head, c)
  OBVIOUS
<1>1. CASE c \in ChangedContexts(p)
  <2>1. PICK k \in DOMAIN changes[p] : changes[p][k].ctx = c
    BY <1>1 DEF ChangedContexts
  <2>2. pc[p] \in {"plan", "putAdvert"}
    <3>1. DOMAIN <<>> = {}
      BY EmptySeq, LenProperties
    <3> QED
      BY <2>1, <3>1 DEF CallAgrees, OwnOnly
  <2>3. Record(c) = changes[p][k].old
    BY <2>1, <2>2 DEF CallAgrees, ChangesStand, Stands
  <2> QED
    BY <2>1, <2>3 DEF CallAgrees, RestAgrees
<1> QED
  BY <1>1 DEF CallAgrees, RestAgrees

\* A call that has planned nothing yet, and one that has returned.
LEMMA FreshCall ==
  ASSUME NEW p \in Publishers, changes'[p] = <<>>, prev'[p] = base'[p],
         pc'[p] \in {"idle", "readHead", "loadChunk"}, i'[p] = 1,
         \A k \in DOMAIN specs'[p] : k \in Nat \ {0} /\ specs'[p][k].ctx \in Owns[p],
         \A c \in Owns[p] \ torn' : Agrees(Record(c)', head', c)
  PROVE  CallAgrees(p)'
<1>1. DOMAIN changes'[p] = {}
  BY EmptySeq, LenProperties
<1>2. OwnOnly(p)' /\ ChangesStand(p)'
  BY <1>1 DEF OwnOnly, OneChangeEach, ChangesStand
<1>3. LoadedRecords(p)'
  BY DEF LoadedRecords
<1>4. PlanSays(p)' /\ RestAgrees(p)'
  BY <1>1 DEF PlanSays, RestAgrees
<1> QED
  BY <1>2, <1>3, <1>4 DEF CallAgrees

LEMMA ReturnAgrees ==
  ASSUME TypeInv, NEW p \in Publishers, Return(p),
         \A c \in Owns[p] \ torn' : Agrees(Record(c)', head', c)
  PROVE  CallAgrees(p)'
<1>1. DOMAIN <<>> = {}
  BY EmptySeq, LenProperties
<1>2. /\ pc'[p] = "idle" /\ i'[p] = 1 /\ specs'[p] = <<>> /\ base'[p] = <<>>
      /\ changes'[p] = <<>> /\ prev'[p] = <<>>
  BY DEF TypeInv, TypeOK, Return, Goto
<1> QED
  BY <1>1, <1>2, FreshCall

\* A call that returns before it has written a mapping.
LEMMA ReturnEarly ==
  ASSUME TypeInv, NEW p \in Publishers, CallAgrees(p), Return(p),
         pc[p] \in {"idle", "readHead", "loadChunk", "loadMeta", "plan", "putAdvert"},
         UNCHANGED <<head, chunkLink, metadata, torn>>
  PROVE  CallAgrees(p)'
<1>1. \A c : Record(c)' = Record(c)
  BY DEF Record
<1> QED
  BY <1>1, BeforeWrites, ReturnAgrees

\* A step that writes no mapping and plans nothing.
LEMMA QuietStep ==
  ASSUME TypeInv, NEW p \in Publishers, CallAgrees(p),
         UNCHANGED <<head, chunkLink, metadata, torn, specs, base, changes, prev>>,
         pc[p] \in {"loadChunk", "loadMeta", "plan", "putAdvert"},
         pc'[p] \in {"loadMeta", "plan", "putAdvert"}
           \/ (pc'[p] = "loadChunk" /\ pc[p] \in {"loadChunk", "loadMeta"})
           \/ (pc'[p] = "writeChunk" /\ i'[p] = 1),
         pc'[p] = "loadMeta" => pc[p] = "loadChunk",
         LoadedRecords(p)'
  PROVE  CallAgrees(p)'
<1>t. /\ DOMAIN changes[p] = 1..Len(changes[p]) /\ Len(changes[p]) \in Nat
      /\ changes'[p] = changes[p] /\ specs'[p] = specs[p]
  BY CallTypes
<1>1. OwnOnly(p)'
  BY <1>t DEF CallAgrees, OwnOnly, OneChangeEach
<1>2. PlanSays(p)'
  <2>1. ChangedContexts(p)' = ChangedContexts(p)
    BY DEF ChangedContexts
  <2> QED
    BY <2>1 DEF CallAgrees, PlanSays
<1>3. ChangesStand(p)'
  <2>1. ASSUME NEW k \in DOMAIN changes[p], NEW c, c = changes[p][k].ctx
        PROVE  Stands(pc'[p], i'[p], k, changes[p][k], Record(c)', c \in torn')
    <3>1. pc[p] \in {"plan", "putAdvert"}
      <4>1. changes[p] # <<>>
        BY EmptySeq, LenProperties
      <4> QED
        BY <4>1 DEF CallAgrees, OwnOnly
    <3>2. Record(c)' = changes[p][k].old
      BY <2>1, <3>1 DEF CallAgrees, ChangesStand, Stands, Record
    <3>3. pc'[p] \in {"plan", "putAdvert"} \/ (pc'[p] = "writeChunk" /\ i'[p] = 1)
      BY <3>1
    <3>4. k \in Nat /\ k >= 1
      BY <1>t
    <3> QED
      BY <3>2, <3>3, <3>4 DEF Stands
  <2> QED
    BY <1>t, <2>1 DEF ChangesStand
<1>4. RestAgrees(p)'
  <2>1. ChangedContexts(p)' = ChangedContexts(p)
    BY DEF ChangedContexts
  <2> QED
    BY <2>1 DEF CallAgrees, RestAgrees, Record
<1> QED
  BY <1>1, <1>2, <1>3, <1>4 DEF CallAgrees

LEMMA ReadStepsAgree ==
  ASSUME ~Transactional, ~MayCrash, TypeInv, NEW p \in Publishers, CallAgrees(p),
         \/ Call(p) \/ ReadHead(p) \/ LoadChunk(p) \/ LoadMeta(p) \/ AllLoaded(p)
         \/ LoadContexts(p) \/ LoadFails(p) \/ Crash(p)
  PROVE  CallAgrees(p)'
<1>t. /\ TypeOK /\ i[p] \in Nat \ {0} /\ DOMAIN specs[p] = 1..Len(specs[p])
      /\ Len(specs[p]) \in Nat
      /\ \A k \in DOMAIN specs[p] : specs[p][k].ctx \in Contexts /\ specs[p][k].ctx \in Owns[p]
      /\ \A c \in Contexts : Record(c) \in ContextRecord
      /\ records[p] \in [Contexts -> ContextRecord]
  BY CallTypes DEF TypeInv, TypeOK, CallAgrees, OwnOnly
<1>n. pc[p] \in {"idle", "readHead", "loadChunk", "loadMeta"} => changes[p] = <<>>
  BY DEF CallAgrees, OwnOnly
<1>r. UNCHANGED <<chunkLink, metadata>> => \A c : Record(c)' = Record(c)
  BY DEF Record
<1>1. CASE Call(p)
  <2>1. /\ pc'[p] = "readHead" /\ i'[p] = 1 /\ changes'[p] = <<>> /\ prev'[p] = base'[p]
        /\ UNCHANGED <<head, chunkLink, metadata, torn>>
    <3>1. prev[p] = base[p]
      BY <1>1, <1>n DEF Call, TypeInv, CallOK, LocalsOK
    <3> QED
      BY <1>1, <1>n, <1>t, <3>1 DEF Call, Goto, TypeOK, store
  <2>2. PICK s \in BoundedSeq({r \in AdvertSpec : r.ctx \in Owns[p]}, MaxSpecs) : specs'[p] = s
    BY <1>1, <1>t DEF Call, TypeOK
  <2>3. PICK m \in 0..MaxSpecs : s \in [1..m -> {r \in AdvertSpec : r.ctx \in Owns[p]}]
    BY <2>2 DEF BoundedSeq, SeqOf
  <2>4. \A k \in DOMAIN s : k \in Nat \ {0} /\ s[k].ctx \in Owns[p]
    BY <2>3, BoundsAssumption
  <2> QED
    BY <1>1, <1>r, <2>1, <2>2, <2>4, BeforeWrites, FreshCall DEF Call
<1>2. CASE ReadHead(p)
  <2>1. /\ pc'[p] = "loadChunk" /\ i'[p] = 1 /\ changes'[p] = <<>> /\ prev'[p] = base'[p]
        /\ UNCHANGED <<head, chunkLink, metadata, torn, specs>>
    BY <1>2, <1>n, <1>t DEF ReadHead, Goto, TypeOK, store
  <2> QED
    BY <1>2, <1>r, <1>t, <2>1, BeforeWrites, FreshCall DEF ReadHead
<1>3. CASE LoadChunk(p)
  <2>1. /\ UNCHANGED <<head, chunkLink, metadata, torn, specs, base, changes, prev>>
        /\ pc[p] = "loadChunk" /\ pc'[p] \in {"loadChunk", "loadMeta"}
        /\ i[p] \in DOMAIN specs[p]
    BY <1>3, <1>t, SpecType DEF LoadChunk, Advance, Goto, TypeOK, store
  <2>2. \A k \in DOMAIN specs[p] : k < i[p] => records[p][specs[p][k].ctx] = Record(specs[p][k].ctx)
    BY <2>1 DEF CallAgrees, LoadedRecords
  <2>3. CASE Loaded(p)
    <3>1. pc'[p] = "loadChunk" /\ i'[p] = i[p] + 1 /\ UNCHANGED records
      BY <1>3, <1>t, <2>1, <2>3 DEF LoadChunk, Advance, Goto, TypeOK
    <3>2. PICK n \in DOMAIN specs[p] : n < i[p] /\ specs[p][n].ctx = specs[p][i[p]].ctx
      BY <2>1, <2>3, <1>t DEF Loaded, ASpec
    <3>3. \A k \in DOMAIN specs[p] :
            k < i[p] + 1 => records[p][specs[p][k].ctx] = Record(specs[p][k].ctx)
      BY <1>t, <2>2, <3>2
    <3>4. LoadedRecords(p)'
      BY <2>1, <3>1, <3>3 DEF LoadedRecords, Record
    <3> QED
      BY <2>1, <3>1, <3>4, QuietStep
  <2>4. CASE ~Loaded(p)
    <3>1. PICK c \in Contexts : c = ASpec(p).ctx
      BY <1>t, <2>1 DEF ASpec
    <3>2. /\ pc'[p] = "loadMeta" /\ i'[p] = i[p]
          /\ records'[p] = [records[p] EXCEPT ![c].chunk = chunkLink[c]]
      BY <1>3, <1>t, <2>1, <2>4, <3>1 DEF LoadChunk, Goto, TypeOK
    <3>3. \A k \in DOMAIN specs[p] : k < i[p] => specs[p][k].ctx # c
      BY <1>t, <2>4, <3>1 DEF Loaded
    <3>4. \A d \in Contexts \ {c} : records'[p][d] = records[p][d]
      BY <1>t, <3>2
    <3>5. records'[p][c].chunk = chunkLink[c]
      BY <1>t, <3>2 DEF ContextRecord
    <3>6. \A k \in DOMAIN specs[p] :
            k < i[p] => records'[p][specs[p][k].ctx] = Record(specs[p][k].ctx)
      BY <1>t, <2>2, <3>3, <3>4
    <3>7. LoadedRecords(p)'
      BY <2>1, <3>1, <3>2, <3>5, <3>6 DEF LoadedRecords, Record, ASpec
    <3> QED
      BY <2>1, <3>2, <3>7, QuietStep
  <2> QED
    BY <2>3, <2>4
<1>4. CASE LoadMeta(p)
  <2>1. /\ UNCHANGED <<head, chunkLink, metadata, torn, specs, base, changes, prev>>
        /\ pc[p] = "loadMeta" /\ pc'[p] = "loadChunk" /\ i'[p] = i[p] + 1
    BY <1>4, <1>t DEF LoadMeta, Goto, TypeOK, store
  <2>2. i[p] \in DOMAIN specs[p]
    BY <2>1 DEF TypeInv, CallOK, LocalsOK
  <2>3. PICK c \in Contexts : c = ASpec(p).ctx
    BY <1>t, <2>2 DEF ASpec
  <2>4. /\ \A k \in DOMAIN specs[p] :
             k < i[p] => records[p][specs[p][k].ctx] = Record(specs[p][k].ctx)
        /\ records[p][c].chunk = chunkLink[c]
    BY <2>1, <2>3 DEF CallAgrees, LoadedRecords
  <2>5. records'[p] = [records[p] EXCEPT ![c].md = metadata[c]]
    BY <1>4, <1>t, <2>3 DEF LoadMeta, TypeOK
  <2>6. \A d \in Contexts \ {c} : records'[p][d] = records[p][d]
    BY <1>t, <2>5
  <2>7. records'[p][c] = Record(c)
    BY <1>t, <2>4, <2>5 DEF ContextRecord, Record
  <2>8. \A k \in DOMAIN specs[p] :
          k < i[p] + 1 => records'[p][specs[p][k].ctx] = Record(specs[p][k].ctx)
    <3>1. ASSUME NEW k \in DOMAIN specs[p], k < i[p] + 1
          PROVE  k < i[p] \/ specs[p][k].ctx = c
      BY <1>t, <2>3, <3>1 DEF ASpec
    <3> QED
      BY <1>t, <2>4, <2>6, <2>7, <3>1
  <2>9. LoadedRecords(p)'
    BY <2>1, <2>8 DEF LoadedRecords, Record
  <2> QED
    BY <2>1, <2>9, QuietStep
<1>5. CASE AllLoaded(p)
  <2>1. /\ UNCHANGED <<head, chunkLink, metadata, torn, specs, base, changes, prev, records>>
        /\ pc[p] = "loadChunk" /\ pc'[p] = "plan" /\ i[p] > Len(specs[p])
    BY <1>5, <1>t DEF AllLoaded, Goto, TypeOK, store
  <2>2. \A k \in DOMAIN specs[p] : records[p][specs[p][k].ctx] = Record(specs[p][k].ctx)
    BY <1>t, <2>1 DEF CallAgrees, LoadedRecords
  <2>3. LoadedRecords(p)'
    BY <2>1, <2>2 DEF LoadedRecords, Record
  <2> QED
    BY <2>1, <2>3, QuietStep
<1>6. CASE LoadFails(p)
  BY <1>6, ReturnEarly DEF LoadFails, ReadFails, store
<1>7. CASE LoadContexts(p) \/ Crash(p)
  BY <1>7 DEF LoadContexts, Crash
<1> QED
  BY <1>1, <1>2, <1>3, <1>4, <1>5, <1>6, <1>7

\* Planning a spec: the new advert says of its context what the planned record
\* is, and nothing of the others.
LEMMA PlanSpecCallAgrees ==
  ASSUME TypeInv, NEW p \in Publishers, CallAgrees(p), PlanSpec(p)
  PROVE  CallAgrees(p)'
<1>t. /\ TypeOK /\ OneChangeEach(p) /\ pc[p] = "plan" /\ i[p] \in DOMAIN specs[p]
      /\ ASpec(p) \in AdvertSpec /\ ASpec(p).ctx \in Contexts /\ prev[p] \in Link
  BY SpecType DEF TypeInv, TypeOK, CallAgrees, OwnOnly, PlanSpec, AdvertSpec
<1>1. pc'[p] = "plan" /\ UNCHANGED <<head, chunkLink, metadata, torn, specs, base, records>>
  BY <1>t DEF PlanSpec, Advance, Goto, TypeOK, PutEntries, store
<1>r. \A c : Record(c)' = Record(c)
  BY <1>1 DEF Record
<1>l. /\ \A k \in DOMAIN specs[p] : records[p][specs[p][k].ctx] = Record(specs[p][k].ctx)
      /\ LoadedRecords(p)'
  <2>1. \A k \in DOMAIN specs[p] : records[p][specs[p][k].ctx] = Record(specs[p][k].ctx)
    BY <1>t DEF CallAgrees, LoadedRecords
  <2> QED
    BY <1>1, <2>1 DEF LoadedRecords, Record
<1>2. CASE AlreadyAdvertised(Current(p, ASpec(p).ctx), ASpec(p))
  <2>1. UNCHANGED <<changes, prev>>
    BY <1>2 DEF PlanSpec
  <2> QED
    BY <1>1, <1>t, <1>l, <2>1, QuietStep
<1>3. CASE ~AlreadyAdvertised(Current(p, ASpec(p).ctx), ASpec(p))
  <2>1. PICK s \in AdvertSpec : s = ASpec(p)
    BY <1>t
  <2>2. PICK cur \in ContextRecord : cur = Current(p, s.ctx)
    BY <1>t, <2>1, CurrentType
  <2>3. PICK next \in ContextRecord : next = NextRecord(cur, s)
    BY NextRecordType
  <2>4. PICK ad \in Advert : ad = [ctx |-> s.ctx, entries |-> next.chunk, md |-> next.md]
    BY <2>3, NextRecordType
  <2>5. PICK pl : pl = Planned(p, s, next)
    OBVIOUS
  <2>6. changes'[p] = pl /\ prev'[p] = Append(prev[p], ad)
    BY <1>3, <1>t, <2>1, <2>2, <2>3, <2>4, <2>5 DEF PlanSpec, TypeOK
  <2>7. /\ \A j, k \in DOMAIN pl : pl[j].ctx = pl[k].ctx => j = k
        /\ {pl[k].ctx : k \in DOMAIN pl} = ChangedContexts(p) \cup {s.ctx}
        /\ \A k \in DOMAIN pl :
             \/ /\ pl[k].ctx = s.ctx /\ pl[k].new = next
                /\ \/ pl[k].old = records[p][s.ctx]
                   \/ \E n \in DOMAIN changes[p] :
                        changes[p][n].ctx = s.ctx /\ pl[k].old = changes[p][n].old
             \/ /\ pl[k].ctx # s.ctx
                /\ \E n \in DOMAIN changes[p] : pl[k] = changes[p][n]
    <3>1. PlannedFrom(p, s, next, Planned(p, s, next))
      BY <1>t, <2>1, <2>3, PlannedChanges
    <3> QED
      BY <2>5, <3>1 DEF PlannedFrom
  <2>8. ChangedContexts(p)' = ChangedContexts(p) \cup {s.ctx}
    BY <2>6, <2>7 DEF ChangedContexts
  <2>9. ad.ctx = s.ctx /\ next = [chunk |-> ad.entries, md |-> ad.md]
    BY <2>3, <2>4 DEF NextRecord
  <2>10. OwnOnly(p)'
    <3>1. \A k \in DOMAIN pl : \E n \in DOMAIN specs[p] : specs[p][n].ctx = pl[k].ctx
      <4>1. specs[p][i[p]].ctx = s.ctx
        BY <2>1 DEF ASpec
      <4>2. \A k \in DOMAIN changes[p] :
              \E n \in DOMAIN specs[p] : specs[p][n].ctx = changes[p][k].ctx
        BY DEF CallAgrees, OwnOnly
      <4> QED
        BY <1>t, <2>7, <4>1, <4>2
    <3>2. \A k \in DOMAIN specs[p] : specs[p][k].ctx \in Owns[p]
      BY DEF CallAgrees, OwnOnly
    <3> QED
      BY <1>1, <2>6, <2>7, <3>1, <3>2 DEF OwnOnly, OneChangeEach
  \* No spec has been written: every change's old record is that of the store.
  <2>11. ASSUME NEW k \in DOMAIN pl PROVE pl[k].old = Record(pl[k].ctx)
    <3>1. \A n \in DOMAIN changes[p] : changes[p][n].old = Record(changes[p][n].ctx)
      BY <1>t DEF CallAgrees, ChangesStand, Stands
    <3>2. records[p][s.ctx] = Record(s.ctx)
      BY <1>t, <1>l, <2>1 DEF ASpec
    <3> QED
      BY <2>7, <3>1, <3>2
  <2>12. ChangesStand(p)'
    <3>1. ASSUME NEW k \in DOMAIN pl, NEW c, c = pl[k].ctx
          PROVE  Stands("plan", i'[p], k, pl[k], Record(c)', c \in torn')
      BY <1>r, <2>11, <3>1 DEF Stands
    <3> QED
      BY <1>1, <2>6, <3>1 DEF ChangesStand
  <2>13. PlanSays(p)'
    <3>1. ASSUME NEW k \in DOMAIN pl PROVE Agrees(pl[k].new, Append(prev[p], ad), pl[k].ctx)
      <4>1. CASE pl[k].ctx = s.ctx /\ pl[k].new = next
        BY <4>1, <1>t, <2>9, AgreesNewest
      <4>2. CASE pl[k].ctx # s.ctx /\ \E n \in DOMAIN changes[p] : pl[k] = changes[p][n]
        <5>1. Agrees(pl[k].new, prev[p], pl[k].ctx)
          BY <4>2, <1>t DEF CallAgrees, PlanSays
        <5> QED
          BY <4>2, <5>1, <1>t, <2>9, AgreesOther
      <4> QED
        BY <4>1, <4>2, <2>7
    <3>2. ASSUME NEW c \in Contexts \ (ChangedContexts(p) \cup {s.ctx}), NEW r \in ContextRecord,
                 Agrees(r, base[p], c)
          PROVE  Agrees(r, Append(prev[p], ad), c)
      <4>1. Agrees(r, prev[p], c)
        BY <1>t, <3>2 DEF CallAgrees, PlanSays
      <4> QED
        BY <4>1, <1>t, <2>9, AgreesOther
    <3> QED
      BY <1>1, <2>6, <2>8, <3>1, <3>2 DEF PlanSays
  <2>14. RestAgrees(p)'
    <3>1. \A c \in Owns[p] \ torn : Agrees(Record(c), head, c)
      BY <1>t, BeforeWrites
    <3>2. \A k \in DOMAIN pl : pl[k].ctx \in Owns[p]
      BY <1>1, <2>6, <2>10 DEF OwnOnly
    <3>3. \A c \in Owns[p] \ torn : Agrees(Record(c)', head', c)
      BY <1>1, <1>r, <3>1
    <3>4. \A k \in DOMAIN pl : pl[k].ctx \notin torn => Agrees(pl[k].old, head, pl[k].ctx)
      BY <2>11, <3>1, <3>2
    <3> QED
      BY <1>1, <2>6, <3>3, <3>4 DEF RestAgrees
  <2> QED
    BY <1>l, <2>10, <2>12, <2>13, <2>14 DEF CallAgrees
<1> QED
  BY <1>2, <1>3

LEMMA PlanStepsAgree ==
  ASSUME ~Transactional, TypeInv, NEW p \in Publishers, CallAgrees(p),
         \/ PlanSpec(p) \/ PlanFails(p) \/ NothingToCommit(p) \/ AllPlanned(p)
         \/ PutAd(p) \/ PutAdvertsFails(p)
  PROVE  CallAgrees(p)'
<1>t. TypeOK
  BY DEF TypeInv
<1>1. CASE PlanSpec(p)
  BY <1>1, PlanSpecCallAgrees
<1>2. CASE PlanFails(p) \/ NothingToCommit(p) \/ PutAdvertsFails(p)
  BY <1>2, ReturnEarly DEF PlanFails, NothingToCommit, PutAdvertsFails, ReadFails, WriteFails,
                           PutEntries, PutAdvert, store
<1>3. CASE AllPlanned(p) \/ PutAd(p)
  <2>1. /\ UNCHANGED <<head, chunkLink, metadata, torn, specs, base, changes, prev>>
        /\ pc[p] \in {"plan", "putAdvert"}
        /\ pc'[p] = "putAdvert" \/ (pc'[p] = "writeChunk" /\ i'[p] = 1)
    BY <1>3, <1>t DEF AllPlanned, PutAd, PutAdvert, Advance, Goto, TypeOK, store
  <2>2. LoadedRecords(p)'
    BY <2>1 DEF LoadedRecords
  <2> QED
    BY <2>1, <2>2, QuietStep
<1> QED
  BY <1>1, <1>2, <1>3

\* A step that writes a mapping of a context the call changes, and goes on.
LEMMA WriteStep ==
  ASSUME TypeInv, NEW p \in Publishers, CallAgrees(p),
         UNCHANGED <<head, specs, base, changes, prev>>,
         \/ pc'[p] \in {"undoChunk", "undoMeta"}
         \/ /\ pc[p] \in {"writeChunk", "writeMeta"}
            /\ pc'[p] \in {"writeChunk", "writeMeta", "replaceHead"},
         torn \subseteq torn',
         \A c \in Contexts \ ChangedContexts(p) : Record(c)' = Record(c),
         ChangesStand(p)'
  PROVE  CallAgrees(p)'
<1>c. ChangedContexts(p)' = ChangedContexts(p) /\ Owns[p] \subseteq Contexts
  BY CallTypes DEF ChangedContexts
<1>1. OwnOnly(p)'
  BY DEF CallAgrees, OwnOnly, OneChangeEach
<1>2. LoadedRecords(p)'
  BY DEF LoadedRecords
<1>3. PlanSays(p)'
  BY <1>c DEF CallAgrees, PlanSays
<1>4. RestAgrees(p)'
  BY <1>c DEF CallAgrees, RestAgrees
<1> QED
  BY <1>1, <1>2, <1>3, <1>4 DEF CallAgrees

\* Where the change being written or undone is, and that no other change is for
\* its context.
LEMMA ChangeFacts ==
  ASSUME TypeInv, NEW p \in Publishers, CallAgrees(p),
         pc[p] \in {"writeChunk", "writeMeta", "undoChunk", "undoMeta"}
  PROVE  /\ i[p] \in DOMAIN changes[p] /\ i[p] \in Nat /\ Change(p) = changes[p][i[p]]
         /\ Change(p).ctx \in Owns[p] \cap Contexts \cap ChangedContexts(p)
         /\ Change(p).old \in ContextRecord /\ Change(p).new \in ContextRecord
         /\ \A k \in DOMAIN changes[p] :
              k \in Nat /\ k <= Len(changes[p]) /\ (k # i[p] => changes[p][k].ctx # Change(p).ctx)
<1>1. i[p] \in DOMAIN changes[p]
  BY DEF TypeInv, CallOK, LocalsOK
<1> QED
  BY <1>1, CallTypes DEF Change, CallAgrees, OwnOnly, OneChangeEach, ChangedContexts

LEMMA WriteChunkAgrees ==
  ASSUME TypeInv, NEW p \in Publishers, CallAgrees(p), WriteChunk(p)
  PROVE  CallAgrees(p)'
<1> PICK e : e = Change(p)
  OBVIOUS
<1>t. /\ i[p] \in DOMAIN changes[p] /\ i[p] \in Nat /\ e = changes[p][i[p]]
      /\ e.ctx \in Contexts /\ e.ctx \in ChangedContexts(p)
      /\ e.old \in ContextRecord /\ e.new \in ContextRecord
      /\ \A k \in DOMAIN changes[p] : k \in Nat /\ (k # i[p] => changes[p][k].ctx # e.ctx)
      /\ pc[p] = "writeChunk"
  BY ChangeFacts DEF WriteChunk
<1>1. /\ pc'[p] = "writeMeta" /\ i'[p] = i[p]
      /\ UNCHANGED <<head, metadata, torn, specs, base, changes, prev>>
      /\ chunkLink' = IF e.new.chunk = e.old.chunk THEN chunkLink
                                                   ELSE [chunkLink EXCEPT ![e.ctx] = e.new.chunk]
  BY DEF WriteChunk, Goto, PutChunkLink, store, TypeInv, TypeOK
<1>2. Record(e.ctx) = e.old
  BY <1>t DEF CallAgrees, ChangesStand, Stands
<1>3. \A c \in Contexts \ {e.ctx} : Record(c)' = Record(c)
  BY <1>1 DEF Record, TypeInv, TypeOK, StoreTypeOK
<1>4. chunkLink'[e.ctx] = e.new.chunk /\ metadata'[e.ctx] = e.old.md
  BY <1>1, <1>2, <1>t DEF Record, TypeInv, TypeOK, StoreTypeOK
<1>5. ASSUME NEW k \in DOMAIN changes[p], NEW c, c = changes[p][k].ctx
      PROVE  Stands("writeMeta", i[p], k, changes[p][k], Record(c)', c \in torn')
  <2>1. Stands("writeChunk", i[p], k, changes[p][k], Record(c), c \in torn)
    BY <1>t, <1>5 DEF CallAgrees, ChangesStand
  <2>2. CASE k = i[p]
    BY <1>t, <1>4, <1>5, <2>2 DEF Stands, Record
  <2>3. CASE k # i[p]
    <3>1. c \in Contexts \ {e.ctx}
      BY <1>t, <1>5, <2>3, CallTypes
    <3>2. Record(c)' = Record(c)
      BY <1>3, <3>1
    <3> QED
      BY <1>t, <2>1, <2>3, <3>2 DEF Stands
  <2> QED
    BY <2>2, <2>3
<1>6. ChangesStand(p)'
  BY <1>1, <1>5 DEF ChangesStand
<1> QED
  BY <1>t, <1>1, <1>3, <1>6, WriteStep

LEMMA WriteMetaAgrees ==
  ASSUME TypeInv, NEW p \in Publishers, CallAgrees(p), WriteMeta(p)
  PROVE  CallAgrees(p)'
<1> PICK e : e = Change(p)
  OBVIOUS
<1>t. /\ i[p] \in DOMAIN changes[p] /\ i[p] \in Nat /\ e = changes[p][i[p]]
      /\ e.ctx \in Contexts /\ e.ctx \in ChangedContexts(p)
      /\ e.old \in ContextRecord /\ e.new \in ContextRecord
      /\ Len(changes[p]) \in Nat
      /\ \A k \in DOMAIN changes[p] :
           /\ k \in Nat /\ k <= Len(changes[p]) /\ changes[p][k].ctx \in Contexts
           /\ k # i[p] => changes[p][k].ctx # e.ctx
      /\ pc[p] = "writeMeta"
  BY ChangeFacts, CallTypes DEF WriteMeta
<1>1. /\ \/ pc'[p] = "writeChunk" /\ i'[p] = i[p] + 1
         \/ pc'[p] = "replaceHead" /\ i[p] >= Len(changes[p])
      /\ UNCHANGED <<head, chunkLink, torn, specs, base, changes, prev>>
      /\ metadata' = IF e.new.md = e.old.md THEN metadata
                                            ELSE [metadata EXCEPT ![e.ctx] = e.new.md]
  BY <1>t DEF WriteMeta, Goto, PutMetadata, store, TypeInv, TypeOK
<1>2. Record(e.ctx) = [chunk |-> e.new.chunk, md |-> e.old.md]
  BY <1>t DEF CallAgrees, ChangesStand, Stands
<1>3. \A c \in Contexts \ {e.ctx} : Record(c)' = Record(c)
  BY <1>1 DEF Record, TypeInv, TypeOK, StoreTypeOK
<1>4. Record(e.ctx)' = e.new
  <2>1. chunkLink'[e.ctx] = e.new.chunk /\ metadata'[e.ctx] = e.new.md
    BY <1>1, <1>2, <1>t DEF Record, TypeInv, TypeOK, StoreTypeOK
  <2>2. e.new = [chunk |-> e.new.chunk, md |-> e.new.md]
    BY <1>t DEF ContextRecord
  <2> QED
    BY <2>1, <2>2 DEF Record
<1>5. ASSUME NEW k \in DOMAIN changes[p], NEW c, c = changes[p][k].ctx
      PROVE  Stands(pc'[p], i'[p], k, changes[p][k], Record(c)', c \in torn')
  <2>1. Stands("writeMeta", i[p], k, changes[p][k], Record(c), c \in torn)
    BY <1>t, <1>5 DEF CallAgrees, ChangesStand
  <2>2. CASE k = i[p]
    BY <1>t, <1>1, <1>4, <1>5, <2>2 DEF Stands
  <2>3. CASE k # i[p]
    <3>1. Record(c)' = Record(c)
      BY <1>t, <1>3, <1>5, <2>3
    <3>2. /\ k < i[p] => Record(c) = changes[p][k].new
          /\ k > i[p] => Record(c) = changes[p][k].old
      BY <2>1 DEF Stands
    <3> QED
      BY <1>t, <1>1, <2>3, <3>1, <3>2 DEF Stands
  <2> QED
    BY <2>2, <2>3
<1>6. ChangesStand(p)'
  BY <1>1, <1>5 DEF ChangesStand
<1> QED
  BY <1>t, <1>1, <1>3, <1>6, WriteStep

\* The head becomes the planned chain, and every change has been written.
LEMMA CommitHeadAgrees ==
  ASSUME TypeInv, NEW p \in Publishers, CallAgrees(p), CommitHead(p)
  PROVE  CallAgrees(p)'
<1>1. /\ pc[p] = "replaceHead" /\ head = base[p] /\ head' = prev[p]
      /\ UNCHANGED <<chunkLink, metadata>> /\ torn' = torn \ ChangedContexts(p) /\ Return(p)
  BY DEF CommitHead, ReplaceHead, Commit
<1>r. \A c : Record(c)' = Record(c)
  BY <1>1 DEF Record
<1>2. ASSUME NEW c \in Owns[p] \ torn' PROVE Agrees(Record(c), prev[p], c)
  <2>1. CASE c \in ChangedContexts(p)
    <3>1. PICK k \in DOMAIN changes[p] : changes[p][k].ctx = c
      BY <2>1 DEF ChangedContexts
    <3>2. Record(c) = changes[p][k].new
      BY <1>1, <3>1 DEF CallAgrees, ChangesStand, Stands
    <3>3. Agrees(changes[p][k].new, prev[p], c)
      BY <1>1, <3>1 DEF CallAgrees, PlanSays
    <3> QED
      BY <3>2, <3>3
  <2>2. CASE c \notin ChangedContexts(p)
    <3>1. Agrees(Record(c), head, c)
      BY <1>1, <1>2, <2>2 DEF CallAgrees, RestAgrees
    <3>2. c \in Contexts /\ Record(c) \in ContextRecord
      BY CallTypes
    <3> QED
      BY <1>1, <2>2, <3>1, <3>2 DEF CallAgrees, PlanSays
  <2> QED
    BY <2>1, <2>2
<1>3. \A c \in Owns[p] \ torn' : Agrees(Record(c)', head', c)
  BY <1>1, <1>r, <1>2
<1> QED
  BY <1>1, <1>3, ReturnAgrees

\* Writing back begins: the changes that are not to be written back have not been
\* written.
LEMMA RollbackAgrees ==
  ASSUME TypeInv, NEW p \in Publishers, CallAgrees(p), NEW n \in DOMAIN changes[p],
         Rollback(p, n), UNCHANGED <<head, specs, base, prev, torn>>,
         \A c \in Contexts \ ChangedContexts(p) : Record(c)' = Record(c),
         \A k \in DOMAIN changes[p] : \A c :
           c = changes[p][k].ctx /\ k > n => Record(c)' = changes[p][k].old
  PROVE  CallAgrees(p)'
<1>t. /\ changes[p] \in Seq(ContextChange) /\ Len(changes[p]) \in Nat
      /\ DOMAIN changes[p] = 1..Len(changes[p]) /\ n \in 0..Len(changes[p])
      /\ Owns[p] \subseteq Contexts
  BY CallTypes
<1> PICK new : new = SubSeq(changes[p], 1, n)
  OBVIOUS
<1>1. DOMAIN new = 1..n /\ \A k \in 1..n : k \in DOMAIN changes[p] /\ new[k] = changes[p][k]
  <2>1. new \in Seq(ContextChange) /\ Len(new) = n /\ \A k \in 1..n : new[k] = changes[p][k]
    BY <1>t, SubSeqOfLink
  <2> QED
    BY <1>t, <2>1, LenProperties
<1>2. pc'[p] = "undoChunk" /\ i'[p] = 1 /\ changes'[p] = new
  BY DEF Rollback, Goto, TypeInv, TypeOK
<1>3. OwnOnly(p)'
  <2>1. OwnOnly(p) /\ OneChangeEach(p)
    BY DEF CallAgrees, OwnOnly
  <2>2. ASSUME NEW k \in DOMAIN new PROVE \E m \in DOMAIN specs[p] : specs[p][m].ctx = new[k].ctx
    <3>1. k \in DOMAIN changes[p] /\ new[k] = changes[p][k]
      BY <1>1
    <3> QED
      BY <2>1, <3>1 DEF OwnOnly
  <2>3. ASSUME NEW j \in DOMAIN new, NEW k \in DOMAIN new, new[j].ctx = new[k].ctx PROVE j = k
    <3>1. /\ j \in DOMAIN changes[p] /\ new[j] = changes[p][j]
          /\ k \in DOMAIN changes[p] /\ new[k] = changes[p][k]
      BY <1>1
    <3> QED
      BY <2>1, <2>3, <3>1 DEF OneChangeEach
  <2>4. \A k \in DOMAIN specs[p] : specs[p][k].ctx \in Owns[p]
    BY <2>1 DEF OwnOnly
  <2> QED
    BY <1>2, <2>2, <2>3, <2>4 DEF OwnOnly, OneChangeEach
<1>4. LoadedRecords(p)' /\ PlanSays(p)'
  BY <1>2 DEF LoadedRecords, PlanSays
<1>5. ChangesStand(p)'
  <2>1. ASSUME NEW k \in 1..n, NEW e, NEW rec, NEW lost PROVE Stands("undoChunk", 1, k, e, rec, lost)
    BY DEF Stands
  <2> QED
    BY <1>1, <1>2, <2>1 DEF ChangesStand
<1>6. RestAgrees(p)'
  <2>1. ASSUME NEW c \in Owns[p] \ torn, c \notin ChangedContexts(p)'
        PROVE  Agrees(Record(c)', head, c)
    <3>1. CASE c \in ChangedContexts(p)
      <4>1. PICK k \in DOMAIN changes[p] : changes[p][k].ctx = c
        BY <3>1 DEF ChangedContexts
      <4>2. k > n
        <5>1. \A m \in 1..n : new[m].ctx # c
          BY <1>1, <1>2, <2>1 DEF ChangedContexts
        <5> QED
          BY <1>t, <1>1, <4>1, <5>1
      <4>3. Record(c)' = changes[p][k].old
        BY <4>1, <4>2
      <4> QED
        BY <4>1, <4>3 DEF CallAgrees, RestAgrees
    <3>2. CASE c \notin ChangedContexts(p)
      BY <1>t, <3>2 DEF CallAgrees, RestAgrees
    <3> QED
      BY <3>1, <3>2
  <2>2. \A k \in 1..n : new[k].ctx \notin torn => Agrees(new[k].old, head, new[k].ctx)
    BY <1>1 DEF CallAgrees, RestAgrees
  <2> QED
    BY <1>1, <1>2, <2>1, <2>2 DEF RestAgrees
<1> QED
  BY <1>3, <1>4, <1>5, <1>6 DEF CallAgrees

LEMMA WriteRecordFailsAgrees ==
  ASSUME TypeInv, NEW p \in Publishers, CallAgrees(p), WriteRecordFails(p)
  PROVE  CallAgrees(p)'
<1> PICK e : e = Change(p)
  OBVIOUS
<1>t. /\ i[p] \in DOMAIN changes[p] /\ e.ctx \in Contexts /\ e.ctx \in ChangedContexts(p)
      /\ \A k \in DOMAIN changes[p] :
           changes[p][k].ctx \in Contexts /\ (k # i[p] => changes[p][k].ctx # e.ctx)
      /\ i[p] \in Nat
      /\ pc[p] \in {"writeChunk", "writeMeta"}
  BY ChangeFacts, CallTypes DEF WriteRecordFails
<1>1. /\ Rollback(p, i[p]) /\ UNCHANGED <<head, specs, base, prev, torn>>
      /\ \A c \in Contexts \ {e.ctx} : chunkLink'[c] = chunkLink[c] /\ metadata'[c] = metadata[c]
  BY <1>t DEF WriteRecordFails, WriteFails, PutChunkLink, PutMetadata, store,
              TypeInv, TypeOK, StoreTypeOK
<1>2. \A c \in Contexts \ {e.ctx} : Record(c)' = Record(c)
  BY <1>1 DEF Record
<1>3. ASSUME NEW k \in DOMAIN changes[p], NEW c, c = changes[p][k].ctx, k > i[p]
      PROVE  Record(c)' = changes[p][k].old
  <2>1. Record(c) = changes[p][k].old
    BY <1>t, <1>3 DEF CallAgrees, ChangesStand, Stands
  <2> QED
    BY <1>t, <1>2, <1>3, <2>1
<1> QED
  BY <1>t, <1>1, <1>2, <1>3, RollbackAgrees

\* The head was not replaced: every change is to be written back.
LEMMA CommitHeadFailsAgrees ==
  ASSUME ~LostReply, TypeInv, NEW p \in Publishers, CallAgrees(p), CommitHeadFails(p)
  PROVE  CallAgrees(p)'
<1>t. Len(changes[p]) \in Nat /\ DOMAIN changes[p] = 1..Len(changes[p])
  BY CallTypes
<1>1. Rollback(p, Len(changes[p])) /\ UNCHANGED <<head, chunkLink, metadata, specs, base, prev, torn>>
  BY DEF CommitHeadFails, ReplaceHeadFails, store
<1>2. \A c : Record(c)' = Record(c)
  BY <1>1 DEF Record
<1>3. Len(changes[p]) \in DOMAIN changes[p]
  <2>1. prev[p] # base[p] /\ (changes[p] = <<>> => prev[p] = base[p])
    BY DEF CommitHeadFails, TypeInv, CallOK, LocalsOK
  <2>2. changes[p] \in Seq(ContextChange) /\ (Len(changes[p]) = 0 => changes[p] = <<>>)
    BY EmptySeq, CallTypes
  <2> QED
    BY <1>t, <2>1, <2>2
<1> QED
  BY <1>t, <1>1, <1>2, <1>3, RollbackAgrees

\* Writing back the entries link of a change, whether or not the write fails.
LEMMA UndoChunkAgrees ==
  ASSUME TypeInv, NEW p \in Publishers, CallAgrees(p), UndoChunk(p)
  PROVE  CallAgrees(p)'
<1> PICK e : e = Change(p)
  OBVIOUS
<1>t. /\ i[p] \in DOMAIN changes[p] /\ i[p] \in Nat /\ e = changes[p][i[p]]
      /\ e.ctx \in Contexts /\ e.ctx \in ChangedContexts(p)
      /\ \A k \in DOMAIN changes[p] :
           /\ k \in Nat /\ changes[p][k].ctx \in Contexts
           /\ k # i[p] => changes[p][k].ctx # e.ctx
      /\ pc[p] = "undoChunk"
  BY ChangeFacts, CallTypes DEF UndoChunk
<1>1. /\ pc'[p] = "undoMeta" /\ i'[p] = i[p]
      /\ UNCHANGED <<head, metadata, specs, base, changes, prev>>
      /\ \A c \in Contexts \ {e.ctx} : chunkLink'[c] = chunkLink[c]
      /\ torn \subseteq torn'
      /\ chunkLink'[e.ctx] = e.old.chunk \/ e.ctx \in torn'
  BY <1>t DEF UndoChunk, WriteFails, PutChunkLink, Goto, store, TypeInv, TypeOK, StoreTypeOK
<1>2. \A c \in Contexts \ {e.ctx} : Record(c)' = Record(c)
  BY <1>1 DEF Record
<1>3. ASSUME NEW k \in DOMAIN changes[p], NEW c, c = changes[p][k].ctx
      PROVE  Stands("undoMeta", i[p], k, changes[p][k], Record(c)', c \in torn')
  <2>1. CASE k = i[p]
    BY <1>t, <1>1, <1>3, <2>1 DEF Stands, Record
  <2>2. CASE k # i[p]
    <3>1. k < i[p] => c \in torn \/ Record(c) = changes[p][k].old
      BY <1>t, <1>3 DEF CallAgrees, ChangesStand, Stands
    <3>2. Record(c)' = Record(c)
      BY <1>t, <1>2, <1>3, <2>2
    <3> QED
      BY <1>t, <1>1, <2>2, <3>1, <3>2 DEF Stands
  <2> QED
    BY <2>1, <2>2
<1>4. ChangesStand(p)'
  BY <1>1, <1>3 DEF ChangesStand
<1> QED
  BY <1>t, <1>1, <1>2, <1>4, WriteStep

\* Writing back the metadata, and returning after the last change.
LEMMA UndoMetaAgrees ==
  ASSUME TypeInv, NEW p \in Publishers, CallAgrees(p), UndoMeta(p)
  PROVE  CallAgrees(p)'
<1> PICK e : e = Change(p)
  OBVIOUS
<1>t. /\ i[p] \in DOMAIN changes[p] /\ i[p] \in Nat /\ e = changes[p][i[p]]
      /\ e.ctx \in Contexts /\ e.ctx \in ChangedContexts(p) /\ e.old \in ContextRecord
      /\ Len(changes[p]) \in Nat
      /\ \A k \in DOMAIN changes[p] :
           /\ k \in Nat /\ k <= Len(changes[p]) /\ changes[p][k].ctx \in Contexts
           /\ k # i[p] => changes[p][k].ctx # e.ctx
      /\ pc[p] = "undoMeta"
  BY ChangeFacts, CallTypes DEF UndoMeta
<1>1. /\ UNCHANGED <<head, chunkLink>> /\ torn \subseteq torn'
      /\ \A c \in Contexts \ {e.ctx} : metadata'[c] = metadata[c]
      /\ metadata'[e.ctx] = e.old.md \/ e.ctx \in torn'
  BY <1>t DEF UndoMeta, WriteFails, PutMetadata, store, TypeInv, TypeOK, StoreTypeOK
<1>2. \A c \in Contexts \ {e.ctx} : Record(c)' = Record(c)
  BY <1>1 DEF Record
<1>3. e.ctx \in torn' \/ Record(e.ctx)' = e.old
  <2>1. e.ctx \in torn \/ chunkLink[e.ctx] = e.old.chunk
    BY <1>t DEF CallAgrees, ChangesStand, Stands, Record
  <2>2. e.old = [chunk |-> e.old.chunk, md |-> e.old.md]
    BY <1>t DEF ContextRecord
  <2> QED
    BY <1>1, <2>1, <2>2 DEF Record
\* What has been written back is as it was, or lost.
<1>4. ASSUME NEW k \in DOMAIN changes[p], NEW c, c = changes[p][k].ctx, k <= i[p]
      PROVE  c \in torn' \/ Record(c)' = changes[p][k].old
  <2>1. CASE k = i[p]
    BY <1>t, <1>3, <1>4, <2>1
  <2>2. CASE k # i[p]
    <3>1. c \in torn \/ Record(c) = changes[p][k].old
      BY <1>t, <1>4, <2>2 DEF CallAgrees, ChangesStand, Stands
    <3>2. Record(c)' = Record(c)
      BY <1>t, <1>2, <1>4, <2>2
    <3> QED
      BY <1>1, <3>1, <3>2
  <2> QED
    BY <2>1, <2>2
<1>5. CASE i[p] < Len(changes[p])
  <2>1. /\ pc'[p] = "undoChunk" /\ i'[p] = i[p] + 1
        /\ UNCHANGED <<specs, base, changes, prev>>
    BY <1>5 DEF UndoMeta, Goto, TypeInv, TypeOK
  <2>2. ASSUME NEW k \in DOMAIN changes[p], NEW c, c = changes[p][k].ctx
        PROVE  Stands("undoChunk", i[p] + 1, k, changes[p][k], Record(c)', c \in torn')
    <3>1. k < i[p] + 1 => c \in torn' \/ Record(c)' = changes[p][k].old
      BY <1>t, <1>4, <2>2
    <3> QED
      BY <3>1 DEF Stands
  <2>3. ChangesStand(p)'
    BY <2>1, <2>2 DEF ChangesStand
  <2> QED
    BY <1>t, <1>1, <1>2, <2>1, <2>3, WriteStep
<1>6. CASE ~(i[p] < Len(changes[p]))
  <2>1. ASSUME NEW c \in Owns[p] \ torn' PROVE Agrees(Record(c)', head, c)
    <3>1. CASE c \in ChangedContexts(p)
      <4>1. PICK k \in DOMAIN changes[p] : changes[p][k].ctx = c
        BY <3>1 DEF ChangedContexts
      <4>2. Record(c)' = changes[p][k].old
        BY <1>t, <1>4, <1>6, <2>1, <4>1
      <4> QED
        BY <1>1, <2>1, <4>1, <4>2 DEF CallAgrees, RestAgrees
    <3>2. CASE c \notin ChangedContexts(p)
      <4>1. Record(c)' = Record(c)
        BY <1>t, <1>2, <3>2, CallTypes
      <4> QED
        BY <1>1, <2>1, <3>2, <4>1 DEF CallAgrees, RestAgrees
    <3> QED
      BY <3>1, <3>2
  <2>2. Return(p)
    BY <1>6 DEF UndoMeta
  <2>3. \A c \in Owns[p] \ torn' : Agrees(Record(c)', head', c)
    BY <1>1, <2>1
  <2> QED
    BY <2>2, <2>3, ReturnAgrees
<1> QED
  BY <1>5, <1>6

LEMMA OwnStepAgrees ==
  ASSUME ~Transactional, ~MayCrash, ~LostReply, TypeInv, NEW p \in Publishers, CallAgrees(p),
         Call(p) \/ Step(p) \/ Crash(p)
  PROVE  CallAgrees(p)'
<1>1. CASE CommitBatch(p) \/ CommitBatchFails(p)
  BY <1>1 DEF CommitBatch, CommitBatchFails, CallAgrees, OwnOnly
<1> QED
  BY <1>1, ReadStepsAgree, PlanStepsAgree, WriteChunkAgrees, WriteMetaAgrees, CommitHeadAgrees,
     WriteRecordFailsAgrees, CommitHeadFailsAgrees, UndoChunkAgrees, UndoMetaAgrees DEF Step

LEMMA DefaultStep ==
  ASSUME ~Transactional, ~MayCrash, ~LostReply, Private, TypeInv, DefaultInv, [Next]_vars
  PROVE  DefaultInv'
<1>1. ASSUME NEW p \in Publishers, Call(p) \/ Step(p) \/ Crash(p) PROVE DefaultInv'
  <2>1. \A q \in Publishers : CallAgrees(q)
    BY DEF DefaultInv
  <2>2. Touches(p) /\ OthersRest(p) /\ CallAgrees(p)'
    BY <1>1, <2>1, StepTouches, OthersRestStep, OwnStepAgrees
  <2>3. ASSUME NEW q \in Publishers, q # p PROVE CallAgrees(q)'
    BY <2>1, <2>2, <2>3, OthersStayAgreed
  <2>4. UnownedAgree'
    <3>1. ASSUME NEW c \in Contexts, \A q \in Publishers : c \notin Owns[q]
          PROVE  Agrees(Record(c)', head', c)
      <4>1. Record(c) \in ContextRecord /\ Agrees(Record(c), head, c)
        BY <3>1, CallTypes DEF DefaultInv, UnownedAgree
      <4>2. Record(c)' = Record(c)
        BY <2>2, <3>1 DEF Touches, Record
      <4> QED
        BY <2>2, <3>1, <4>1, <4>2 DEF Touches
    <3> QED
      BY <3>1 DEF UnownedAgree
  <2> QED
    BY <2>2, <2>3, <2>4 DEF DefaultInv
<1>2. CASE UNCHANGED vars
  <2>1. /\ UNCHANGED <<head, chunkLink, metadata, pc, specs, i, base, records, changes, prev, torn>>
        /\ \A c : Record(c)' = Record(c)
    BY <1>2 DEF vars, Record
  <2>2. \A p \in Publishers : ChangedContexts(p)' = ChangedContexts(p)
    BY <2>1 DEF ChangedContexts
  <2>3. UnownedAgree'
    BY <2>1 DEF DefaultInv, UnownedAgree
  <2>4. ASSUME NEW p \in Publishers PROVE CallAgrees(p)'
    <3>1. CallAgrees(p)
      BY DEF DefaultInv
    <3>2. OwnOnly(p)'
      BY <2>1, <3>1 DEF CallAgrees, OwnOnly, OneChangeEach
    <3>3. LoadedRecords(p)'
      BY <2>1, <3>1 DEF CallAgrees, LoadedRecords, ASpec, Record
    <3>4. PlanSays(p)'
      BY <2>1, <2>2, <3>1 DEF CallAgrees, PlanSays
    <3>5. ChangesStand(p)'
      <4>1. ASSUME NEW k \in DOMAIN changes[p], NEW c, c = changes[p][k].ctx
            PROVE  Stands(pc[p], i[p], k, changes[p][k], Record(c)', c \in torn')
        BY <2>1, <3>1, <4>1 DEF CallAgrees, ChangesStand
      <4> QED
        BY <2>1, <4>1 DEF ChangesStand
    <3>6. RestAgrees(p)'
      BY <2>1, <2>2, <3>1 DEF CallAgrees, RestAgrees
    <3> QED
      BY <3>2, <3>3, <3>4, <3>5, <3>6 DEF CallAgrees
  <2> QED
    BY <2>3, <2>4 DEF DefaultInv
<1> QED
  BY <1>1, <1>2 DEF Next

LEMMA DefaultInit == Init => DefaultInv
<1> SUFFICES ASSUME Init PROVE DefaultInv
  OBVIOUS
<1>1. DOMAIN <<>> = {}
  BY EmptySeq, LenProperties
<1>2. \A c \in Contexts : Agrees(Record(c), head, c)
  BY <1>1 DEF Init, StoreInit, Agrees, Record
<1>3. ASSUME NEW p \in Publishers PROVE CallAgrees(p)
  <2>1. OwnOnly(p) /\ ChangesStand(p) /\ LoadedRecords(p)
    BY <1>1 DEF Init, OwnOnly, OneChangeEach, ChangesStand, LoadedRecords
  <2>2. PlanSays(p)
    BY <1>1 DEF Init, PlanSays
  <2>3. RestAgrees(p)
    BY <1>1, <1>2, OwnsAssumption DEF Init, RestAgrees
  <2> QED
    BY <2>1, <2>2, <2>3 DEF CallAgrees
<1> QED
  BY <1>2, <1>3 DEF DefaultInv, UnownedAgree

\* With the default batch store, each context published by one publisher, and
\* the process not stopping: at whichever write a call fails, and whatever other
\* calls commit meanwhile, between calls the mappings of a context say what the
\* newest advert for it on the chain says, unless a call reported that it could
\* not put them back (PublishBatch, CommitBatch, restoreMappings).
THEOREM MappingsStayAgreed ==
  ASSUME ~Transactional, ~MayCrash, ~LostReply, Private
  PROVE  Spec => []MappingsAgree
<1>1. DefaultInv => MappingsAgree
  <2> SUFFICES ASSUME DefaultInv, NEW c \in Contexts \ torn, Settled(c)
               PROVE  Agrees(Record(c), head, c)
    BY DEF MappingsAgree
  <2>1. CASE \E p \in Publishers : c \in Owns[p]
    <3>1. PICK p \in Publishers : c \in Owns[p]
      BY <2>1
    <3>2. CallAgrees(p)
      BY DEF DefaultInv
    <3>3. c \notin ChangedContexts(p)
      BY <3>2 DEF CallAgrees, OwnOnly, ChangedContexts, Settled
    <3> QED
      BY <3>1, <3>2, <3>3 DEF CallAgrees, RestAgrees
  <2>2. CASE ~\E p \in Publishers : c \in Owns[p]
    BY <2>2 DEF DefaultInv, UnownedAgree
  <2> QED
    BY <2>1, <2>2
<1>2. TypeInv /\ DefaultInv /\ [Next]_vars => DefaultInv'
  BY DefaultStep
<1> QED
  BY <1>1, <1>2, DefaultInit, TypeInvHolds, PTL DEF Spec

=============================================================================
