--------------------------- MODULE AdStoreProofs ---------------------------
(***************************************************************************)
(* Lemmas about the store, for the modules that publish through it.        *)
(***************************************************************************)
EXTENDS AdStore, SequenceTheorems, TLAPS

-----------------------------------------------------------------------------
(* Prefixes of a chain, and chains that are longer. *)

LEMMA EmptyPrefixes == Prefixes(<<>>) = {<<>>}
<1>1. SubSeq(<<>>, 1, 0) = <<>>
  BY SubSeqEmpty
<1>2. 0..Len(<<>>) = {0}
  <2>1. Len(<<>>) = 0
    BY EmptySeq
  <2> QED
    BY <2>1
<1>3. Prefixes(<<>>) = {SubSeq(<<>>, 1, l) : l \in {0}}
  BY <1>2 DEF Prefixes
<1> QED
  BY <1>1, <1>3

LEMMA SelfPrefix ==
  ASSUME NEW S, NEW s \in Seq(S)
  PROVE  s \in Prefixes(s)
<1>1. Len(s) \in 0..Len(s) /\ s = SubSeq(s, 1, Len(s))
  BY SubSeqFull, LenProperties
<1> QED
  BY <1>1 DEF Prefixes

\* A chain one advert longer has one prefix more.
LEMMA AppendPrefixes ==
  ASSUME NEW S, NEW s \in Seq(S), NEW e \in S
  PROVE  Prefixes(Append(s, e)) = Prefixes(s) \cup {Append(s, e)}
<1> DEFINE t == Append(s, e)
<1>1. t \in Seq(S) /\ Len(t) = Len(s) + 1 /\ Len(s) \in Nat
  BY LenProperties
<1>2. \A n \in 0..Len(s) : SubSeq(t, 1, n) = SubSeq(s, 1, n)
  <2> TAKE n \in 0..Len(s)
  <2>1. \A j \in 1..n : s[j] \in S /\ t[j] = s[j]
    BY <1>1, ElementOfSeq
  <2>2. SubSeq(s, 1, n) \in Seq(S) /\ SubSeq(t, 1, n) \in Seq(S)
    BY <2>1, <1>1, SubSeqProperties
  <2>3. /\ Len(SubSeq(s, 1, n)) = n /\ Len(SubSeq(t, 1, n)) = n
        /\ \A j \in 1..n : SubSeq(s, 1, n)[j] = SubSeq(t, 1, n)[j]
    BY <2>1, <1>1
  <2> QED
    BY <2>2, <2>3, SeqEqual
<1>3. SubSeq(t, 1, Len(s) + 1) = t
  BY <1>1, SubSeqFull
<1>4. 0..Len(t) = 0..Len(s) \cup {Len(s) + 1}
  BY <1>1
<1> QED
  BY <1>2, <1>3, <1>4, <1>1 DEF Prefixes

LEMMA AppendStrict ==
  ASSUME NEW S, NEW s \in Seq(S), NEW e \in S
  PROVE  IsStrictPrefix(s, Append(s, e))
<1>1. Len(s) \in Nat /\ Append(s, e) \in Seq(S) /\ Len(Append(s, e)) = Len(s) + 1
  BY LenProperties
<1>2. SubSeq(s, 1, Len(s)) = s
  BY SubSeqFull
<1>3. SubSeq(Append(s, e), 1, Len(s)) = s
  <2>1. \A j \in 1..Len(s) : Append(s, e)[j] = s[j] /\ s[j] \in S
    BY <1>1, ElementOfSeq
  <2>2. SubSeq(Append(s, e), 1, Len(s)) \in Seq(S)
    BY <2>1, <1>1, SubSeqProperties
  <2>3. /\ Len(SubSeq(Append(s, e), 1, Len(s))) = Len(s)
        /\ \A j \in 1..Len(s) : SubSeq(Append(s, e), 1, Len(s))[j] = s[j]
    BY <2>1, <1>1
  <2> QED
    BY <2>2, <2>3, SeqEqual
<1>4. IsPrefix(s, Append(s, e))
  BY <1>1, <1>2, <1>3 DEF IsPrefix
<1>5. Append(s, e) # s
  BY <1>1
<1> QED
  BY <1>4, <1>5 DEF IsStrictPrefix

LEMMA ConcatStrict ==
  ASSUME NEW S, NEW s \in Seq(S), NEW u \in Seq(S), u # <<>>
  PROVE  IsStrictPrefix(s, s \o u)
<1>1. Len(s) \in Nat /\ Len(u) \in Nat /\ Len(u) # 0
  BY LenProperties, EmptySeq
<1>2. /\ s \o u \in Seq(S) /\ Len(s \o u) = Len(s) + Len(u)
      /\ \A i \in 1..Len(s) + Len(u) : (s \o u)[i] = IF i <= Len(s) THEN s[i] ELSE u[i - Len(s)]
  BY ConcatProperties
<1> DEFINE a == s \o u
<1> HIDE DEF a
<1>3. \A i \in 1..Len(s) : a[i] = s[i] /\ s[i] \in S
  <2>1. \A i \in 1..Len(s) : i \in 1..Len(s) + Len(u) /\ i <= Len(s)
    BY <1>1
  <2> QED
    BY <2>1, <1>2, ElementOfSeq DEF a
<1>4. SubSeq(a, 1, Len(s)) = s
  <2>1. \A i \in 1..Len(s) : a[i] \in S
    BY <1>3
  <2>2. SubSeq(a, 1, Len(s)) \in Seq(S)
    BY <2>1, <1>1, SubSeqProperties
  <2>3. /\ Len(SubSeq(a, 1, Len(s))) = Len(s)
        /\ \A i \in 1..Len(s) : SubSeq(a, 1, Len(s))[i] = s[i]
    BY <2>1, <1>1, <1>3
  <2> QED
    BY <2>2, <2>3, SeqEqual
<1>5. SubSeq(s, 1, Len(s)) = s
  BY SubSeqFull
<1>6. Len(a) = Len(s) + Len(u)
  BY <1>2 DEF a
<1>7. IsStrictPrefix(s, a)
  BY <1>1, <1>4, <1>5, <1>6 DEF IsStrictPrefix, IsPrefix
<1> QED
  BY <1>7 DEF a

LEMMA ConcatAppend ==
  ASSUME NEW S, NEW s \in Seq(S), NEW u \in Seq(S), NEW e \in S
  PROVE  s \o Append(u, e) = Append(s \o u, e)
<1>1. /\ Append(u, e) \in Seq(S) /\ Len(Append(u, e)) = Len(u) + 1
      /\ Append(u, e)[Len(u) + 1] = e /\ \A i \in 1..Len(u) : Append(u, e)[i] = u[i]
  BY AppendProperties
<1>2. Len(s) \in Nat /\ Len(u) \in Nat
  BY LenProperties
<1>3. /\ s \o u \in Seq(S) /\ Len(s \o u) = Len(s) + Len(u)
      /\ \A i \in 1..Len(s) + Len(u) : (s \o u)[i] = IF i <= Len(s) THEN s[i] ELSE u[i - Len(s)]
  BY ConcatProperties
<1> DEFINE a == s \o Append(u, e)
           b == Append(s \o u, e)
<1>4. /\ a \in Seq(S) /\ Len(a) = Len(s) + Len(u) + 1
      /\ \A i \in 1..Len(s) + Len(u) + 1 : a[i] = IF i <= Len(s) THEN s[i] ELSE Append(u, e)[i - Len(s)]
  BY <1>1, <1>2, ConcatProperties
<1>5. /\ b \in Seq(S) /\ Len(b) = Len(s) + Len(u) + 1 /\ b[Len(s) + Len(u) + 1] = e
      /\ \A i \in 1..Len(s) + Len(u) : b[i] = (s \o u)[i]
  BY <1>3, AppendProperties
<1> HIDE DEF a, b
<1>6. ASSUME NEW i \in 1..Len(s) + Len(u) + 1 PROVE a[i] = b[i]
  <2>1. CASE i <= Len(s)
    <3>1. i \in 1..Len(s) + Len(u) /\ i \in 1..Len(s) + Len(u) + 1
      BY <2>1, <1>2, <1>6
    <3>2. a[i] = s[i]
      BY <3>1, <2>1, <1>4
    <3>3. b[i] = (s \o u)[i] /\ (s \o u)[i] = s[i]
      BY <3>1, <2>1, <1>3, <1>5
    <3> QED
      BY <3>2, <3>3
  <2>2. CASE i > Len(s) /\ i <= Len(s) + Len(u)
    <3>1. i - Len(s) \in 1..Len(u) /\ i \in 1..Len(s) + Len(u) /\ ~(i <= Len(s))
      BY <2>2, <1>2
    <3> QED
      BY <3>1, <1>1, <1>3, <1>4, <1>5
  <2>3. CASE i = Len(s) + Len(u) + 1
    <3>1. i - Len(s) = Len(u) + 1 /\ ~(i <= Len(s))
      BY <2>3, <1>2
    <3> QED
      BY <2>3, <3>1, <1>1, <1>4, <1>5
  <2>4. i <= Len(s) \/ (i > Len(s) /\ i <= Len(s) + Len(u)) \/ i = Len(s) + Len(u) + 1
    BY <1>2, <1>6
  <2> QED
    BY <2>1, <2>2, <2>3, <2>4
<1>7. a = b
  BY <1>4, <1>5, <1>6, SeqEqual
<1> QED
  BY <1>7 DEF a, b

\* The links of a batch of adverts t that is committed behind the head b.
LEMMA BatchLinks ==
  ASSUME NEW b \in Link, NEW t \in Link
  PROVE  /\ b \o SubSeq(t, 1, 0) = b
         /\ \A k \in 0..Len(t) : b \o SubSeq(t, 1, k) \in Link
         /\ \A k \in DOMAIN t :
              /\ t[k] \in Advert
              /\ b \o SubSeq(t, 1, k) = Append(b \o SubSeq(t, 1, k - 1), t[k])
         /\ b \o SubSeq(t, 1, Len(t)) = b \o t /\ b \o t \in Link
<1>1. t \in Seq(Advert) /\ Len(t) \in Nat /\ DOMAIN t = 1..Len(t) /\ b \in Seq(Advert)
  BY LenProperties DEF Link
<1>2. \A i \in 1..Len(t) : t[i] \in Advert
  BY <1>1, ElementOfSeq
<1>3. ASSUME NEW k \in 0..Len(t) PROVE SubSeq(t, 1, k) \in Seq(Advert)
  <2>1. \A i \in 1..k : t[i] \in Advert
    BY <1>1, <1>2
  <2> QED
    BY <2>1, <1>1, SubSeqProperties
<1>4. SubSeq(t, 1, 0) = <<>>
  BY SubSeqEmpty
<1>5. b \o SubSeq(t, 1, 0) = b
  BY <1>1, <1>4, ConcatEmptySeq
<1>6. \A k \in 0..Len(t) : b \o SubSeq(t, 1, k) \in Link
  BY <1>1, <1>3, ConcatProperties DEF Link
<1>7. ASSUME NEW k \in 1..Len(t)
      PROVE  b \o SubSeq(t, 1, k) = Append(b \o SubSeq(t, 1, k - 1), t[k])
  <2> DEFINE u == SubSeq(t, 1, k - 1)
             e == t[k]
  <2>1. SubSeq(t, 1, k) = u \o <<e>>
    <3>1. 1 \in 1..Len(t) /\ k \in 1..Len(t)
      BY <1>1, <1>7
    <3> QED
      BY <3>1, <1>1, SubSeqRecursiveSecond
  <2>2. u \in Seq(Advert) /\ e \in Advert
    <3>1. k - 1 \in 0..Len(t)
      BY <1>1, <1>7
    <3> QED
      BY <3>1, <1>2, <1>3, <1>7
  <2> HIDE DEF u, e
  <2>3. SubSeq(t, 1, k) = Append(u, e)
    BY <2>1, <2>2, AppendIsConcat
  <2>4. b \o Append(u, e) = Append(b \o u, e)
    BY <1>1, <2>2, ConcatAppend
  <2> QED
    BY <2>3, <2>4 DEF u, e
<1>8. b \o SubSeq(t, 1, Len(t)) = b \o t /\ b \o t \in Link
  BY <1>1, SubSeqFull, ConcatProperties DEF Link
<1> QED
  BY <1>1, <1>2, <1>5, <1>6, <1>7, <1>8

-----------------------------------------------------------------------------
(* Calls of the store. *)

\* Every call of the store, given links and records, leaves it well formed.
LEMMA StoreCallsType ==
  ASSUME StoreTypeOK
  PROVE  /\ UNCHANGED store => StoreTypeOK'
         /\ \A d \in Digests : PutEntries(d) => StoreTypeOK'
         /\ \A l \in Link : PutAdvert(l) => StoreTypeOK'
         /\ \A l, m \in Link : ReplaceHead(l, m) => StoreTypeOK'
         /\ \A c \in Contexts : \A l \in Digests \cup {Nil} : PutChunkLink(c, l) => StoreTypeOK'
         /\ \A c \in Contexts : \A m \in Metadatas \cup {Nil} : PutMetadata(c, m) => StoreTypeOK'
BY DEF StoreTypeOK, store, PutEntries, PutAdvert, ReplaceHead, PutChunkLink, PutMetadata, Link

-----------------------------------------------------------------------------
(* Walking a chain. *)

LEMMA WalkableEmpty == \A A, B : Walkable(<<>>, A, B)
<1>1. DOMAIN <<>> = {}
  <2>1. <<>> \in Seq({}) /\ Len(<<>>) = 0
    BY EmptySeq
  <2>2. DOMAIN <<>> = 1..Len(<<>>)
    BY <2>1, LenProperties
  <2> QED
    BY <2>1, <2>2
<1> QED
  BY <1>1, EmptyPrefixes DEF Walkable

\* Blocks are never deleted, so a chain that can be walked stays so.
LEMMA WalkableGrows ==
  ASSUME NEW A, NEW B, NEW A2, NEW B2, A \subseteq A2, B \subseteq B2
  PROVE  \A l : Walkable(l, A, B) => Walkable(l, A2, B2)
BY DEF Walkable

LEMMA WalkableAppend ==
  ASSUME NEW A, NEW B, NEW l \in Link, NEW ad \in Advert, Walkable(l, A, B),
         Append(l, ad) \in A, ad.entries \in B \cup Blockless
  PROVE  Walkable(Append(l, ad), A, B)
<1>1. Prefixes(Append(l, ad)) = Prefixes(l) \cup {Append(l, ad)}
  BY AppendPrefixes DEF Link
<1>2. Append(l, ad) \in Seq(Advert) /\ Len(Append(l, ad)) = Len(l) + 1 /\ Len(l) \in Nat
  BY LenProperties DEF Link
<1>3. \A k \in DOMAIN Append(l, ad) :
        (k \in DOMAIN l /\ Append(l, ad)[k] = l[k]) \/ Append(l, ad)[k] = ad
  BY <1>2, LenProperties DEF Link
<1> QED
  BY <1>1, <1>3 DEF Walkable

-----------------------------------------------------------------------------
(* What a chain says of a context. *)

\* What a chain says of a context is not changed by an advert for another.
LEMMA AgreesOther ==
  ASSUME NEW l \in Link, NEW ad \in Advert, NEW c, ad.ctx # c, NEW r, Agrees(r, l, c)
  PROVE  Agrees(r, Append(l, ad), c)
<1> DEFINE t == Append(l, ad)
<1>1. /\ Len(l) \in Nat /\ Len(t) = Len(l) + 1
      /\ DOMAIN l = 1..Len(l) /\ DOMAIN t = 1..(Len(l) + 1)
      /\ \A k \in 1..Len(l) : t[k] = l[k]
      /\ t[Len(l) + 1] = ad
  BY LenProperties DEF Link
<1> HIDE DEF t
<1>2. CASE r.chunk = Nil /\ \A k \in DOMAIN l : l[k].ctx # c
  <2>1. \A k \in DOMAIN t : t[k].ctx # c
    BY <1>1, <1>2
  <2> QED
    BY <1>2, <2>1 DEF Agrees, t
<1>3. CASE \E i \in DOMAIN l :
             /\ l[i].ctx = c
             /\ r = [chunk |-> l[i].entries, md |-> l[i].md]
             /\ \A j \in i+1..Len(l) : l[j].ctx # c
  <2>1. PICK i \in DOMAIN l :
          /\ l[i].ctx = c
          /\ r = [chunk |-> l[i].entries, md |-> l[i].md]
          /\ \A j \in i+1..Len(l) : l[j].ctx # c
    BY <1>3
  <2>2. i \in DOMAIN t /\ t[i] = l[i]
    BY <1>1
  <2>3. \A j \in i+1..Len(t) : t[j].ctx # c
    <3> TAKE j \in i+1..Len(t)
    <3>1. CASE j = Len(l) + 1
      BY <3>1, <1>1
    <3>2. CASE j # Len(l) + 1
      <4>1. j \in i+1..Len(l) /\ j \in 1..Len(l)
        BY <3>2, <1>1
      <4> QED
        BY <4>1, <1>1, <2>1
    <3> QED
      BY <3>1, <3>2
  <2> QED
    BY <2>1, <2>2, <2>3 DEF Agrees, t
<1> QED
  BY <1>2, <1>3 DEF Agrees

\* A chain says of the context of its newest advert what that advert announces.
LEMMA AgreesNewest ==
  ASSUME NEW l \in Link, NEW ad \in Advert
  PROVE  Agrees([chunk |-> ad.entries, md |-> ad.md], Append(l, ad), ad.ctx)
<1>1. /\ Len(l) \in Nat /\ Len(Append(l, ad)) = Len(l) + 1
      /\ DOMAIN Append(l, ad) = 1..(Len(l) + 1)
      /\ Append(l, ad)[Len(l) + 1] = ad
  BY LenProperties DEF Link
<1> QED
  BY <1>1 DEF Agrees

\* The chain l has an advert for the context c.
Mentions(l, c) == \E i \in DOMAIN l : l[i].ctx = c

\* What a chain says of a context is what its second part does, if that mentions
\* the context, and what its first part does if not.
LEMMA AgreesConcat ==
  ASSUME NEW h \in Link, NEW l \in Link, NEW c, NEW r
  PROVE  Agrees(r, h \o l, c) <=> IF Mentions(l, c) THEN Agrees(r, l, c) ELSE Agrees(r, h, c)
<1> DEFINE a == h \o l
           H == Len(h)
           K == Len(l)
<1>1. /\ H \in Nat /\ K \in Nat /\ Len(a) = H + K
      /\ DOMAIN h = 1..H /\ DOMAIN l = 1..K /\ DOMAIN a = 1..(H + K)
      /\ \A i \in 1..(H + K) : a[i] = IF i <= H THEN h[i] ELSE l[i - H]
  BY LenProperties, ConcatProperties DEF Link
<1> HIDE DEF a, H, K
<1>2. /\ \A i \in 1..H : i \in 1..(H + K) /\ a[i] = h[i]
      /\ \A j \in 1..K : H + j \in 1..(H + K) /\ a[H + j] = l[j]
  <2>1. \A i \in 1..H : i \in 1..(H + K) /\ i <= H
    BY <1>1
  <2>2. \A j \in 1..K : H + j \in 1..(H + K) /\ ~(H + j <= H) /\ (H + j) - H = j
    BY <1>1
  <2>3. ASSUME NEW j \in 1..K PROVE a[H + j] = l[j]
    <3>1. a[H + j] = l[(H + j) - H]
      BY <2>2, <1>1
    <3> QED
      BY <3>1, <2>2
  <2> QED
    BY <2>1, <2>2, <2>3, <1>1
<1>3. \A i \in 1..(H + K) : i \in 1..H \/ \E j \in 1..K : i = H + j
  <2> TAKE i \in 1..(H + K)
  <2>1. i <= H \/ (i - H \in 1..K /\ i = H + (i - H))
    BY <1>1
  <2> QED
    BY <2>1, <1>1
\* The i-th advert of the chain s is its newest for c, and r what it announces.
<1> DEFINE Newest(s, i) ==
             /\ s[i].ctx = c
             /\ r = [chunk |-> s[i].entries, md |-> s[i].md]
             /\ \A j \in i+1..Len(s) : s[j].ctx # c
<1>a. ASSUME NEW s
      PROVE  Agrees(r, s, c) <=> \/ r.chunk = Nil /\ ~Mentions(s, c)
                                 \/ \E i \in DOMAIN s : Newest(s, i)
  BY DEF Agrees, Mentions
<1>d. DOMAIN h = 1..H /\ DOMAIN l = 1..K /\ DOMAIN a = 1..(H + K)
  BY <1>1
<1>4. Mentions(a, c) <=> Mentions(h, c) \/ Mentions(l, c)
  <2>1. ASSUME NEW i \in DOMAIN a, a[i].ctx = c PROVE Mentions(h, c) \/ Mentions(l, c)
    <3>1. CASE i \in 1..H
      BY <2>1, <3>1, <1>2, <1>d DEF Mentions
    <3>2. ASSUME NEW j \in 1..K, i = H + j PROVE Mentions(l, c)
      <4>1. l[j].ctx = c
        BY <2>1, <3>2, <1>2
      <4> QED
        BY <4>1, <1>d DEF Mentions
    <3> QED
      BY <2>1, <3>1, <3>2, <1>3, <1>d
  <2>2. ASSUME NEW i \in DOMAIN h, h[i].ctx = c PROVE Mentions(a, c)
    BY <2>2, <1>2, <1>d DEF Mentions
  <2>3. ASSUME NEW j \in DOMAIN l, l[j].ctx = c PROVE Mentions(a, c)
    <3>1. H + j \in DOMAIN a /\ a[H + j].ctx = c
      BY <2>3, <1>2, <1>d
    <3> QED
      BY <3>1 DEF Mentions
  <2> QED
    BY <2>1, <2>2, <2>3 DEF Mentions
<1>5. ASSUME NEW j \in 1..K PROVE Newest(a, H + j) <=> Newest(l, j)
  <2>1. H + j \in 1..(H + K) /\ a[H + j] = l[j]
    BY <1>2
  <2>2. ASSUME NEW m \in j+1..K PROVE H + m \in H+j+1..H+K /\ a[H + m] = l[m]
    BY <1>1, <1>2
  <2>3. ASSUME NEW m \in H+j+1..H+K PROVE \E k \in j+1..K : m = H + k
    <3>1. m - H \in j+1..K /\ m = H + (m - H)
      BY <1>1
    <3> QED
      BY <3>1
  <2> QED
    BY <2>1, <2>2, <2>3, <1>1 DEF K
<1>6. ASSUME NEW i \in 1..H PROVE Newest(a, i) <=> Newest(h, i) /\ ~Mentions(l, c)
  <2>1. i \in 1..(H + K) /\ a[i] = h[i]
    BY <1>2
  <2>2. ASSUME NEW m \in i+1..H PROVE m \in i+1..H+K /\ a[m] = h[m]
    BY <1>1, <1>2
  <2>3. ASSUME NEW m \in 1..K PROVE H + m \in i+1..H+K /\ a[H + m] = l[m]
    BY <1>1, <1>2
  <2>4. ASSUME NEW m \in i+1..H+K PROVE m \in i+1..H \/ \E k \in 1..K : m = H + k
    BY <1>1, <1>3
  <2>5. (\A m \in i+1..Len(a) : a[m].ctx # c)
          <=> (\A m \in i+1..Len(h) : h[m].ctx # c) /\ ~Mentions(l, c)
    <3>1. ASSUME \A m \in i+1..H+K : a[m].ctx # c
          PROVE  (\A m \in i+1..H : h[m].ctx # c) /\ ~Mentions(l, c)
      BY <3>1, <2>2, <2>3, <1>d DEF Mentions
    <3>2. ASSUME \A m \in i+1..H : h[m].ctx # c, ~Mentions(l, c), NEW m \in i+1..H+K
          PROVE  a[m].ctx # c
      BY <3>2, <2>2, <2>3, <2>4, <1>d DEF Mentions
    <3>3. Len(a) = H + K /\ Len(h) = H
      BY <1>1 DEF H
    <3> QED
      BY <3>1, <3>2, <3>3
  <2> QED
    BY <2>1, <2>5
<1> HIDE DEF Newest
<1>7. (\E i \in DOMAIN a : Newest(a, i))
        <=> \/ \E i \in DOMAIN h : Newest(h, i) /\ ~Mentions(l, c)
            \/ \E j \in DOMAIN l : Newest(l, j)
  BY <1>1, <1>2, <1>3, <1>5, <1>6
<1>8. /\ (\E i \in DOMAIN h : Newest(h, i)) => Mentions(h, c)
      /\ (\E i \in DOMAIN l : Newest(l, i)) => Mentions(l, c)
  BY DEF Newest, Mentions
<1>9. Agrees(r, a, c) <=> IF Mentions(l, c) THEN Agrees(r, l, c) ELSE Agrees(r, h, c)
  BY <1>a, <1>4, <1>7, <1>8
<1> QED
  BY <1>9 DEF a

=============================================================================
