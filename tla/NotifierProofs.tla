--------------------------- MODULE NotifierProofs ---------------------------
(***************************************************************************)
(* Theorems about Notifier, for any functions and any number of heads.     *)
(***************************************************************************)
EXTENDS Notifier, SequenceTheorems, TLAPS

-----------------------------------------------------------------------------
(* What is left of a list once its head is taken. *)

LEMMA EmptyList == ASSUME NEW S PROVE <<>> \in Seq(S) /\ IsInjective(<<>>) /\ Range(<<>>) = {}
BY EmptySeq DEF IsInjective, Range

\* The head and the tail of a sequence that is not empty.
LEMMA HeadTail ==
  ASSUME NEW S, NEW s \in Seq(S), s # <<>>
  PROVE  /\ Head(s) \in S /\ Head(s) \in Range(s)
         /\ Tail(s) \in Seq(S) /\ Len(Tail(s)) = Len(s) - 1 /\ Len(s) >= 1
         /\ Range(Tail(s)) \subseteq Range(s)
<1>1. Len(s) \in Nat /\ Len(s) >= 1 /\ DOMAIN s = 1..Len(s)
  BY EmptySeq, LenProperties
<1>2. Head(s) \in S /\ Head(s) = s[1]
  BY <1>1, HeadTailProperties
<1>3. Tail(s) \in Seq(S) /\ Len(Tail(s)) = Len(s) - 1
      /\ \A i \in 1..Len(Tail(s)) : Tail(s)[i] = s[i + 1]
  BY <1>1, HeadTailProperties
<1>4. DOMAIN Tail(s) = 1..Len(Tail(s))
  BY <1>3, LenProperties
<1>5. \A i \in 1..Len(Tail(s)) : i + 1 \in 1..Len(s)
  BY <1>1, <1>3
<1> QED
  BY <1>1, <1>2, <1>3, <1>4, <1>5 DEF Range

\* What is left of a sequence without repetitions.
LEMMA InjectiveTail ==
  ASSUME NEW S, NEW s \in Seq(S), s # <<>>, IsInjective(s)
  PROVE  /\ IsInjective(Tail(s)) /\ Head(s) \notin Range(Tail(s))
         /\ Range(s) = {Head(s)} \cup Range(Tail(s))
<1>1. Len(s) \in Nat /\ Len(s) >= 1 /\ DOMAIN s = 1..Len(s)
  BY EmptySeq, LenProperties
<1>2. Head(s) = s[1]
  BY <1>1, HeadTailProperties
<1>3. /\ Tail(s) \in Seq(S) /\ Len(Tail(s)) = Len(s) - 1
      /\ \A k \in 1..Len(Tail(s)) : Tail(s)[k] = s[k + 1]
  BY <1>1, HeadTailProperties
<1>4. DOMAIN Tail(s) = 1..(Len(s) - 1)
  BY <1>3, LenProperties
<1>5. \A k \in 1..(Len(s) - 1) : Tail(s)[k] = s[k + 1] /\ k + 1 \in 1..Len(s) /\ k + 1 # 1
  BY <1>1, <1>3
<1>6. \A k, m \in 1..Len(s) : s[k] = s[m] => k = m
  BY <1>1 DEF IsInjective
<1>7. IsInjective(Tail(s))
  <2> SUFFICES ASSUME NEW k \in 1..(Len(s) - 1), NEW m \in 1..(Len(s) - 1), Tail(s)[k] = Tail(s)[m]
               PROVE  k = m
    BY <1>4 DEF IsInjective
  <2>1. k + 1 = m + 1
    BY <1>5, <1>6
  <2> QED
    BY <2>1, <1>1
<1>8. Head(s) \notin Range(Tail(s))
  <2> SUFFICES ASSUME NEW k \in 1..(Len(s) - 1), Tail(s)[k] = Head(s) PROVE FALSE
    BY <1>4 DEF Range
  <2>1. 1 \in 1..Len(s)
    BY <1>1
  <2> QED
    BY <1>2, <1>5, <1>6, <2>1
<1>9. ASSUME NEW k \in 1..Len(s), k # 1 PROVE s[k] \in Range(Tail(s))
  <2>1. k - 1 \in 1..(Len(s) - 1) /\ (k - 1) + 1 = k
    BY <1>1, <1>9
  <2>2. Tail(s)[k - 1] = s[k]
    BY <1>5, <2>1
  <2> QED
    BY <1>4, <2>1, <2>2 DEF Range
<1>10. Head(s) \in Range(s) /\ Range(Tail(s)) \subseteq Range(s)
  BY HeadTail
<1>11. Range(s) \subseteq {Head(s)} \cup Range(Tail(s))
  BY <1>1, <1>2, <1>9 DEF Range
<1> QED
  BY <1>7, <1>8, <1>10, <1>11

-----------------------------------------------------------------------------

\* The notifier's state stays well formed.
THEOREM Typed == Spec => []TypeOK
<1>1. Init => TypeOK
  <2>1. 0 \in Heads
    BY MaxHeadAssumption DEF Heads
  <2> QED
    BY <2>1, EmptyList DEF Init, ProcessInit, TypeOK
<1>2. ASSUME TypeOK, [Next]_vars PROVE TypeOK'
  <2> USE <1>2, NilAssumption, MaxHeadAssumption DEF TypeOK
  <2>1. CASE RemoteSyncs
    <3>1. remote' \in Heads
      BY <2>1 DEF RemoteSyncs, Heads
    <3> QED
      BY <2>1, <3>1 DEF RemoteSyncs, process
  <2>2. CASE New
    BY <2>2 DEF New
  <2>3. ASSUME NEW f \in Callbacks, Notify(f) PROVE TypeOK'
    <3>1. notify' \in Seq(Callbacks)
      BY <2>3, AppendProperties DEF Notify
    <3> QED
      BY <2>3, <3>1 DEF Notify
  <2>4. CASE Start
    BY <2>4 DEF Start
  <2>5. CASE Fetch
    BY <2>5 DEF Fetch
  <2>6. CASE Save
    BY <2>6 DEF Save
  <2>7. CASE SaveFails
    BY <2>7 DEF SaveFails
  <2>8. CASE Call
    <3>1. Head(calling) \in Callbacks /\ Tail(calling) \in Seq(Callbacks)
      BY <2>8, HeadTail DEF Call
    <3>2. fetched \in Heads
      BY <2>8 DEF Call
    <3>3. told' \in [Callbacks -> Heads \cup {Nil}] /\ toldHere' \subseteq Callbacks
      BY <2>8, <3>1, <3>2 DEF Call
    <3> QED
      BY <2>8, <3>1, <3>3 DEF Call
  <2>9. CASE AllCalled
    BY <2>9 DEF AllCalled
  <2>10. CASE CtxEnds
    BY <2>10 DEF CtxEnds
  <2>11. CASE LoopEnds
    BY <2>11 DEF LoopEnds
  <2>12. CASE Stop
    BY <2>12 DEF Stop
  <2>13. CASE ReceiveDone
    BY <2>13 DEF ReceiveDone
  <2>14. CASE Crash
    BY <2>14, EmptyList DEF Crash
  <2>15. CASE UNCHANGED vars
    BY <2>15 DEF vars
  <2> QED
    BY <2>1, <2>2, <2>3, <2>4, <2>5, <2>6, <2>7, <2>8, <2>9, <2>10, <2>11, <2>12,
       <2>13, <2>14, <2>15 DEF Next
<1> QED
  BY <1>1, <1>2, PTL DEF Spec

-----------------------------------------------------------------------------
(* Why nothing is told twice.  A function is told a head only after it was  *)
(* saved, and what is cached lies between what was told and what is saved;  *)
(* the indexer's head is never behind what is saved.  So a head that is not *)
(* the cached one is newer than all that was told.                          *)

UpTo(a, b) == a # Nil => b # Nil /\ a <= b

Ordered ==
  /\ UpTo(cached, saved) /\ UpTo(saved, remote)
  /\ loop = "save" => UpTo(saved, fetched) /\ prev = cached /\ UpTo(fetched, remote)
                      /\ (cached # Nil => cached < fetched)
  /\ loop = "call" => cached = fetched /\ saved = fetched

ToldSaved ==
  /\ \A f \in Callbacks : UpTo(told[f], saved)
  /\ loop \notin {"none", "call"} => \A f \in Callbacks : UpTo(told[f], cached)

CallsOnce ==
  /\ IsInjective(notify) /\ IsInjective(calling)
  /\ Range(calling) \subseteq Range(notify)

\* What the functions of this process were told, round by round.
ToldHere ==
  /\ toldHere \subseteq Range(notify)
  /\ loop \in {"none", "new"} => toldHere = {}
  /\ loop \in {"select", "save"} => \A f \in toldHere : told[f] = cached
  /\ loop = "call" => \A f \in toldHere \ Range(calling) : told[f] = fetched

IInv == TypeOK /\ Ordered /\ ToldSaved /\ CallsOnce /\ ToldHere
        /\ NoHeadTwice /\ CallsLinkUp

\* The invariant holds of the heads whatever they are: only their order counts.
LEMMA HeadsNat == Heads \subseteq Nat /\ Nil \notin Heads
BY MaxHeadAssumption, NilAssumption DEF Heads

LEMMA IInvInit == Init => IInv
<1> SUFFICES ASSUME Init PROVE IInv
  OBVIOUS
<1>1. TypeOK
  <2>1. 0 \in Heads
    BY MaxHeadAssumption DEF Heads
  <2> QED
    BY <2>1, EmptyList DEF Init, ProcessInit, TypeOK
<1>2. Ordered /\ ToldSaved /\ ToldHere /\ NoHeadTwice /\ CallsLinkUp
  BY EmptyList DEF Init, ProcessInit, Ordered, ToldSaved, ToldHere, NoHeadTwice,
     CallsLinkUp, UpTo
<1>3. CallsOnce
  BY EmptyList DEF Init, ProcessInit, CallsOnce
<1> QED
  BY <1>1, <1>2, <1>3 DEF IInv

\* A step keeps the conjuncts of the invariant, given that it keeps the types.
LEMMA IInvNext ==
  ASSUME IInv, [Next]_vars, TypeOK'
  PROVE  IInv'
<1> USE HeadsNat DEF UpTo
<1>0. TypeOK /\ Ordered /\ ToldSaved /\ CallsOnce /\ ToldHere /\ NoHeadTwice /\ CallsLinkUp
  BY DEF IInv
<1>1. CASE RemoteSyncs
  <2>1. remote' \in Nat /\ remote < remote'
    BY <1>1, <1>0 DEF RemoteSyncs, TypeOK
  <2>2. Ordered'
    BY <1>1, <1>0, <2>1 DEF RemoteSyncs, process, Ordered, TypeOK
  <2> QED
    BY <1>1, <1>0, <2>2 DEF RemoteSyncs, process, ToldSaved, CallsOnce, ToldHere,
       NoHeadTwice, CallsLinkUp, IInv
<1>2. CASE New
  BY <1>2, <1>0 DEF New, Ordered, ToldSaved, CallsOnce, ToldHere, NoHeadTwice,
     CallsLinkUp, IInv, TypeOK
<1>3. ASSUME NEW f \in Callbacks, Notify(f) PROVE IInv'
  <2>1. CallsOnce'
    <3>1. notify \in Seq(Callbacks) /\ f \notin Range(notify)
      BY <1>3, <1>0 DEF Notify, TypeOK
    <3>2. IsInjective(Append(notify, f)) /\ Range(notify) \subseteq Range(Append(notify, f))
      <4>1. DOMAIN notify = 1..Len(notify) /\ Len(notify) \in Nat
        BY <3>1, LenProperties
      <4>2. Append(notify, f) \in Seq(Callbacks)
            /\ Len(Append(notify, f)) = Len(notify) + 1
            /\ Append(notify, f)[Len(notify) + 1] = f
            /\ \A i \in 1..Len(notify) : Append(notify, f)[i] = notify[i]
        BY <3>1, AppendProperties
      <4>3. DOMAIN Append(notify, f) = 1..Len(notify) + 1
        BY <4>2, LenProperties
      <4>4. \A i \in 1..Len(notify) + 1 : i \in 1..Len(notify) \/ i = Len(notify) + 1
        BY <4>1
      <4>5. \A i \in 1..Len(notify) : notify[i] # f
        BY <3>1, <4>1 DEF Range
      <4>6. \A i, j \in 1..Len(notify) : notify[i] = notify[j] => i = j
        BY <1>0, <4>1 DEF CallsOnce, IsInjective
      <4>7. \A i, j \in 1..Len(notify) + 1 :
               Append(notify, f)[i] = Append(notify, f)[j] => i = j
        BY <4>2, <4>4, <4>5, <4>6
      <4>8. \A i \in 1..Len(notify) : i \in 1..Len(notify) + 1
        BY <4>1
      <4>9. IsInjective(Append(notify, f))
        BY <4>3, <4>7 DEF IsInjective
      <4>10. Range(notify) \subseteq Range(Append(notify, f))
        BY <4>1, <4>2, <4>3, <4>8 DEF Range
      <4> QED
        BY <4>9, <4>10
    <3> QED
      BY <1>3, <1>0, <3>2 DEF Notify, CallsOnce
  <2> QED
    BY <1>3, <1>0, <2>1 DEF Notify, Ordered, ToldSaved, ToldHere, NoHeadTwice,
       CallsLinkUp, IInv
<1>4. CASE Start
  BY <1>4, <1>0 DEF Start, Ordered, ToldSaved, CallsOnce, ToldHere, NoHeadTwice,
     CallsLinkUp, IInv
<1>5. CASE Fetch
  <2>1. cached # Nil => cached < remote
    BY <1>5, <1>0 DEF Fetch, DidSync, Ordered, TypeOK
  <2>2. Ordered'
    BY <1>5, <1>0, <2>1 DEF Fetch, Ordered, TypeOK
  <2> QED
    BY <1>5, <1>0, <2>2 DEF Fetch, ToldSaved, CallsOnce, ToldHere, NoHeadTwice,
       CallsLinkUp, IInv
<1>6. CASE Save
  <2>1. fetched \in Nat /\ (cached # Nil => cached < fetched) /\ prev = cached
    BY <1>6, <1>0 DEF Save, Ordered, TypeOK
  <2>2. \A f \in Callbacks : told[f] = Nil \/ told[f] < fetched
    <3> SUFFICES ASSUME NEW f \in Callbacks, told[f] # Nil PROVE told[f] < fetched
      OBVIOUS
    <3>1. told[f] \in Nat
      BY <1>0 DEF TypeOK
    <3>2. cached # Nil /\ told[f] <= cached
      BY <1>6, <1>0 DEF Save, ToldSaved
    <3>3. cached \in Nat
      BY <3>2, <1>0 DEF TypeOK
    <3> QED
      BY <3>1, <3>2, <3>3, <2>1
  <2>3. Ordered'
    BY <1>6, <1>0 DEF Save, Ordered, TypeOK
  <2>4. ToldSaved'
    <3>1. \A f \in Callbacks : told[f] # Nil => fetched # Nil /\ told[f] <= fetched
      <4> SUFFICES ASSUME NEW f \in Callbacks, told[f] # Nil PROVE told[f] <= fetched
        BY <1>6, <1>0 DEF Save, TypeOK
      <4>1. told[f] \in Nat
        BY <1>0 DEF TypeOK
      <4> QED
        BY <4>1, <2>1, <2>2
    <3> QED
      BY <1>6, <3>1 DEF Save, ToldSaved
  <2>5. CallsOnce' /\ ToldHere' /\ CallsLinkUp'
    BY <1>6, <1>0, <2>1 DEF Save, CallsOnce, ToldHere, CallsLinkUp
  <2>6. Range(notify) \subseteq Callbacks
    BY <1>0, LenProperties DEF TypeOK, Range
  <2>7. NoHeadTwice'
    BY <1>6, <2>2, <2>6 DEF Save, NoHeadTwice
  <2> QED
    BY <2>3, <2>4, <2>5, <2>7, <1>0 DEF IInv
<1>7. CASE SaveFails
  <2>1. /\ fetched \in Nat /\ UpTo(fetched, remote)
        /\ cached # Nil => cached \in Nat /\ cached < fetched
    BY <1>7, <1>0 DEF SaveFails, Ordered, TypeOK
  <2>2. Ordered'
    BY <1>7, <1>0, <2>1 DEF SaveFails, Ordered, TypeOK
  <2>3. \A f \in Callbacks : UpTo(told[f], cached) /\ UpTo(told[f], saved)
    BY <1>7, <1>0 DEF SaveFails, ToldSaved
  <2>4. \A f \in Callbacks : UpTo(told[f], fetched)
    <3> SUFFICES ASSUME NEW f \in Callbacks, told[f] # Nil
                 PROVE  fetched # Nil /\ told[f] <= fetched
      OBVIOUS
    <3>1. told[f] \in Nat
      BY <1>0 DEF TypeOK
    <3>2. cached \in Nat /\ told[f] <= cached /\ cached < fetched
      BY <2>1, <2>3
    <3> QED
      BY <3>1, <3>2, <2>1, <1>7, <1>0 DEF SaveFails, TypeOK
  <2>5. ToldSaved'
    BY <1>7, <2>3, <2>4 DEF SaveFails, ToldSaved
  <2> QED
    BY <1>7, <1>0, <2>2, <2>5 DEF SaveFails, CallsOnce, ToldHere, NoHeadTwice,
       CallsLinkUp, IInv
<1>8. CASE Call
  <2> DEFINE g == Head(calling)
  <2>1. calling \in Seq(Callbacks) /\ calling # <<>>
    BY <1>8, <1>0 DEF Call, TypeOK
  <2>2. /\ g \in Callbacks /\ g \in Range(calling)
        /\ Range(calling) = Range(calling') \cup {g}
        /\ IsInjective(calling') /\ g \notin Range(calling')
    BY <2>1, <1>8, <1>0, HeadTail, InjectiveTail DEF Call, CallsOnce
  <2>3. /\ told'[g] = fetched
        /\ \A f \in Callbacks \ {g} : told'[f] = told[f]
        /\ toldHere' = toldHere \cup {g}
    BY <1>8, <1>0, <2>2 DEF Call, TypeOK
  <2>4. Ordered'
    BY <1>8, <1>0 DEF Call, Ordered
  <2>5. Range(calling) \subseteq Callbacks
    BY <2>1, LenProperties DEF Range
  <2>6. ToldSaved'
    BY <1>8, <1>0, <2>3 DEF Call, ToldSaved, Ordered, TypeOK
  <2>7. CallsOnce'
    BY <1>8, <1>0, <2>2 DEF Call, CallsOnce
  <2>8. ToldHere'
    <3>1. toldHere' \subseteq Range(notify)
      BY <1>0, <2>2, <2>3 DEF ToldHere, CallsOnce
    <3>2. \A f \in toldHere' \ Range(calling') : told'[f] = fetched
      BY <1>8, <1>0, <2>2, <2>3 DEF Call, ToldHere, TypeOK
    <3> QED
      BY <1>8, <3>1, <3>2 DEF Call, ToldHere
  <2>9. NoHeadTwice'
    BY <1>8, <1>0, <2>2, <2>3, <2>5 DEF Call, NoHeadTwice
  <2>10. CallsLinkUp'
    BY <1>8, <1>0, <2>2, <2>3, <2>5 DEF Call, CallsLinkUp
  <2> QED
    BY <2>4, <2>6, <2>7, <2>8, <2>9, <2>10 DEF IInv
<1>9. CASE AllCalled
  <2>1. Range(calling) = {}
    BY <1>9, EmptyList DEF AllCalled
  <2>2. ToldHere'
    BY <1>9, <1>0, <2>1 DEF AllCalled, ToldHere, Ordered
  <2>3. ToldSaved'
    BY <1>9, <1>0 DEF AllCalled, ToldSaved, Ordered
  <2> QED
    BY <1>9, <1>0, <2>2, <2>3 DEF AllCalled, Ordered, CallsOnce, NoHeadTwice,
       CallsLinkUp, IInv
<1>10. CASE CtxEnds
  BY <1>10, <1>0 DEF CtxEnds, Ordered, ToldSaved, CallsOnce, ToldHere, NoHeadTwice,
     CallsLinkUp, IInv
<1>11. CASE LoopEnds
  BY <1>11, <1>0 DEF LoopEnds, Ordered, ToldSaved, CallsOnce, ToldHere, NoHeadTwice,
     CallsLinkUp, IInv
<1>12. CASE Stop
  BY <1>12, <1>0 DEF Stop, Ordered, ToldSaved, CallsOnce, ToldHere, NoHeadTwice,
     CallsLinkUp, IInv
<1>13. CASE ReceiveDone
  BY <1>13, <1>0 DEF ReceiveDone, Ordered, ToldSaved, CallsOnce, ToldHere,
     NoHeadTwice, CallsLinkUp, IInv
<1>14. CASE Crash
  <2>1. CallsOnce' /\ ToldHere'
    BY <1>14, EmptyList DEF Crash, CallsOnce, ToldHere
  <2> QED
    BY <1>14, <1>0, <2>1 DEF Crash, Ordered, ToldSaved, NoHeadTwice, CallsLinkUp, IInv
<1>15. CASE UNCHANGED vars
  BY <1>15, <1>0 DEF vars, Ordered, ToldSaved, CallsOnce, ToldHere, NoHeadTwice,
     CallsLinkUp, IInv, TypeOK
<1> QED
  BY <1>1, <1>2, <1>3, <1>4, <1>5, <1>6, <1>7, <1>8, <1>9, <1>10, <1>11, <1>12,
     <1>13, <1>14, <1>15 DEF Next

LEMMA Invariant == Spec => []IInv
<1>1. IInv /\ [Next]_vars /\ TypeOK' => IInv'
  BY IInvNext
<1>2. Init => IInv
  BY IInvInit
<1> QED
  BY <1>1, <1>2, Typed, PTL DEF Spec

\* Whatever fails and whenever the process restarts, what a function is about
\* to be told is newer than all it was told before.
THEOREM NeverToldTwice == Spec => []NoHeadTwice
<1>1. IInv => NoHeadTwice
  BY DEF IInv
<1> QED
  BY <1>1, Invariant, PTL

\* Within a process, the previous head a function is given is the head it was
\* given last.
THEOREM ToldInOrder == Spec => []CallsLinkUp
<1>1. IInv => CallsLinkUp
  BY DEF IInv
<1> QED
  BY <1>1, Invariant, PTL
=============================================================================
