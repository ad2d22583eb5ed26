----------------------------- MODULE LocalStore -----------------------------
(***************************************************************************)
(* Publishing to a directory (FromLocalStore in pkg/store) that pkg/server *)
(* serves to indexers.  A file is truncated and then filled, so a reader,  *)
(* a write that fails and a process that stops find it in between; a mutex *)
(* keeps writers apart, and no reader takes it.                            *)
(*                                                                         *)
(* Files are modelled by whether they are whole.  A block is named by the  *)
(* hash of its content, so its key is what it holds; the head file is not. *)
(* The mappings are in a datastore of their own, and are left out here.    *)
(***************************************************************************)
EXTENDS Naturals, Sequences, FiniteSets, SequencesExt

CONSTANTS
  Writers,          \* the callers of Publish, in one process
  Lists,            \* the lists of multihashes they advertise
  Seed,             \* the advert a directory that is not empty starts with
  ChunkSize,        \* MaxEntryChunkSize
  IdentityEntries,  \* the longest list that is inlined; 0 inlines none
  MaxCalls,         \* bound: the calls of Publish
  None,             \* no writer
  Faulty,           \* may reads and writes of files fail?
  MayCrash          \* may the process stop, and be started again?

ASSUME ChunkSizeAssumption == ChunkSize \in Nat \ {0}
ASSUME IdentityAssumption == IdentityEntries \in Nat
ASSUME CallsAssumption == MaxCalls \in Nat
ASSUME NoneAssumption == None \notin Writers
ASSUME LocalModeAssumption == {Faulty, MayCrash} \subseteq BOOLEAN

VARIABLES
  head,     \* the last link that was written whole to the head file
  whole,    \* the keys of the blocks whose files are whole
  torn,     \* the keys of the files that are truncated and not filled
  mutex,    \* the writer that holds directoryStore.mutex
  pc,       \* pc[w]: what writer w does next
  list,     \* list[w]: what it advertises
  rest,     \* rest[w]: those of its multihashes that no chunk holds yet
  link,     \* link[w]: the entries link it has built
  old,      \* old[w]: the head it read
  calls,    \* how many calls there were
  acked,    \* history: the links that calls returned
  damaged   \* history: the files whose last write failed, or was cut short

vars == <<head, whole, torn, mutex, pc, list, rest, link, old, calls, acked, damaged>>

-----------------------------------------------------------------------------
(* Keys and links *)

Multihashes == UNION {Range(s) : s \in Lists}

\* An entries link is the chunks written so far, each of which links to the one
\* before it.  When inlined it is an identity CID, and there is no file.
EntriesLink == [inlined : BOOLEAN, chunks : Seq(Seq(Multihashes))]

NoEntries == [inlined |-> FALSE, chunks |-> <<>>]

ASSUME ListsAssumption == Lists \subseteq Seq(Multihashes)
ASSUME SeedAssumption ==
  /\ Seed = [ctx |-> Seed.ctx, entries |-> Seed.entries]
  /\ Seed.entries \in EntriesLink

\* Publishing another context makes another advert, be the entries the same.
Advert == [ctx : Writers \cup {Seed.ctx}, entries : EntriesLink]

\* The multihashes that Entries yields, by chunk and place in it.  It follows the
\* chunks from the last one written to the first; no property is about the order.
Places(l) == UNION {{k} \X DOMAIN l.chunks[k] : k \in DOMAIN l.chunks}

Entries(l) == [x \in Places(l) |-> l.chunks[x[1]][x[2]]]

HeadKey == <<"head", <<>>>>
AdvertKey(l) == <<"advert", l>>
ChunkKey(chunks) == <<"chunk", chunks>>

ChunkKeys(l) ==
  IF l.inlined THEN {} ELSE {ChunkKey(c) : c \in Prefixes(l.chunks) \ {<<>>}}

\* The blocks an indexer fetches that starts at the head h.
Reached(h) ==
  {AdvertKey(l) : l \in Prefixes(h) \ {<<>>}}
    \cup UNION {ChunkKeys(h[i].entries) : i \in DOMAIN h}

-----------------------------------------------------------------------------

TypeOK ==
  /\ head \in Seq(Advert)
  /\ whole \cap torn = {} /\ HeadKey \notin whole
  /\ mutex \in Writers \cup {None}
  /\ pc \in [Writers -> {"idle", "entries", "readHead", "putAdvert", "replaceHead"}]
  /\ list \in [Writers -> Lists \cup {<<>>}]
  /\ rest \in [Writers -> Seq(Multihashes)]
  /\ link \in [Writers -> EntriesLink]
  /\ old \in [Writers -> Seq(Advert)]
  /\ \A w \in Writers : pc[w] \in {"putAdvert", "replaceHead"} => old[w] # <<>>
  /\ calls \in 0..MaxCalls
  /\ acked \subseteq Seq(Advert)
  /\ damaged \subseteq torn

\* No calls under way.  The directory is empty, or holds a chain of one advert.
Init ==
  /\ head \in {<<>>, <<Seed>>}
  /\ whole = Reached(head)
  /\ torn = {}
  /\ mutex = None
  /\ pc = [w \in Writers |-> "idle"]
  /\ list = [w \in Writers |-> <<>>]
  /\ rest = [w \in Writers |-> <<>>]
  /\ link = [w \in Writers |-> NoEntries]
  /\ old = [w \in Writers |-> <<>>]
  /\ calls = 0
  /\ acked = {}
  /\ damaged = {}

-----------------------------------------------------------------------------
(* A call of Publish.  A "variant" is what a definition would be with a     *)
(* plausible mistake in the code: no specification uses it, the mutation    *)
(* runs put it in the definition's place to see a property fail.            *)

files == <<head, whole, torn, mutex, acked, damaged>>

Call(w) ==
  /\ pc[w] = "idle"
  /\ calls < MaxCalls
  /\ calls' = calls + 1
  /\ \E s \in Lists : /\ list' = [list EXCEPT ![w] = s]
                      /\ rest' = [rest EXCEPT ![w] = s]
  /\ pc' = [pc EXCEPT ![w] = "entries"]
  /\ UNCHANGED <<link, old, files>>

Return(w) ==
  /\ pc' = [pc EXCEPT ![w] = "idle"]
  /\ list' = [list EXCEPT ![w] = <<>>]
  /\ rest' = [rest EXCEPT ![w] = <<>>]
  /\ link' = [link EXCEPT ![w] = NoEntries]
  /\ old' = [old EXCEPT ![w] = <<>>]

\* Variant: what fits in an inlined chunk is inlined wherever it stands.
InlinesAlways(w) == rest[w] # <<>> /\ Len(rest[w]) <= IdentityEntries

\* The entries are few, and no chunk of them has been written.
Inlines(w) ==
  /\ link[w].chunks = <<>>
  /\ Len(rest[w]) \in 1..IdentityEntries
  /\ Len(rest[w]) <= ChunkSize

\* The chunk that is written next: a full one, or what is left.
NextChunk(w) ==
  IF Len(rest[w]) <= ChunkSize THEN rest[w]
                               ELSE SubSeq(rest[w], 1, ChunkSize)

WithChunk(w) == [link[w] EXCEPT !.chunks = Append(@, NextChunk(w))]

\* putEntries has nothing to write: it inlines the list, or is done.
EndEntries(w) ==
  /\ pc[w] = "entries"
  /\ \/ rest[w] = <<>> /\ UNCHANGED link
     \/ Inlines(w) /\ link' = [link EXCEPT ![w] = [WithChunk(w) EXCEPT !.inlined = TRUE]]
  /\ rest' = [rest EXCEPT ![w] = <<>>]
  /\ pc' = [pc EXCEPT ![w] = "readHead"]
  /\ UNCHANGED <<list, old, calls, files>>

\* The advert it makes, on the head it read.
NewHead(w) == Append(old[w], [ctx |-> w, entries |-> link[w]])

\* Variant: the error of reading the head is not looked at.
ReadHeadUnchecked(w) ==
  /\ pc[w] = "readHead"
  /\ old' = [old EXCEPT ![w] = head]
  /\ pc' = [pc EXCEPT ![w] = "putAdvert"]
  /\ UNCHANGED <<list, rest, link, calls, files>>

\* A head that cannot be read whole, or at all, fails the call: the error of a
\* file that does not exist is not one that IsNotFound knows.  A read that
\* overlaps a write finds the file torn, or bytes that no head file equals.
ReadHead(w) ==
  /\ pc[w] = "readHead"
  /\ head # <<>> /\ HeadKey \notin torn
  /\ old' = [old EXCEPT ![w] = head]
  /\ pc' = [pc EXCEPT ![w] = "putAdvert"]
  /\ UNCHANGED <<list, rest, link, calls, files>>

ReadHeadFails(w) ==
  /\ pc[w] = "readHead"
  /\ head = <<>> \/ HeadKey \in torn \/ Faulty
  /\ Return(w)
  /\ UNCHANGED <<calls, files>>

-----------------------------------------------------------------------------
(* The files.  Put and Replace hold the mutex while they create, that is    *)
(* truncate, the file and while they fill it; an error leaves it as it is.  *)

\* The file that w writes next.
Key(w) ==
  CASE pc[w] = "entries" -> ChunkKey(WithChunk(w).chunks)
    [] pc[w] = "putAdvert" -> AdvertKey(NewHead(w))
    [] OTHER -> HeadKey

\* Variant: the head is compared before the mutex is taken.
MayWriteUnchecked(w) ==
  \/ pc[w] = "entries" /\ rest[w] # <<>> /\ ~Inlines(w)
  \/ pc[w] \in {"putAdvert", "replaceHead"}

\* Variant: a head file that is torn is taken for one that is as it was.
HeadIsOrTorn(w) == head = old[w] \/ HeadKey \in torn

\* The head file holds what w read.
HeadIs(w) == head = old[w] /\ HeadKey \notin torn

MayWrite(w) ==
  \/ pc[w] = "entries" /\ rest[w] # <<>> /\ ~Inlines(w)
  \/ pc[w] = "putAdvert"
  \/ pc[w] = "replaceHead" /\ HeadIs(w)

Create(w) ==
  /\ mutex = None
  /\ MayWrite(w)
  /\ mutex' = w
  /\ whole' = whole \ {Key(w)}
  /\ torn' = torn \cup {Key(w)}
  /\ UNCHANGED <<head, pc, list, rest, link, old, acked, damaged, calls>>

Fill(w) ==
  /\ mutex = w
  /\ mutex' = None
  /\ whole' = whole \cup ({Key(w)} \ {HeadKey})
  /\ torn' = torn \ {Key(w)}
  /\ damaged' = damaged \ {Key(w)}

FillChunk(w) ==
  /\ pc[w] = "entries"
  /\ Fill(w)
  /\ link' = [link EXCEPT ![w] = WithChunk(w)]
  /\ rest' = [rest EXCEPT ![w] = SubSeq(@, Len(NextChunk(w)) + 1, Len(@))]
  /\ UNCHANGED <<head, pc, list, old, acked, calls>>

FillAdvert(w) ==
  /\ pc[w] = "putAdvert"
  /\ Fill(w)
  /\ pc' = [pc EXCEPT ![w] = "replaceHead"]
  /\ UNCHANGED <<head, list, rest, link, old, acked, calls>>

\* The call returns the link of its advert.
FillHead(w) ==
  /\ pc[w] = "replaceHead"
  /\ Fill(w)
  /\ head' = NewHead(w)
  /\ acked' = acked \cup {NewHead(w)}
  /\ Return(w)
  /\ UNCHANGED calls

\* ErrPreconditionFailed
ReplaceRefused(w) ==
  /\ pc[w] = "replaceHead"
  /\ mutex = None
  /\ ~HeadIs(w)
  /\ Return(w)
  /\ UNCHANGED <<calls, files>>

\* Variant: the file is not created, and that error is not looked at.
CreateFailsUnseen(w) ==
  /\ Faulty
  /\ mutex = None
  /\ MayWrite(w)
  /\ pc[w] = "putAdvert"
  /\ pc' = [pc EXCEPT ![w] = "replaceHead"]
  /\ UNCHANGED <<list, rest, link, old, calls, files>>

CreateFails(w) ==
  /\ Faulty
  /\ mutex = None
  /\ MayWrite(w)
  /\ Return(w)
  /\ UNCHANGED <<calls, files>>

\* Variant: an error while the file is filled leaves the mutex locked.
FillFailsLocked(w) ==
  /\ Faulty
  /\ mutex = w
  /\ damaged' = damaged \cup {Key(w)}
  /\ Return(w)
  /\ UNCHANGED <<head, whole, torn, mutex, acked, calls>>

FillFails(w) ==
  /\ Faulty
  /\ mutex = w
  /\ mutex' = None
  /\ damaged' = damaged \cup {Key(w)}
  /\ Return(w)
  /\ UNCHANGED <<head, whole, torn, acked, calls>>

\* The process stops, with all its calls; the files stay as they are.
Crash ==
  /\ MayCrash
  /\ \E w \in Writers : pc[w] # "idle"
  /\ mutex' = None
  /\ damaged' = torn
  /\ pc' = [w \in Writers |-> "idle"]
  /\ list' = [w \in Writers |-> <<>>]
  /\ rest' = [w \in Writers |-> <<>>]
  /\ link' = [w \in Writers |-> NoEntries]
  /\ old' = [w \in Writers |-> <<>>]
  /\ UNCHANGED <<head, whole, torn, acked, calls>>

Step(w) ==
  \/ EndEntries(w)
  \/ ReadHead(w) \/ ReadHeadFails(w)
  \/ Create(w) \/ CreateFails(w)
  \/ FillChunk(w) \/ FillAdvert(w) \/ FillHead(w) \/ FillFails(w)
  \/ ReplaceRefused(w)

Next == Crash \/ \E w \in Writers : Call(w) \/ Step(w)

Spec == Init /\ [][Next]_vars

\* A call goes on; a goroutine that waits for the mutex gets it in the end.
Fairness == \A w \in Writers : SF_vars(Step(w))

FairSpec == Spec /\ Fairness

-----------------------------------------------------------------------------
(* The server.  It takes no lock; what it answers for a key, at any time.   *)

\* A block that is missing is not known as not found (404, for the head 204).
ServeHTTP(key) ==
  CASE key \in torn -> [status |-> 200, whole |-> FALSE]
    [] key \in whole \/ (key = HeadKey /\ head # <<>>) ->
         [status |-> 200, whole |-> TRUE]
    [] OTHER -> [status |-> 500, whole |-> FALSE]

-----------------------------------------------------------------------------
(* Properties *)

\* How often m is among the values of s.
Count(s, m) == Cardinality({i \in DOMAIN s : s[i] = m})

\* The link that putEntries makes stands for the list it was given: Entries
\* yields each multihash as often as the list has it, every chunk but the last
\* is full and none is empty, and exactly the lists that are inlined need no
\* file (putEntries, Entries).
EntriesRight ==
  \A w \in Writers : pc[w] \notin {"idle", "entries"} =>
    LET l == link[w]
    IN  /\ \A m \in Multihashes : Count(Entries(l), m) = Count(list[w], m)
        /\ \A i \in DOMAIN l.chunks : Len(l.chunks[i]) \in 1..ChunkSize
        /\ \A i \in DOMAIN l.chunks :
             i < Len(l.chunks) => Len(l.chunks[i]) = ChunkSize
        /\ l.inlined <=> /\ Len(list[w]) <= ChunkSize
                         /\ Len(list[w]) \in 1..IdentityEntries

\* An indexer that is answered with a head is answered with every block the head
\* reaches, each one whole unless it is just being written again, by another
\* call that publishes the same entries, or such a write was cut short.
HeadServed ==
  ServeHTTP(HeadKey).whole =>
    \A k \in Reached(head) :
      /\ ServeHTTP(k).status = 200
      /\ \/ ServeHTTP(k).whole
         \/ mutex # None /\ Key(mutex) = k
         \/ k \in damaged

\* The head file is written while the mutex is held.
HeadBeingWritten == mutex # None /\ Key(mutex) = HeadKey

\* A link that a call returned stays on the chain that is served, but while the
\* head file is written, and until a write of it fails or is cut short, when it
\* is left truncated (Replace).  Then everything that was published is out of
\* reach for good: nothing writes that file again.  But it is not lost in
\* silence: no call returns a link from then on.
PublishedServed ==
  /\ [](acked # {} =>
          \/ ServeHTTP(HeadKey).whole /\ acked \subseteq Prefixes(head)
          \/ HeadBeingWritten
          \/ HeadKey \in damaged)
  /\ [][(HeadKey \in damaged) => HeadKey \in damaged' /\ acked' = acked]_vars

\* Every call returns: no error leaves the mutex locked.
CallReturns == \A w \in Writers : pc[w] # "idle" ~> pc[w] = "idle"

\* Behind the advert the directory starts with, the calls implement the chain: of
\* the last head that was written whole, whether or not it is still whole, none
\* builds on, or replaces, another.
Seeded(l) == IF l = <<>> THEN <<>> ELSE Tail(l)

Chain == INSTANCE AdvertChain WITH
  head <- Seeded(head), acked <- {Seeded(l) : l \in acked}

ChainSpec == Chain!Spec
=============================================================================
