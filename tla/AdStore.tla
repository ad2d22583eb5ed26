------------------------------ MODULE AdStore ------------------------------
(***************************************************************************)
(* The publisher's store (pkg/store): the signed head, the advert and      *)
(* entries blocks, and the two tables that map a provider and context ID   *)
(* to the entries advertised under it and to its metadata.                 *)
(*                                                                         *)
(* Links are content addressed, so a link is modelled by what it hashes:   *)
(*   - the link of an advert is the chain that ends in it, a sequence of   *)
(*     adverts (the advert's PreviousID is the link without its last       *)
(*     element; no previous advert is <<>>);                               *)
(*   - the link of an entries list is the list of digests itself.          *)
(*                                                                         *)
(* Every operation below is one call of the store.  The operations are     *)
(* composed by the modules that EXTEND this one.                           *)
(***************************************************************************)
EXTENDS Naturals, Sequences, FiniteSets, SequencesExt

CONSTANTS
  Contexts,   \* pairs of a provider and a context ID
  Digests,    \* lists of multihashes
  Blockless,  \* the lists whose link needs no block: an identity CID carries the
              \* list itself, and the empty list's link is schema.NoEntries
  Metadatas,  \* the metadata an advert carries
  Nil,        \* a mapping that is missing
  Faulty,     \* may calls of the store fail?
  LostReply   \* may a ReplaceHead that took effect be reported as failed?

ASSUME BlocklessAssumption == Blockless \subseteq Digests
ASSUME NilAssumption == Nil \notin Digests /\ Nil \notin Metadatas
ASSUME FaultAssumption == Faulty \in BOOLEAN /\ LostReply \in BOOLEAN

\* What an advert says; the provider's addresses and signature are left out.
Advert == [ctx : Contexts, entries : Digests, md : Metadatas]

\* A nil link is <<>>.
Link == Seq(Advert)

ContextRecord == [chunk : Digests \cup {Nil}, md : Metadatas \cup {Nil}]

NoRecord == [chunk |-> Nil, md |-> Nil]

VARIABLES
  head,       \* the link the signed head carries; <<>> before the first one
  adverts,    \* the links of the adverts that are stored
  blocks,     \* the entries lists whose blocks are stored
  chunkLink,  \* the table from context to entries link
  metadata    \* the table from context to metadata

store == <<head, adverts, blocks, chunkLink, metadata>>

StoreTypeOK ==
  /\ head \in Link
  /\ adverts \subseteq Link
  /\ blocks \subseteq Digests
  /\ chunkLink \in [Contexts -> Digests \cup {Nil}]
  /\ metadata \in [Contexts -> Metadatas \cup {Nil}]

\* Nothing published yet.  A metadata row can be there on its own, left by a
\* commit that failed under an older release.
StoreInit ==
  /\ head = <<>>
  /\ adverts = {}
  /\ blocks = {}
  /\ chunkLink = [c \in Contexts |-> Nil]
  /\ metadata \in [Contexts -> Metadatas \cup {Nil}]

Record(c) == [chunk |-> chunkLink[c], md |-> metadata[c]]

-----------------------------------------------------------------------------
(* The calls that write.                                                    *)
(*                                                                          *)
(* A "variant", here and in the modules that extend this one, is what a     *)
(* definition would be with a plausible mistake in the code.  No            *)
(* specification uses it: the mutation runs put it in the definition's      *)
(* place to see a property fail.                                            *)

PutEntries(d) ==
  /\ blocks' = blocks \cup ({d} \ Blockless)
  /\ UNCHANGED <<head, adverts, chunkLink, metadata>>

PutAdvert(l) ==
  /\ adverts' = adverts \cup {l}
  /\ UNCHANGED <<head, blocks, chunkLink, metadata>>

\* Variant: the head is written whatever it is by now.
ReplaceHeadUnchecked(oldHead, newHead) ==
  /\ head' = newHead
  /\ UNCHANGED <<adverts, blocks, chunkLink, metadata>>

\* The conditional write of the head: it replaces the head it was read as.
ReplaceHead(oldHead, newHead) ==
  /\ head = oldHead
  /\ head' = newHead
  /\ UNCHANGED <<adverts, blocks, chunkLink, metadata>>

\* Writes the mapping; writing Nil deletes it.
PutChunkLink(c, l) ==
  /\ chunkLink' = [chunkLink EXCEPT ![c] = l]
  /\ UNCHANGED <<head, adverts, blocks, metadata>>

PutMetadata(c, m) ==
  /\ metadata' = [metadata EXCEPT ![c] = m]
  /\ UNCHANGED <<head, adverts, blocks, chunkLink>>

-----------------------------------------------------------------------------
(* The calls that fail.  A write that reports an error may have been        *)
(* applied; so may a ReplaceHead, where LostReply holds.                    *)

ReadFails == Faulty /\ UNCHANGED store

WriteFails(write) == Faulty /\ (write \/ UNCHANGED store)

ReplaceHeadFails(oldHead, newHead) ==
  \/ head # oldHead /\ UNCHANGED store          \* ErrPreconditionFailed
  \/ Faulty /\ UNCHANGED store
  \/ Faulty /\ LostReply /\ ReplaceHead(oldHead, newHead)

-----------------------------------------------------------------------------
(* What the store means to an indexer, which walks the chain from the head  *)
(* and fetches the entries of every advert.                                 *)

\* The chain that ends in l can be walked: its adverts are among those stored,
\* and their entries among the blocks.
Walkable(l, stored, entries) ==
  /\ Prefixes(l) \ {<<>>} \subseteq stored
  /\ \A k \in DOMAIN l : l[k].entries \in entries \cup Blockless

\* Every advert the head reaches, and the entries of each, can be fetched,
\* though adverts and entries are written before the head, by calls of other
\* publishers, and calls fail in between (advertisementpublisher.go, commit).
HeadClosed == Walkable(head, adverts, blocks)

\* The record r is what the chain l says of the context c: nothing mapped when
\* no advert of l is for c, else what the newest such advert announces.
Agrees(r, l, c) ==
  \/ /\ r.chunk = Nil
     /\ \A i \in DOMAIN l : l[i].ctx # c
  \/ \E i \in DOMAIN l :
       /\ l[i].ctx = c
       /\ r = [chunk |-> l[i].entries, md |-> l[i].md]
       /\ \A j \in i+1..Len(l) : l[j].ctx # c
=============================================================================
