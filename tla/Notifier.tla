------------------------------ MODULE Notifier ------------------------------
(***************************************************************************)
(* The remote sync notifier (pkg/notifier): a loop asks an indexer for the *)
(* newest advert it has ingested and, when that changed since the last     *)
(* time, saves it and calls the registered functions with it and with the  *)
(* one before.  What was saved survives a restart.                         *)
(*                                                                         *)
(* The indexer is not in this repository.  Its heads are numbered in the   *)
(* order in which it ingests them; 0 stands for the undefined CID it       *)
(* answers with when it knows the provider but none of its adverts.        *)
(***************************************************************************)
EXTENDS Naturals, Sequences, FiniteSets, SequencesExt

CONSTANTS
  Callbacks,  \* the functions that may be registered
  MaxHead,    \* bound: the number of adverts the indexer ingests
  Nil,        \* no head
  Faulty,     \* may writes of the store fail?
  MayCrash,   \* may the process stop, and be started again?
  MayEnd,     \* may the context given to Start end?
  MayStop     \* may Stop be called?

Heads == 0..MaxHead

ASSUME MaxHeadAssumption == MaxHead \in Nat
ASSUME NilAssumption == Nil \notin Heads
ASSUME NotifierModeAssumption == {Faulty, MayCrash, MayEnd, MayStop} \subseteq BOOLEAN

VARIABLES
  remote,   \* the indexer's head
  saved,    \* the head in the store
  cached,   \* HeadState.cached
  notify,   \* the registered functions
  loop,     \* what the notifier's goroutine does next
  fetched,  \* the head it was answered
  prev,     \* the head it knew before
  calling,  \* the functions it has yet to call
  ended,    \* has the context ended?
  stop,     \* the call of Stop
  told,     \* history: told[f] is the head f was last called with
  toldHere  \* history: the functions called since the process started

vars == <<remote, saved, cached, notify, loop, fetched, prev, calling, ended,
          stop, told, toldHere>>

process == <<cached, notify, loop, fetched, prev, calling, ended, stop, toldHere>>

TypeOK ==
  /\ remote \in Heads
  /\ saved \in Heads \cup {Nil}
  /\ cached \in Heads \cup {Nil}
  /\ notify \in Seq(Callbacks)
  /\ loop \in {"none", "new", "select", "save", "call", "ended"}
  /\ fetched \in Heads \cup {Nil}
  /\ loop \in {"save", "call"} => fetched \in Heads
  /\ prev \in Heads \cup {Nil}
  /\ calling \in Seq(Callbacks)
  /\ ended \in BOOLEAN
  /\ stop \in {"no", "sending", "returned"}
  /\ told \in [Callbacks -> Heads \cup {Nil}]
  /\ toldHere \subseteq Callbacks

\* A process without a notifier.
ProcessInit ==
  /\ cached = Nil
  /\ notify = <<>>
  /\ loop = "none"
  /\ fetched = Nil
  /\ prev = Nil
  /\ calling = <<>>
  /\ ended = FALSE
  /\ stop = "no"
  /\ toldHere = {}

Init ==
  /\ remote = 0
  /\ saved = Nil
  /\ ProcessInit
  /\ told = [f \in Callbacks |-> Nil]

-----------------------------------------------------------------------------
(* The indexer *)

\* The indexer syncs: it ingests the adverts up to a later head.
RemoteSyncs ==
  /\ remote' \in remote+1..MaxHead
  /\ UNCHANGED <<saved, told, process>>

-----------------------------------------------------------------------------
(* Setting up *)

\* NewNotifierWithStorage reads the saved head.  An undefined head was saved as
\* no bytes, which cid.Cast refuses: then no notifier is ever created again.
New ==
  /\ loop = "none"
  /\ saved # 0
  /\ cached' = saved
  /\ loop' = "new"
  /\ UNCHANGED <<remote, saved, notify, fetched, prev, calling, ended, stop,
                 told, toldHere>>

\* Nothing guards the list of functions, so callers that are not to race with
\* the loop register before they start it.
Notify(f) ==
  /\ loop = "new"
  /\ f \notin Range(notify)
  /\ notify' = Append(notify, f)
  /\ UNCHANGED <<remote, saved, cached, loop, fetched, prev, calling, ended,
                 stop, told, toldHere>>

Start ==
  /\ loop = "new"
  /\ loop' = "select"
  /\ UNCHANGED <<remote, saved, cached, notify, fetched, prev, calling, ended,
                 stop, told, toldHere>>

-----------------------------------------------------------------------------
(* Update, one round of the loop.  A round whose fetch fails, or that finds *)
(* the head it knows, changes nothing, so it is no action.  A "variant" is  *)
(* what a definition would be with a plausible mistake in the code: no      *)
(* specification uses it, the mutation runs put it in the definition's      *)
(* place to see a property fail.                                            *)

DidSync(h, p) == p = Nil \/ h # p

\* Variant: the error of GetLastAdvertisement is not looked at.
FetchUnchecked ==
  /\ loop = "select"
  /\ ~ended
  /\ fetched' \in {remote, Nil}
  /\ DidSync(fetched', cached)
  /\ prev' = cached
  /\ loop' = "save"
  /\ UNCHANGED <<remote, saved, cached, notify, calling, ended, stop, told,
                 toldHere>>

\* Variant: the head before is looked up in the store.
FetchPrevSaved ==
  /\ loop = "select"
  /\ ~ended
  /\ DidSync(remote, cached)
  /\ fetched' = remote
  /\ prev' = saved
  /\ loop' = "save"
  /\ UNCHANGED <<remote, saved, cached, notify, calling, ended, stop, told,
                 toldHere>>

\* The indexer answers, with a head that is not the cached one.
Fetch ==
  /\ loop = "select"
  /\ ~ended                      \* else the request is refused
  /\ DidSync(remote, cached)
  /\ fetched' = remote
  /\ prev' = cached
  /\ loop' = "save"
  /\ UNCHANGED <<remote, saved, cached, notify, calling, ended, stop, told,
                 toldHere>>

\* Variant: the head is kept in memory only.
SaveCachesOnly ==
  /\ loop = "save"
  /\ cached' = fetched
  /\ calling' = notify
  /\ loop' = "call"
  /\ UNCHANGED <<remote, saved, notify, fetched, prev, ended, stop, told,
                 toldHere>>

\* HeadState.Set, and the list of functions as the loop over them finds it.
Save ==
  /\ loop = "save"
  /\ saved' = fetched
  /\ cached' = fetched
  /\ calling' = notify
  /\ loop' = "call"
  /\ UNCHANGED <<remote, notify, fetched, prev, ended, stop, told, toldHere>>

\* Variant: the head is cached before it is written.
SaveFailsCached ==
  /\ Faulty
  /\ loop = "save"
  /\ saved' \in {saved, fetched}
  /\ cached' = fetched
  /\ fetched' = Nil
  /\ prev' = Nil
  /\ loop' = "select"
  /\ UNCHANGED <<remote, notify, calling, ended, stop, told, toldHere>>

\* Variant: the loop returns on an error instead of going on.
SaveFailsEnds ==
  /\ Faulty
  /\ loop = "save"
  /\ saved' \in {saved, fetched}
  /\ fetched' = Nil
  /\ prev' = Nil
  /\ loop' = "ended"
  /\ UNCHANGED <<remote, cached, notify, calling, ended, stop, told, toldHere>>

\* The write of the head reports an error, though it may have been applied.
\* The next round fetches again and tries it once more.
SaveFails ==
  /\ Faulty
  /\ loop = "save"
  /\ saved' \in {saved, fetched}
  /\ fetched' = Nil
  /\ prev' = Nil
  /\ loop' = "select"
  /\ UNCHANGED <<remote, cached, notify, calling, ended, stop, told, toldHere>>

\* The next function is called, and returns.
Call ==
  /\ loop = "call"
  /\ calling # <<>>
  /\ told' = [told EXCEPT ![Head(calling)] = fetched]
  /\ toldHere' = toldHere \cup {Head(calling)}
  /\ calling' = Tail(calling)
  /\ UNCHANGED <<remote, saved, cached, notify, loop, fetched, prev, ended, stop>>

AllCalled ==
  /\ loop = "call"
  /\ calling = <<>>
  /\ fetched' = Nil
  /\ prev' = Nil
  /\ loop' = "select"
  /\ UNCHANGED <<remote, saved, cached, notify, calling, ended, stop, told,
                 toldHere>>

-----------------------------------------------------------------------------
(* The end of the loop *)

CtxEnds ==
  /\ MayEnd
  /\ loop # "none"
  /\ ~ended
  /\ ended' = TRUE
  /\ UNCHANGED <<remote, saved, cached, notify, loop, fetched, prev, calling,
                 stop, told, toldHere>>

LoopEnds ==
  /\ loop = "select"
  /\ ended
  /\ loop' = "ended"
  /\ UNCHANGED <<remote, saved, cached, notify, fetched, prev, calling, ended,
                 stop, told, toldHere>>

\* Stop sends on a channel that only a running loop receives from.  A channel
\* that Start has not made yet blocks for ever, so Stop is called after Start.
Stop ==
  /\ MayStop
  /\ loop \notin {"none", "new"}
  /\ stop = "no"
  /\ stop' = "sending"
  /\ UNCHANGED <<remote, saved, cached, notify, loop, fetched, prev, calling,
                 ended, told, toldHere>>

\* The loop takes what Stop sends.  When a tick or the end of the context is
\* ready too, select chooses among them at random.
ReceiveDone ==
  /\ loop = "select"
  /\ stop = "sending"
  /\ stop' = "returned"
  /\ loop' = "ended"
  /\ UNCHANGED <<remote, saved, cached, notify, fetched, prev, calling, ended,
                 told, toldHere>>

-----------------------------------------------------------------------------
(* The process stops; a new one can be started. *)

Crash ==
  /\ MayCrash
  /\ loop # "none"
  /\ cached' = Nil /\ notify' = <<>> /\ loop' = "none"
  /\ fetched' = Nil /\ prev' = Nil /\ calling' = <<>>
  /\ ended' = FALSE /\ stop' = "no" /\ toldHere' = {}
  /\ UNCHANGED <<remote, saved, told>>

Next ==
  \/ RemoteSyncs
  \/ New
  \/ \E f \in Callbacks : Notify(f)
  \/ Start
  \/ Fetch
  \/ Save
  \/ SaveFails
  \/ Call
  \/ AllCalled
  \/ CtxEnds
  \/ LoopEnds
  \/ Stop
  \/ ReceiveDone
  \/ Crash

Spec == Init /\ [][Next]_vars

\* The ticker keeps ticking, so a round comes again; the indexer answers in the
\* end; a write of the store does not fail for ever; functions return; and
\* select does not pass over a case that is ready each time.
Fairness ==
  /\ WF_vars(Fetch)
  /\ SF_vars(Save)
  /\ WF_vars(Call)
  /\ WF_vars(AllCalled)
  /\ WF_vars(LoopEnds)
  /\ SF_vars(ReceiveDone)

FairSpec == Spec /\ Fairness

-----------------------------------------------------------------------------
(* Properties *)

\* No function is called with the same head twice, nor with an older one after
\* a newer: not when the save of a head failed and is tried again, and not when
\* the process is restarted between the save and the calls.  So what a function
\* is about to be told is newer than all it was told.
NoHeadTwice ==
  loop = "call" =>
    \A f \in Range(calling) : told[f] = Nil \/ told[f] < fetched

\* Within a process the calls link up: the previous head a function is given is
\* the head it was given last, though rounds fail in between (Update).
CallsLinkUp ==
  loop = "call" =>
    \A f \in Range(calling) \cap toldHere : told[f] = prev

\* A Stop that waits for the loop returns, whatever the round under way does,
\* unless the context ends first, in which case it waits for ever.
StopReturns ==
  (stop = "sending" /\ ~ended) ~> (stop = "returned" \/ ended \/ loop = "none")

\* A running notifier tells each of its functions of a sync, though writes of
\* the head fail, unless the indexer syncs again first or the loop is ended.
EverySyncTold ==
  \A f \in Callbacks : \A h \in Heads :
    (/\ loop = "select" /\ f \in Range(notify)
     /\ remote = h /\ cached # h)
      ~> (told[f] = h \/ remote # h \/ ended \/ stop # "no" \/ loop = "none")
=============================================================================
