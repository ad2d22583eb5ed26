---------------------------- MODULE AdvertChain ----------------------------
(***************************************************************************)
(* What publishing promises, whatever the store and however many           *)
(* publishers share it: one chain that only ever grows at its head, and a  *)
(* link a call returned stays on it.                                       *)
(***************************************************************************)
EXTENDS Sequences, SequencesExt

VARIABLES
  head,   \* the chain, oldest advert first
  acked   \* the links that successful calls have returned

Init == head = <<>> /\ acked = {}

\* One commit adds adverts at the head.  Its caller may learn of it or not.
Extend ==
  /\ IsStrictPrefix(head, head')
  /\ acked' = acked \/ acked' = acked \cup {head'}

\* A call that had nothing to add returns the link of a chain it found.
Acknowledge ==
  /\ UNCHANGED head
  /\ \E l \in Prefixes(head) : acked' = acked \cup {l}

Next == Extend \/ Acknowledge

Spec == Init /\ [][Next]_<<head, acked>>
=============================================================================
