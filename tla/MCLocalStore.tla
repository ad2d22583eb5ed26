---------------------------- MODULE MCLocalStore ----------------------------
(***************************************************************************)
(* Finite instances of LocalStore for TLC, without symmetry, which its     *)
(* liveness properties do not allow.                                       *)
(***************************************************************************)
EXTENDS LocalStore

CONSTANTS a, b, c, Other

\* No multihash; one, which is inlined; one chunk, full and just too long to be
\* inlined; and a chunk more, which holds no more than could be inlined.
MCLists == {<<>>, <<a>>, <<a, b>>, <<a, b, c>>}

MCSeed == [ctx |-> Other, entries |-> [inlined |-> FALSE, chunks |-> <<<<a, b>>>>]]
=============================================================================
