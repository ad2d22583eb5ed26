--------------------------- MODULE MCQueuePoller ---------------------------
(***************************************************************************)
(* Finite instances of QueuePoller for TLC, without symmetry, which its    *)
(* liveness properties do not allow.                                       *)
(***************************************************************************)
EXTENDS QueuePoller
=============================================================================
