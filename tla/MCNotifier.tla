----------------------------- MODULE MCNotifier -----------------------------
(***************************************************************************)
(* Finite instances of Notifier for TLC, without symmetry, which its       *)
(* liveness properties do not allow.                                       *)
(***************************************************************************)
EXTENDS Notifier
=============================================================================
