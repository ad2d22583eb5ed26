--------------------------- MODULE MCAdvertQueue ---------------------------
(***************************************************************************)
(* Finite instances of AdvertQueue for TLC.                                *)
(***************************************************************************)
EXTENDS AdvertQueue

\* Every caller publishes every context.
SharedOwns == [p \in Publishers |-> Contexts]

\* The jobs are all alike; so are the contexts, and the metadata.
Symmetry == Permutations(Jobs) \cup Permutations(Contexts) \cup Permutations(Metadatas)
=============================================================================
