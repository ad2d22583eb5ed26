--------------------------- MODULE MCPublishBatch ---------------------------
(***************************************************************************)
(* Finite instances of PublishBatch for TLC.                               *)
(***************************************************************************)
EXTENDS PublishBatch

\* Every publisher publishes every context.
SharedOwns == [p \in Publishers |-> Contexts]

\* Each publisher has one context of its own, and the contexts that are left
\* belong to the first one.
PrivateOwns ==
  LET ctxOf == CHOOSE f \in [Publishers -> Contexts] : IsInjective(f)
      others == Contexts \ Range(ctxOf)
      first == CHOOSE p \in Publishers : TRUE
  IN  [p \in Publishers |-> {ctxOf[p]} \cup (IF p = first THEN others ELSE {})]

MetadataSymmetry == Permutations(Metadatas)

SharedSymmetry ==
  Permutations(Publishers) \cup Permutations(Contexts) \cup Permutations(Metadatas)
=============================================================================
