----------------------------- MODULE MCPublish -----------------------------
(***************************************************************************)
(* Finite instances of Publish for TLC.                                    *)
(***************************************************************************)
EXTENDS Publish

\* Every publisher publishes every context.
SharedOwns == [p \in Publishers |-> Contexts]

\* Each publisher has one context of its own.
PrivateOwns ==
  LET ctxOf == CHOOSE f \in [Publishers -> Contexts] : IsInjective(f)
  IN  [p \in Publishers |-> {ctxOf[p]}]

MetadataSymmetry == Permutations(Metadatas)

SharedSymmetry ==
  Permutations(Publishers) \cup Permutations(Contexts) \cup Permutations(Metadatas)
=============================================================================
