--------------------------- MODULE MCAdPublisher ---------------------------
(***************************************************************************)
(* Finite instances of AdPublisher for TLC.                                *)
(***************************************************************************)
EXTENDS AdPublisher

CONSTANTS m1, m2

\* Each publisher has one context of its own.
PrivateOwns ==
  LET ctxOf == CHOOSE f \in [Publishers -> Contexts] : IsInjective(f)
  IN  [p \in Publishers |-> {ctxOf[p]}]

\* The metadata of additions are alike.
MetadataSymmetry == Permutations({m1, m2})
=============================================================================
