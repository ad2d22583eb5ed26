\* A transactional batch store, with publishers that share the store and the
\* contexts, failing calls and crashes.
CONSTANTS
  Publishers = {p1, p2}
  Contexts = {c1, c2}
  Digests = {d1}
  Blockless = {}
  Metadatas = {m1, m2}
  Nil = Nil
  Faulty = TRUE
  LostReply = TRUE
  MayCrash = TRUE
  Transactional = TRUE
  MaxSpecs = 2
  MaxCalls = 3
  Owns <- SharedOwns
SYMMETRY SharedSymmetry
SPECIFICATION Spec
INVARIANTS MappingsAlwaysAgree NoRepeatedAdvert
CHECK_DEADLOCK FALSE
