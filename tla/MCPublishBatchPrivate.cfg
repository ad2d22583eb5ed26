\* The default batch store, each context published by one publisher; calls fail,
\* processes do not stop.
CONSTANTS
  Publishers = {p1, p2}
  Contexts = {c1, c2, c3}
  Digests = {d1}
  Blockless = {}
  Metadatas = {m1, m2}
  Nil = Nil
  Faulty = TRUE
  LostReply = FALSE
  MayCrash = FALSE
  Transactional = FALSE
  MaxSpecs = 2
  MaxCalls = 2
  Owns <- PrivateOwns
SYMMETRY MetadataSymmetry
SPECIFICATION Spec
INVARIANTS TypeOK HeadClosed NoAdvertLost MappingsAgree
PROPERTY ChainSpec
CHECK_DEADLOCK FALSE
