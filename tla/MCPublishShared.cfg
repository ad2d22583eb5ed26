\* Two IPNIPublishers, each with one call at a time, that share the store and the
\* contexts, with failing calls, lost replies and crashes.
CONSTANTS
  Publishers = {p1, p2}
  Contexts = {c1, c2}
  Digests = {d1}
  Blockless = {}
  Metadatas = {m1}
  Nil = Nil
  Faulty = TRUE
  LostReply = TRUE
  MayCrash = TRUE
  MaxAdverts = 2
  Owns <- SharedOwns
SYMMETRY SharedSymmetry
SPECIFICATION Spec
INVARIANTS TypeOK HeadClosed NoAdvertLost
PROPERTY ChainSpec
CHECK_DEADLOCK FALSE
