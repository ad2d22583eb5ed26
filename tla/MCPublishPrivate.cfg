\* Publishers that share the store but no context, so that only the head is
\* contended; calls fail, processes do not stop.
CONSTANTS
  Publishers = {p1, p2}
  Contexts = {c1, c2}
  Digests = {d1}
  Blockless = {d1}
  Metadatas = {m1, m2}
  Nil = Nil
  Faulty = TRUE
  LostReply = FALSE
  MayCrash = FALSE
  MaxAdverts = 2
  Owns <- PrivateOwns
SYMMETRY MetadataSymmetry
SPECIFICATION Spec
INVARIANTS MappingsAgree
PROPERTY AlreadyAdvertisedIsTrue
CHECK_DEADLOCK FALSE
