\* Two publishers, each with a context of its own, calls that fail and lost
\* replies.
CONSTANTS
  Publishers = {p1, p2}
  Contexts = {c1, c2}
  Digests = {d1, NoEntries}
  Blockless = {NoEntries}
  NoEntries = NoEntries
  m1 = m1
  m2 = m2
  Metadatas = {m1, m2, Removal}
  Removal = Removal
  Nil = Nil
  Faulty = TRUE
  LostReply = TRUE
  MaxPending = 2
  MaxCalls = 3
  Owns <- PrivateOwns
SYMMETRY MetadataSymmetry
SPECIFICATION Spec
INVARIANTS TypeOK HeadClosed MappingsAgree
PROPERTY ChainSpec
CHECK_DEADLOCK FALSE
