\* One worker: failing calls of the store and the queue, lost replies, crashes.
CONSTANTS
  Publishers = {p1}
  Contexts = {c1}
  Digests = {d1}
  Metadatas = {m1}
  Jobs = {j1, j2}
  Workers = {w1}
  BatchSize = 2
  Buffer = 1
  Faulty = TRUE
  LostReply = TRUE
  Flaky = TRUE
  EarlyTimeout = FALSE
  MayCrash = TRUE
  CallsFail = TRUE
  MaxAdverts = 2
  Blockless = {}
  Nil = Nil
  Owns <- SharedOwns
SYMMETRY Symmetry
SPECIFICATION Spec
INVARIANTS TypeOK HeadClosed
PROPERTY ChainSpec
CHECK_DEADLOCK FALSE
