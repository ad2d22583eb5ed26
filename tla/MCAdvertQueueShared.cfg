\* Two workers that share the AdvertisementPublisher.
CONSTANTS
  Publishers = {p1}
  Contexts = {c1, c2}
  Digests = {d1}
  Metadatas = {m1}
  Jobs = {j1, j2}
  Workers = {w1, w2}
  BatchSize = 1
  Buffer = 1
  Faulty = TRUE
  LostReply = FALSE
  Flaky = FALSE
  EarlyTimeout = FALSE
  MayCrash = FALSE
  CallsFail = FALSE
  MaxAdverts = 2
  Blockless = {}
  Nil = Nil
  Owns <- SharedOwns
SYMMETRY Symmetry
SPECIFICATION Spec
INVARIANT JobsPublished
CHECK_DEADLOCK FALSE
