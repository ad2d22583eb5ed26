\* One worker, batches of two, callers whose own calls succeed, two metadata for
\* the context: the adverts of a batch differ.
CONSTANTS
  Publishers = {p1}
  Contexts = {c1}
  Digests = {d1}
  Metadatas = {m1, m2}
  Jobs = {j1, j2}
  Workers = {w1}
  BatchSize = 2
  Buffer = 1
  Faulty = TRUE
  LostReply = FALSE
  Flaky = TRUE
  EarlyTimeout = FALSE
  MayCrash = FALSE
  CallsFail = FALSE
  MaxAdverts = 2
  Blockless = {}
  Nil = Nil
  Owns <- SharedOwns
SYMMETRY Symmetry
SPECIFICATION Spec
INVARIANTS AdvertisedIsTrue JobsPublished
CHECK_DEADLOCK FALSE
